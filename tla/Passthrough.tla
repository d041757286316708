---------------------------- MODULE Passthrough ----------------------------
(***************************************************************************)
(* assignments/1/passthrough.c and passthrough-internal.c: an allocator    *)
(* that passes calls on to libc and keeps a record of every block, in a    *)
(* doubly linked list.  A step is one call.  libc is external: any call    *)
(* of malloc, realloc or calloc may fail.  `fault' is what ended the       *)
(* program: an assertion, or NULL dereferenced.                            *)
(***************************************************************************)
EXTENDS Integers, FiniteSetsExt

CONSTANTS Blocks,    \* blocks malloc and realloc can return (bound)
          Records,   \* what calloc can return for a record (bound)
          Sizes      \* sizes are 0..Sizes (bound)

ASSUME PassthroughAssumption ==
    Blocks \in Nat \ {0} /\ Records \in Nat \ {0} /\ Sizes \in Nat \ {0}

NULL == 0
Block == 1..Blocks
Record == 1..Records
Size == 0..Sizes

VARIABLES first, last,  \* first_alloc and last_alloc
          heap,         \* the records that are allocated, by address
          taken,        \* blocks that libc has given out
          call,         \* the last call with its result
          failed,       \* history: realloc has returned NULL for a block
          fault

vars == <<first, last, heap, taken, call, failed, fault>>

Return(op, p, n, result) == call' = [op |-> op, p |-> p, size |-> n, result |-> result]

Init ==
    /\ first = NULL /\ last = NULL
    /\ heap = [r \in {} |-> NULL]
    /\ call = [op |-> "none", p |-> NULL, size |-> 0, result |-> NULL]
    /\ taken = {} /\ failed = FALSE /\ fault = "none"

Allocated == DOMAIN heap

\* The addresses a loop over the list goes through; NULL after its end.
step[k \in 1..Records] ==
    IF k = 1 THEN first
    ELSE IF step[k - 1] \in Allocated THEN heap[step[k - 1]].next ELSE NULL

Walked == {k \in 1..Records : step[k] \in Allocated}

\* alloc_find asserts that no record it passes has a NULL base.
Finds(p) == {k \in Walked : heap[step[k]].base = p}
FindAborts(p) == \E k \in Finds(NULL) : \A j \in Finds(p) : k <= j
alloc_find(p) ==
    IF Finds(p) = {} THEN NULL
    ELSE step[CHOOSE k \in Finds(p) : \A j \in Finds(p) : k <= j]

Abort(why) ==
    /\ fault' = why
    /\ Return("abort", NULL, 0, NULL)
    /\ UNCHANGED <<first, last, heap, taken, failed>>

-----------------------------------------------------------------------------
\* A bug: the new record has no way back.
BackOf(r) == NULL

\* The new record's a_prev.
Back(r) == last

\* alloc_new(p, n), calloc having returned r.
alloc_new(r, p, n) ==
    /\ heap' = [q \in Allocated \cup {r} |->
                  IF q = r THEN [base |-> p, len |-> n, prev |-> Back(r), next |-> NULL]
                  ELSE IF q = last THEN [heap[q] EXCEPT !.next = r] ELSE heap[q]]
    /\ first' = IF first = NULL THEN r ELSE first
    /\ last' = r

\* A new block and a new record; or neither, when malloc fails, or calloc does
\* for the first record.  The failure of a later calloc is not looked at.
rtos_malloc ==
    \/ \E p \in Block \ taken, n \in Size, r \in Record \ Allocated :
         /\ alloc_new(r, p, n)
         /\ taken' = taken \cup {p}
         /\ Return("malloc", NULL, n, p)
         /\ UNCHANGED <<failed, fault>>
    \/ \E n \in Size : Return("malloc", NULL, n, NULL) /\ UNCHANGED <<first, last, heap, taken, failed, fault>>
    \/ first # NULL /\ Block \ taken # {} /\ Abort("NULL record")

\* A bug: the record of a block that has not moved keeps its length.
LengthIfMoved(ap, p, n) == IF heap[ap].base = p THEN heap[ap].len ELSE n

\* A bug: a_len is increased by the size, and not set to it.
LengthAdded(ap, p, n) == heap[ap].len + n

\* The record's new a_len.
Length(ap, p, n) == n

\* realloc may return the block, another one, or NULL: the record takes that, too.
\* NULL is what it returns when it fails, and when it frees a block whose new size
\* is zero.
rtos_realloc(p) ==
    \/ FindAborts(p) /\ Abort("assertion")
    \/ /\ ~FindAborts(p) /\ alloc_find(p) = NULL
       /\ \E n \in Size : Return("realloc", p, n, NULL)
       /\ UNCHANGED <<first, last, heap, taken, failed, fault>>
    \/ /\ ~FindAborts(p) /\ alloc_find(p) # NULL
       /\ LET ap == alloc_find(p)
          IN  \E n \in Size, newp \in {p, NULL} \cup (Block \ taken) :
                /\ heap' = [heap EXCEPT ![ap].base = newp, ![ap].len = Length(ap, newp, n)]
                /\ taken' = IF newp # NULL THEN (taken \ {p}) \cup {newp}
                            ELSE IF n = 0 THEN taken \ {p} ELSE taken
                /\ failed' = (failed \/ newp = NULL)
                /\ Return("realloc", p, n, newp)
       /\ UNCHANGED <<first, last, fault>>

\* A bug: the end of the list is not moved when its last record goes.
LastKept(ap) == last

\* *nextprevp, when there is no next record.
Last(ap) == IF heap[ap].next = NULL THEN heap[ap].prev ELSE last

alloc_remove(ap) ==
    LET prevp == heap[ap].prev
        nextp == heap[ap].next
    IN  /\ heap' = [q \in Allocated \ {ap} |->
                      [heap[q] EXCEPT !.next = IF q = prevp THEN nextp ELSE @,
                                      !.prev = IF q = nextp THEN prevp ELSE @]]
        /\ first' = IF prevp = NULL THEN nextp ELSE first
        /\ last' = Last(ap)

rtos_free(p) ==
    \/ /\ p = NULL /\ Return("free", NULL, 0, NULL)
       /\ UNCHANGED <<first, last, heap, taken, failed, fault>>
    \/ p # NULL /\ FindAborts(p) /\ Abort("assertion")
    \/ /\ p # NULL /\ ~FindAborts(p)
       /\ IF alloc_find(p) = NULL THEN Abort("assertion")
          ELSE alloc_remove(alloc_find(p)) /\ taken' = taken \ {p} /\ Return("free", p, 0, NULL)
               /\ UNCHANGED <<failed, fault>>

unchanged == UNCHANGED <<first, last, heap, taken, failed, fault>>

rtos_is_valid(p) ==
    \/ FindAborts(p) /\ Abort("assertion")
    \/ /\ ~FindAborts(p) /\ unchanged
       /\ Return("is_valid", p, 0, IF alloc_find(p) = NULL THEN 0 ELSE 1)

rtos_alloc_size(p) ==
    \/ (FindAborts(p) \/ alloc_find(p) = NULL) /\ Abort("assertion")
    \/ /\ ~FindAborts(p) /\ alloc_find(p) # NULL /\ unchanged
       /\ Return("size", p, 0, heap[alloc_find(p)].len)

rtos_total_allocated ==
    Return("total", NULL, 0, MapThenSumSet(LAMBDA k : heap[step[k]].len, Walked)) /\ unchanged

-----------------------------------------------------------------------------
\* The callers ask whether any pointer is valid and resize any; they free, and ask
\* for the size of, what they have been given and still have (even if a realloc of
\* it has failed); and they free NULL.
Next ==
    /\ fault = "none"
    /\ \/ rtos_malloc \/ rtos_total_allocated
       \/ \E p \in Block \cup {NULL} : rtos_realloc(p) \/ rtos_is_valid(p)
       \/ \E p \in taken \cup {NULL} : rtos_free(p)
       \/ \E p \in taken : rtos_alloc_size(p)

Spec == Init /\ [][Next]_vars

-----------------------------------------------------------------------------
\* The types.
TypeOK ==
    /\ first \in Record \cup {NULL} /\ last \in Record \cup {NULL}
    /\ Allocated \subseteq Record
    /\ \A r \in Allocated :
         heap[r] \in [base : Block \cup {NULL}, len : Size, prev : Record \cup {NULL},
                      next : Record \cup {NULL}]
    /\ taken \subseteq Block
    /\ failed \in BOOLEAN /\ fault \in {"none", "assertion", "NULL record"}

\* The records are one list: the walk from first_alloc goes through each of them
\* once and ends at last_alloc, and a_prev leads back the same way.
OneList ==
    /\ \A r \in Allocated : \E k \in Walked : step[k] = r
    /\ Cardinality(Walked) = Cardinality(Allocated)
    /\ \A k \in Walked : heap[step[k]].prev = IF k = 1 THEN NULL ELSE step[k - 1]
    /\ last = IF Walked = {} THEN NULL ELSE step[Cardinality(Walked)]

\* The records are what rtos-alloc.h promises: the live blocks with their sizes,
\* and each call returns what that map says, until realloc returns NULL for a
\* block (it has failed, or freed a block that was to have no bytes, line 74) or
\* the NULL of a failed calloc is used.  Until then no call aborts, for whatever
\* pointer: the assertions of alloc_find, rtos_free and rtos_alloc_size hold, as
\* the map has no answer that is an abort.
SizeOf(b) ==
    LET recs == {r \in Allocated : heap[r].base = b}
    IN  IF recs = {} THEN -1 ELSE heap[CHOOSE r \in recs : TRUE].len
Contract == INSTANCE Allocator WITH
    live <- [b \in Block |-> SizeOf(b)], broken <- failed \/ fault = "NULL record"
ImplementsAllocator == Contract!Spec
=============================================================================
