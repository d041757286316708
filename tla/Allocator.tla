----------------------------- MODULE Allocator -----------------------------
(***************************************************************************)
(* What an allocator that keeps track of its blocks promises               *)
(* (assignments/1/rtos-alloc.h): a set of live blocks with their sizes,    *)
(* which malloc, realloc and free change as the C library's would, and     *)
(* about which the queries tell the truth.  `call' is the last call with   *)
(* its result.  The allocator may break, and then promises nothing more.   *)
(***************************************************************************)
EXTENDS Integers, FiniteSetsExt

CONSTANTS Block,   \* what malloc can return, NULL excepted
          Size     \* sizes that are asked for

VARIABLES live,    \* the size of each live block; NoSize of the others
          call, broken

vars == <<live, call, broken>>

NULL == 0
NoSize == -1
Live == {b \in Block : live[b] # NoSize}

Called(op, p, n, result) == [op |-> op, p |-> p, size |-> n, result |-> result]

Init ==
    /\ live = [b \in Block |-> NoSize]
    /\ call = Called("none", NULL, 0, NULL)
    /\ broken = FALSE

\* A block nobody has, or NULL and nothing has happened.
Malloc ==
    \E n \in Size, b \in {NULL} \cup (Block \ Live) :
        /\ call' = Called("malloc", NULL, n, b)
        /\ live' = IF b = NULL THEN live ELSE [live EXCEPT ![b] = n]

\* A live block has a new size, and may have moved; another one is refused.
Realloc ==
    \E n \in Size, p \in Block \cup {NULL} :
        \/ /\ p \notin Live
           /\ call' = Called("realloc", p, n, NULL) /\ UNCHANGED live
        \/ \E b \in {p} \cup (Block \ Live) :
              /\ p \in Live
              /\ call' = Called("realloc", p, n, b)
              /\ live' = [[live EXCEPT ![p] = NoSize] EXCEPT ![b] = n]

\* To free NULL is to do nothing.
Free ==
    \E p \in Live \cup {NULL} :
        /\ call' = Called("free", p, 0, NULL)
        /\ live' = IF p = NULL THEN live ELSE [live EXCEPT ![p] = NoSize]

Query ==
    /\ \/ \E p \in Block \cup {NULL} :
            call' = Called("is_valid", p, 0, IF p \in Live THEN 1 ELSE 0)
       \/ \E p \in Live : call' = Called("size", p, 0, live[p])
       \/ call' = Called("total", NULL, 0, MapThenSumSet(LAMBDA b : live[b], Live))
    /\ UNCHANGED live

Next ==
    \/ broken'
    \/ (Malloc \/ Realloc \/ Free \/ Query) /\ UNCHANGED broken

Spec == Init /\ [][Next]_vars
=============================================================================
