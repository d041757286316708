------------------------- MODULE PassthroughProofs -------------------------
(***************************************************************************)
(* Theorems about Passthrough, for any number of blocks, records and       *)
(* sizes: the records are one list, whatever libc returns, and until       *)
(* realloc fails or a record is NULL every call does what rtos-alloc.h     *)
(* promises, the sum that rtos_total_allocated returns included.           *)
(***************************************************************************)
EXTENDS Passthrough, FiniteSetTheorems, WellFoundedInduction, TLAPS

\* A set of numbers that is not empty has a least one.
LEMMA LeastNat ==
    ASSUME NEW T, T \subseteq Nat, T # {}
    PROVE  \E x \in T : \A y \in T : x <= y
  <1> DEFINE R == OpToRel(<, Nat)
  <1>1. IsWellFoundedOn(R, Nat)
    BY NatLessThanWellFounded
  <1>2. \A x, y \in Nat : <<y, x>> \in R <=> y < x
    BY DEF OpToRel
  <1> HIDE DEF R
  <1>3. PICK x \in T : \A y \in T : ~ (<<y, x>> \in R)
    BY <1>1, WFMin
  <1>4. ASSUME NEW y \in T PROVE x <= y
    <2>1. ~ (<<y, x>> \in R) /\ x \in Nat /\ y \in Nat
      BY <1>3
    <2>2. ~ (y < x)
      BY <1>2, <2>1, Zenon
    <2> QED
      BY <2>1, <2>2
  <1> QED
    BY <1>4

-----------------------------------------------------------------------------
\* The n records in the order of the list.
IsOrder(n, q) ==
    /\ n \in Nat /\ n = Cardinality(Allocated)
    /\ \A k \in 1..n : q[k] \in Allocated
    /\ \A k, m \in 1..n : q[k] = q[m] => k = m
    /\ \A r \in Allocated : \E k \in 1..n : q[k] = r
    /\ first = IF n = 0 THEN NULL ELSE q[1]
    /\ last = IF n = 0 THEN NULL ELSE q[n]
    /\ \A k \in 1..n : /\ heap[q[k]].next = IF k = n THEN NULL ELSE q[k + 1]
                       /\ heap[q[k]].prev = IF k = 1 THEN NULL ELSE q[k - 1]

InOrder == \E n, q : IsOrder(n, q)

\* What is recorded is taken, once; and all of it is recorded until realloc
\* returns NULL for a block.
Bases ==
    /\ \A r \in Allocated : heap[r].base # NULL => heap[r].base \in taken
    /\ \A r, s \in Allocated : heap[r].base = heap[s].base /\ heap[r].base # NULL => r = s
    /\ ~failed => /\ \A r \in Allocated : heap[r].base # NULL
                  /\ \A p \in taken : \E r \in Allocated : heap[r].base = p

IInv == TypeOK /\ InOrder /\ Bases

-----------------------------------------------------------------------------
LEMMA NullIsNone == NULL \notin Record /\ NULL \notin Block
  BY PassthroughAssumption DEF Record, Block, NULL

LEMMA FewRecords ==
    ASSUME TypeOK, NEW n, NEW q, IsOrder(n, q)
    PROVE  /\ n <= Records
           /\ IsFiniteSet(Allocated)
           /\ NULL \notin Allocated
  <1>1. IsFiniteSet(Record) /\ Cardinality(Record) = Records
    BY PassthroughAssumption, FS_Interval DEF Record
  <1>2. Allocated \subseteq Record
    BY DEF TypeOK
  <1> QED
    BY <1>1, <1>2, NullIsNone, FS_Subset DEF IsOrder

\* A loop over the list goes through the records in their order.
LEMMA StepsInOrder ==
    ASSUME TypeOK, NEW n, NEW q, IsOrder(n, q)
    PROVE  /\ \A k \in 1..Records : step[k] = IF k <= n THEN q[k] ELSE NULL
           /\ Walked = 1..n
  <1> DEFINE Solves(g) == g = [k \in 1..Records |->
                                IF k = 1 THEN first
                                ELSE IF g[k - 1] \in Allocated THEN heap[g[k - 1]].next ELSE NULL]
             s == [k \in 1..Records |-> IF k <= n THEN q[k] ELSE NULL]
  <1>0. n \in Nat /\ n <= Records /\ Records \in Nat
    BY FewRecords, PassthroughAssumption DEF IsOrder
  <1>1. NULL \notin Allocated
    BY NullIsNone DEF TypeOK
  <1>2. ASSUME NEW k \in 1..Records
        PROVE  s[k] = IF k = 1 THEN first
                      ELSE IF s[k - 1] \in Allocated THEN heap[s[k - 1]].next ELSE NULL
    <2>1. CASE k = 1
      BY <1>0, <2>1 DEF IsOrder
    <2>2. CASE k # 1 /\ k - 1 <= n
      <3>1. k - 1 \in 1..n /\ s[k - 1] = q[k - 1]
        BY <1>0, <2>2
      <3>2. q[k - 1] \in Allocated /\ heap[q[k - 1]].next = IF k - 1 = n THEN NULL ELSE q[k]
        BY <3>1 DEF IsOrder
      <3> QED
        BY <1>0, <2>2, <3>1, <3>2
    <2>3. CASE k # 1 /\ ~ (k - 1 <= n)
      BY <1>0, <1>1, <2>3
    <2> QED
      BY <2>1, <2>2, <2>3
  <1>3. Solves(s)
    <2>1. s = [k \in 1..Records |-> s[k]]
      OBVIOUS
    <2> HIDE DEF s
    <2> QED
      BY <1>2, <2>1
  <1>4. step = CHOOSE g : Solves(g)
    BY DEF step
  <1> HIDE DEF Solves
  <1>5. Solves(step)
    BY <1>3, <1>4
  <1>6. ASSUME NEW k \in 1..Records PROVE step[k] = s[k]
    <2> DEFINE T == {m \in 1..Records : step[m] # s[m]}
    <2>1. SUFFICES ASSUME T # {} PROVE FALSE
      OBVIOUS
    <2>2. T \subseteq Nat
      OBVIOUS
    <2> HIDE DEF s
    <2>3. PICK m \in T : \A l \in T : m <= l
      <3> HIDE DEF T
      <3> QED
        BY <2>1, <2>2, LeastNat
    <2>4. m # 1 => step[m - 1] = s[m - 1]
      BY <1>0, <2>3
    <2>5. /\ step[m] = IF m = 1 THEN first
                       ELSE IF step[m - 1] \in Allocated THEN heap[step[m - 1]].next ELSE NULL
          /\ s[m] = IF m = 1 THEN first
                    ELSE IF s[m - 1] \in Allocated THEN heap[s[m - 1]].next ELSE NULL
      BY <1>2, <1>5 DEF Solves
    <2> QED
      BY <2>3, <2>4, <2>5
  <1>7. \A k \in 1..Records : step[k] = IF k <= n THEN q[k] ELSE NULL
    BY <1>6
  <1>8. \A k \in 1..Records : k \in Walked <=> k \in 1..n
    BY <1>0, <1>1, <1>7 DEF Walked, IsOrder
  <1>9. Walked \subseteq 1..Records /\ 1..n \subseteq 1..Records
    BY <1>0 DEF Walked
  <1> QED
    BY <1>7, <1>8, <1>9

\* What alloc_find returns, if it returns: the record of that block.
LEMMA Found ==
    ASSUME TypeOK, InOrder, Bases, NEW p \in Block \cup {NULL}, ~FindAborts(p)
    PROVE  /\ alloc_find(p) # NULL => /\ p # NULL
                                      /\ alloc_find(p) \in Allocated
                                      /\ heap[alloc_find(p)].base = p
           /\ alloc_find(p) = NULL => \A r \in Allocated : heap[r].base # p
  <1>1. PICK n, q : IsOrder(n, q)
    BY DEF InOrder
  <1>2. n \in Nat /\ n <= Records /\ Records \in Nat
    BY <1>1, FewRecords, PassthroughAssumption DEF IsOrder
  <1>3. /\ Walked = 1..n
        /\ \A k \in 1..n : step[k] = q[k] /\ q[k] \in Allocated /\ q[k] # NULL
    <2>1. Walked = 1..n /\ \A k \in 1..Records : step[k] = IF k <= n THEN q[k] ELSE NULL
      BY <1>1, StepsInOrder
    <2>2. \A k \in 1..n : q[k] \in Allocated
      BY <1>1 DEF IsOrder
    <2>3. \A k \in 1..n : k \in 1..Records /\ k <= n
      BY <1>2
    <2>4. NULL \notin Allocated
      BY NullIsNone DEF TypeOK
    <2> QED
      BY <2>1, <2>2, <2>3, <2>4
  <1>4. Finds(p) \subseteq 1..n /\ \A k \in Finds(p) : heap[q[k]].base = p
    BY <1>3 DEF Finds
  <1>5. CASE Finds(p) = {}
    <2>1. alloc_find(p) = NULL
      BY <1>5 DEF alloc_find
    <2>2. ASSUME NEW r \in Allocated PROVE heap[r].base # p
      <3>1. PICK k \in 1..n : q[k] = r
        BY <1>1 DEF IsOrder
      <3> QED
        BY <1>3, <1>5, <3>1 DEF Finds
    <2> QED
      BY <2>1, <2>2
  <1>6. CASE Finds(p) # {}
    <2>1. \E k \in Finds(p) : \A j \in Finds(p) : k <= j
      <3>1. Finds(p) \subseteq Nat
        BY <1>4
      <3> QED
        BY <1>6, <3>1, LeastNat
    <2>2. PICK k \in Finds(p) : alloc_find(p) = step[k]
      BY <1>6, <2>1 DEF alloc_find
    <2>3. p # NULL
      BY <2>1 DEF FindAborts
    <2> QED
      BY <1>3, <1>4, <2>2, <2>3
  <1> QED
    BY <1>5, <1>6

\* Until realloc fails, alloc_find goes through the whole list.
LEMMA NeverAborts ==
    ASSUME TypeOK, InOrder, Bases, ~failed, NEW p
    PROVE  ~FindAborts(p)
  <1>1. \A k \in Walked : heap[step[k]].base # NULL
    BY DEF Walked, Bases
  <1> QED
    BY <1>1 DEF FindAborts, Finds

-----------------------------------------------------------------------------
\* The records after alloc_new: the old ones, the last of them linked to the new one.
LEMMA NewRecord ==
    ASSUME TypeOK, NEW r \in Record \ Allocated, NEW p \in Block, NEW m \in Size,
           alloc_new(r, p, m)
    PROVE  /\ Allocated' = Allocated \cup {r}
           /\ heap'[r] = [base |-> p, len |-> m, prev |-> last, next |-> NULL]
           /\ \A x \in Allocated : /\ heap'[x].base = heap[x].base
                                   /\ heap'[x].len = heap[x].len
                                   /\ heap'[x].prev = heap[x].prev
                                   /\ heap'[x].next = IF x = last THEN r ELSE heap[x].next
                                   /\ heap'[x] \in [base : Block \cup {NULL}, len : Size,
                                                    prev : Record \cup {NULL},
                                                    next : Record \cup {NULL}]
  <1>1. heap' = [x \in Allocated \cup {r} |->
                   IF x = r THEN [base |-> p, len |-> m, prev |-> last, next |-> NULL]
                   ELSE IF x = last THEN [heap[x] EXCEPT !.next = r] ELSE heap[x]]
    BY DEF alloc_new, Back
  <1>2. Allocated' = Allocated \cup {r}
    BY <1>1 DEF Allocated
  <1>3. heap'[r] = [base |-> p, len |-> m, prev |-> last, next |-> NULL]
    BY <1>1
  <1>4. ASSUME NEW x \in Allocated
        PROVE  /\ heap'[x] = IF x = last THEN [heap[x] EXCEPT !.next = r] ELSE heap[x]
               /\ heap[x] \in [base : Block \cup {NULL}, len : Size,
                               prev : Record \cup {NULL}, next : Record \cup {NULL}]
    BY <1>1 DEF TypeOK
  <1> QED
    BY <1>2, <1>3, <1>4

LEMMA NewInOrder ==
    ASSUME TypeOK, InOrder, NEW r \in Record \ Allocated, NEW p \in Block, NEW m \in Size,
           alloc_new(r, p, m)
    PROVE  InOrder'
  <1>1. PICK n, q : IsOrder(n, q)
    BY DEF InOrder
  <1> DEFINE s == [k \in 1..(n + 1) |-> IF k <= n THEN q[k] ELSE r]
  <1>2. /\ n \in Nat /\ n = Cardinality(Allocated) /\ n <= Records /\ IsFiniteSet(Allocated)
        /\ \A k \in 1..n : q[k] \in Allocated /\ q[k] # r /\ q[k] # NULL
    BY <1>1, FewRecords DEF IsOrder
  <1>0. /\ Allocated' = Allocated \cup {r}
        /\ heap'[r].next = NULL /\ heap'[r].prev = last
        /\ \A x \in Allocated : /\ heap'[x].prev = heap[x].prev
                                /\ heap'[x].next = IF x = last THEN r ELSE heap[x].next
    <2>1. heap'[r] = [base |-> p, len |-> m, prev |-> last, next |-> NULL]
      BY NewRecord
    <2> QED
      BY <2>1, NewRecord
  <1>3. /\ \A k \in 1..n : s[k] = q[k]
        /\ s[n + 1] = r
    BY <1>2
  <1>4. \A k \in 1..(n + 1) : k = n + 1 \/ k \in 1..n
    BY <1>2
  <1> HIDE DEF s
  <1>5. n + 1 \in Nat /\ n + 1 = Cardinality(Allocated')
    <2>1. Cardinality(Allocated \cup {r}) = n + 1
      BY <1>2, FS_AddElement
    <2> QED
      BY <1>0, <1>2, <2>1
  <1>6. \A k \in 1..(n + 1) : s[k] \in Allocated'
    BY <1>2, <1>3, <1>4, <1>0
  <1>7. \A k, l \in 1..(n + 1) : s[k] = s[l] => k = l
    BY <1>1, <1>2, <1>3, <1>4 DEF IsOrder
  <1>8. \A x \in Allocated' : \E k \in 1..(n + 1) : s[k] = x
    <2> SUFFICES ASSUME NEW x \in Allocated' PROVE \E k \in 1..(n + 1) : s[k] = x
      OBVIOUS
    <2>1. CASE x = r
      BY <1>2, <1>3, <2>1
    <2>2. CASE x # r
      <3>1. PICK k \in 1..n : q[k] = x
        BY <1>1, <2>2, <1>0 DEF IsOrder
      <3> QED
        BY <1>2, <1>3, <3>1
    <2> QED
      BY <2>1, <2>2
  <1>9. first' = s[1] /\ last' = s[n + 1]
    <2>1. first' = IF first = NULL THEN r ELSE first
      BY DEF alloc_new
    <2>2. last' = s[n + 1]
      BY <1>3 DEF alloc_new
    <2>3. CASE n = 0
      BY <1>1, <1>3, <2>1, <2>2, <2>3 DEF IsOrder
    <2>4. CASE n # 0
      BY <1>1, <1>2, <1>3, <2>1, <2>2, <2>4 DEF IsOrder
    <2> QED
      BY <2>3, <2>4, <1>2
  <1>10. ASSUME NEW k \in 1..(n + 1)
         PROVE  /\ heap'[s[k]].next = IF k = n + 1 THEN NULL ELSE s[k + 1]
                /\ heap'[s[k]].prev = IF k = 1 THEN NULL ELSE s[k - 1]
    <2>1. CASE k = n + 1
      <3>2. last = IF n = 0 THEN NULL ELSE q[n]
        BY <1>1 DEF IsOrder
      <3>3. n # 0 => s[n] = q[n]
        BY <1>2, <1>3
      <3> QED
        BY <1>0, <1>2, <1>3, <2>1, <3>2, <3>3
    <2>2. CASE k \in 1..n
      <3>1. s[k] = q[k] /\ q[k] \in Allocated
        BY <1>2, <1>3, <2>2
      <3>2. /\ heap'[q[k]].prev = heap[q[k]].prev
            /\ heap'[q[k]].next = IF q[k] = last THEN r ELSE heap[q[k]].next
        BY <3>1, <1>0
      <3>3. /\ heap[q[k]].next = IF k = n THEN NULL ELSE q[k + 1]
            /\ heap[q[k]].prev = IF k = 1 THEN NULL ELSE q[k - 1]
        BY <1>1, <2>2 DEF IsOrder
      <3>4. q[k] = last <=> k = n
        <4>1. n \in 1..n /\ last = q[n]
          BY <1>1, <1>2, <2>2 DEF IsOrder
        <4> QED
          BY <1>1, <2>2, <4>1 DEF IsOrder
      <3>5. k # 1 => s[k - 1] = q[k - 1]
        BY <1>2, <1>3, <2>2
      <3>6. k # n => s[k + 1] = q[k + 1]
        BY <1>2, <1>3, <2>2
      <3> QED
        BY <1>2, <1>3, <2>2, <3>1, <3>2, <3>3, <3>4, <3>5, <3>6
    <2> QED
      BY <1>4, <2>1, <2>2
  <1>11. n + 1 # 0
    BY <1>2
  <1>12. IsOrder(n + 1, s)'
    BY <1>5, <1>6, <1>7, <1>8, <1>9, <1>10, <1>11 DEF IsOrder
  <1> QED
    BY <1>12 DEF InOrder

-----------------------------------------------------------------------------
\* The records after alloc_remove: those around the removed one are linked.
LEMMA RemovedRecord ==
    ASSUME TypeOK, NEW ap \in Allocated, alloc_remove(ap)
    PROVE  /\ Allocated' = Allocated \ {ap}
           /\ \A x \in Allocated' :
                /\ heap'[x].base = heap[x].base
                /\ heap'[x].len = heap[x].len
                /\ heap'[x].next = IF x = heap[ap].prev THEN heap[ap].next ELSE heap[x].next
                /\ heap'[x].prev = IF x = heap[ap].next THEN heap[ap].prev ELSE heap[x].prev
                /\ heap'[x] \in [base : Block \cup {NULL}, len : Size,
                                 prev : Record \cup {NULL}, next : Record \cup {NULL}]
  <1>1. heap' = [x \in Allocated \ {ap} |->
                   [heap[x] EXCEPT
                      !.next = IF x = heap[ap].prev THEN heap[ap].next ELSE heap[x].next,
                      !.prev = IF x = heap[ap].next THEN heap[ap].prev ELSE heap[x].prev]]
    BY DEF alloc_remove
  <1>2. Allocated' = Allocated \ {ap}
    BY <1>1 DEF Allocated
  <1>3. \A x \in Allocated : heap[x] \in [base : Block \cup {NULL}, len : Size,
                                         prev : Record \cup {NULL}, next : Record \cup {NULL}]
    BY DEF TypeOK
  <1>4. ASSUME NEW x \in Allocated'
        PROVE  /\ heap'[x].base = heap[x].base
               /\ heap'[x].len = heap[x].len
               /\ heap'[x].next = IF x = heap[ap].prev THEN heap[ap].next ELSE heap[x].next
               /\ heap'[x].prev = IF x = heap[ap].next THEN heap[ap].prev ELSE heap[x].prev
               /\ heap'[x] \in [base : Block \cup {NULL}, len : Size,
                                prev : Record \cup {NULL}, next : Record \cup {NULL}]
    BY <1>1, <1>2, <1>3
  <1> QED
    BY <1>2, <1>4

LEMMA RemovedInOrder ==
    ASSUME TypeOK, InOrder, NEW ap \in Allocated, alloc_remove(ap)
    PROVE  InOrder'
  <1>1. PICK n, q : IsOrder(n, q)
    BY DEF InOrder
  <1>2. PICK m \in 1..n : q[m] = ap
    BY <1>1 DEF IsOrder
  <1> DEFINE s == [k \in 1..(n - 1) |-> IF k < m THEN q[k] ELSE q[k + 1]]
  <1>3. /\ n \in Nat /\ n = Cardinality(Allocated) /\ IsFiniteSet(Allocated)
        /\ n - 1 \in Nat /\ m \in Nat /\ m >= 1 /\ m <= n
    BY <1>1, <1>2, FewRecords DEF IsOrder
  <1>4. \A k \in 1..(n - 1) : /\ s[k] = IF k < m THEN q[k] ELSE q[k + 1]
                              /\ k \in 1..n /\ k + 1 \in 1..n /\ k \in Nat
    BY <1>3
  <1> HIDE DEF s
  <1>5. Allocated' = Allocated \ {ap}
    BY RemovedRecord
  <1>6. n - 1 = Cardinality(Allocated')
    BY <1>3, <1>5, FS_RemoveElement
  <1>7. ASSUME NEW k \in 1..(n - 1) PROVE s[k] \in Allocated'
    <2>1. CASE k < m
      BY <1>1, <1>2, <1>4, <1>5, <2>1, <1>3 DEF IsOrder
    <2>2. CASE ~ (k < m)
      <3>1. k + 1 \in 1..n /\ k + 1 # m /\ s[k] = q[k + 1]
        BY <1>3, <1>4, <2>2
      <3>2. q[k + 1] \in Allocated /\ q[k + 1] # q[m]
        BY <1>1, <3>1 DEF IsOrder
      <3> QED
        BY <1>2, <1>5, <3>1, <3>2
    <2> QED
      BY <2>1, <2>2
  <1>8. ASSUME NEW k \in 1..(n - 1), NEW l \in 1..(n - 1), s[k] = s[l] PROVE k = l
    <2> DEFINE a == IF k < m THEN k ELSE k + 1
               b == IF l < m THEN l ELSE l + 1
    <2>1. s[k] = q[a] /\ s[l] = q[b] /\ a \in 1..n /\ b \in 1..n
      BY <1>4
    <2>2. a = b
      <3>1. \A x, y \in 1..n : q[x] = q[y] => x = y
        BY <1>1 DEF IsOrder
      <3> HIDE DEF a, b
      <3> QED
        BY <1>8, <2>1, <3>1
    <2> QED
      BY <1>3, <1>4, <2>2
  <1>9. ASSUME NEW x \in Allocated' PROVE \E k \in 1..(n - 1) : s[k] = x
    <2>1. PICK l \in 1..n : q[l] = x
      BY <1>1, <1>5 DEF IsOrder
    <2>2. l # m
      BY <1>2, <1>5, <2>1
    <2>3. CASE l < m
      BY <1>3, <1>4, <2>1, <2>3
    <2>4. CASE l > m
      <3>1. l - 1 \in 1..(n - 1) /\ ~ (l - 1 < m) /\ (l - 1) + 1 = l
        BY <1>3, <2>4
      <3>2. s[l - 1] = q[l]
        BY <1>4, <3>1
      <3> QED
        BY <2>1, <3>1, <3>2
    <2> QED
      BY <1>3, <2>2, <2>3, <2>4
  <1>10. /\ heap[ap].next = IF m = n THEN NULL ELSE q[m + 1]
         /\ heap[ap].prev = IF m = 1 THEN NULL ELSE q[m - 1]
    BY <1>1, <1>2 DEF IsOrder
  <1>11. \A k \in 1..n : q[k] # NULL /\ q[k] \in Allocated
    BY <1>1, FewRecords DEF IsOrder
  <1>12. first' = IF n - 1 = 0 THEN NULL ELSE s[1]
    <2>1. first' = IF heap[ap].prev = NULL THEN heap[ap].next ELSE first
      BY DEF alloc_remove
    <2>2. CASE m = 1
      <3>1. first' = IF n = 1 THEN NULL ELSE q[2]
        BY <1>10, <2>1, <2>2
      <3>2. n # 1 => s[1] = q[2]
        BY <1>3, <1>4, <2>2
      <3> QED
        BY <1>3, <3>1, <3>2
    <2>3. CASE m # 1
      <3>1. m - 1 \in 1..n /\ 1 \in 1..(n - 1) /\ n # 0
        BY <1>3, <2>3
      <3>2. first' = q[1]
        BY <1>1, <1>10, <1>11, <2>1, <2>3, <3>1 DEF IsOrder
      <3>3. s[1] = q[1]
        BY <1>3, <1>4, <2>3, <3>1
      <3> QED
        BY <1>3, <3>1, <3>2, <3>3
    <2> QED
      BY <2>2, <2>3
  <1>13. last' = IF n - 1 = 0 THEN NULL ELSE s[n - 1]
    <2>1. last' = IF heap[ap].next = NULL THEN heap[ap].prev ELSE last
      BY DEF alloc_remove, Last
    <2>2. CASE m = n
      <3>1. last' = IF n = 1 THEN NULL ELSE q[n - 1]
        BY <1>10, <2>1, <2>2
      <3>2. n # 1 => n - 1 \in 1..(n - 1) /\ n - 1 < m
        BY <1>3, <2>2
      <3>3. n # 1 => s[n - 1] = q[n - 1]
        BY <1>4, <3>2
      <3> QED
        BY <1>3, <3>1, <3>3
    <2>3. CASE m # n
      <3>1. m + 1 \in 1..n /\ n - 1 \in 1..(n - 1) /\ n # 0 /\ n \in 1..n
        BY <1>3, <2>3
      <3>2. last' = q[n]
        BY <1>1, <1>10, <1>11, <2>1, <2>3, <3>1 DEF IsOrder
      <3>3. s[n - 1] = q[n]
        BY <1>3, <1>4, <2>3, <3>1
      <3> QED
        BY <1>3, <3>1, <3>2, <3>3
    <2> QED
      BY <2>2, <2>3
  <1>14. ASSUME NEW k \in 1..(n - 1)
         PROVE  /\ heap'[s[k]].next = IF k = n - 1 THEN NULL ELSE s[k + 1]
                /\ heap'[s[k]].prev = IF k = 1 THEN NULL ELSE s[k - 1]
    <2> DEFINE a == IF k < m THEN k ELSE k + 1
    <2>1. s[k] = q[a] /\ a \in 1..n /\ a # m
      BY <1>3, <1>4
    <2>2. /\ heap'[s[k]].next = IF s[k] = heap[ap].prev THEN heap[ap].next ELSE heap[s[k]].next
          /\ heap'[s[k]].prev = IF s[k] = heap[ap].next THEN heap[ap].prev ELSE heap[s[k]].prev
      BY <1>7, RemovedRecord
    <2>3. s[k] = heap[ap].prev <=> (m # 1 /\ a = m - 1)
      <3> HIDE DEF a
      <3>1. m # 1 => m - 1 \in 1..n
        BY <1>3
      <3> QED
        BY <1>1, <1>10, <1>11, <2>1, <3>1 DEF IsOrder
    <2>4. s[k] = heap[ap].next <=> (m # n /\ a = m + 1)
      <3> HIDE DEF a
      <3>1. m # n => m + 1 \in 1..n
        BY <1>3
      <3> QED
        BY <1>1, <1>10, <1>11, <2>1, <3>1 DEF IsOrder
    <2>5. /\ heap[s[k]].next = IF a = n THEN NULL ELSE q[a + 1]
          /\ heap[s[k]].prev = IF a = 1 THEN NULL ELSE q[a - 1]
      <3> HIDE DEF a
      <3> QED
        BY <1>1, <2>1 DEF IsOrder
    <2>6. heap'[s[k]].next = IF k = n - 1 THEN NULL ELSE s[k + 1]
      <3>1. k # n - 1 => k + 1 \in 1..(n - 1)
        BY <1>3
      <3>2. k # n - 1 => s[k + 1] = IF k + 1 < m THEN q[k + 1] ELSE q[(k + 1) + 1]
        BY <1>4, <3>1
      <3>3. CASE k < m - 1
        BY <1>3, <1>4, <2>2, <2>3, <2>5, <3>2, <3>3
      <3>4. CASE k = m - 1
        BY <1>3, <1>4, <1>10, <2>2, <2>3, <3>2, <3>4
      <3>5. CASE k > m - 1
        BY <1>3, <1>4, <2>2, <2>3, <2>5, <3>2, <3>5
      <3> QED
        BY <1>3, <1>4, <3>3, <3>4, <3>5
    <2>7. heap'[s[k]].prev = IF k = 1 THEN NULL ELSE s[k - 1]
      <3>1. k # 1 => k - 1 \in 1..(n - 1)
        BY <1>3
      <3>2. k # 1 => s[k - 1] = IF k - 1 < m THEN q[k - 1] ELSE q[(k - 1) + 1]
        BY <1>4, <3>1
      <3>3. CASE k < m
        BY <1>3, <1>4, <2>2, <2>4, <2>5, <3>2, <3>3
      <3>4. CASE k = m
        BY <1>3, <1>4, <1>10, <2>2, <2>4, <3>2, <3>4
      <3>5. CASE k > m
        BY <1>3, <1>4, <2>2, <2>4, <2>5, <3>2, <3>5
      <3> QED
        BY <1>3, <1>4, <3>3, <3>4, <3>5
    <2> QED
      BY <2>6, <2>7
  <1>15. IsOrder(n - 1, s)'
    <2>1. n - 1 \in Nat /\ n - 1 = Cardinality(Allocated')
      BY <1>3, <1>6
    <2> QED
      BY <1>7, <1>8, <1>9, <1>12, <1>13, <1>14, <2>1 DEF IsOrder
  <1> QED
    BY <1>15 DEF InOrder
-----------------------------------------------------------------------------
\* A step that leaves the list and the blocks alone.
LEMMA FrameIInv ==
    ASSUME IInv, UNCHANGED <<first, last, heap, taken, failed>>,
           fault' \in {"none", "assertion", "NULL record"}
    PROVE  IInv'
  <1>1. TypeOK'
    BY DEF IInv, TypeOK, Allocated
  <1>2. InOrder'
    <2>1. PICK n, q : IsOrder(n, q)
      BY DEF IInv, InOrder
    <2>2. IsOrder(n, q)'
      BY <2>1 DEF IsOrder, Allocated
    <2> QED
      BY <2>2 DEF InOrder
  <1>3. Bases'
    BY DEF IInv, Bases, Allocated
  <1> QED
    BY <1>1, <1>2, <1>3 DEF IInv

LEMMA AbortIInv ==
    ASSUME IInv, NEW why \in {"assertion", "NULL record"}, Abort(why)
    PROVE  IInv'
  BY FrameIInv DEF Abort

LEMMA MallocIInv ==
    ASSUME IInv, fault = "none", rtos_malloc
    PROVE  IInv'
  <1>1. ASSUME NEW p \in Block \ taken, NEW m \in Size, NEW r \in Record \ Allocated,
               alloc_new(r, p, m), taken' = taken \cup {p}, UNCHANGED <<failed, fault>>
        PROVE  IInv'
    <2>1. /\ TypeOK /\ InOrder /\ Bases
          /\ first \in Record \cup {NULL} /\ Allocated \subseteq Record
          /\ taken \subseteq Block /\ failed \in BOOLEAN
      BY DEF IInv, TypeOK
    <2>2. InOrder'
      BY <1>1, <2>1, NewInOrder
    <2>3. /\ Allocated' = Allocated \cup {r}
          /\ heap'[r] = [base |-> p, len |-> m, prev |-> last, next |-> NULL]
          /\ \A x \in Allocated : /\ heap'[x].base = heap[x].base
                                  /\ heap'[x] \in [base : Block \cup {NULL}, len : Size,
                                                   prev : Record \cup {NULL},
                                                   next : Record \cup {NULL}]
      BY <1>1, <2>1, NewRecord
    <2>4. first' \in Record \cup {NULL} /\ last' \in Record \cup {NULL}
      BY <1>1, <2>1 DEF alloc_new
    <2>5. \A x \in Allocated' :
            heap'[x] \in [base : Block \cup {NULL}, len : Size,
                          prev : Record \cup {NULL}, next : Record \cup {NULL}]
      <3>1. p \in Block /\ last \in Record \cup {NULL}
        BY <2>1 DEF TypeOK
      <3> QED
        BY <2>3, <3>1
    <2>6. TypeOK'
      BY <1>1, <2>1, <2>3, <2>4, <2>5 DEF TypeOK
    <2>7. Bases'
      <3>1. /\ p \notin taken /\ p # NULL /\ heap'[r].base = p
            /\ \A x \in Allocated : heap'[x].base = heap[x].base
        BY <2>3, NullIsNone
      <3>2. taken' = taken \cup {p} /\ failed' = failed
        BY <1>1
      <3>3. Allocated' = Allocated \cup {r}
        BY <2>3
      <3> QED
        BY <2>1, <3>1, <3>2, <3>3 DEF Bases
    <2> QED
      BY <2>2, <2>6, <2>7 DEF IInv
  <1>2. CASE UNCHANGED <<first, last, heap, taken, failed, fault>>
    BY <1>2, FrameIInv
  <1>3. CASE Abort("NULL record")
    BY <1>3, AbortIInv
  <1> QED
    BY <1>1, <1>2, <1>3 DEF rtos_malloc

\* What realloc of a recorded block changes.
LEMMA ReallocIInv ==
    ASSUME IInv, fault = "none", NEW p \in Block \cup {NULL}, rtos_realloc(p)
    PROVE  IInv'
  <1>0. TypeOK /\ InOrder /\ Bases
    BY DEF IInv
  <1> DEFINE ap == alloc_find(p)
  <1>1. ASSUME ~FindAborts(p), ap # NULL, NEW m \in Size, NEW b \in {p, NULL} \cup (Block \ taken),
               heap' = [heap EXCEPT ![ap].base = b, ![ap].len = Length(ap, b, m)],
               taken' = IF b # NULL THEN (taken \ {p}) \cup {b}
                        ELSE IF m = 0 THEN taken \ {p} ELSE taken,
               failed' = (failed \/ b = NULL), UNCHANGED <<first, last, fault>>
        PROVE  IInv'
    <2>1. ap \in Allocated /\ heap[ap].base = p /\ p # NULL
      BY <1>0, <1>1, Found
    <2>2. /\ first \in Record \cup {NULL} /\ last \in Record \cup {NULL}
          /\ Allocated \subseteq Record /\ taken \subseteq Block /\ failed \in BOOLEAN
          /\ \A x \in Allocated : heap[x] \in [base : Block \cup {NULL}, len : Size,
                                               prev : Record \cup {NULL},
                                               next : Record \cup {NULL}]
      BY <1>0 DEF TypeOK
    <2> HIDE DEF ap
    <2>3. /\ Allocated' = Allocated
          /\ heap'[ap] = [heap[ap] EXCEPT !.base = b, !.len = m]
          /\ \A x \in Allocated : x # ap => heap'[x] = heap[x]
      BY <1>1, <2>1 DEF Allocated, Length
    <2>4. /\ heap'[ap].base = b
          /\ heap'[ap] \in [base : Block \cup {NULL}, len : Size,
                            prev : Record \cup {NULL}, next : Record \cup {NULL}]
          /\ heap'[ap].prev = heap[ap].prev /\ heap'[ap].next = heap[ap].next
      BY <2>1, <2>2, <2>3
    <2>5. TypeOK'
      <3>1. taken' \subseteq Block
        BY <1>1, <2>1, <2>2
      <3>2. failed' \in BOOLEAN
        BY <1>1
      <3> QED
        BY <1>0, <1>1, <2>2, <2>3, <2>4, <3>1, <3>2 DEF TypeOK
    <2>6. InOrder'
      <3>1. PICK n, q : IsOrder(n, q)
        BY <1>0 DEF InOrder
      <3>2. \A x \in Allocated : heap'[x].prev = heap[x].prev /\ heap'[x].next = heap[x].next
        BY <2>3, <2>4
      <3>3. IsOrder(n, q)'
        BY <1>1, <2>3, <3>1, <3>2 DEF IsOrder
      <3> QED
        BY <3>3 DEF InOrder
    <2>7. Bases'
      <3>1. \A x \in Allocated : heap'[x].base = IF x = ap THEN b ELSE heap[x].base
        BY <2>3, <2>4
      <3>2. \A x \in Allocated : heap[x].base = p => x = ap
        BY <1>0, <2>1 DEF Bases
      <3>3. CASE b = NULL
        <4>1. taken \ {p} \subseteq taken' /\ failed'
          BY <1>1, <3>3
        <4> QED
          BY <1>0, <2>3, <3>1, <3>2, <3>3, <4>1 DEF Bases
      <3>4. CASE b # NULL
        <4>1. taken' = (taken \ {p}) \cup {b} /\ (failed' <=> failed)
          BY <1>1, <3>4
        <4>2. b = p \/ b \notin taken
          BY <3>4
        <4>3. \A x \in Allocated : x # ap /\ heap[x].base # NULL =>
                heap[x].base \in taken /\ heap[x].base # p /\ heap[x].base # b
          BY <1>0, <3>2, <4>2 DEF Bases
        <4>4. \A x \in Allocated' : heap'[x].base # NULL => heap'[x].base \in taken'
          BY <2>3, <3>1, <4>1, <4>3
        <4>5. \A x, y \in Allocated' : heap'[x].base = heap'[y].base /\ heap'[x].base # NULL => x = y
          BY <1>0, <2>3, <3>1, <3>4, <4>3 DEF Bases
        <4>6. ASSUME ~failed' PROVE /\ \A x \in Allocated' : heap'[x].base # NULL
                                    /\ \A y \in taken' : \E x \in Allocated' : heap'[x].base = y
          <5>1. /\ \A x \in Allocated : heap[x].base # NULL
                /\ \A y \in taken : \E x \in Allocated : heap[x].base = y
            BY <1>0, <4>1, <4>6 DEF Bases
          <5>2. \A x \in Allocated' : heap'[x].base # NULL
            BY <2>3, <3>1, <3>4, <5>1
          <5>3. ASSUME NEW y \in taken' PROVE \E x \in Allocated' : heap'[x].base = y
            <6>1. CASE y = b
              BY <2>1, <2>3, <3>1, <6>1
            <6>2. CASE y # b
              <7>1. y \in taken /\ y # p
                BY <4>1, <6>2
              <7>2. PICK x \in Allocated : heap[x].base = y
                BY <5>1, <7>1
              <7> QED
                BY <2>1, <2>3, <3>1, <7>1, <7>2
            <6> QED
              BY <6>1, <6>2
          <5> QED
            BY <5>2, <5>3
        <4> QED
          BY <4>4, <4>5, <4>6 DEF Bases
      <3> QED
        BY <3>3, <3>4
    <2> QED
      BY <2>5, <2>6, <2>7 DEF IInv
  <1>2. CASE UNCHANGED <<first, last, heap, taken, failed, fault>>
    BY <1>2, FrameIInv
  <1>3. CASE Abort("assertion")
    BY <1>3, AbortIInv
  <1> QED
    BY <1>1, <1>2, <1>3 DEF rtos_realloc

LEMMA FreeIInv ==
    ASSUME IInv, fault = "none", NEW p \in taken \cup {NULL}, rtos_free(p)
    PROVE  IInv'
  <1>0. TypeOK /\ InOrder /\ Bases
    BY DEF IInv
  <1> DEFINE ap == alloc_find(p)
  <1>1. ASSUME p # NULL, ~FindAborts(p), ap # NULL, alloc_remove(ap), taken' = taken \ {p},
               UNCHANGED <<failed, fault>>
        PROVE  IInv'
    <2>0. p \in Block
      BY <1>0, <1>1 DEF TypeOK
    <2>1. ap \in Allocated /\ heap[ap].base = p /\ p # NULL
      BY <1>0, <1>1, <2>0, Found
    <2> HIDE DEF ap
    <2>2. /\ first \in Record \cup {NULL} /\ last \in Record \cup {NULL}
          /\ heap[ap].prev \in Record \cup {NULL} /\ heap[ap].next \in Record \cup {NULL}
          /\ Allocated \subseteq Record /\ taken \subseteq Block /\ failed \in BOOLEAN
      BY <1>0, <2>1 DEF TypeOK
    <2>3. /\ Allocated' = Allocated \ {ap}
          /\ \A x \in Allocated' :
               /\ heap'[x].base = heap[x].base
               /\ heap'[x] \in [base : Block \cup {NULL}, len : Size,
                                prev : Record \cup {NULL}, next : Record \cup {NULL}]
      BY <1>0, <1>1, <2>1, RemovedRecord
    <2>4. first' \in Record \cup {NULL} /\ last' \in Record \cup {NULL}
      BY <1>1, <2>2 DEF alloc_remove, Last
    <2>5. TypeOK'
      BY <1>0, <1>1, <2>2, <2>3, <2>4 DEF TypeOK
    <2>6. InOrder'
      BY <1>0, <1>1, <2>1, RemovedInOrder
    <2>7. Bases'
      <3>1. \A x \in Allocated : heap[x].base = p => x = ap
        BY <1>0, <2>1 DEF Bases
      <3>2. taken' = taken \ {p} /\ failed' = failed
        BY <1>1
      <3>3. \A x \in Allocated' : heap'[x].base = heap[x].base
        BY <2>3
      <3> QED
        BY <1>0, <2>1, <2>3, <3>1, <3>2, <3>3 DEF Bases
    <2> QED
      BY <2>5, <2>6, <2>7 DEF IInv
  <1>2. CASE Abort("assertion")
    BY <1>2, AbortIInv
  <1>3. CASE UNCHANGED <<first, last, heap, taken, failed, fault>>
    BY <1>3, FrameIInv
  <1> QED
    BY <1>1, <1>2, <1>3 DEF rtos_free

LEMMA QueryIInv ==
    ASSUME IInv, fault = "none", NEW p,
           rtos_is_valid(p) \/ rtos_alloc_size(p) \/ rtos_total_allocated
    PROVE  IInv'
  <1>1. CASE unchanged
    BY <1>1, FrameIInv DEF unchanged
  <1>2. CASE Abort("assertion")
    BY <1>2, AbortIInv
  <1> QED
    BY <1>1, <1>2 DEF rtos_is_valid, rtos_alloc_size, rtos_total_allocated

LEMMA InitIInv == Init => IInv
  <1> SUFFICES ASSUME Init PROVE IInv
    OBVIOUS
  <1>1. Allocated = {}
    BY DEF Init, Allocated
  <1>2. TypeOK
    BY <1>1 DEF Init, TypeOK
  <1>3. Bases
    BY <1>1 DEF Init, Bases
  <1>4. IsOrder(0, <<>>)
    <2>1. Cardinality({}) = 0 /\ 1..0 = {}
      BY FS_EmptySet
    <2> QED
      BY <1>1, <2>1 DEF Init, IsOrder
  <1>5. InOrder
    BY <1>4 DEF InOrder
  <1> QED
    BY <1>2, <1>3, <1>5 DEF IInv

LEMMA NextIInv == IInv /\ [Next]_vars => IInv'
  <1> SUFFICES ASSUME IInv, [Next]_vars PROVE IInv'
    OBVIOUS
  <1>1. CASE Next
    <2>1. fault = "none"
      BY <1>1 DEF Next
    <2>2. CASE rtos_malloc
      BY <2>1, <2>2, MallocIInv
    <2>3. CASE rtos_total_allocated
      BY <2>1, <2>3, QueryIInv
    <2>4. ASSUME NEW p \in Block \cup {NULL}, rtos_realloc(p) PROVE IInv'
      BY <2>1, <2>4, ReallocIInv
    <2>5. ASSUME NEW p \in Block \cup {NULL}, rtos_is_valid(p) PROVE IInv'
      BY <2>1, <2>5, QueryIInv
    <2>6. ASSUME NEW p \in taken \cup {NULL}, rtos_free(p) PROVE IInv'
      BY <2>1, <2>6, FreeIInv
    <2>7. ASSUME NEW p \in taken, rtos_alloc_size(p) PROVE IInv'
      BY <2>1, <2>7, QueryIInv
    <2> QED
      BY <1>1, <2>2, <2>3, <2>4, <2>5, <2>6, <2>7 DEF Next
  <1>2. CASE UNCHANGED <<first, last, heap, taken, failed, fault>>
    <2>1. fault' \in {"none", "assertion", "NULL record"}
      BY <1>2 DEF IInv, TypeOK
    <2> QED
      BY <1>2, <2>1, FrameIInv
  <1> QED
    BY <1>1, <1>2 DEF vars

\* The invariant holds of every reachable state.
THEOREM Invariance == Spec => []IInv
  BY InitIInv, NextIInv, PTL DEF Spec

\* The variables keep to their types: among others, the list only has records
\* that are still allocated and the record that alloc_find returns is one of
\* them, whatever libc's calls return (passthrough-internal.c).
THEOREM TypeCorrect == Spec => []TypeOK
  <1>1. IInv => TypeOK
    BY DEF IInv
  <1> QED
    BY Invariance, <1>1, PTL

\* The list is what its order says.
LEMMA OrderIsOneList == IInv => OneList
  <1> SUFFICES ASSUME IInv PROVE OneList
    OBVIOUS
  <1>1. PICK n, q : IsOrder(n, q)
    BY DEF IInv, InOrder
  <1>2. n \in Nat /\ n <= Records /\ Records \in Nat
    BY <1>1, FewRecords, PassthroughAssumption DEF IInv, IsOrder
  <1>3. Walked = 1..n /\ \A k \in 1..n : step[k] = q[k]
    <2>1. Walked = 1..n /\ \A k \in 1..Records : step[k] = IF k <= n THEN q[k] ELSE NULL
      BY <1>1, StepsInOrder DEF IInv
    <2>2. \A k \in 1..n : k \in 1..Records /\ k <= n
      BY <1>2
    <2> QED
      BY <2>1, <2>2
  <1>4. Cardinality(Walked) = n
    BY <1>2, <1>3, FS_Interval
  <1>5. \A r \in Allocated : \E k \in Walked : step[k] = r
    BY <1>1, <1>3 DEF IsOrder
  <1>6. ASSUME NEW k \in Walked
        PROVE  heap[step[k]].prev = IF k = 1 THEN NULL ELSE step[k - 1]
    <2>1. k \in 1..n /\ (k # 1 => k - 1 \in 1..n)
      BY <1>2, <1>3
    <2>2. heap[q[k]].prev = IF k = 1 THEN NULL ELSE q[k - 1]
      BY <1>1, <2>1 DEF IsOrder
    <2> QED
      BY <1>3, <2>1, <2>2
  <1>7. last = IF Walked = {} THEN NULL ELSE step[Cardinality(Walked)]
    <2>1. Walked = {} <=> n = 0
      BY <1>2, <1>3
    <2>2. n # 0 => step[n] = q[n]
      BY <1>2, <1>3
    <2> QED
      BY <1>1, <1>4, <2>1, <2>2 DEF IsOrder
  <1>8. Cardinality(Walked) = Cardinality(Allocated)
    BY <1>1, <1>4 DEF IsOrder
  <1> QED
    BY <1>5, <1>6, <1>7, <1>8 DEF OneList

\* After any calls, failures and aborts, the records are one doubly linked list
\* from first_alloc to last_alloc (alloc_new and alloc_remove).
THEOREM ListIsOne == Spec => []OneList
  BY Invariance, OrderIsOneList, PTL
-----------------------------------------------------------------------------
(* Sums over finite sets.                                                    *)

\* Induction over a finite set, for a set of subsets in place of a predicate: a
\* smallest subset that is not in G would be in G.
LEMMA FiniteInduction ==
    ASSUME NEW S, IsFiniteSet(S), NEW G,
           \A s \in SUBSET S : (\A t \in SUBSET s : t # s => t \in G) => s \in G
    PROVE  S \in G
  <1> DEFINE R == StrictSubsetOrdering(S)
             T == (SUBSET S) \ G
  <1>1. SUFFICES ASSUME S \notin G PROVE FALSE
    OBVIOUS
  <1>2. IsWellFoundedOn(R, FiniteSubsetsOf(S))
    BY FS_StrictSubsetOrderingWellFounded
  <1>3. T \subseteq FiniteSubsetsOf(S) /\ T # {}
    BY <1>1, FS_Subset DEF FiniteSubsetsOf
  <1>4. \A s, t \in SUBSET S : t \subseteq s /\ t # s => <<t, s>> \in R
    BY DEF StrictSubsetOrdering
  <1>5. PICK s \in T : \A t \in T : ~ (<<t, s>> \in R)
    <2> HIDE DEF R, T
    <2> QED
      BY <1>2, <1>3, WFMin
  <1>6. \A t \in SUBSET s : t # s => t \in G
    <2> SUFFICES ASSUME NEW t \in SUBSET s, t # s, t \notin G PROVE FALSE
      OBVIOUS
    <2>1. t \in T /\ s \in SUBSET S /\ t \in SUBSET S /\ t \subseteq s
      BY <1>5
    <2> HIDE DEF R, T
    <2> QED
      <3>1. <<t, s>> \in R
        BY <1>4, <2>1
      <3>2. ~ (<<t, s>> \in R)
        BY <1>5, <2>1
      <3> QED
        BY <3>1, <3>2
  <1> QED
    BY <1>5, <1>6

One(s) == CHOOSE y \in s : TRUE
Rest(s) == s \ {One(s)}

\* g adds up f over the subsets of S, as MapThenSumSet does.
AddsUp(g, f, S) == g = [s \in SUBSET S |-> IF s = {} THEN 0 ELSE f[One(s)] + g[Rest(s)]]
SumOf(f, S) == (CHOOSE g : AddsUp(g, f, S))[S]

LEMMA OneRest ==
    ASSUME NEW s, s # {}
    PROVE  One(s) \in s /\ Rest(s) \subseteq s /\ Rest(s) # s /\ One(s) \notin Rest(s)
  BY DEF One, Rest

\* What adds up adds up the same.
LEMMA SumsAgree ==
    ASSUME NEW f, NEW S, IsFiniteSet(S), NEW U, NEW V, S \subseteq U, S \subseteq V,
           NEW g, AddsUp(g, f, U), NEW h, AddsUp(h, f, V)
    PROVE  g[S] = h[S]
  <1> DEFINE G == {s \in SUBSET S : g[s] = h[s]}
  <1>1. ASSUME NEW s \in SUBSET S, \A t \in SUBSET s : t # s => t \in G PROVE s \in G
    <2>1. /\ g[s] = IF s = {} THEN 0 ELSE f[One(s)] + g[Rest(s)]
          /\ h[s] = IF s = {} THEN 0 ELSE f[One(s)] + h[Rest(s)]
      <3>1. s \in SUBSET U /\ s \in SUBSET V
        OBVIOUS
      <3> QED
        BY <3>1 DEF AddsUp
    <2>2. s # {} => g[Rest(s)] = h[Rest(s)]
      BY <1>1, OneRest
    <2> QED
      BY <2>1, <2>2
  <1> HIDE DEF G
  <1>2. S \in G
    BY <1>1, FiniteInduction
  <1> QED
    BY <1>2 DEF G

\* Over a finite set there is a function that adds up.
LEMMA SumExists ==
    ASSUME NEW f, NEW S, IsFiniteSet(S)
    PROVE  \E g : AddsUp(g, f, S)
  <1> DEFINE G == {s \in SUBSET S : \E g : AddsUp(g, f, s)}
             Sol(t) == CHOOSE g : AddsUp(g, f, t)
  <1>1. ASSUME NEW s \in SUBSET S, \A t \in SUBSET s : t # s => t \in G PROVE s \in G
    <2> DEFINE A == [t \in SUBSET s |-> IF t = {} THEN 0 ELSE f[One(t)] + Sol(Rest(t))[Rest(t)]]
    <2>1. ASSUME NEW t, t \subseteq s, t # s
          PROVE  IsFiniteSet(t) /\ AddsUp(Sol(t), f, t)
      <3>1. \E g : AddsUp(g, f, t)
        BY <1>1, <2>1
      <3>2. AddsUp(Sol(t), f, t)
        BY <3>1
      <3> QED
        BY <2>1, <3>2, FS_Subset
    <2>2. ASSUME NEW t, t \subseteq s, t # s PROVE Sol(t)[t] = A[t]
      <3> HIDE DEF Sol
      <3>1. CASE t = {}
        BY <2>1, <2>2, <3>1 DEF AddsUp
      <3>2. CASE t # {}
        <4>1. Rest(t) \subseteq t /\ Rest(t) # s /\ Rest(t) \subseteq s
          BY <2>2, <3>2, OneRest
        <4>2. PICK g : g = Sol(t)
          OBVIOUS
        <4>3. PICK h : h = Sol(Rest(t))
          OBVIOUS
        <4>4. AddsUp(g, f, t) /\ AddsUp(h, f, Rest(t)) /\ IsFiniteSet(Rest(t))
          BY <2>1, <2>2, <4>1, <4>2, <4>3
        <4>5. g[Rest(t)] = h[Rest(t)]
          <5>1. Rest(t) \subseteq Rest(t)
            OBVIOUS
          <5> QED
            BY <4>1, <4>4, <5>1, SumsAgree
        <4>6. g[t] = f[One(t)] + g[Rest(t)]
          BY <3>2, <4>4 DEF AddsUp
        <4>7. A[t] = f[One(t)] + h[Rest(t)]
          BY <2>2, <3>2, <4>3
        <4> QED
          BY <4>2, <4>5, <4>6, <4>7
      <3> QED
        BY <3>1, <3>2
    <2>3. ASSUME NEW t \in SUBSET s
          PROVE  A[t] = IF t = {} THEN 0 ELSE f[One(t)] + A[Rest(t)]
      <3>1. t # {} => A[Rest(t)] = Sol(Rest(t))[Rest(t)]
        <4> SUFFICES ASSUME t # {} PROVE A[Rest(t)] = Sol(Rest(t))[Rest(t)]
          OBVIOUS
        <4>1. Rest(t) \subseteq s /\ Rest(t) # s
          BY OneRest
        <4> HIDE DEF A, Sol
        <4> QED
          BY <2>2, <4>1
      <3> HIDE DEF Sol
      <3>2. A[t] = IF t = {} THEN 0 ELSE f[One(t)] + Sol(Rest(t))[Rest(t)]
        OBVIOUS
      <3> QED
        BY <3>1, <3>2
    <2>4. A = [t \in SUBSET s |-> A[t]]
      OBVIOUS
    <2> HIDE DEF A
    <2>5. AddsUp(A, f, s)
      BY <2>3, <2>4 DEF AddsUp
    <2> QED
      BY <2>5
  <1> HIDE DEF G
  <1>2. S \in G
    BY <1>1, FiniteInduction
  <1> QED
    BY <1>2 DEF G

\* What adds up ends in the sum.
LEMMA SumIs ==
    ASSUME NEW f, NEW S, IsFiniteSet(S), NEW g, AddsUp(g, f, S)
    PROVE  g[S] = SumOf(f, S)
  <1>1. PICK h : h = CHOOSE adds : AddsUp(adds, f, S)
    OBVIOUS
  <1>2. AddsUp(h, f, S)
    BY <1>1
  <1>3. SumOf(f, S) = h[S]
    BY <1>1 DEF SumOf
  <1> QED
    BY <1>2, <1>3, SumsAgree

\* The sum of the empty set, and of a set in terms of a smaller one.
LEMMA SumStep ==
    ASSUME NEW f, NEW S, IsFiniteSet(S)
    PROVE  /\ SumOf(f, {}) = 0
           /\ S # {} => SumOf(f, S) = f[One(S)] + SumOf(f, Rest(S))
  <1>1. SumOf(f, {}) = 0
    <2>1. IsFiniteSet({})
      BY FS_EmptySet
    <2>2. PICK g : AddsUp(g, f, {})
      BY <2>1, SumExists
    <2> QED
      BY <2>1, <2>2, SumIs DEF AddsUp
  <1>2. ASSUME S # {} PROVE SumOf(f, S) = f[One(S)] + SumOf(f, Rest(S))
    <2>1. Rest(S) \subseteq S /\ Rest(S) \subseteq Rest(S) /\ IsFiniteSet(Rest(S))
      BY <1>2, OneRest, FS_Subset
    <2>2. PICK g : AddsUp(g, f, S)
      BY SumExists
    <2>3. PICK h : AddsUp(h, f, Rest(S))
      BY <2>1, SumExists
    <2>4. g[S] = f[One(S)] + g[Rest(S)]
      BY <1>2, <2>2 DEF AddsUp
    <2>5. g[Rest(S)] = h[Rest(S)]
      BY <2>1, <2>2, <2>3, SumsAgree
    <2>6. g[S] = SumOf(f, S) /\ h[Rest(S)] = SumOf(f, Rest(S))
      BY <2>1, <2>2, <2>3, SumIs
    <2> QED
      BY <2>4, <2>5, <2>6
  <1> QED
    BY <1>1, <1>2

\* Any member of the set can be taken out of its sum.
LEMMA SumOut ==
    ASSUME NEW f, NEW S, IsFiniteSet(S), \A x \in S : f[x] \in Int
    PROVE  /\ SumOf(f, S) \in Int
           /\ \A x \in S : SumOf(f, S) = f[x] + SumOf(f, S \ {x})
  <1> DEFINE Good(s) == /\ SumOf(f, s) \in Int
                        /\ \A x \in s : SumOf(f, s) = f[x] + SumOf(f, s \ {x})
             G == {s \in SUBSET S : Good(s)}
  <1>1. ASSUME NEW s \in SUBSET S, \A t \in SUBSET s : t # s => t \in G PROVE s \in G
    <2>1. \A t \in SUBSET s : t # s => Good(t)
      BY <1>1
    <2> HIDE DEF Good
    <2>2. s \subseteq S /\ IsFiniteSet(s)
      BY FS_Subset
    <2>3. CASE s = {}
      <3>1. SumOf(f, {}) = 0
        BY <2>2, SumStep
      <3>2. Good({})
        BY <3>1 DEF Good
      <3> QED
        BY <2>3, <3>2
    <2>4. CASE s # {}
      <3>1. /\ SumOf(f, s) = f[One(s)] + SumOf(f, Rest(s))
            /\ One(s) \in s /\ f[One(s)] \in Int
        BY <2>2, <2>4, SumStep, OneRest
      <3>2. Rest(s) \subseteq s /\ Rest(s) # s
        BY <2>4, OneRest
      <3>3. Good(Rest(s))
        BY <2>1, <3>2
      <3>4. SumOf(f, s) \in Int /\ SumOf(f, Rest(s)) \in Int
        BY <3>1, <3>3 DEF Good
      <3>5. ASSUME NEW x \in s PROVE SumOf(f, s) = f[x] + SumOf(f, s \ {x})
        <4>1. CASE x = One(s)
          BY <3>1, <4>1 DEF Rest
        <4>2. CASE x # One(s)
          <5>1. x \in Rest(s) /\ One(s) \in s \ {x} /\ f[x] \in Int
            BY <2>2, <3>1, <4>2 DEF Rest
          <5>2. SumOf(f, Rest(s)) = f[x] + SumOf(f, Rest(s) \ {x})
            BY <3>3, <5>1 DEF Good
          <5>3. Good(s \ {x}) /\ Good(Rest(s) \ {x})
            <6>1. s \ {x} \subseteq s /\ s \ {x} # s
              OBVIOUS
            <6>2. Rest(s) \ {x} \subseteq s /\ Rest(s) \ {x} # s
              BY <3>2
            <6> QED
              BY <2>1, <6>1, <6>2
          <5>4. (s \ {x}) \ {One(s)} = Rest(s) \ {x}
            BY DEF Rest
          <5>5. SumOf(f, s \ {x}) = f[One(s)] + SumOf(f, Rest(s) \ {x})
            BY <5>1, <5>3, <5>4 DEF Good
          <5>6. SumOf(f, Rest(s) \ {x}) \in Int
            BY <5>3 DEF Good
          <5> QED
            BY <3>1, <5>1, <5>2, <5>5, <5>6
        <4> QED
          BY <4>1, <4>2
      <3> QED
        BY <3>4, <3>5 DEF Good
    <2> QED
      BY <2>3, <2>4
  <1> HIDE DEF G
  <1>2. S \in G
    BY <1>1, FiniteInduction
  <1> QED
    BY <1>2 DEF G

\* Two sums over sets that match, member by member, are the same.
LEMMA SumMoved ==
    ASSUME NEW f, NEW S, IsFiniteSet(S), \A x \in S : f[x] \in Int,
           NEW h, NEW to, \A x, y \in S : to[x] = to[y] => x = y,
           \A x \in S : h[to[x]] = f[x],
           NEW R, IsFiniteSet(R), \A x \in S : to[x] \in R, \A y \in R : \E x \in S : to[x] = y
    PROVE  SumOf(h, R) = SumOf(f, S)
  <1> DEFINE Image(s) == {to[x] : x \in s}
             G == {s \in SUBSET S : SumOf(h, Image(s)) = SumOf(f, s)}
  <1>1. ASSUME NEW s \in SUBSET S, \A t \in SUBSET s : t # s => t \in G PROVE s \in G
    <2>1. s \subseteq S /\ IsFiniteSet(s)
      BY FS_Subset
    <2>2. CASE s = {}
      <3>1. Image(s) = {}
        BY <2>2
      <3>2. SumOf(h, {}) = 0 /\ SumOf(f, {}) = 0
        BY SumStep
      <3> HIDE DEF Image
      <3> QED
        BY <2>2, <3>1, <3>2
    <2>3. CASE s # {}
      <3>1. PICK x \in s : TRUE
        BY <2>3
      <3> DEFINE t == s \ {x}
      <3>2. /\ Image(t) = Image(s) \ {to[x]} /\ to[x] \in Image(s)
            /\ \A y \in Image(s) : h[y] \in Int
        BY <2>1, <3>1
      <3>3. IsFiniteSet(Image(s))
        <4>1. Image(s) \subseteq R
          BY <2>1
        <4> QED
          BY <4>1, FS_Subset
      <3>4. SumOf(h, Image(t)) = SumOf(f, t)
        <4>1. t \in SUBSET s /\ t # s
          BY <3>1
        <4> HIDE DEF Image, t
        <4> QED
          BY <1>1, <4>1
      <3> HIDE DEF Image
      <3>5. SumOf(h, Image(s)) = h[to[x]] + SumOf(h, Image(s) \ {to[x]})
        BY <3>2, <3>3, SumOut
      <3>6. SumOf(f, s) = f[x] + SumOf(f, t)
        BY <2>1, SumOut
      <3>7. h[to[x]] = f[x]
        BY <2>1
      <3> HIDE DEF t
      <3> QED
        BY <3>2, <3>4, <3>5, <3>6, <3>7
    <2> QED
      BY <2>2, <2>3
  <1>2. Image(S) = R
    OBVIOUS
  <1> HIDE DEF G, Image
  <1>3. S \in G
    BY <1>1, FiniteInduction
  <1> QED
    BY <1>2, <1>3 DEF G

-----------------------------------------------------------------------------
\* The abstract sizes: those of the records.
SizesFollow ==
    \A b \in Block :
      /\ \A r \in Allocated : heap[r].base = b => SizeOf(b) = heap[r].len
      /\ (\A r \in Allocated : heap[r].base # b) => SizeOf(b) = -1

LEMMA LengthIsNat == IInv => \A r \in Allocated : heap[r].len \in Nat
  <1> SUFFICES ASSUME IInv, NEW r \in Allocated PROVE heap[r].len \in Nat
    OBVIOUS
  <1>1. heap[r].len \in Size
    BY DEF IInv, TypeOK
  <1> QED
    BY <1>1, PassthroughAssumption DEF Size

LEMMA SizesFollowRecords == IInv => SizesFollow
  <1> SUFFICES ASSUME IInv, NEW b \in Block
               PROVE  /\ \A r \in Allocated : heap[r].base = b => SizeOf(b) = heap[r].len
                      /\ (\A r \in Allocated : heap[r].base # b) => SizeOf(b) = -1
    BY DEF SizesFollow
  <1> DEFINE recs == {r \in Allocated : heap[r].base = b}
  <1>1. SizeOf(b) = IF recs = {} THEN -1 ELSE heap[CHOOSE r \in recs : TRUE].len
    BY DEF SizeOf
  <1>2. ASSUME NEW r \in Allocated, heap[r].base = b PROVE SizeOf(b) = heap[r].len
    <2>1. recs = {r}
      BY <1>2, NullIsNone DEF IInv, Bases
    <2>2. (CHOOSE x \in recs : TRUE) = r
      BY <2>1
    <2> HIDE DEF recs
    <2> QED
      BY <1>1, <2>1, <2>2
  <1>3. ASSUME \A r \in Allocated : heap[r].base # b PROVE SizeOf(b) = -1
    <2>1. recs = {}
      BY <1>3
    <2> HIDE DEF recs
    <2> QED
      BY <1>1, <2>1
  <1> QED
    BY <1>2, <1>3

\* Until realloc fails, what is live is what has been taken.
LEMMA LiveIsTaken ==
    ASSUME IInv, ~failed
    PROVE  /\ Contract!Live = taken
           /\ \A b \in Block : (SizeOf(b) # -1) <=> b \in taken
  <1>1. SizesFollow /\ Bases /\ taken \subseteq Block
    BY SizesFollowRecords DEF IInv, TypeOK
  <1>2. \A r \in Allocated : heap[r].len \in Nat
    BY LengthIsNat
  <1>3. ASSUME NEW b \in Block PROVE (SizeOf(b) # -1) <=> b \in taken
    <2>1. CASE b \in taken
      <3>1. PICK r \in Allocated : heap[r].base = b
        BY <1>1, <2>1 DEF Bases
      <3>2. SizeOf(b) = heap[r].len
        BY <1>1, <3>1 DEF SizesFollow
      <3> QED
        BY <1>2, <2>1, <3>2
    <2>2. CASE b \notin taken
      <3>1. \A r \in Allocated : heap[r].base # b
        BY <1>1, <2>2, NullIsNone DEF Bases
      <3> QED
        BY <1>1, <2>2, <3>1 DEF SizesFollow
    <2> QED
      BY <2>1, <2>2
  <1>4. \A b : b \in Contract!Live <=> b \in Block /\ SizeOf(b) # -1
    BY DEF Contract!Live, Contract!NoSize
  <1>5. Contract!Live = taken
    BY <1>1, <1>3, <1>4
  <1> QED
    BY <1>3, <1>5

\* alloc_find finds what is taken.
LEMMA FoundIfTaken ==
    ASSUME IInv, ~failed, NEW p \in Block \cup {NULL}
    PROVE  /\ ~FindAborts(p)
           /\ p \in taken => /\ alloc_find(p) # NULL /\ alloc_find(p) \in Allocated
                             /\ heap[alloc_find(p)].base = p
                             /\ SizeOf(p) = heap[alloc_find(p)].len
           /\ p \notin taken => alloc_find(p) = NULL
  <1>1. TypeOK /\ InOrder /\ Bases /\ taken \subseteq Block
    BY DEF IInv, TypeOK
  <1>2. ~FindAborts(p)
    BY <1>1, NeverAborts
  <1>3. ASSUME p \in taken
        PROVE  /\ alloc_find(p) # NULL /\ alloc_find(p) \in Allocated
               /\ heap[alloc_find(p)].base = p /\ SizeOf(p) = heap[alloc_find(p)].len
    <2>1. PICK r \in Allocated : heap[r].base = p
      BY <1>1, <1>3 DEF Bases
    <2>2. alloc_find(p) # NULL
      BY <1>1, <1>2, <2>1, Found
    <2>3. alloc_find(p) \in Allocated /\ heap[alloc_find(p)].base = p
      BY <1>1, <1>2, <2>2, Found
    <2>4. SizeOf(p) = heap[alloc_find(p)].len
      BY <1>1, <1>3, <2>3, SizesFollowRecords DEF SizesFollow
    <2> QED
      BY <2>2, <2>3, <2>4
  <1>4. ASSUME p \notin taken PROVE alloc_find(p) = NULL
    <2>1. \A r \in Allocated : heap[r].base # NULL /\ heap[r].base \in taken
      BY <1>1 DEF Bases
    <2> QED
      BY <1>1, <1>2, <1>4, <2>1, Found
  <1> QED
    BY <1>2, <1>3, <1>4

-----------------------------------------------------------------------------
\* What the loop of rtos_total_allocated adds up is the sum over the live blocks.
LEMMA TotalIsSum ==
    ASSUME IInv, ~failed
    PROVE  MapThenSumSet(LAMBDA k : heap[step[k]].len, Walked)
           = Contract!MapThenSumSet(LAMBDA b : [x \in Block |-> SizeOf(x)][b], Contract!Live)
  <1>1. PICK n, q : IsOrder(n, q)
    BY DEF IInv, InOrder
  <1> DEFINE f == [k \in Walked |-> heap[step[k]].len]
             h == [x \in Block |-> SizeOf(x)]
             to == [k \in Walked |-> heap[step[k]].base]
  <1>2. /\ n \in Nat /\ n <= Records /\ Records \in Nat
        /\ Walked = 1..n /\ IsFiniteSet(Walked)
        /\ \A k \in Walked : step[k] = q[k]
    <2>1. n \in Nat /\ n <= Records /\ Records \in Nat
      BY <1>1, FewRecords, PassthroughAssumption DEF IInv, IsOrder
    <2>2. Walked = 1..n /\ \A k \in 1..Records : step[k] = IF k <= n THEN q[k] ELSE NULL
      BY <1>1, StepsInOrder DEF IInv
    <2>3. \A k \in 1..n : k \in 1..Records /\ k <= n
      BY <2>1
    <2>4. IsFiniteSet(1..n)
      BY <2>1, FS_Interval
    <2> QED
      BY <2>1, <2>2, <2>3, <2>4
  <1>3. \A k \in Walked : /\ step[k] \in Allocated
                          /\ heap[step[k]].len \in Int
                          /\ heap[step[k]].base \in taken
                          /\ heap[step[k]].base \in Block
                          /\ SizeOf(heap[step[k]].base) = heap[step[k]].len
    <2>1. \A r \in Allocated : heap[r].len \in Int
      BY LengthIsNat
    <2>2. \A r \in Allocated : heap[r].base \in taken /\ heap[r].base \in Block
      BY DEF IInv, TypeOK, Bases
    <2>3. \A r \in Allocated : SizeOf(heap[r].base) = heap[r].len
      BY <2>2, SizesFollowRecords DEF SizesFollow
    <2>4. \A k \in Walked : step[k] \in Allocated
      BY DEF Walked
    <2> QED
      BY <2>1, <2>2, <2>3, <2>4
  <1>4. SumOf(h, taken) = SumOf(f, Walked)
    <2>1. \A k \in Walked : f[k] \in Int
      BY <1>3
    <2>2. ASSUME NEW k \in Walked, NEW l \in Walked, to[k] = to[l] PROVE k = l
      <3>1. step[k] = step[l]
        BY <1>3, <2>2, NullIsNone DEF IInv, Bases
      <3> QED
        BY <1>1, <1>2, <3>1 DEF IsOrder
    <2>3. \A k \in Walked : h[to[k]] = f[k]
      BY <1>3
    <2>4. IsFiniteSet(taken)
      <3>1. IsFiniteSet(Block)
        BY PassthroughAssumption, FS_Interval DEF Block
      <3> QED
        BY <3>1, FS_Subset DEF IInv, TypeOK
    <2>5. \A k \in Walked : to[k] \in taken
      BY <1>3
    <2>6. ASSUME NEW b \in taken PROVE \E k \in Walked : to[k] = b
      <3>1. PICK r \in Allocated : heap[r].base = b
        BY DEF IInv, Bases
      <3>2. PICK k \in Walked : step[k] = r
        BY <1>1, <1>2 DEF IsOrder
      <3> QED
        BY <3>1, <3>2
    <2>7. IsFiniteSet(Walked)
      BY <1>2
    <2> HIDE DEF f, h, to
    <2>8. \A k, l \in Walked : to[k] = to[l] => k = l
      BY <2>2
    <2>9. \A b \in taken : \E k \in Walked : to[k] = b
      BY <2>6
    <2> QED
      BY <2>1, <2>3, <2>4, <2>5, <2>7, <2>8, <2>9, SumMoved
  <1>5. Contract!MapThenSumSet(LAMBDA b : h[b], taken) = SumOf(h, taken)
    <2> HIDE DEF h
    <2> QED
      BY DEF SumOf, AddsUp, One, Rest, Contract!MapThenSumSet, Contract!MapThenFoldSet
  <1>6. MapThenSumSet(LAMBDA k : heap[step[k]].len, Walked) = SumOf(f, Walked)
    <2> DEFINE Adds(g) == g = [s \in SUBSET Walked |->
                                 IF s = {} THEN 0 ELSE heap[step[One(s)]].len + g[Rest(s)]]
               G == CHOOSE g : Adds(g)
    <2>1. MapThenSumSet(LAMBDA k : heap[step[k]].len, Walked) = G[Walked]
      BY DEF One, Rest, MapThenSumSet, MapThenFoldSet
    <2>2. ASSUME NEW g PROVE Adds(g) <=> AddsUp(g, f, Walked)
      <3>1. ASSUME NEW s \in SUBSET Walked, s # {} PROVE f[One(s)] = heap[step[One(s)]].len
        <4>1. One(s) \in Walked
          BY <3>1, OneRest
        <4> QED
          BY <4>1
      <3> HIDE DEF f
      <3>2. [s \in SUBSET Walked |-> IF s = {} THEN 0 ELSE f[One(s)] + g[Rest(s)]]
            = [s \in SUBSET Walked |->
                 IF s = {} THEN 0 ELSE heap[step[One(s)]].len + g[Rest(s)]]
        BY <3>1
      <3> QED
        BY <3>2 DEF AddsUp
    <2> HIDE DEF Adds, f
    <2>3. Adds(G)
      <3>1. \E g : Adds(g)
        BY <1>2, <2>2, SumExists
      <3> QED
        BY <3>1
    <2> HIDE DEF G
    <2>4. AddsUp(G, f, Walked)
      BY <2>2, <2>3
    <2> QED
      BY <1>2, <2>1, <2>4, SumIs
  <1>7. Contract!Live = taken
    BY LiveIsTaken
  <1> QED
    BY <1>4, <1>5, <1>6, <1>7
-----------------------------------------------------------------------------
\* The abstract map, and what its steps have to say.
live == [b \in Block |-> SizeOf(b)]

LEMMA SameLive == ASSUME UNCHANGED heap PROVE live' = live
  BY DEF live, SizeOf, Allocated

\* A step after which nothing has broken is one of the contract's.
LEMMA NewBlockMaps ==
    ASSUME IInv, SizesFollow, SizesFollow', Contract!Live = taken,
           NEW p \in Block \ taken, NEW m \in Size, NEW r \in Record \ Allocated,
           alloc_new(r, p, m), Return("malloc", NULL, m, p)
    PROVE  Contract!Malloc
  <1>1. /\ Allocated' = Allocated \cup {r}
        /\ heap'[r].base = p /\ heap'[r].len = m
        /\ \A x \in Allocated : heap'[x].base = heap[x].base /\ heap'[x].len = heap[x].len
    <2>0. TypeOK /\ p \in Block
      BY DEF IInv
    <2>1. heap'[r] = [base |-> p, len |-> m, prev |-> last, next |-> NULL]
      BY <2>0, NewRecord
    <2>2. /\ Allocated' = Allocated \cup {r}
          /\ \A x \in Allocated : heap'[x].base = heap[x].base /\ heap'[x].len = heap[x].len
      BY <2>0, NewRecord
    <2> QED
      BY <2>1, <2>2
  <1>2. \A x \in Allocated : heap[x].base # p
    <2> SUFFICES ASSUME NEW x \in Allocated PROVE heap[x].base # p
      OBVIOUS
    <2>1. heap[x].base # NULL => heap[x].base \in taken
      BY DEF IInv, Bases
    <2>2. p \notin taken /\ p # NULL
      BY NullIsNone
    <2> QED
      BY <2>1, <2>2
  <1>3. ASSUME NEW b \in Block PROVE SizeOf(b)' = IF b = p THEN m ELSE SizeOf(b)
    <2>1. CASE b = p
      BY <1>1, <2>1 DEF SizesFollow
    <2>2. CASE b # p
      <3>1. CASE \E x \in Allocated : heap[x].base = b
        <4>1. PICK x \in Allocated : heap[x].base = b
          BY <3>1
        <4>2. x \in Allocated' /\ heap'[x].base = b /\ heap'[x].len = heap[x].len
          BY <1>1, <4>1
        <4> QED
          BY <2>2, <4>1, <4>2 DEF SizesFollow
      <3>2. CASE \A x \in Allocated : heap[x].base # b
        <4>1. \A x \in Allocated' : heap'[x].base # b
          BY <1>1, <2>2, <3>2
        <4> QED
          BY <2>2, <3>2, <4>1 DEF SizesFollow
      <3> QED
        BY <3>1, <3>2
    <2> QED
      BY <2>1, <2>2
  <1>4. live' = [live EXCEPT ![p] = m]
    BY <1>3 DEF live
  <1>5. call' = [op |-> "malloc", p |-> NULL, size |-> m, result |-> p]
    BY DEF Return
  <1>6. p # NULL /\ p \in {NULL} \cup (Block \ Contract!Live)
    BY NullIsNone
  <1> QED
    BY <1>4, <1>5, <1>6 DEF live, Contract!Malloc, Contract!Called, Contract!NULL, NULL

LEMMA MallocMaps ==
    ASSUME IInv, IInv', ~failed', fault' # "NULL record", fault = "none", rtos_malloc
    PROVE  Contract!Malloc
  <1>0. SizesFollow /\ SizesFollow' /\ Contract!Live = taken
    <2>1. ~failed
      BY DEF rtos_malloc, Abort
    <2>2. SizesFollow'
      BY SizesFollowRecords, PTL
    <2> QED
      BY <2>1, <2>2, SizesFollowRecords, LiveIsTaken
  <1>1. ASSUME NEW p \in Block \ taken, NEW m \in Size, NEW r \in Record \ Allocated,
               alloc_new(r, p, m), Return("malloc", NULL, m, p)
        PROVE  Contract!Malloc
    BY <1>0, <1>1, NewBlockMaps
  <1>2. ASSUME NEW m \in Size, Return("malloc", NULL, m, NULL), UNCHANGED heap
        PROVE  Contract!Malloc
    <2>1. live' = live
      BY <1>2, SameLive
    <2>2. call' = [op |-> "malloc", p |-> NULL, size |-> m, result |-> NULL]
      BY <1>2 DEF Return
    <2> QED
      BY <2>1, <2>2 DEF live, Contract!Malloc, Contract!Called, Contract!NULL, NULL
  <1> QED
    BY <1>1, <1>2 DEF rtos_malloc, Abort

LEMMA ReallocMaps ==
    ASSUME IInv, IInv', ~failed', fault = "none", NEW p \in Block \cup {NULL}, rtos_realloc(p)
    PROVE  Contract!Realloc
  <1>1. ~failed
    BY DEF rtos_realloc, Abort
  <1>2. SizesFollow /\ SizesFollow' /\ Contract!Live = taken
    <2>1. SizesFollow'
      BY SizesFollowRecords, PTL
    <2> QED
      BY <1>1, <2>1, SizesFollowRecords, LiveIsTaken
  <1>3. ~FindAborts(p)
    BY <1>1, FoundIfTaken
  <1>4. ASSUME alloc_find(p) = NULL, NEW m \in Size, Return("realloc", p, m, NULL),
               UNCHANGED heap
        PROVE  Contract!Realloc
    <2>1. live' = live
      BY <1>4, SameLive
    <2>2. call' = [op |-> "realloc", p |-> p, size |-> m, result |-> NULL]
      BY <1>4 DEF Return
    <2>3. p \notin Contract!Live
      BY <1>1, <1>2, <1>4, FoundIfTaken
    <2> QED
      BY <2>1, <2>2, <2>3 DEF live, Contract!Realloc, Contract!Called, Contract!NULL, NULL
  <1> DEFINE ap == alloc_find(p)
  <1>5. ASSUME ap # NULL, NEW m \in Size, NEW b \in {p, NULL} \cup (Block \ taken),
               heap' = [heap EXCEPT ![ap].base = b, ![ap].len = Length(ap, b, m)],
               failed' = (failed \/ b = NULL), Return("realloc", p, m, b)
        PROVE  Contract!Realloc
    <2>1. p \in taken /\ ap \in Allocated /\ heap[ap].base = p
      BY <1>1, <1>5, FoundIfTaken
    <2>2. b # NULL /\ b \in Block /\ p \in Block /\ p # NULL
      BY <1>5, <2>1, NullIsNone DEF IInv, TypeOK
    <2> HIDE DEF ap
    <2>3. heap[ap] \in [base : Block \cup {NULL}, len : Size,
                        prev : Record \cup {NULL}, next : Record \cup {NULL}]
      BY <2>1 DEF IInv, TypeOK
    <2>4. /\ Allocated' = Allocated
          /\ heap'[ap] = [heap[ap] EXCEPT !.base = b, !.len = m]
          /\ \A x \in Allocated : x # ap => heap'[x] = heap[x]
      BY <1>5, <2>1 DEF Allocated, Length
    <2>5. heap'[ap].base = b /\ heap'[ap].len = m
      BY <2>3, <2>4
    <2>6. \A x \in Allocated : x # ap => heap[x].base # p
      BY <2>1, <2>2 DEF IInv, Bases
    <2>7. \A x \in Allocated : x # ap => heap[x].base # b
      BY <2>2, <2>6 DEF IInv, Bases
    <2>8. ASSUME NEW c \in Block
          PROVE  SizeOf(c)' = IF c = b THEN m ELSE IF c = p THEN -1 ELSE SizeOf(c)
      <3>1. CASE c = b
        BY <1>2, <2>1, <2>4, <2>5, <3>1 DEF SizesFollow
      <3>2. CASE c # b /\ c = p
        <4>1. \A x \in Allocated' : heap'[x].base # c
          BY <2>4, <2>5, <2>6, <3>2
        <4> QED
          BY <1>2, <3>2, <4>1 DEF SizesFollow
      <3>3. CASE c # b /\ c # p
        <4>1. CASE \E x \in Allocated : heap[x].base = c
          <5>1. PICK x \in Allocated : heap[x].base = c
            BY <4>1
          <5>2. x # ap /\ x \in Allocated' /\ heap'[x] = heap[x]
            BY <2>1, <2>4, <3>3, <5>1
          <5> QED
            BY <1>2, <3>3, <5>1, <5>2 DEF SizesFollow
        <4>2. CASE \A x \in Allocated : heap[x].base # c
          <5>1. \A x \in Allocated' : heap'[x].base # c
            BY <2>4, <2>5, <3>3, <4>2
          <5> QED
            BY <1>2, <3>3, <4>2, <5>1 DEF SizesFollow
        <4> QED
          BY <4>1, <4>2
      <3> QED
        BY <3>1, <3>2, <3>3
    <2>9. live' = [[live EXCEPT ![p] = -1] EXCEPT ![b] = m]
      BY <2>2, <2>8 DEF live
    <2>10. call' = [op |-> "realloc", p |-> p, size |-> m, result |-> b]
      BY <1>5 DEF Return
    <2>11. p \in Contract!Live /\ b \in {p} \cup (Block \ Contract!Live)
      BY <1>2, <2>1, <2>2
    <2> QED
      BY <2>2, <2>9, <2>10, <2>11
         DEF live, Contract!Realloc, Contract!Called, Contract!NULL, Contract!NoSize, NULL
  <1> QED
    BY <1>3, <1>4, <1>5 DEF rtos_realloc

LEMMA FreeMaps ==
    ASSUME IInv, IInv', ~failed', fault = "none", NEW p \in taken, rtos_free(p)
    PROVE  Contract!Free
  <1>1. ~failed /\ p \in Block /\ p # NULL
    BY NullIsNone DEF rtos_free, Abort, IInv, TypeOK
  <1>2. SizesFollow /\ SizesFollow' /\ Contract!Live = taken
    <2>1. SizesFollow'
      BY SizesFollowRecords, PTL
    <2> QED
      BY <1>1, <2>1, SizesFollowRecords, LiveIsTaken
  <1> DEFINE ap == alloc_find(p)
  <1>3. ~FindAborts(p) /\ ap # NULL /\ ap \in Allocated /\ heap[ap].base = p
    BY <1>1, FoundIfTaken
  <1>4. alloc_remove(ap) /\ Return("free", p, 0, NULL)
    BY <1>1, <1>3 DEF rtos_free
  <1> HIDE DEF ap
  <1>5. /\ Allocated' = Allocated \ {ap}
        /\ \A x \in Allocated' : heap'[x].base = heap[x].base /\ heap'[x].len = heap[x].len
    BY <1>3, <1>4, RemovedRecord DEF IInv
  <1>6. \A x \in Allocated' : heap[x].base # p
    BY <1>1, <1>3, <1>5, NullIsNone DEF IInv, Bases
  <1>7. ASSUME NEW c \in Block PROVE SizeOf(c)' = IF c = p THEN -1 ELSE SizeOf(c)
    <2>1. CASE c = p
      BY <1>2, <1>5, <1>6, <2>1 DEF SizesFollow
    <2>2. CASE c # p
      <3>1. CASE \E x \in Allocated : heap[x].base = c
        BY <1>2, <1>3, <1>5, <2>2, <3>1 DEF SizesFollow
      <3>2. CASE \A x \in Allocated : heap[x].base # c
        BY <1>2, <1>5, <2>2, <3>2 DEF SizesFollow
      <3> QED
        BY <3>1, <3>2
    <2> QED
      BY <2>1, <2>2
  <1>8. live' = [live EXCEPT ![p] = -1]
    BY <1>7 DEF live
  <1>9. call' = [op |-> "free", p |-> p, size |-> 0, result |-> NULL]
    BY <1>4 DEF Return
  <1> QED
    BY <1>1, <1>2, <1>8, <1>9 DEF live, Contract!Free, Contract!Called, Contract!NULL, Contract!NoSize, NULL

\* To free NULL is to do nothing.
LEMMA FreeNullMaps ==
    ASSUME IInv, ~failed', fault = "none", rtos_free(NULL)
    PROVE  Contract!Free
  <1>1. /\ UNCHANGED <<first, last, heap, taken, failed, fault>>
        /\ call' = [op |-> "free", p |-> NULL, size |-> 0, result |-> NULL]
    BY DEF rtos_free, Return
  <1>2. live' = live
    BY <1>1, SameLive
  <1> QED
    BY <1>1, <1>2 DEF live, Contract!Free, Contract!Called, Contract!NULL, NULL

LEMMA QueryMaps ==
    ASSUME IInv, ~failed', fault = "none", NEW p \in Block \cup {NULL},
           rtos_is_valid(p) \/ (p \in taken /\ rtos_alloc_size(p)) \/ rtos_total_allocated
    PROVE  Contract!Query
  <1>1. ~failed
    BY DEF rtos_is_valid, rtos_alloc_size, rtos_total_allocated, unchanged, Abort
  <1>2. Contract!Live = taken /\ taken \subseteq Block
    BY <1>1, LiveIsTaken DEF IInv, TypeOK
  <1>3. /\ ~FindAborts(p)
        /\ p \in taken => alloc_find(p) # NULL /\ SizeOf(p) = heap[alloc_find(p)].len
        /\ p \notin taken => alloc_find(p) = NULL
    BY <1>1, FoundIfTaken
  <1>4. ASSUME unchanged PROVE live' = live
    BY <1>4, SameLive DEF unchanged
  <1> USE DEF Return
  <1>5. CASE rtos_is_valid(p)
    <2>1. unchanged
          /\ call' = [op |-> "is_valid", p |-> p, size |-> 0,
                      result |-> IF p \in Contract!Live THEN 1 ELSE 0]
      BY <1>2, <1>3, <1>5 DEF rtos_is_valid
    <2> QED
      BY <1>4, <2>1 DEF live, Contract!Query, Contract!Called, Contract!NULL, NULL
  <1>6. CASE p \in taken /\ rtos_alloc_size(p)
    <2>1. unchanged /\ call' = [op |-> "size", p |-> p, size |-> 0, result |-> SizeOf(p)]
      BY <1>3, <1>6 DEF rtos_alloc_size
    <2>2. live[p] = SizeOf(p)
      BY <1>2, <1>6 DEF live
    <2> QED
      BY <1>2, <1>4, <1>6, <2>1, <2>2 DEF live, Contract!Query, Contract!Called
  <1>7. CASE rtos_total_allocated
    <2> DEFINE t == MapThenSumSet(LAMBDA k : heap[step[k]].len, Walked)
    <2>1. unchanged /\ call' = [op |-> "total", p |-> NULL, size |-> 0, result |-> t]
      BY <1>7 DEF rtos_total_allocated
    <2>2. t = Contract!MapThenSumSet(LAMBDA b : [x \in Block |-> SizeOf(x)][b], Contract!Live)
      BY <1>1, TotalIsSum
    <2> HIDE DEF t
    <2>3. live' = live
      BY <1>4, <2>1
    <2>4. call' = [op |-> "total", p |-> NULL, size |-> 0,
                   result |-> Contract!MapThenSumSet(
                                LAMBDA b : [x \in Block |-> SizeOf(x)][b], Contract!Live)]
      BY <2>1, <2>2, Zenon
    <2> QED
      BY <2>3, <2>4, Zenon DEF live, Contract!Query, Contract!Called, Contract!NULL, NULL
  <1> QED
    BY <1>5, <1>6, <1>7

\* While realloc has not returned NULL for a block (it fails, or is asked for no
\* bytes) and no record was NULL, every call is one of a correct allocator's, with
\* its result: the records are a map of the live blocks
\* to their sizes, all queries tell the truth, and no assertion fails.
THEOREM PassthroughImplementsAllocator == Spec => ImplementsAllocator
  <1>1. Init => Contract!Init
    <2> SUFFICES ASSUME Init PROVE Contract!Init
      OBVIOUS
    <2>1. IInv /\ \A r \in Allocated : FALSE
      BY InitIInv DEF Init, Allocated
    <2>2. \A b \in Block : SizeOf(b) = -1
      BY <2>1, SizesFollowRecords DEF SizesFollow
    <2>3. call = [op |-> "none", p |-> NULL, size |-> 0, result |-> NULL]
      BY DEF Init
    <2>4. (failed \/ fault = "NULL record") = FALSE
      BY DEF Init
    <2> QED
      BY <2>2, <2>3, <2>4 DEF Contract!Init, Contract!Called, Contract!NULL, Contract!NoSize, NULL
  <1>2. IInv /\ IInv' /\ [Next]_vars => [Contract!Next]_Contract!vars
    <2> SUFFICES ASSUME IInv, IInv', [Next]_vars PROVE [Contract!Next]_Contract!vars
      OBVIOUS
    <2>1. CASE failed' \/ fault' = "NULL record"
      BY <2>1 DEF Contract!Next
    <2>2. CASE UNCHANGED <<first, last, heap, taken, call, failed, fault>>
      <3>1. live' = live
        BY <2>2, SameLive
      <3> QED
        BY <2>2, <3>1 DEF live, Contract!vars
    <2>3. CASE Next /\ ~failed' /\ fault' # "NULL record"
      <3>1. fault = "none"
        BY <2>3 DEF Next
      <3>2. ~failed
        <4>1. failed \in BOOLEAN
          BY DEF IInv, TypeOK
        <4> QED
          BY <2>3, <4>1 DEF Next, rtos_malloc, rtos_total_allocated, rtos_realloc, rtos_is_valid,
             rtos_free, rtos_alloc_size, unchanged, Abort
      <3>3. (failed' \/ fault' = "NULL record") = (failed \/ fault = "NULL record")
        BY <2>3, <3>1, <3>2
      <3>4. CASE rtos_malloc
        BY <2>3, <3>1, <3>3, <3>4, MallocMaps DEF Contract!Next
      <3>5. CASE rtos_total_allocated
        BY <2>3, <3>1, <3>3, <3>5, QueryMaps DEF Contract!Next
      <3>6. ASSUME NEW p \in Block \cup {NULL}, rtos_realloc(p) PROVE Contract!Next
        BY <2>3, <3>1, <3>3, <3>6, ReallocMaps DEF Contract!Next
      <3>7. ASSUME NEW p \in Block \cup {NULL}, rtos_is_valid(p) PROVE Contract!Next
        BY <2>3, <3>1, <3>3, <3>7, QueryMaps DEF Contract!Next
      <3>8. ASSUME NEW p \in taken, rtos_free(p) PROVE Contract!Next
        BY <2>3, <3>1, <3>3, <3>8, FreeMaps DEF Contract!Next
      <3>10. CASE rtos_free(NULL)
        BY <2>3, <3>1, <3>3, <3>10, FreeNullMaps DEF Contract!Next
      <3>9. ASSUME NEW p \in taken, rtos_alloc_size(p) PROVE Contract!Next
        <4>1. p \in Block \cup {NULL}
          BY DEF IInv, TypeOK
        <4> QED
          BY <2>3, <3>1, <3>3, <3>9, <4>1, QueryMaps DEF Contract!Next
      <3> QED
        BY <2>3, <3>4, <3>5, <3>6, <3>7, <3>8, <3>9, <3>10 DEF Next
    <2> QED
      BY <2>1, <2>2, <2>3 DEF vars
  <1> QED
    BY <1>1, <1>2, Invariance, PTL DEF Spec, ImplementsAllocator, Contract!Spec
=============================================================================
