-------------------------- MODULE FileSystemProofs --------------------------
(***************************************************************************)
(* Theorems about FileSystem, for any number of threads and requests: its  *)
(* types; the tables are a tree as long as no two creations overlap, with  *)
(* which everything else may; what can be wrong with an access, and when;  *)
(* and what a process sees that lists a directory.                         *)
(***************************************************************************)
EXTENDS FileSystem, SequenceTheorems, FiniteSetTheorems, FunctionTheorems,
        WellFoundedInduction, TLAPS

\* A set of numbers that is not empty has a least one.
LEMMA LeastNat ==
    ASSUME NEW S, S \subseteq Nat, S # {}
    PROVE  Min(S) \in S /\ \A x \in S : Min(S) <= x
  <1> DEFINE R == OpToRel(<, Nat)
  <1>1. IsWellFoundedOn(R, Nat)
    BY NatLessThanWellFounded
  <1>2. \A x, y \in Nat : <<y, x>> \in R <=> y < x
    BY DEF OpToRel
  <1> HIDE DEF R
  <1>3. PICK x \in S : \A y \in S : ~ (<<y, x>> \in R)
    BY <1>1, WFMin
  <1>4. ASSUME NEW y \in S PROVE x <= y
    <2>1. ~ (<<y, x>> \in R) /\ x \in Nat /\ y \in Nat
      BY <1>3
    <2>2. ~ (y < x)
      BY <1>2, <2>1, Zenon
    <2> QED
      BY <2>1, <2>2
  <1>5. \E z \in S : \A y \in S : z <= y
    BY <1>4
  <1> QED
    BY <1>5 DEF Min

\* The first of several accesses that is bad is one of them, and those before it
\* are not.
LEMMA FirstBadIs ==
    ASSUME NEW n \in Nat, NEW bads, DOMAIN bads = 1..n
    PROVE  /\ FirstBad(bads) = "none" => \A k \in 1..n : bads[k] = "none"
           /\ FirstBad(bads) # "none" =>
                \E k \in 1..n : /\ bads[k] = FirstBad(bads)
                                /\ \A j \in 1..n : j < k => bads[j] = "none"
  <1> DEFINE S == {k \in DOMAIN bads : bads[k] # "none"}
  <1>1. FirstBad(bads) = IF S = {} THEN "none" ELSE bads[Min(S)]
    BY DEF FirstBad
  <1>2. S \subseteq Nat /\ S \subseteq 1..n
    OBVIOUS
  <1>3. S # {} => Min(S) \in S /\ \A x \in S : Min(S) <= x
    BY <1>2, LeastNat
  <1>4. ASSUME S # {}
        PROVE  /\ bads[Min(S)] # "none" /\ Min(S) \in 1..n
               /\ \A j \in 1..n : j < Min(S) => bads[j] = "none"
    <2>1. Min(S) \in S /\ Min(S) \in 1..n
      BY <1>2, <1>3, <1>4
    <2>2. ASSUME NEW j \in 1..n, j < Min(S), bads[j] # "none" PROVE FALSE
      <3>1. j \in S
        BY <2>2
      <3>2. Min(S) <= j
        BY <1>3, <1>4, <3>1
      <3> QED
        BY <2>1, <2>2, <3>2
    <2> QED
      BY <2>1, <2>2
  <1>5. S = {} => \A k \in 1..n : bads[k] = "none"
    OBVIOUS
  <1> HIDE DEF S
  <1> QED
    BY <1>1, <1>4, <1>5

-----------------------------------------------------------------------------
(* The types.                                                                *)

\* Where a creation is while its inode is counted, but not complete.
Between == {"growStats", "publishStats", "setStat", "growChildren", "addChild", "growData",
            "publishData", "setData"}
Creation == {"load", "store", "reply"} \cup Between
Reading == {"lookup", "getattr", "readdir", "read"}
Places == {"idle", "write", "copy", "length"} \cup Creation \cup Reading

Kinds == {"dir", "file"}
Modes == Kinds \cup {Unset}
Names == {"tmp", "assignment", "username", "features"} \cup NewName
Texts == [bytes : {UnsetBytes, NULL} \cup Nat, len : Nat]
Entries == [name : Names \cup {Unset}, parent : Nat, kind : Modes,
            children : Seq(Ino), text : Texts]
Ops == {"idle", "mkdir", "mknod", "write"} \cup Reading
Requests == [op : Ops, ino : Nat, name : Names \cup {NoName}, off : Nat, text : Nat]
Listings == [dir : Nat, off : Nat, seen : Seq(Int), grew : BOOLEAN,
             parts : BOOLEAN, ended : BOOLEAN]

TypedTables ==
    /\ file_count \in Nat /\ file_count >= 4
    /\ file_stats \in Seq(Modes) /\ Len(file_stats) <= 4 + MaxWork
    /\ data \in Seq(Entries) /\ Len(data) <= 4 + MaxWork
    /\ moving \subseteq {"stats", "data"}
TypedKernel ==
    /\ known \subseteq [ino : Ino, kind : Kinds] /\ large \subseteq FileKnown
    /\ work \in 0..MaxWork
    /\ listing \in Listings
    /\ listing.dir # 0 => listing.dir \in DirKnown
TypedWorkers ==
    /\ pc \in [Worker -> Places]
    /\ req \in [Worker -> Requests]
    /\ local \in [Worker -> 0..(4 + MaxWork)]

\* A thread is in the handler of its request, about an inode the kernel knows.
StepFits(w) ==
    /\ pc[w] = "idle" => req[w] = Idle
    /\ pc[w] \in Creation <=> Creates(req[w])
    /\ pc[w] \in Reading => req[w].op = pc[w]
    /\ pc[w] \in {"write", "copy", "length"} => req[w].op = "write"
    /\ OnDir(req[w]) => req[w].ino \in DirKnown
    /\ OnFile(req[w]) => req[w].ino \in FileKnown
    /\ pc[w] = "getattr" => req[w].ino \in DirKnown \cup FileKnown
    /\ pc[w] = "read" /\ req[w].off # 0 => req[w].ino \in Long
    /\ Creates(req[w]) => req[w].name \in NewName

\* The creations that have not counted their inode: none can count one too many.
Uncounted == {w \in Worker : pc[w] \in {"load", "store"}}
Counts ==
    /\ file_count + Cardinality(Uncounted) <= 4 + work
    /\ \A w \in Worker : pc[w] = "store" =>
         local[w] >= 4 /\ local[w] + Cardinality(Uncounted) <= 4 + work

\* The inductive invariant for the types.
TInv == TypedTables /\ TypedKernel /\ TypedWorkers /\ Counts /\ \A w \in Worker : StepFits(w)

LEMMA KnownIs ==
    /\ \A i : i \in DirKnown <=> \E k \in known : k.kind = "dir" /\ k.ino = i
    /\ \A i : i \in FileKnown <=> \E k \in known : k.kind = "file" /\ k.ino = i
  BY DEF DirKnown, FileKnown

LEMMA KnownGrows ==
    ASSUME known \subseteq known'
    PROVE  DirKnown \subseteq DirKnown' /\ FileKnown \subseteq FileKnown'
  BY DEF DirKnown, FileKnown

LEMMA KnownAre ==
    ASSUME TypedKernel
    PROVE  DirKnown \subseteq Ino /\ FileKnown \subseteq Ino
  BY DEF TypedKernel, DirKnown, FileKnown

LEMMA UncountedAreFinite ==
    /\ IsFiniteSet(Uncounted) /\ Cardinality(Uncounted) \in Nat
    /\ IsFiniteSet(Worker)
  <1>1. IsFiniteSet(Worker)
    BY FS_Interval, FileSystemAssumption DEF Worker
  <1>2. Uncounted \subseteq Worker
    BY DEF Uncounted
  <1> QED
    BY <1>1, <1>2, FS_Subset, FS_CardinalityType

\* As many inodes as there have been creations.
LEMMA CountsFit ==
    ASSUME TypedTables, TypedKernel, TypedWorkers, Counts
    PROVE  /\ file_count \in Ino /\ file_count <= 4 + work
           /\ \A w \in Worker : pc[w] = "store" => local[w] + 1 <= 4 + MaxWork
  <1>1. work \in Nat /\ MaxWork \in Nat /\ work <= MaxWork
    BY FileSystemAssumption DEF TypedKernel
  <1>2. ASSUME NEW w \in Worker, pc[w] = "store"
        PROVE  Cardinality(Uncounted) >= 1
    <2>1. w \in Uncounted
      BY <1>2 DEF Uncounted
    <2>2. Uncounted # {}
      BY <2>1
    <2>3. Cardinality(Uncounted) # 0
      BY <2>2, UncountedAreFinite, FS_EmptySet
    <2> QED
      BY <2>3, UncountedAreFinite
  <1>3. file_count \in Ino /\ file_count <= 4 + work
    BY <1>1, UncountedAreFinite DEF TypedTables, Counts, Ino
  <1>4. ASSUME NEW w \in Worker, pc[w] = "store"
        PROVE  local[w] + 1 <= 4 + MaxWork
    <2>1. local[w] + Cardinality(Uncounted) <= 4 + work /\ local[w] >= 4
      BY <1>4 DEF Counts
    <2>2. local[w] \in Nat
      BY FileSystemAssumption DEF TypedWorkers
    <2> QED
      BY <1>1, <1>2, <1>4, <2>1, <2>2, UncountedAreFinite
  <1> QED
    BY <1>3, <1>4

-----------------------------------------------------------------------------
(* What the steps do to the threads.                                         *)

\* A thread that stays where it is keeps what its place says.
LEMMA StepFitsStays ==
    ASSUME NEW v \in Worker, StepFits(v), pc'[v] = pc[v], req'[v] = req[v],
           known \subseteq known', large \subseteq large'
    PROVE  StepFits(v)'
  <1>1. DirKnown \subseteq DirKnown' /\ FileKnown \subseteq FileKnown' /\ Long \subseteq Long'
    BY KnownGrows DEF Long
  <1> QED
    BY <1>1 DEF StepFits, Creates, OnDir, OnFile

LEMMA GotoFits ==
    ASSUME TypedWorkers, \A v \in Worker : StepFits(v), NEW w \in Worker, NEW to, Goto(w, to),
           \/ pc[w] \in Creation /\ to \in Creation
           \/ pc[w] = "write" /\ to = "copy"
           \/ pc[w] = "copy" /\ to = "length",
           local' \in [Worker -> 0..(4 + MaxWork)],
           known \subseteq known', large \subseteq large'
    PROVE  TypedWorkers' /\ \A v \in Worker : StepFits(v)'
  <1>1. /\ pc' = [pc EXCEPT ![w] = to] /\ req' = req /\ pc'[w] = to
        /\ \A v \in Worker : v # w => pc'[v] = pc[v]
    BY DEF Goto, TypedWorkers
  <1>2. TypedWorkers'
    BY <1>1 DEF TypedWorkers, Places
  <1>3. ASSUME NEW v \in Worker, v # w PROVE StepFits(v)'
    BY <1>1, <1>3, StepFitsStays
  <1>4. StepFits(w)'
    <2>1. DirKnown \subseteq DirKnown' /\ FileKnown \subseteq FileKnown'
      BY KnownGrows
    <2>2. pc[w] \in Creation => Creates(req[w])
      BY DEF StepFits
    <2> QED
      BY <1>1, <2>1, <2>2 DEF StepFits, Creates, OnDir, OnFile, Creation, Between, Reading
  <1> QED
    BY <1>2, <1>3, <1>4

LEMMA IdleIs ==
    /\ Idle \in Requests /\ Idle.op = "idle" /\ Idle.ino = 0
    /\ ~Creates(Idle) /\ ~OnDir(Idle) /\ ~OnFile(Idle)
  BY DEF Idle, Ask, NoName, Requests, Ops, Names, Creates, OnDir, OnFile, Reading

LEMMA DoneFits ==
    ASSUME TypedWorkers, \A v \in Worker : StepFits(v), NEW w \in Worker, Done(w),
           known \subseteq known', large \subseteq large'
    PROVE  TypedWorkers' /\ \A v \in Worker : StepFits(v)'
  <1>1. /\ pc' = [pc EXCEPT ![w] = "idle"] /\ req' = [req EXCEPT ![w] = Idle]
        /\ local' = [local EXCEPT ![w] = 0]
        /\ pc'[w] = "idle" /\ req'[w] = Idle
        /\ \A v \in Worker : v # w => pc'[v] = pc[v] /\ req'[v] = req[v]
    BY DEF Done, TypedWorkers
  <1>2. TypedWorkers'
    BY <1>1, IdleIs, FileSystemAssumption DEF TypedWorkers, Places
  <1>3. ASSUME NEW v \in Worker, v # w PROVE StepFits(v)'
    BY <1>1, <1>3, StepFitsStays
  <1>4. StepFits(w)'
    BY <1>1, IdleIs DEF StepFits, Creates, OnDir, OnFile, Creation, Between, Reading
  <1> QED
    BY <1>2, <1>3, <1>4

\* A step that counts nothing.
LEMMA CountsStay ==
    ASSUME TInv, NEW w \in Worker, NEW to, pc' = [pc EXCEPT ![w] = to],
           pc[w] \notin {"load", "store"}, to \notin {"load", "store"},
           \A v \in Worker : v # w => local'[v] = local[v],
           file_count' = file_count, work' \in Nat, work' >= work
    PROVE  Counts'
  <1>1. \A v \in Worker : pc'[v] = IF v = w THEN to ELSE pc[v]
    BY DEF TInv, TypedWorkers
  <1>2. Uncounted' = Uncounted
    BY <1>1 DEF Uncounted
  <1>3. Cardinality(Uncounted) \in Nat /\ file_count \in Nat /\ work \in Nat
    BY UncountedAreFinite DEF TInv, TypedTables, TypedKernel
  <1>4. file_count' + Cardinality(Uncounted') <= 4 + work'
    BY <1>2, <1>3 DEF TInv, Counts
  <1>5. ASSUME NEW v \in Worker, pc'[v] = "store"
        PROVE  local'[v] >= 4 /\ local'[v] + Cardinality(Uncounted') <= 4 + work'
    <2>1. pc[v] = "store" /\ v # w
      BY <1>1, <1>5
    <2>2. local'[v] = local[v] /\ local[v] \in Nat
      BY <2>1, FileSystemAssumption DEF TInv, TypedWorkers
    <2>3. local[v] >= 4 /\ local[v] + Cardinality(Uncounted) <= 4 + work
      BY <2>1 DEF TInv, Counts
    <2> QED
      BY <1>2, <1>3, <2>2, <2>3
  <1> QED
    BY <1>4, <1>5 DEF Counts

LEMMA TablesSame ==
    ASSUME TypedTables, UNCHANGED tables
    PROVE  TypedTables'
  BY DEF TypedTables, tables

LEMMA KernelSame ==
    ASSUME TypedKernel, UNCHANGED kernel
    PROVE  TypedKernel' /\ known \subseteq known' /\ large \subseteq large' /\ work' = work
  BY DEF TypedKernel, kernel, DirKnown, FileKnown

-----------------------------------------------------------------------------
(* The types, step by step.                                                  *)

LEMMA LoadCountTypes ==
    ASSUME TInv, NEW w \in Worker, LoadCount(w)
    PROVE  TInv'
  <1>1. pc[w] = "load" /\ Goto(w, "store") /\ local' = [local EXCEPT ![w] = file_count]
        /\ UNCHANGED <<tables, kernel>>
    BY DEF LoadCount
  <1>2. TypedTables' /\ TypedKernel' /\ known \subseteq known' /\ large \subseteq large' /\ work' = work
        /\ file_count' = file_count
    BY <1>1, TablesSame, KernelSame DEF TInv, tables
  <1>3. file_count \in Ino /\ file_count <= 4 + work
    BY CountsFit DEF TInv
  <1>4. local' \in [Worker -> 0..(4 + MaxWork)]
    BY <1>1, <1>3 DEF TInv, TypedWorkers, Ino
  <1>5. TypedWorkers' /\ \A v \in Worker : StepFits(v)'
    <2>1. pc[w] \in Creation /\ "store" \in Creation
      BY <1>1 DEF Creation
    <2>2. TypedWorkers /\ \A v \in Worker : StepFits(v)
      BY DEF TInv
    <2>3. Goto(w, "store") /\ known \subseteq known' /\ large \subseteq large'
      BY <1>1, <1>2
    <2> QED
      BY <1>4, <2>1, <2>2, <2>3, GotoFits
  <1>6. \A v \in Worker : pc'[v] = IF v = w THEN "store" ELSE pc[v]
    BY <1>1 DEF TInv, TypedWorkers, Goto
  <1>7. Uncounted' = Uncounted
    BY <1>1, <1>6 DEF Uncounted
  <1>8. Counts'
    <2>1. file_count + Cardinality(Uncounted) <= 4 + work /\ file_count >= 4
      BY DEF TInv, Counts, TypedTables
    <2>2. \A v \in Worker : local'[v] = IF v = w THEN file_count ELSE local[v]
      BY <1>1 DEF TInv, TypedWorkers
    <2> QED
      BY <1>2, <1>6, <1>7, <2>1, <2>2 DEF Counts, TInv
  <1> QED
    BY <1>2, <1>5, <1>8 DEF TInv

LEMMA StoreCountTypes ==
    ASSUME TInv, NEW w \in Worker, StoreCount(w)
    PROVE  TInv'
  <1>1. pc[w] = "store" /\ Goto(w, "growStats") /\ file_count' = local[w] + 1
        /\ UNCHANGED <<file_stats, data, moving, local>> /\ UNCHANGED kernel
    BY DEF StoreCount, Counted
  <1>2. TypedKernel' /\ known \subseteq known' /\ large \subseteq large' /\ work' = work
    BY <1>1, KernelSame DEF TInv
  <1>3. local[w] \in Nat /\ local[w] >= 4 /\ local[w] + Cardinality(Uncounted) <= 4 + work
    <2>1. local[w] \in Nat
      BY FileSystemAssumption DEF TInv, TypedWorkers
    <2> QED
      BY <1>1, <2>1 DEF TInv, Counts
  <1>4. TypedTables'
    BY <1>1, <1>3 DEF TInv, TypedTables
  <1>5. TypedWorkers' /\ \A v \in Worker : StepFits(v)'
    BY <1>1, <1>2, GotoFits DEF TInv, Creation, Between, TypedWorkers
  <1>6. \A v \in Worker : pc'[v] = IF v = w THEN "growStats" ELSE pc[v]
    BY <1>1 DEF TInv, TypedWorkers, Goto
  <1>7. Uncounted' = Uncounted \ {w} /\ w \in Uncounted
    BY <1>1, <1>6 DEF Uncounted
  <1>8. Cardinality(Uncounted') = Cardinality(Uncounted) - 1 /\ Cardinality(Uncounted) \in Nat
    BY <1>7, UncountedAreFinite, FS_RemoveElement
  <1>9. Counts'
    <2>1. work \in Nat
      BY DEF TInv, TypedKernel
    <2>2. ASSUME NEW v \in Worker, pc'[v] = "store"
          PROVE  local'[v] >= 4 /\ local'[v] + Cardinality(Uncounted') <= 4 + work'
      <3>1. pc[v] = "store" /\ local'[v] = local[v]
        BY <1>1, <1>6, <2>2
      <3>2. local[v] \in Nat /\ local[v] >= 4 /\ local[v] + Cardinality(Uncounted) <= 4 + work
        BY <3>1, FileSystemAssumption DEF TInv, TypedWorkers, Counts
      <3> QED
        BY <1>2, <1>8, <2>1, <3>1, <3>2
    <2>3. file_count' + Cardinality(Uncounted') <= 4 + work'
      BY <1>1, <1>2, <1>3, <1>8, <2>1
    <2> QED
      BY <2>2, <2>3 DEF Counts
  <1> QED
    BY <1>2, <1>4, <1>5, <1>9 DEF TInv

\* The steps of a creation after it has counted, from what they do to the tables.
LEMMA TableStepTypes ==
    ASSUME TInv, NEW w \in Worker, NEW to, Goto(w, to), UNCHANGED kernel,
           pc[w] \in Between, to \in Between \cup {"reply"}, file_count' = file_count,
           local' \in [Worker -> 0..(4 + MaxWork)], \A v \in Worker : v # w => local'[v] = local[v],
           file_stats' \in Seq(Modes) /\ Len(file_stats') <= 4 + MaxWork,
           data' \in Seq(Entries) /\ Len(data') <= 4 + MaxWork,
           moving' \subseteq {"stats", "data"}
    PROVE  TInv'
  <1>1. TypedTables'
    BY DEF TInv, TypedTables
  <1>2. TypedKernel' /\ known \subseteq known' /\ large \subseteq large' /\ work' = work
    BY KernelSame DEF TInv
  <1>3. TypedWorkers' /\ \A v \in Worker : StepFits(v)'
    BY <1>2, GotoFits DEF TInv, Creation
  <1>4. Counts'
    <2>1. work' \in Nat /\ work' >= work
      BY <1>2 DEF TInv, TypedKernel
    <2>2. pc' = [pc EXCEPT ![w] = to]
      BY DEF Goto
    <2>3. pc[w] \notin {"load", "store"} /\ to \notin {"load", "store"}
      BY DEF Between
    <2> QED
      BY <2>1, <2>2, <2>3, CountsStay
  <1> QED
    BY <1>1, <1>2, <1>3, <1>4 DEF TInv

\* What realloc leaves in a table.
LEMMA ResizedIs ==
    ASSUME NEW S, NEW t \in Seq(S), NEW n \in Nat, NEW u \in S
    PROVE  /\ Resized(t, n, u) \in Seq(S) /\ Len(Resized(t, n, u)) = n
           /\ \A i \in 1..n : Resized(t, n, u)[i] = IF i <= Len(t) THEN t[i] ELSE u
  <1>1. Resized(t, n, u) = [i \in 1..n |-> IF i <= Len(t) THEN t[i] ELSE u]
    BY DEF Resized
  <1>2. \A i \in 1..n : (IF i <= Len(t) THEN t[i] ELSE u) \in S
    OBVIOUS
  <1>3. [i \in 1..n |-> IF i <= Len(t) THEN t[i] ELSE u] \in Seq(S)
    BY <1>2
  <1> QED
    BY <1>1, <1>3

\* Entries, and what a child, a text or a new entry makes of them.
LEMMA EntryTypes ==
    /\ UnsetEntry \in Entries /\ UnsetEntry.name = Unset /\ UnsetEntry.children = <<>>
    /\ \A n \in Names, p \in Nat, k \in Kinds, t \in Texts :
         /\ Entry(n, p, k, <<>>, t) \in Entries
         /\ Entry(n, p, k, <<>>, t).name = n /\ Entry(n, p, k, <<>>, t).parent = p
         /\ Entry(n, p, k, <<>>, t).kind = k /\ Entry(n, p, k, <<>>, t).children = <<>>
         /\ Entry(n, p, k, <<>>, t).text = t
  <1>1. UnsetText \in Texts
    BY DEF UnsetText, Text, Texts
  <1> QED
    BY <1>1 DEF Entries, UnsetEntry, Entry, Modes

LEMMA AppendedChild ==
    ASSUME NEW e \in Entries, NEW c \in Ino
    PROVE  /\ [e EXCEPT !.children = Append(@, c)] \in Entries
           /\ [e EXCEPT !.children = Append(@, c)].children = Append(e.children, c)
           /\ [e EXCEPT !.children = Append(@, c)].name = e.name
           /\ [e EXCEPT !.children = Append(@, c)].parent = e.parent
           /\ [e EXCEPT !.children = Append(@, c)].kind = e.kind
           /\ [e EXCEPT !.children = Append(@, c)].text = e.text
  <1>1. e.children \in Seq(Ino)
    BY DEF Entries
  <1>2. Append(e.children, c) \in Seq(Ino)
    BY <1>1
  <1> QED
    BY <1>2 DEF Entries

LEMMA ChangedText ==
    ASSUME NEW e \in Entries, NEW t \in Texts
    PROVE  /\ [e EXCEPT !.text = t] \in Entries /\ [e EXCEPT !.text = t].text = t
           /\ [e EXCEPT !.text = t].name = e.name /\ [e EXCEPT !.text = t].parent = e.parent
           /\ [e EXCEPT !.text = t].kind = e.kind
           /\ [e EXCEPT !.text = t].children = e.children
  BY DEF Entries

\* An entry of a table is changed.
LEMMA ChangedAt ==
    ASSUME NEW S, NEW t \in Seq(S), NEW i \in 1..Len(t), NEW e \in S
    PROVE  /\ [t EXCEPT ![i] = e] \in Seq(S) /\ Len([t EXCEPT ![i] = e]) = Len(t)
           /\ [t EXCEPT ![i] = e][i] = e
           /\ \A j \in 1..Len(t) : j # i => [t EXCEPT ![i] = e][j] = t[j]
  OBVIOUS

\* An access that is not bad is of an entry that there is.
LEMMA GoodAccess ==
    ASSUME TypedTables, NEW i \in Nat
    PROVE  /\ BadStat(i) \in {"none", "freed", "overflow"}
           /\ BadData(i) \in {"none", "freed", "overflow", "unset"}
           /\ Bad("data", Len(data), i) = "none" => "data" \notin moving /\ i <= Len(data)
           /\ BadStat(i) = "none" => "stats" \notin moving /\ i <= Len(file_stats)
           /\ BadData(i) = "none" => /\ "data" \notin moving /\ i <= Len(data)
                                     /\ data[i].name # Unset
  <1>1. Len(data) \in Nat /\ Len(file_stats) \in Nat
    BY DEF TypedTables
  <1> QED
    BY <1>1 DEF BadStat, BadData, Bad


LEMMA GrowTypes ==
    ASSUME TInv, NEW w \in Worker, NEW where, NEW tbl, NEW then, Grow(w, where, tbl, then),
           where \in Between, then \in Between, tbl \in {"stats", "data"}, fault' = "none"
    PROVE  TInv'
  <1>1. /\ moving' = moving \cup {tbl} /\ local' = [local EXCEPT ![w] = file_count]
        /\ Goto(w, then) /\ UNCHANGED <<file_count, file_stats, data, kernel>> /\ pc[w] = where
    BY DEF Grow, Unless, Room
  <1>2. file_count \in Ino
    BY CountsFit DEF TInv
  <1>3. /\ local' \in [Worker -> 0..(4 + MaxWork)]
        /\ \A v \in Worker : v # w => local'[v] = local[v]
    BY <1>1, <1>2 DEF TInv, TypedWorkers, Ino
  <1>4. /\ file_stats' \in Seq(Modes) /\ Len(file_stats') <= 4 + MaxWork
        /\ data' \in Seq(Entries) /\ Len(data') <= 4 + MaxWork
        /\ moving' \subseteq {"stats", "data"}
    BY <1>1 DEF TInv, TypedTables
  <1> QED
    BY <1>1, <1>3, <1>4, TableStepTypes

LEMMA PublishTypes ==
    ASSUME TInv, NEW w \in Worker, PublishStats(w) \/ PublishData(w)
    PROVE  TInv'
  <1>1. PICK n \in Nat : n = local[w] /\ n <= 4 + MaxWork
    BY FileSystemAssumption DEF TInv, TypedWorkers
  <1>2. /\ Resized(file_stats, n, Unset) \in Seq(Modes)
        /\ Len(Resized(file_stats, n, Unset)) = n
    <2>1. file_stats \in Seq(Modes) /\ Unset \in Modes
      BY DEF TInv, TypedTables, Modes
    <2> QED
      BY <2>1, ResizedIs
  <1>3. /\ Resized(data, n, UnsetEntry) \in Seq(Entries)
        /\ Len(Resized(data, n, UnsetEntry)) = n
    <2>1. data \in Seq(Entries) /\ UnsetEntry \in Entries
      BY EntryTypes DEF TInv, TypedTables
    <2> QED
      BY <2>1, ResizedIs
  <1>4. /\ file_stats' \in Seq(Modes) /\ Len(file_stats') <= 4 + MaxWork
        /\ data' \in Seq(Entries) /\ Len(data') <= 4 + MaxWork
        /\ moving' \subseteq {"stats", "data"} /\ UNCHANGED <<file_count, local, kernel>>
    BY <1>1, <1>2, <1>3 DEF PublishStats, PublishData, TInv, TypedTables
  <1>5. local' \in [Worker -> 0..(4 + MaxWork)]
    BY <1>4 DEF TInv, TypedWorkers
  <1>6. CASE PublishStats(w)
    <2>1. pc[w] \in Between /\ Goto(w, "setStat") /\ "setStat" \in Between \cup {"reply"}
      BY <1>6 DEF PublishStats, Between
    <2> QED
      BY <1>4, <1>5, <2>1, TableStepTypes
  <1>7. CASE PublishData(w)
    <2>1. pc[w] \in Between /\ Goto(w, "setData") /\ "setData" \in Between \cup {"reply"}
      BY <1>7 DEF PublishData, Between
    <2> QED
      BY <1>4, <1>5, <2>1, TableStepTypes
  <1> QED
    BY <1>6, <1>7

LEMMA SetStatTypes ==
    ASSUME TInv, NEW w \in Worker, SetStat(w), fault' = "none"
    PROVE  TInv'
  <1>1. /\ file_stats' = [file_stats EXCEPT ![file_count] = Kind(req[w])]
        /\ Goto(w, "growChildren") /\ UNCHANGED <<file_count, data, moving, local, kernel>>
        /\ pc[w] = "setStat" /\ BadStat(file_count) = "none"
    BY DEF SetStat, Unless
  <1>2. file_count \in 1..Len(file_stats) /\ Kind(req[w]) \in Modes
    BY <1>1, GoodAccess DEF TInv, TypedTables, Kind, Kinds, Modes
  <1>3. file_stats' \in Seq(Modes) /\ Len(file_stats') = Len(file_stats)
    BY <1>1, <1>2, ChangedAt DEF TInv, TypedTables
  <1>4. /\ Len(file_stats') <= 4 + MaxWork /\ data' \in Seq(Entries) /\ Len(data') <= 4 + MaxWork
        /\ moving' \subseteq {"stats", "data"} /\ local' \in [Worker -> 0..(4 + MaxWork)]
    BY <1>1, <1>3 DEF TInv, TypedTables, TypedWorkers
  <1>5. pc[w] \in Between /\ "growChildren" \in Between \cup {"reply"}
    BY <1>1 DEF Between
  <1> QED
    BY <1>1, <1>3, <1>4, <1>5, TableStepTypes

\* The steps that change one entry.
LEMMA DataStepTypes ==
    ASSUME TInv, NEW w \in Worker, NEW i \in Nat \ {0}, NEW e \in Entries, i <= Len(data),
           data' = [data EXCEPT ![i] = e]
    PROVE  /\ data' \in Seq(Entries) /\ Len(data') = Len(data) /\ Len(data') <= 4 + MaxWork
           /\ data'[i] = e /\ \A j \in 1..Len(data) : j # i => data'[j] = data[j]
  <1>1. data \in Seq(Entries) /\ Len(data) \in Nat /\ Len(data) <= 4 + MaxWork
    BY DEF TInv, TypedTables
  <1>2. i \in 1..Len(data)
    BY <1>1
  <1> QED
    BY <1>1, <1>2, ChangedAt

LEMMA GrowChildrenTypes ==
    ASSUME TInv, NEW w \in Worker, GrowChildren(w), fault' = "none"
    PROVE  TInv'
  <1>1. /\ Goto(w, "addChild") /\ UNCHANGED <<tables, local, kernel>> /\ pc[w] = "growChildren"
    BY DEF GrowChildren, Unless
  <1>2. UNCHANGED <<file_count, file_stats, data, moving, local>>
    BY <1>1 DEF tables
  <1>3. /\ file_stats' \in Seq(Modes) /\ Len(file_stats') <= 4 + MaxWork
        /\ data' \in Seq(Entries) /\ Len(data') <= 4 + MaxWork
        /\ moving' \subseteq {"stats", "data"} /\ local' \in [Worker -> 0..(4 + MaxWork)]
    BY <1>2 DEF TInv, TypedTables, TypedWorkers
  <1>4. pc[w] \in Between /\ "addChild" \in Between \cup {"reply"}
    BY <1>1 DEF Between
  <1> QED
    BY <1>1, <1>2, <1>3, <1>4, TableStepTypes

LEMMA AddChildTypes ==
    ASSUME TInv, NEW w \in Worker, AddChild(w), fault' = "none"
    PROVE  TInv'
  <1>1. /\ data' = [data EXCEPT ![req[w].ino].children = Append(@, file_count)]
        /\ Goto(w, "growData") /\ UNCHANGED <<file_count, file_stats, moving, local, kernel>>
        /\ pc[w] = "addChild" /\ BadData(req[w].ino) = "none"
    BY DEF AddChild, Unless, Child
  <1>2. req[w].ino \in Ino
    BY <1>1, KnownAre DEF TInv, StepFits, Creation, Between, OnDir
  <1>3. req[w].ino \in Nat \ {0} /\ req[w].ino <= Len(data)
    BY <1>1, <1>2, GoodAccess DEF TInv, Ino
  <1>4. data[req[w].ino] \in Entries /\ file_count \in Ino
    BY <1>3, CountsFit DEF TInv, TypedTables
  <1>5. data' = [data EXCEPT ![req[w].ino] = [data[req[w].ino] EXCEPT !.children = Append(@, file_count)]]
    BY <1>1
  <1>6. [data[req[w].ino] EXCEPT !.children = Append(@, file_count)] \in Entries
    BY <1>4, AppendedChild
  <1>7. data' \in Seq(Entries) /\ Len(data') <= 4 + MaxWork
    BY <1>3, <1>5, <1>6, DataStepTypes
  <1>8. /\ file_stats' \in Seq(Modes) /\ Len(file_stats') <= 4 + MaxWork
        /\ moving' \subseteq {"stats", "data"} /\ local' \in [Worker -> 0..(4 + MaxWork)]
    BY <1>1 DEF TInv, TypedTables, TypedWorkers
  <1>9. pc[w] \in Between /\ "growData" \in Between \cup {"reply"}
    BY <1>1 DEF Between
  <1> QED
    BY <1>1, <1>7, <1>8, <1>9, TableStepTypes

LEMMA SetDataTypes ==
    ASSUME TInv, NEW w \in Worker, SetData(w), fault' = "none"
    PROVE  TInv'
  <1> DEFINE text == IF req[w].op = "mkdir" THEN data[file_count].text ELSE NoText
             e == Entry(req[w].name, req[w].ino, Kind(req[w]), <<>>, text)
  <1>1. /\ data' = [data EXCEPT ![file_count] = e]
        /\ Goto(w, "reply") /\ UNCHANGED <<file_count, file_stats, moving, local, kernel>>
        /\ pc[w] = "setData" /\ Bad("data", Len(data), file_count) = "none"
    BY DEF SetData, Unless
  <1>2. file_count \in Ino /\ file_count <= Len(data) /\ file_count \in Nat \ {0}
    BY <1>1, GoodAccess, CountsFit DEF TInv, TypedTables
  <1>3. data[file_count] \in Entries
    BY <1>2 DEF TInv, TypedTables
  <1>4. text \in Texts
    BY <1>3 DEF Entries, Texts, NoText, Text
  <1>5. req[w].name \in Names /\ req[w].ino \in Nat /\ Kind(req[w]) \in Kinds
    BY <1>1 DEF TInv, StepFits, TypedWorkers, Requests, Names, Creation, Between, Kind, Kinds
  <1>6. e \in Entries
    <2> HIDE DEF text
    <2> QED
      BY <1>4, <1>5, EntryTypes
  <1>7. data' \in Seq(Entries) /\ Len(data') <= 4 + MaxWork
    <2> HIDE DEF e
    <2> QED
      BY <1>1, <1>2, <1>6, DataStepTypes
  <1>8. /\ file_stats' \in Seq(Modes) /\ Len(file_stats') <= 4 + MaxWork
        /\ moving' \subseteq {"stats", "data"} /\ local' \in [Worker -> 0..(4 + MaxWork)]
    BY <1>1 DEF TInv, TypedTables, TypedWorkers
  <1>9. pc[w] \in Between /\ "reply" \in Between \cup {"reply"}
    BY <1>1 DEF Between
  <1> QED
    BY <1>1, <1>7, <1>8, <1>9, TableStepTypes

\* The steps that end a request and leave the tables alone, from what they do to
\* what the kernel keeps.
LEMMA LastStepTypes ==
    ASSUME TInv, NEW w \in Worker, Done(w), pc[w] \notin {"load", "store"},
           TypedTables', TypedKernel', file_count' = file_count, work' = work,
           known \subseteq known', large \subseteq large'
    PROVE  TInv'
  <1>1. TypedWorkers' /\ \A v \in Worker : StepFits(v)'
    BY DoneFits DEF TInv
  <1>2. /\ pc' = [pc EXCEPT ![w] = "idle"] /\ work' \in Nat /\ work' >= work
        /\ \A v \in Worker : v # w => local'[v] = local[v]
    BY DEF Done, TInv, TypedKernel, TypedWorkers
  <1>3. Counts'
    <2>1. "idle" \notin {"load", "store"}
      OBVIOUS
    <2> QED
      BY <1>2, <2>1, CountsStay
  <1> QED
    BY <1>1, <1>3 DEF TInv

\* The kernel is told of an inode whose attributes there are.
LEMMA TellTypes ==
    ASSUME TInv, NEW i \in Ino, i <= Len(file_stats), Tell(i)
    PROVE  TypedKernel' /\ known \subseteq known' /\ large' = large /\ work' = work
  <1>1. file_stats[i] = Unset \/ file_stats[i] \in Kinds
    BY DEF TInv, TypedTables, Ino, Modes
  <1>2. known' \subseteq [ino : Ino, kind : Kinds] /\ known \subseteq known'
    BY <1>1 DEF Tell, TInv, TypedKernel
  <1>3. DirKnown \subseteq DirKnown' /\ FileKnown \subseteq FileKnown'
    BY <1>2, KnownGrows
  <1> QED
    BY <1>2, <1>3 DEF Tell, TInv, TypedKernel

LEMMA ReplyTypes ==
    ASSUME TInv, NEW w \in Worker, Reply(w), fault' = "none"
    PROVE  TInv'
  <1>1. /\ Tell(file_count) /\ Done(w) /\ UNCHANGED tables
        /\ pc[w] = "reply" /\ BadStat(file_count) = "none"
    BY DEF Reply, Unless
  <1>2. file_count \in Ino /\ file_count <= Len(file_stats)
    BY <1>1, GoodAccess, CountsFit DEF TInv, TypedTables
  <1>3. TypedKernel' /\ known \subseteq known' /\ large' = large /\ work' = work
    BY <1>1, <1>2, TellTypes
  <1>4. TypedTables' /\ file_count' = file_count
    BY <1>1, TablesSame DEF TInv, tables
  <1> QED
    BY <1>1, <1>3, <1>4, LastStepTypes

\* The children of an inode are a sequence of inodes, if it has an entry.
LEMMA ChildrenAre ==
    ASSUME TypedTables, NEW i \in Nat \ {0}
    PROVE  /\ ChildrenOf(i) \in Seq(Ino)
           /\ i <= Len(data) => ChildrenOf(i) = data[i].children
           /\ \A k \in 1..Len(ChildrenOf(i)) : ChildrenOf(i)[k] \in Ino
           /\ DOMAIN ChildrenOf(i) = 1..Len(ChildrenOf(i)) /\ Len(ChildrenOf(i)) \in Nat
  <1>1. ChildrenOf(i) \in Seq(Ino)
    <2>1. CASE i <= Len(data)
      <3>1. data[i] \in Entries
        BY <2>1 DEF TypedTables
      <3> QED
        BY <2>1, <3>1 DEF ChildrenOf, Entries
    <2>2. CASE ~(i <= Len(data))
      BY <2>2 DEF ChildrenOf
    <2> QED
      BY <2>1, <2>2
  <1>2. i <= Len(data) => ChildrenOf(i) = data[i].children
    BY DEF ChildrenOf
  <1> HIDE DEF ChildrenOf
  <1> QED
    BY <1>1, <1>2

\* Lookup's first child of the name, if there is one.
FoundIn(d, name) == {k \in DOMAIN ChildrenOf(d) : NameOf(ChildrenOf(d)[k]) = name}

LEMMA FoundIs ==
    ASSUME TypedTables, NEW d \in Nat \ {0}, NEW name, FoundIn(d, name) # {}
    PROVE  /\ Min(FoundIn(d, name)) \in 1..Len(ChildrenOf(d))
           /\ NameOf(ChildrenOf(d)[Min(FoundIn(d, name))]) = name
           /\ ChildrenOf(d)[Min(FoundIn(d, name))] \in Ino
  <1>1. FoundIn(d, name) \subseteq 1..Len(ChildrenOf(d))
    BY ChildrenAre DEF FoundIn
  <1>2. Min(FoundIn(d, name)) \in FoundIn(d, name)
    BY <1>1, LeastNat
  <1> QED
    BY <1>1, <1>2, ChildrenAre DEF FoundIn

\* What may be wrong when the children are compared.
ComparedBad(d, name) ==
    FirstBad(<<BadData(d), BadList(d)>> \o SubSeq(BadChildren(d), 1,
               IF FoundIn(d, name) = {} THEN Len(ChildrenOf(d)) ELSE Min(FoundIn(d, name))))

LEMMA LookupIs ==
    ASSUME NEW w \in Worker, Lookup(w), NEW d, d = req[w].ino, NEW name, name = req[w].name
    PROVE  /\ pc[w] = "lookup"
           /\ \/ /\ FoundIn(d, name) = {}
                 /\ Unless(ComparedBad(d, name), Done(w) /\ UNCHANGED <<tables, kernel>>)
              \/ /\ FoundIn(d, name) # {}
                 /\ Unless(FirstBad(<<ComparedBad(d, name), BadStat(ChildrenOf(d)[Min(FoundIn(d, name))])>>),
                      /\ Tell(ChildrenOf(d)[Min(FoundIn(d, name))])
                      /\ Done(w) /\ UNCHANGED tables)
  BY DEF Lookup, FoundIn, ComparedBad

LEMMA FirstOfTwo ==
    ASSUME NEW a, NEW b
    PROVE  /\ FirstBad(<<a, b>>) = "none" => a = "none" /\ b = "none"
           /\ FirstBad(<<a, b>>) # "none" =>
                FirstBad(<<a, b>>) = a \/ (FirstBad(<<a, b>>) = b /\ a = "none")
  <1>1. PICK s : s = <<a, b>>
    OBVIOUS
  <1>2. DOMAIN s = 1..2 /\ s[1] = a /\ s[2] = b
    BY <1>1
  <1>3. 1 \in 1..2 /\ 2 \in 1..2 /\ 1 < 2 /\ \A k \in 1..2 : k = 1 \/ k = 2
    OBVIOUS
  <1>4. /\ FirstBad(s) = "none" => \A k \in 1..2 : s[k] = "none"
        /\ FirstBad(s) # "none" =>
             \E k \in 1..2 : /\ s[k] = FirstBad(s)
                             /\ \A j \in 1..2 : j < k => s[j] = "none"
    BY <1>2, FirstBadIs
  <1>5. ASSUME NEW f, f = FirstBad(s), f # "none" PROVE f = a \/ (f = b /\ a = "none")
    <2>1. PICK k \in 1..2 : s[k] = f /\ \A j \in 1..2 : j < k => s[j] = "none"
      BY <1>4, <1>5
    <2>2. CASE k = 1
      BY <1>2, <2>1, <2>2
    <2>3. CASE k = 2
      BY <1>2, <1>3, <2>1, <2>3
    <2> QED
      BY <1>3, <2>2, <2>3
  <1> QED
    BY <1>1, <1>2, <1>3, <1>4, <1>5

LEMMA LookupTypes ==
    ASSUME TInv, NEW w \in Worker, Lookup(w), fault' = "none"
    PROVE  TInv'
  <1>1. PICK d, name : d = req[w].ino /\ name = req[w].name
    OBVIOUS
  <1>2. pc[w] = "lookup" /\ pc[w] \notin {"load", "store"}
    BY <1>1, LookupIs
  <1>3. d \in Ino /\ d \in Nat \ {0}
    BY <1>1, <1>2, KnownAre DEF TInv, StepFits, Reading, OnDir, Ino
  <1>4. CASE FoundIn(d, name) = {}
    <2>1. Done(w) /\ UNCHANGED <<tables, kernel>>
      BY <1>1, <1>4, LookupIs DEF Unless
    <2>2. TypedTables' /\ file_count' = file_count
      BY <2>1, TablesSame DEF TInv, tables
    <2>3. TypedKernel' /\ known \subseteq known' /\ large \subseteq large' /\ work' = work
      BY <2>1, KernelSame DEF TInv
    <2> QED
      BY <1>2, <2>1, <2>2, <2>3, LastStepTypes
  <1>5. CASE FoundIn(d, name) # {}
    <2>1. PICK c : c = ChildrenOf(d)[Min(FoundIn(d, name))]
      OBVIOUS
    <2>2. PICK bad : bad = ComparedBad(d, name)
      OBVIOUS
    <2>3. Unless(FirstBad(<<bad, BadStat(c)>>), Tell(c) /\ Done(w) /\ UNCHANGED tables)
      BY <1>1, <1>5, <2>1, <2>2, LookupIs
    <2>4. FirstBad(<<bad, BadStat(c)>>) = "none" /\ Tell(c) /\ Done(w) /\ UNCHANGED tables
      BY <2>3 DEF Unless
    <2>5. c \in Ino /\ BadStat(c) = "none"
      BY <1>3, <1>5, <2>1, <2>4, FirstOfTwo, FoundIs DEF TInv
    <2>6. c <= Len(file_stats)
      BY <2>5, GoodAccess DEF TInv, Ino
    <2>7. TypedKernel' /\ known \subseteq known' /\ large' = large /\ work' = work
      BY <2>4, <2>5, <2>6, TellTypes
    <2>8. TypedTables' /\ file_count' = file_count
      BY <2>4, TablesSame DEF TInv, tables
    <2> QED
      BY <1>2, <2>4, <2>7, <2>8, LastStepTypes
  <1> QED
    BY <1>4, <1>5

LEMMA GetattrReadTypes ==
    ASSUME TInv, NEW w \in Worker, Getattr(w) \/ Read(w), fault' = "none"
    PROVE  TInv'
  <1>1. Done(w) /\ UNCHANGED <<tables, kernel>> /\ pc[w] \notin {"load", "store"}
    BY DEF Getattr, Read, Unless
  <1>2. TypedTables' /\ file_count' = file_count
    BY <1>1, TablesSame DEF TInv, tables
  <1>3. TypedKernel' /\ known \subseteq known' /\ large \subseteq large' /\ work' = work
    BY <1>1, KernelSame DEF TInv
  <1> QED
    BY <1>1, <1>2, <1>3, LastStepTypes

\* What the last answer of readdir does to a listing.
LEMMA ListingEnds ==
    ASSUME NEW r \in Listings, NEW q, q = [r EXCEPT !.ended = TRUE]
    PROVE  /\ q \in Listings /\ q.dir = r.dir /\ q.off = r.off /\ q.seen = r.seen
           /\ q.grew = r.grew /\ q.parts = r.parts /\ q.ended
  BY DEF Listings

LEMMA AnsweredIs ==
    ASSUME TypedTables, NEW d \in Nat \ {0}, NEW off \in Nat
    PROVE  /\ Answered(d, off) \in Seq(Int)
           /\ Len(Answered(d, off)) \in Nat
           /\ Len(Answered(d, off)) <= Len(ChildrenOf(d)) + 2
           /\ off # 0 => Len(Answered(d, off)) <= Len(ChildrenOf(d)) + 1
           /\ off = 0 => Answered(d, off) = <<Dot, DotDot>> \o ChildrenOf(d)
  <1>1. PICK cs : cs = ChildrenOf(d)
    OBVIOUS
  <1>2. cs \in Seq(Int) /\ Len(cs) \in Nat
    <2>1. cs \in Seq(Ino) /\ Len(cs) \in Nat
      BY <1>1, ChildrenAre
    <2>2. \A k \in 1..Len(cs) : cs[k] \in Int
      <3>1. \A k \in 1..Len(cs) : cs[k] \in Ino
        BY <2>1
      <3> QED
        BY <3>1 DEF Ino
    <2>3. cs = [k \in 1..Len(cs) |-> cs[k]]
      BY <2>1
    <2>4. [k \in 1..Len(cs) |-> cs[k]] \in Seq(Int)
      BY <2>1, <2>2
    <2> QED
      BY <2>1, <2>3, <2>4
  <1>3. PICK a, b : a = (IF off < 1 THEN <<Dot>> ELSE <<>>) /\ b = (IF off < 2 THEN <<DotDot>> ELSE <<>>)
    OBVIOUS
  <1>4. a \in Seq(Int) /\ b \in Seq(Int) /\ Len(a) <= 1 /\ Len(b) <= 1 /\ Len(a) \in Nat /\ Len(b) \in Nat
    BY <1>3 DEF Dot, DotDot
  <1>5. Answered(d, off) = (a \o b) \o cs
    BY <1>1, <1>3 DEF Answered
  <1>6. a \o b \in Seq(Int) /\ Len(a \o b) = Len(a) + Len(b)
    BY <1>4
  <1>7. (a \o b) \o cs \in Seq(Int) /\ Len((a \o b) \o cs) = Len(a) + Len(b) + Len(cs)
    <2>1. PICK ab : ab = a \o b
      OBVIOUS
    <2>2. ab \in Seq(Int) /\ Len(ab) = Len(a) + Len(b)
      BY <1>6, <2>1
    <2>3. ab \o cs \in Seq(Int) /\ Len(ab \o cs) = Len(ab) + Len(cs)
      BY <1>2, <2>2
    <2> QED
      BY <2>1, <2>2, <2>3
  <1>8. ASSUME off = 0 PROVE Answered(d, off) = <<Dot, DotDot>> \o cs
    <2>1. a = <<Dot>> /\ b = <<DotDot>>
      BY <1>3, <1>8
    <2>2. PICK ab : ab = <<Dot, DotDot>>
      OBVIOUS
    <2>3. ab \in Seq(Int) /\ Len(ab) = 2 /\ ab[1] = Dot /\ ab[2] = DotDot
      BY <2>2 DEF Dot, DotDot
    <2>4. Len(a) = 1 /\ a[1] = Dot /\ Len(b) = 1 /\ b[1] = DotDot
      BY <2>1
    <2>5. Len(a \o b) = 2 /\ (a \o b)[1] = Dot /\ (a \o b)[2] = DotDot
      BY <1>4, <1>6, <2>4
    <2>6. \A k \in 1..2 : (a \o b)[k] = ab[k]
      BY <2>3, <2>5
    <2>7. a \o b = ab
      BY <1>6, <2>3, <2>5, <2>6, SeqEqual
    <2> QED
      BY <1>5, <2>2, <2>7
  <1>9. Answered(d, off) \in Seq(Int) /\ Len(Answered(d, off)) = Len(a) + Len(b) + Len(cs)
    BY <1>5, <1>7
  <1>10. Len(a) + Len(b) + Len(cs) <= Len(cs) + 2 /\ Len(a) + Len(b) + Len(cs) \in Nat
        /\ (off # 0 => Len(a) + Len(b) + Len(cs) <= Len(cs) + 1)
    <2>1. off # 0 => Len(a) = 0
      BY <1>3
    <2> QED
      BY <1>2, <1>4, <2>1
  <1>11. /\ Answered(d, off) \in Seq(Int) /\ Len(Answered(d, off)) \in Nat
         /\ Len(Answered(d, off)) <= Len(cs) + 2
         /\ off # 0 => Len(Answered(d, off)) <= Len(cs) + 1
    <2>1. PICK z : z = Len(a) + Len(b) + Len(cs)
      OBVIOUS
    <2>2. z <= Len(cs) + 2 /\ z \in Nat /\ (off # 0 => z <= Len(cs) + 1)
      BY <1>10, <2>1
    <2>3. Len(Answered(d, off)) = z
      BY <1>9, <2>1
    <2> QED
      BY <1>9, <2>2, <2>3
  <1> QED
    BY <1>1, <1>8, <1>11

\* What may be wrong when the entries are given, but for their length.
GivenBad(d) == <<BadData(d)>> \o BadChildren(d)
                 \o [k \in DOMAIN ChildrenOf(d) |-> BadStat(ChildrenOf(d)[k])]
AnswerBad(d, off) ==
    FirstBad(GivenBad(d) \o <<BadStat(d), IF Len(Answered(d, off)) > Fits THEN "stack" ELSE "none">>)

\* The caller takes the first n entries of an answer.
Takes(d, off, n) ==
    listing' = [listing EXCEPT !.off = n, !.seen = @ \o SubSeq(Answered(d, off), 1, n),
                               !.parts = @ \/ n < Len(Answered(d, off))]

LEMMA ReaddirIs ==
    ASSUME NEW w \in Worker, Readdir(w), NEW d, d = req[w].ino, NEW off, off = req[w].off
    PROVE  /\ pc[w] = "readdir"
           /\ \/ /\ Ends(off, Len(ChildrenOf(d)))
                 /\ Unless(BadData(d), /\ listing' = [listing EXCEPT !.ended = TRUE] /\ Done(w)
                                       /\ UNCHANGED <<tables, known, large, overlaps, work, mounted>>)
              \/ /\ ~Ends(off, Len(ChildrenOf(d)))
                 /\ Unless(AnswerBad(d, off),
                      /\ \E n \in 1..Len(Answered(d, off)) : Takes(d, off, n)
                      /\ Done(w) /\ UNCHANGED <<tables, known, large, overlaps, work, mounted>>)
  BY DEF Readdir, AnswerBad, GivenBad, Takes

\* What a listing has seen after n entries of another answer.
SeenWith(d, off, n) == listing.seen \o SubSeq(Answered(d, off), 1, n)

\* An answer that is not bad goes on with a listing, or ends it.
LEMMA ReaddirStep ==
    ASSUME TInv, NEW w \in Worker, Readdir(w), fault' = "none",
           NEW d, d = req[w].ino, NEW off, off = req[w].off
    PROVE  /\ pc[w] = "readdir" /\ Done(w)
           /\ UNCHANGED <<tables, known, large, overlaps, work, mounted>>
           /\ d \in Ino /\ d \in Nat \ {0} /\ off \in Nat
           /\ listing' \in Listings /\ listing'.dir = listing.dir /\ listing'.grew = listing.grew
           /\ \/ /\ Ends(off, Len(ChildrenOf(d))) /\ BadData(d) = "none"
                 /\ listing'.ended /\ listing'.off = listing.off /\ listing'.seen = listing.seen
                 /\ listing'.parts = listing.parts
              \/ /\ ~Ends(off, Len(ChildrenOf(d))) /\ listing'.ended = listing.ended
                 /\ \E n \in 1..Len(Answered(d, off)) :
                      /\ listing'.off = n /\ listing'.seen = SeenWith(d, off, n)
                      /\ listing'.parts <=> (listing.parts \/ n < Len(Answered(d, off)))
                 /\ AnswerBad(d, off) = "none"
  <1>1. pc[w] = "readdir"
    BY ReaddirIs
  <1>2. d \in Ino /\ d \in Nat \ {0} /\ off \in Nat
    BY <1>1, KnownAre DEF TInv, StepFits, Reading, OnDir, Ino, TypedWorkers, Requests
  <1>3. listing \in Listings
    BY DEF TInv, TypedKernel
  <1>4. PICK a : a = Answered(d, off)
    OBVIOUS
  <1>5. a \in Seq(Int) /\ Len(a) \in Nat
    BY <1>2, <1>4, AnsweredIs DEF TInv
  <1>6. CASE Ends(off, Len(ChildrenOf(d)))
    <2>1. /\ listing' = [listing EXCEPT !.ended = TRUE] /\ Done(w) /\ BadData(d) = "none"
          /\ UNCHANGED <<tables, known, large, overlaps, work, mounted>>
      BY <1>6, ReaddirIs DEF Unless
    <2> QED
      BY <1>1, <1>2, <1>3, <1>6, <2>1, ListingEnds
  <1>7. CASE ~Ends(off, Len(ChildrenOf(d)))
    <2>1. Unless(AnswerBad(d, off),
            /\ \E n \in 1..Len(Answered(d, off)) : Takes(d, off, n)
            /\ Done(w) /\ UNCHANGED <<tables, known, large, overlaps, work, mounted>>)
      BY <1>7, ReaddirIs
    <2>2. /\ \E n \in 1..Len(Answered(d, off)) : Takes(d, off, n)
          /\ Done(w) /\ UNCHANGED <<tables, known, large, overlaps, work, mounted>>
          /\ AnswerBad(d, off) = "none"
      BY <2>1 DEF Unless
    <2>3. PICK n \in 1..Len(a) :
            listing' = [listing EXCEPT !.off = n, !.seen = @ \o SubSeq(a, 1, n),
                                       !.parts = @ \/ n < Len(a)]
      BY <1>4, <2>2 DEF Takes
    <2>4. PICK s : s = listing.seen \o SubSeq(a, 1, n)
      OBVIOUS
    <2>5. n \in Nat /\ n <= Len(a)
      BY <1>5, <2>3
    <2>6. /\ listing' \in Listings /\ listing'.dir = listing.dir /\ listing'.grew = listing.grew
          /\ listing'.ended = listing.ended /\ listing'.off = n /\ listing'.seen = s
          /\ listing'.parts <=> (listing.parts \/ n < Len(a))
      <3>1. PICK l, q : l = listing /\ q = listing'
        OBVIOUS
      <3>2. l \in Listings /\ l.parts \in BOOLEAN /\ s = l.seen \o SubSeq(a, 1, n)
        BY <1>3, <2>4, <3>1 DEF Listings
      <3>3. s \in Seq(Int)
        <4>1. PICK t : t = SubSeq(a, 1, n)
          OBVIOUS
        <4>2. t \in Seq(Int) /\ l.seen \in Seq(Int)
          BY <1>5, <3>2, <4>1 DEF Listings
        <4> QED
          BY <3>2, <4>1, <4>2
      <3>4. PICK p \in BOOLEAN : p <=> (l.parts \/ n < Len(a))
        OBVIOUS
      <3>5. (l.parts \/ n < Len(a)) = p
        <4>1. (l.parts \/ n < Len(a)) \in BOOLEAN
          BY <3>2
        <4> QED
          BY <3>4, <4>1
      <3>6. q = [l EXCEPT !.off = n, !.seen = s, !.parts = p]
        BY <2>3, <3>1, <3>2, <3>5
      <3> QED
        <4>1. /\ q \in Listings /\ q.dir = l.dir /\ q.grew = l.grew /\ q.ended = l.ended
              /\ q.off = n /\ q.seen = s /\ q.parts = p
          BY <2>5, <3>2, <3>3, <3>6 DEF Listings
        <4> QED
          BY <3>1, <3>4, <4>1
    <2>7. s = SeenWith(d, off, n)
      BY <1>4, <2>4 DEF SeenWith
    <2> QED
      BY <1>1, <1>2, <1>4, <1>7, <2>2, <2>3, <2>6, <2>7
  <1> QED
    BY <1>6, <1>7

LEMMA ReaddirTypes ==
    ASSUME TInv, NEW w \in Worker, Readdir(w), fault' = "none"
    PROVE  TInv'
  <1>1. PICK d, off : d = req[w].ino /\ off = req[w].off
    OBVIOUS
  <1>2. /\ pc[w] = "readdir" /\ Done(w)
        /\ UNCHANGED <<tables, known, large, overlaps, work, mounted>>
        /\ listing' \in Listings /\ listing'.dir = listing.dir
    BY <1>1, ReaddirStep
  <1>3. TypedTables' /\ file_count' = file_count
    BY <1>2, TablesSame DEF TInv, tables
  <1>4. TypedKernel'
    BY <1>2 DEF TInv, TypedKernel, DirKnown, FileKnown
  <1> QED
    BY <1>2, <1>3, <1>4, LastStepTypes

\* A text is freed, copied, or given its length.
LEMMA TextParts ==
    ASSUME NEW t \in Texts, NEW b \in {UnsetBytes, NULL} \cup Nat, NEW n \in Nat
    PROVE  /\ [t EXCEPT !.bytes = b] \in Texts /\ [t EXCEPT !.bytes = b].bytes = b
           /\ [t EXCEPT !.bytes = b].len = t.len
           /\ [t EXCEPT !.len = n] \in Texts /\ [t EXCEPT !.len = n].len = n
           /\ [t EXCEPT !.len = n].bytes = t.bytes
  BY DEF Texts

\* The entry of a file gets another text.
TextIs(i, t) == i \in Ino /\ i <= Len(data) /\ t \in Texts /\ data' = [data EXCEPT ![i].text = t]

LEMMA TextChanges ==
    ASSUME TInv, NEW i, NEW t, TextIs(i, t), UNCHANGED <<file_count, file_stats, moving>>
    PROVE  /\ TypedTables' /\ Len(data') = Len(data)
           /\ \A j \in 1..Len(data) : j # i => data'[j] = data[j]
           /\ data'[i].name = data[i].name /\ data'[i].parent = data[i].parent
           /\ data'[i].kind = data[i].kind /\ data'[i].children = data[i].children
           /\ data'[i].text = t
  <1>0. i \in Ino /\ t \in Texts /\ i <= Len(data) /\ data' = [data EXCEPT ![i].text = t]
    BY DEF TextIs
  <1>1. data[i] \in Entries /\ i \in Nat \ {0}
    BY <1>0 DEF TInv, TypedTables, Ino
  <1>2. PICK e : e = [data[i] EXCEPT !.text = t]
    OBVIOUS
  <1>3. e \in Entries /\ data' = [data EXCEPT ![i] = e]
    BY <1>0, <1>1, <1>2, ChangedText
  <1>4. /\ data' \in Seq(Entries) /\ Len(data') = Len(data) /\ Len(data') <= 4 + MaxWork
        /\ data'[i] = e /\ \A j \in 1..Len(data) : j # i => data'[j] = data[j]
    <2>1. 1 \in Worker
      BY FileSystemAssumption DEF Worker
    <2> QED
      BY <1>0, <1>1, <1>3, <2>1, DataStepTypes
  <1>5. TypedTables'
    BY <1>4 DEF TInv, TypedTables
  <1> QED
    BY <1>0, <1>1, <1>2, <1>4, <1>5, ChangedText

\* A thread that writes, and the texts it leaves.
LEMMA WriteIs ==
    ASSUME TInv, NEW w \in Worker, pc[w] \in {"write", "copy", "length"}, NEW i, i = req[w].ino,
           BadData(i) = "none"
    PROVE  /\ i \in Ino /\ i \in FileKnown /\ i <= Len(data) /\ i \in Nat \ {0}
           /\ data[i] \in Entries /\ data[i].text \in Texts /\ req[w].text \in Nat
  <1>1. i \in Ino /\ i \in FileKnown /\ i \in Nat \ {0}
    BY KnownAre DEF TInv, StepFits, OnFile, Ino
  <1>2. i <= Len(data)
    BY <1>1, GoodAccess DEF TInv
  <1>3. data[i] \in Entries
    BY <1>1, <1>2 DEF TInv, TypedTables
  <1> QED
    BY <1>1, <1>2, <1>3 DEF Entries, TInv, TypedWorkers, Requests

LEMMA FreeTextStep ==
    ASSUME TInv, NEW w \in Worker, FreeText(w), fault' = "none", NEW i, i = req[w].ino
    PROVE  /\ pc[w] = "write" /\ Goto(w, "copy") /\ i \in FileKnown /\ i \in Nat \ {0}
           /\ \E t : /\ TextIs(i, t) /\ t.bytes = UnsetBytes /\ t.len = data[i].text.len
           /\ UNCHANGED <<file_count, file_stats, moving, local, kernel>>
  <1>1. /\ pc[w] = "write" /\ Goto(w, "copy") /\ BadData(i) = "none"
        /\ data' = [data EXCEPT ![i].text.bytes = UnsetBytes]
        /\ UNCHANGED <<file_count, file_stats, moving, local, kernel>>
    BY DEF FreeText, Unless
  <1>2. i \in Ino /\ i \in FileKnown /\ i <= Len(data) /\ i \in Nat \ {0} /\ data[i].text \in Texts
    BY <1>1, WriteIs
  <1>3. PICK t : t = [data[i].text EXCEPT !.bytes = UnsetBytes]
    OBVIOUS
  <1>4. t \in Texts /\ t.bytes = UnsetBytes /\ t.len = data[i].text.len
    <2>1. UnsetBytes \in {UnsetBytes, NULL} \cup Nat /\ 0 \in Nat
      BY <1>2
    <2> QED
      BY <1>2, <1>3, <2>1, TextParts
  <1>5. data' = [data EXCEPT ![i].text = t]
    BY <1>1, <1>3
  <1> QED
    BY <1>1, <1>2, <1>4, <1>5 DEF TextIs

LEMMA CopyTextStep ==
    ASSUME TInv, NEW w \in Worker, CopyText(w), fault' = "none", NEW i, i = req[w].ino
    PROVE  /\ pc[w] = "copy" /\ Goto(w, "length") /\ i \in FileKnown /\ i \in Nat \ {0}
           /\ \E t : /\ TextIs(i, t) /\ t.bytes = req[w].text /\ t.bytes \in Nat
                     /\ t.len = data[i].text.len
           /\ UNCHANGED <<file_count, file_stats, moving, local, kernel>>
  <1>1. /\ pc[w] = "copy" /\ Goto(w, "length") /\ BadData(i) = "none"
        /\ data' = [data EXCEPT ![i].text.bytes = req[w].text]
        /\ UNCHANGED <<file_count, file_stats, moving, local, kernel>>
    BY DEF CopyText, Unless
  <1>2. /\ i \in Ino /\ i \in FileKnown /\ i <= Len(data) /\ i \in Nat \ {0}
        /\ data[i].text \in Texts /\ req[w].text \in Nat
    BY <1>1, WriteIs
  <1>3. PICK t : t = [data[i].text EXCEPT !.bytes = req[w].text]
    OBVIOUS
  <1>4. t \in Texts /\ t.bytes = req[w].text /\ t.len = data[i].text.len
    <2>1. req[w].text \in {UnsetBytes, NULL} \cup Nat /\ 0 \in Nat
      BY <1>2
    <2> QED
      BY <1>2, <1>3, <2>1, TextParts
  <1>5. data' = [data EXCEPT ![i].text = t]
    BY <1>1, <1>3
  <1> QED
    BY <1>1, <1>2, <1>4, <1>5 DEF TextIs

LEMMA StoreLengthStep ==
    ASSUME TInv, NEW w \in Worker, StoreLength(w), fault' = "none", NEW i, i = req[w].ino
    PROVE  /\ pc[w] = "length" /\ Done(w) /\ i \in FileKnown /\ i \in Nat \ {0}
           /\ \E t : /\ TextIs(i, t) /\ t.bytes = data[i].text.bytes
                     /\ t.len = req[w].text + 1 /\ t.len \in Nat
           /\ large \subseteq large' /\ large' \subseteq large \cup {i}
           /\ UNCHANGED <<file_count, file_stats, moving, known, listing, overlaps, work, mounted>>
  <1>1. /\ pc[w] = "length" /\ Done(w) /\ FirstBad(<<BadData(i), BadStat(i)>>) = "none"
        /\ data' = [data EXCEPT ![i].text.len = req[w].text + 1]
        /\ large' = IF req[w].off > 0 THEN large \cup {i} ELSE large
        /\ UNCHANGED <<file_count, file_stats, moving, known, listing, overlaps, work, mounted>>
    BY DEF StoreLength, Unless
  <1>2. BadData(i) = "none"
    BY <1>1, FirstOfTwo
  <1>3. /\ i \in Ino /\ i \in FileKnown /\ i <= Len(data) /\ i \in Nat \ {0}
        /\ data[i].text \in Texts /\ req[w].text \in Nat /\ req[w].text + 1 \in Nat
    BY <1>1, <1>2, WriteIs
  <1>4. PICK t : t = [data[i].text EXCEPT !.len = req[w].text + 1]
    OBVIOUS
  <1>5. t \in Texts /\ t.len = req[w].text + 1 /\ t.bytes = data[i].text.bytes
    <2>1. NULL \in {UnsetBytes, NULL} \cup Nat
      OBVIOUS
    <2> QED
      BY ZenonT(30), <1>3, <1>4, <2>1, TextParts
  <1>6. data' = [data EXCEPT ![i].text = t]
    BY <1>1, <1>4
  <1>7. large \subseteq large' /\ large' \subseteq large \cup {i}
    BY <1>1
  <1> QED
    BY ZenonT(30), <1>1, <1>3, <1>5, <1>6, <1>7 DEF TextIs

\* The steps of a write that is not complete yet.
LEMMA WriteStepTypes ==
    ASSUME TInv, NEW w \in Worker, NEW i, NEW t, TextIs(i, t), NEW to, Goto(w, to),
           (pc[w] = "write" /\ to = "copy") \/ (pc[w] = "copy" /\ to = "length"),
           UNCHANGED <<file_count, file_stats, moving, local, kernel>>
    PROVE  TInv'
  <1>1. TypedTables'
    BY TextChanges
  <1>2. TypedKernel' /\ known \subseteq known' /\ large \subseteq large' /\ work' = work
    BY KernelSame DEF TInv
  <1>3. TypedWorkers' /\ \A v \in Worker : StepFits(v)'
    BY <1>2, GotoFits DEF TInv, TypedWorkers
  <1>4. Counts'
    <2>1. work' \in Nat /\ work' >= work
      BY <1>2 DEF TInv, TypedKernel
    <2>2. pc' = [pc EXCEPT ![w] = to] /\ local' = local /\ file_count' = file_count
      BY DEF Goto
    <2>3. pc[w] \notin {"load", "store"} /\ to \notin {"load", "store"}
      OBVIOUS
    <2> QED
      BY <2>1, <2>2, <2>3, CountsStay
  <1> QED
    BY <1>1, <1>2, <1>3, <1>4 DEF TInv

LEMMA WriteTypes ==
    ASSUME TInv, NEW w \in Worker, FreeText(w) \/ CopyText(w) \/ StoreLength(w), fault' = "none"
    PROVE  TInv'
  <1>1. PICK i : i = req[w].ino
    OBVIOUS
  <1>2. CASE FreeText(w)
    <2>1. PICK t : TextIs(i, t)
      BY <1>1, <1>2, FreeTextStep
    <2> QED
      BY <1>1, <1>2, <2>1, FreeTextStep, WriteStepTypes
  <1>3. CASE CopyText(w)
    <2>1. PICK t : TextIs(i, t)
      BY <1>1, <1>3, CopyTextStep
    <2> QED
      BY <1>1, <1>3, <2>1, CopyTextStep, WriteStepTypes
  <1>4. CASE StoreLength(w)
    <2>1. /\ pc[w] = "length" /\ Done(w) /\ i \in FileKnown
          /\ large \subseteq large' /\ large' \subseteq large \cup {i}
          /\ UNCHANGED <<file_count, file_stats, moving, known, listing, overlaps, work, mounted>>
      BY <1>1, <1>4, StoreLengthStep
    <2>2. PICK t : TextIs(i, t)
      BY <1>1, <1>4, StoreLengthStep
    <2>3. TypedTables'
      BY <2>1, <2>2, TextChanges
    <2>4. TypedKernel' /\ known \subseteq known'
      BY <2>1 DEF TInv, TypedKernel, DirKnown, FileKnown
    <2> QED
      BY <2>1, <2>3, <2>4, LastStepTypes
  <1> QED
    BY <1>2, <1>3, <1>4

\* What the kernel asks for.
RequestFits(r) ==
    /\ r \in Requests /\ r.op # "idle"
    /\ Creates(r) => /\ work < MaxWork /\ r.ino \in DirKnown
                     /\ r.name \in NewName /\ r.name \notin ChildNames(r.ino)
    /\ r.op = "lookup" => r.ino \in DirKnown
    /\ r.op = "readdir" => /\ r.ino = listing.dir /\ r.ino # 0 /\ r.off = listing.off
                         /\ ~listing.ended
    /\ r.op = "read" => r.ino \in FileKnown /\ (r.off # 0 => r.ino \in Long)
    /\ r.op = "write" => r.ino \in FileKnown /\ work < MaxWork
    /\ r.op = "getattr" => r.ino \in DirKnown \cup FileKnown

LEMMA RequestIs ==
    ASSUME TypedKernel, NEW r \in Request
    PROVE  RequestFits(r)
  <1>1. DirKnown \subseteq Nat /\ FileKnown \subseteq Nat /\ Page \in Nat /\ MaxWork \in Nat
        /\ work \in Nat /\ listing.dir \in Nat /\ listing.off \in Nat /\ large \subseteq FileKnown
    BY KnownAre, FileSystemAssumption DEF Ino, TypedKernel, Listings
  <1>3. CASE r \in {c \in Create("mkdir") \cup Create("mknod") :
                    work < MaxWork /\ c.name \notin ChildNames(c.ino)}
    <2>1. PICK op \in {"mkdir", "mknod"} :
            r \in Create(op) /\ work < MaxWork /\ r.name \notin ChildNames(r.ino)
      BY <1>3
    <2>2. PICK d \in DirKnown, n \in NewName : r = Ask(op, d, n, 0, 0)
      BY <2>1 DEF Create
    <2>3. d \in Nat /\ n \in Names /\ op \in Ops
      BY <1>1 DEF Names, Ops
    <2>4. r \in Requests /\ r.op = op /\ r.ino = d /\ r.name = n
      BY <2>2, <2>3 DEF Ask, Requests, Ops, Reading, NoName
    <2> QED
      BY <2>1, <2>4 DEF RequestFits, Creates
  <1>4. CASE r \in {Ask("lookup", d, n, 0, 0) :
                    d \in DirKnown, n \in NewName \cup {"assignment", "username", "features"}}
    <2>1. PICK d \in DirKnown, n \in NewName \cup {"assignment", "username", "features"} :
            r = Ask("lookup", d, n, 0, 0)
      BY <1>4
    <2>2. d \in Nat /\ n \in Names
      BY <1>1 DEF Names
    <2>3. r \in Requests /\ r.op = "lookup" /\ r.ino = d
      BY <2>1, <2>2 DEF Ask, Requests, Ops, Reading, NoName
    <2> QED
      BY <2>3 DEF RequestFits, Creates
  <1>5. CASE r \in {Ask("readdir", d, NoName, listing.off, 0) :
                    d \in {d \in {listing.dir} :
                           d # 0 /\ ~listing.ended /\ Len(listing.seen) <= Fits}}
    <2>1. r = Ask("readdir", listing.dir, NoName, listing.off, 0) /\ listing.dir # 0 /\ ~listing.ended
      BY <1>5
    <2>2. r \in Requests /\ r.op = "readdir" /\ r.ino = listing.dir /\ r.off = listing.off
      BY <1>1, <2>1 DEF Ask, Requests, Ops, Reading, NoName
    <2> QED
      BY <2>1, <2>2 DEF RequestFits, Creates
  <1>6. CASE r \in {Ask("read", f, NoName, 0, 0) : f \in FileKnown}
    <2>1. PICK f \in FileKnown : r = Ask("read", f, NoName, 0, 0)
      BY <1>6
    <2>2. r \in Requests /\ r.op = "read" /\ r.ino = f /\ r.off = 0
      BY <1>1, <2>1 DEF Ask, Requests, Ops, Reading, NoName
    <2> QED
      BY <2>2 DEF RequestFits, Creates
  <1>7. CASE r \in {Ask("read", f, NoName, Page, 0) : f \in Long}
    <2>1. PICK f \in Long : r = Ask("read", f, NoName, Page, 0)
      BY <1>7
    <2>2. f \in FileKnown /\ f \in Nat
      BY <1>1 DEF Long
    <2>3. r \in Requests /\ r.op = "read" /\ r.ino = f
      BY <1>1, <2>1, <2>2 DEF Ask, Requests, Ops, Reading, NoName
    <2> QED
      BY <2>1, <2>2, <2>3 DEF RequestFits, Creates
  <1>8. CASE r \in {Ask("write", f, NoName, o, n) :
                    f \in {f \in FileKnown : work < MaxWork}, o \in {0, Page}, n \in 0..Buffer}
    <2>1. PICK f \in FileKnown, o \in {0, Page}, n \in 0..Buffer :
            r = Ask("write", f, NoName, o, n) /\ work < MaxWork
      BY <1>8
    <2>2. f \in Nat /\ o \in Nat /\ n \in Nat
      BY <1>1
    <2>3. r \in Requests /\ r.op = "write" /\ r.ino = f
      BY <2>1, <2>2 DEF Ask, Requests, Ops, Reading, NoName
    <2> QED
      BY <2>1, <2>3 DEF RequestFits, Creates
  <1>9. CASE r \in {Ask("getattr", k.ino, NoName, 0, 0) : k \in known}
    <2>1. PICK k \in known : r = Ask("getattr", k.ino, NoName, 0, 0)
      BY <1>9
    <2>2. k.ino \in DirKnown \cup FileKnown
      <3>1. k.kind \in Kinds
        BY DEF TypedKernel
      <3> QED
        BY <3>1, KnownIs DEF Kinds
    <2>3. k.ino \in Nat
      BY <1>1, <2>2
    <2>4. r \in Requests /\ r.op = "getattr" /\ r.ino = k.ino
      BY <2>1, <2>3 DEF Ask, Requests, Ops, Reading, NoName
    <2> QED
      BY <2>2, <2>4 DEF RequestFits, Creates
  <1> QED
    BY <1>3, <1>4, <1>5, <1>6, <1>7, <1>8, <1>9 DEF Request

Others(w) == {req[v] : v \in {v \in Worker : pc[v] # "idle"}}

LEMMA ReceiveIs ==
    ASSUME NEW w \in Worker, Receive(w)
    PROVE  \E r \in Request :
             /\ pc[w] = "idle" /\ \A s \in Others(w) : ~InTurn(r, s)
             /\ overlaps' = overlaps \cup UNION {Overlap(r, s) : s \in Others(w)}
             /\ req' = [req EXCEPT ![w] = r] /\ pc' = [pc EXCEPT ![w] = First(r)]
             /\ work' = work + (IF Creates(r) \/ r.op = "write" THEN 1 ELSE 0)
             /\ listing' = [listing EXCEPT !.grew = @ \/ (Creates(r) /\ r.ino = listing.dir)]
             /\ UNCHANGED <<tables, local, known, large, mounted, fault>>
  BY DEF Receive, Others

\* A listing whose directory grows, or not.
LEMMA ListingGrows ==
    ASSUME NEW l \in Listings, NEW b \in BOOLEAN, NEW q, q = [l EXCEPT !.grew = b]
    PROVE  /\ q \in Listings /\ q.dir = l.dir /\ q.off = l.off /\ q.seen = l.seen
           /\ q.ended = l.ended /\ q.parts = l.parts /\ q.grew = b
  BY DEF Listings

\* A thread starts on a request.
LEMMA StartFits ==
    ASSUME TInv, NEW w \in Worker, NEW r, RequestFits(r),
           req' = [req EXCEPT ![w] = r], pc' = [pc EXCEPT ![w] = First(r)],
           UNCHANGED <<local, known, large>>
    PROVE  /\ TypedWorkers' /\ \A v \in Worker : StepFits(v)'
           /\ \A v \in Worker : /\ pc'[v] = IF v = w THEN First(r) ELSE pc[v]
                                /\ req'[v] = IF v = w THEN r ELSE req[v]
  <1>1. \A v \in Worker : /\ pc'[v] = IF v = w THEN First(r) ELSE pc[v]
                          /\ req'[v] = IF v = w THEN r ELSE req[v]
    BY DEF TInv, TypedWorkers
  <1>2. r.op \in Ops /\ r.op # "idle" /\ r \in Requests
    BY DEF RequestFits, Requests
  <1>3. First(r) \in Places
    BY <1>2 DEF First, Places, Creates, Ops, Creation
  <1>4. TypedWorkers'
    BY <1>2, <1>3 DEF TInv, TypedWorkers
  <1>5. ASSUME NEW v \in Worker, v # w PROVE StepFits(v)'
    BY <1>1, <1>5, StepFitsStays DEF TInv
  <1>6. StepFits(w)'
    <2>1. pc'[w] = First(r) /\ req'[w] = r
      BY <1>1
    <2>2. DirKnown' = DirKnown /\ FileKnown' = FileKnown /\ Long' = Long
      BY DEF DirKnown, FileKnown, Long
    <2>3. First(r) \in Creation <=> Creates(r)
      BY <1>2 DEF First, Creates, Ops, Creation, Between, Reading
    <2>4. /\ First(r) \notin {"idle", "copy", "length"} /\ (First(r) = "write" => r.op = "write")
          /\ First(r) \in Reading => r.op = First(r)
      BY <1>2 DEF First, Creates, Ops, Creation, Between, Reading
    <2>5. r.op = "readdir" => r.ino \in DirKnown
      BY DEF RequestFits, TInv, TypedKernel
    <2>6. OnDir(r) => r.ino \in DirKnown
      BY <2>5 DEF RequestFits, OnDir
    <2>7. OnFile(r) => r.ino \in FileKnown
      BY DEF RequestFits, OnFile
    <2>8. /\ r.op = "getattr" => r.ino \in DirKnown \cup FileKnown
          /\ r.op = "read" /\ r.off # 0 => r.ino \in Long
          /\ Creates(r) => r.name \in NewName
      BY DEF RequestFits
    <2> QED
      BY <2>1, <2>2, <2>3, <2>4, <2>6, <2>7, <2>8 DEF StepFits, Reading
  <1> QED
    BY <1>1, <1>4, <1>5, <1>6

LEMMA ReceiveTypes ==
    ASSUME TInv, NEW w \in Worker, Receive(w)
    PROVE  TInv'
  <1>1. PICK r \in Request :
             /\ pc[w] = "idle"
             /\ req' = [req EXCEPT ![w] = r] /\ pc' = [pc EXCEPT ![w] = First(r)]
             /\ work' = work + (IF Creates(r) \/ r.op = "write" THEN 1 ELSE 0)
             /\ listing' = [listing EXCEPT !.grew = @ \/ (Creates(r) /\ r.ino = listing.dir)]
             /\ UNCHANGED <<tables, local, known, large, mounted, fault>>
    BY ReceiveIs
  <1>2. RequestFits(r)
    BY RequestIs DEF TInv
  <1>3. TypedTables' /\ file_count' = file_count
    BY <1>1, TablesSame DEF TInv, tables
  <1>4. /\ TypedWorkers' /\ \A v \in Worker : StepFits(v)'
        /\ \A v \in Worker : pc'[v] = IF v = w THEN First(r) ELSE pc[v]
    BY <1>1, <1>2, StartFits
  <1>5. PICK n \in {0, 1} : n = (IF Creates(r) \/ r.op = "write" THEN 1 ELSE 0)
    OBVIOUS
  <1>6. work \in Nat /\ MaxWork \in Nat /\ work <= MaxWork /\ work' = work + n /\ work' \in 0..MaxWork
    <2>1. work \in Nat /\ MaxWork \in Nat /\ work <= MaxWork /\ work' = work + n
      BY <1>1, <1>5, FileSystemAssumption DEF TInv, TypedKernel
    <2>2. n = 1 => work < MaxWork
      BY <1>2, <1>5 DEF RequestFits
    <2> QED
      BY <2>1, <2>2
  <1>7. TypedKernel'
    <2>1. PICK b \in BOOLEAN : b = (listing.grew \/ (Creates(r) /\ r.ino = listing.dir))
      OBVIOUS
    <2>2. listing' = [listing EXCEPT !.grew = b]
      BY <1>1, <2>1
    <2>3. listing' \in Listings /\ listing'.dir = listing.dir
      BY <2>2, ListingGrows DEF TInv, TypedKernel
    <2> QED
      BY <1>1, <1>6, <2>3 DEF TInv, TypedKernel, DirKnown, FileKnown
  <1>8. Counts'
    <2>1. Cardinality(Uncounted) \in Nat /\ IsFiniteSet(Uncounted) /\ file_count \in Nat
      BY UncountedAreFinite DEF TInv, TypedTables
    <2>2. w \notin Uncounted
      BY <1>1 DEF Uncounted
    <2>3. First(r) = "load" \/ First(r) \notin {"load", "store"}
      BY <1>2 DEF First, RequestFits, Requests, Ops, Reading
    <2>4. Cardinality(Uncounted') <= Cardinality(Uncounted) + n /\ Cardinality(Uncounted') \in Nat
      <3>1. CASE First(r) = "load"
        <4>1. Uncounted' = Uncounted \cup {w}
          BY <1>4, <3>1 DEF Uncounted
        <4>2. Cardinality(Uncounted') = Cardinality(Uncounted) + 1
          BY <2>1, <2>2, <4>1, FS_AddElement
        <4>3. Creates(r)
          BY <1>2, <3>1 DEF First, RequestFits, Requests, Ops, Reading
        <4> QED
          BY <1>5, <2>1, <4>2, <4>3
      <3>2. CASE First(r) \notin {"load", "store"}
        <4>1. Uncounted' = Uncounted
          BY <1>1, <1>4, <3>2 DEF Uncounted
        <4> QED
          BY <2>1, <4>1
      <3> QED
        BY <2>3, <3>1, <3>2
    <2>5. file_count' + Cardinality(Uncounted') <= 4 + work'
      <3>1. file_count + Cardinality(Uncounted) <= 4 + work
        BY DEF TInv, Counts
      <3> QED
        BY <1>3, <1>6, <2>1, <2>4, <3>1
    <2>6. ASSUME NEW v \in Worker, pc'[v] = "store"
          PROVE  local'[v] >= 4 /\ local'[v] + Cardinality(Uncounted') <= 4 + work'
      <3>1. pc[v] = "store" /\ local'[v] = local[v]
        BY <1>1, <1>4, <2>3, <2>6
      <3>2. local[v] \in Nat
        BY FileSystemAssumption DEF TInv, TypedWorkers
      <3>3. local[v] >= 4 /\ local[v] + Cardinality(Uncounted) <= 4 + work
        BY <3>1 DEF TInv, Counts
      <3> QED
        BY <1>6, <2>1, <2>4, <3>1, <3>2, <3>3
    <2> QED
      BY <2>5, <2>6 DEF Counts
  <1> QED
    BY <1>3, <1>4, <1>7, <1>8 DEF TInv

LEMMA OpenDirTypes ==
    ASSUME TInv, OpenDir
    PROVE  TInv'
  <1>1. PICK d \in DirKnown :
          /\ listing.dir = 0 /\ work < MaxWork /\ work' = work + 1
          /\ listing' = [listing EXCEPT !.dir = d,
                           !.grew = \E v \in Worker : Creates(req[v]) /\ req[v].ino = d]
          /\ UNCHANGED <<tables, req, pc, local, known, large, overlaps, mounted>>
    BY DEF OpenDir
  <1>2. TypedTables' /\ file_count' = file_count
    BY <1>1, TablesSame DEF TInv, tables
  <1>3. work \in Nat /\ work' \in 0..MaxWork /\ work' = work + 1
    BY <1>1, FileSystemAssumption DEF TInv, TypedKernel
  <1>4. TypedKernel'
    <2>1. PICK b \in BOOLEAN : b = \E v \in Worker : Creates(req[v]) /\ req[v].ino = d
      OBVIOUS
    <2>2. listing' = [listing EXCEPT !.dir = d, !.grew = b]
      BY <1>1, <2>1
    <2>3. listing \in Listings /\ d \in Nat
      BY KnownAre DEF TInv, TypedKernel, Ino
    <2>4. listing' \in Listings /\ listing'.dir = d
      BY <2>2, <2>3 DEF Listings
    <2>5. DirKnown' = DirKnown /\ FileKnown' = FileKnown
      BY <1>1 DEF DirKnown, FileKnown
    <2> QED
      BY <1>1, <1>3, <2>4, <2>5 DEF TInv, TypedKernel
  <1>5. TypedWorkers' /\ \A v \in Worker : StepFits(v)'
    <2>1. ASSUME NEW v \in Worker PROVE StepFits(v)'
      BY <1>1, <2>1, StepFitsStays DEF TInv
    <2> QED
      BY <1>1, <2>1 DEF TInv, TypedWorkers
  <1>6. Counts'
    <2>1. Uncounted' = Uncounted /\ Cardinality(Uncounted) \in Nat /\ file_count \in Nat
      BY <1>1, UncountedAreFinite DEF Uncounted, TInv, TypedTables
    <2>2. \A v \in Worker : local[v] \in Nat
      BY FileSystemAssumption DEF TInv, TypedWorkers
    <2> QED
      BY <1>1, <1>2, <1>3, <2>1, <2>2 DEF TInv, Counts
  <1> QED
    BY <1>2, <1>4, <1>5, <1>6 DEF TInv

LEMMA TInvSame ==
    ASSUME TInv, UNCHANGED <<tables, req, pc, local, kernel>>
    PROVE  TInv'
  <1>1. TypedTables' /\ file_count' = file_count
    BY TablesSame DEF TInv, tables
  <1>2. TypedKernel' /\ known \subseteq known' /\ large \subseteq large' /\ work' = work
    BY KernelSame DEF TInv
  <1>3. TypedWorkers' /\ \A v \in Worker : StepFits(v)'
    <2>1. ASSUME NEW v \in Worker PROVE StepFits(v)'
      BY <1>2, <2>1, StepFitsStays DEF TInv
    <2> QED
      BY <2>1 DEF TInv, TypedWorkers
  <1>4. Counts'
    BY <1>1, <1>2 DEF TInv, Counts, Uncounted
  <1> QED
    BY <1>1, <1>2, <1>3, <1>4 DEF TInv

LEMMA DestroyTypes ==
    ASSUME TInv, Destroy
    PROVE  TInv'
  <1>1. UNCHANGED <<tables, req, pc, local, known, large, listing, overlaps, work>>
    BY DEF Destroy, Unless, kernel
  <1>2. TypedTables' /\ TypedKernel' /\ TypedWorkers' /\ Counts'
    BY <1>1 DEF TInv, TypedTables, tables, TypedKernel, DirKnown, FileKnown, TypedWorkers,
                Counts, Uncounted
  <1>3. ASSUME NEW v \in Worker PROVE StepFits(v)'
    BY <1>1, <1>3, StepFitsStays DEF TInv
  <1> QED
    BY <1>2, <1>3 DEF TInv

-----------------------------------------------------------------------------
(* A bad access ends the program where it is.                                *)

LEMMA BadEnds ==
    ASSUME Next, fault' # "none"
    PROVE  UNCHANGED <<tables, req, pc, local, kernel>>
  <1>1. fault = "none"
    BY DEF Next
  <1>2. CASE OpenDir
    BY <1>1, <1>2 DEF OpenDir
  <1>3. CASE Destroy
    BY <1>1, <1>3 DEF Destroy, Unless
  <1>4. ASSUME NEW w \in Worker, Receive(w) PROVE FALSE
    BY <1>1, <1>4, ReceiveIs
  <1>5. ASSUME NEW w \in Worker, creation(w) PROVE UNCHANGED <<tables, req, pc, local, kernel>>
    BY <1>1, <1>5 DEF creation, LoadCount, StoreCount, Grow, PublishStats, SetStat, GrowChildren, AddChild,
                      PublishData, SetData, Reply, Unless
  <1>6. ASSUME NEW w \in Worker, Lookup(w) PROVE UNCHANGED <<tables, req, pc, local, kernel>>
    BY <1>1, <1>6, LookupIs DEF Unless
  <1>7. ASSUME NEW w \in Worker, Readdir(w) PROVE UNCHANGED <<tables, req, pc, local, kernel>>
    BY <1>1, <1>7, ReaddirIs DEF Unless
  <1>8. ASSUME NEW w \in Worker, Getattr(w) \/ Read(w) \/ FreeText(w) \/ CopyText(w)
                                    \/ StoreLength(w)
        PROVE  UNCHANGED <<tables, req, pc, local, kernel>>
    BY <1>1, <1>8 DEF Getattr, Read, FreeText, CopyText, StoreLength, Unless
  <1> QED
    BY <1>2, <1>3, <1>4, <1>5, <1>6, <1>7, <1>8 DEF Next

-----------------------------------------------------------------------------
LEMMA TInvInit == Init => TInv
  <1> SUFFICES ASSUME Init PROVE TInv
    OBVIOUS
  <1>1. MaxWork \in Nat /\ Page \in Nat
    BY FileSystemAssumption
  <1>2. TypedTables
    <2>1. file_stats \in Seq(Modes) /\ Len(file_stats) = 4
      BY DEF Init, Modes, Kinds
    <2>2. \A c \in {<<>>, <<2>>, <<3, 4>>} : c \in Seq(Ino)
      <3>1. 2 \in Ino /\ 3 \in Ino /\ 4 \in Ino
        BY <1>1 DEF Ino
      <3>2. \A a, b \in Ino : <<a>> \in Seq(Ino) /\ <<a, b>> \in Seq(Ino)
        OBVIOUS
      <3>3. <<>> \in Seq(Ino)
        OBVIOUS
      <3> QED
        BY <3>1, <3>2, <3>3
    <2>3. /\ Entry("tmp", 0, "dir", <<2>>, NoText) \in Entries
          /\ Entry("assignment", 1, "dir", <<3, 4>>, NoText) \in Entries
          /\ Entry("username", 2, "file", <<>>, Text(1, 1)) \in Entries
          /\ Entry("features", 2, "file", <<>>, Text(Page, Page)) \in Entries
      <3>1. NoText \in Texts /\ Text(1, 1) \in Texts /\ Text(Page, Page) \in Texts
        BY <1>1 DEF NoText, Text, Texts
      <3> QED
        BY <2>2, <3>1 DEF Entry, Entries, Names, Modes, Kinds
    <2>4. data \in Seq(Entries) /\ Len(data) = 4
      <3>1. PICK a \in Entries, b \in Entries, c \in Entries, d \in Entries : data = <<a, b, c, d>>
        BY <2>3 DEF Init
      <3> QED
        BY <3>1
    <2> QED
      BY <1>1, <2>1, <2>4 DEF Init, TypedTables
  <1>3. TypedKernel
    <2>1. known \subseteq [ino : Ino, kind : Kinds]
      <3>1. \A i \in 1..4 : i \in Ino /\ file_stats[i] \in Kinds
        BY <1>1 DEF Init, Ino, Kinds
      <3> QED
        BY <3>1 DEF Init
    <2>2. listing \in Listings /\ listing.dir = 0
      BY DEF Init, Listings
    <2> QED
      BY <1>1, <2>1, <2>2 DEF Init, TypedKernel
  <1>4. TypedWorkers
    BY <1>1, IdleIs DEF Init, TypedWorkers, Places
  <1>5. Counts
    <2>1. Uncounted = {}
      BY DEF Init, Uncounted
    <2>2. Cardinality(Uncounted) = 0
      BY <2>1, FS_EmptySet
    <2> QED
      BY <2>2 DEF Init, Counts
  <1>6. ASSUME NEW w \in Worker PROVE StepFits(w)
    <2>1. pc[w] = "idle" /\ req[w] = Idle
      BY DEF Init
    <2> QED
      BY <2>1, IdleIs DEF StepFits, Creation, Between, Reading
  <1> QED
    BY <1>2, <1>3, <1>4, <1>5, <1>6 DEF TInv

\* A step of the loop, in which nothing is wrong.
LEMMA TInvNext ==
    ASSUME TInv, Next
    PROVE  TInv'
  <1>1. CASE fault' # "none"
    BY <1>1, BadEnds, TInvSame
  <1>2. CASE fault' = "none"
    <2>1. ASSUME NEW w \in Worker, creation(w) PROVE TInv'
      <3>1. Grow(w, "growStats", "stats", "publishStats") => TInv'
        BY <1>2, GrowTypes DEF Between
      <3>2. Grow(w, "growData", "data", "publishData") => TInv'
        BY <1>2, GrowTypes DEF Between
      <3> QED
        BY <1>2, <2>1, <3>1, <3>2, LoadCountTypes, StoreCountTypes, PublishTypes, SetStatTypes,
           GrowChildrenTypes, AddChildTypes, SetDataTypes, ReplyTypes DEF creation
    <2>2. ASSUME NEW w \in Worker,
                 Receive(w) \/ Lookup(w) \/ Getattr(w) \/ Readdir(w) \/ Read(w)
                   \/ FreeText(w) \/ CopyText(w) \/ StoreLength(w)
          PROVE  TInv'
      BY <1>2, <2>2, ReceiveTypes, LookupTypes, GetattrReadTypes, ReaddirTypes, WriteTypes
    <2>3. OpenDir \/ Destroy => TInv'
      BY OpenDirTypes, DestroyTypes
    <2> QED
      BY <2>1, <2>2, <2>3 DEF Next
  <1> QED
    BY <1>1, <1>2

LEMMA TInvHolds == Spec => []TInv
  <1>1. TInv /\ [Next]_vars => TInv'
    <2>1. TInv /\ UNCHANGED vars => TInv'
      <3>1. UNCHANGED vars => UNCHANGED <<tables, req, pc, local, kernel>>
        BY DEF vars
      <3> QED
        BY <3>1, TInvSame
    <2> QED
      BY <2>1, TInvNext
  <1> QED
    BY <1>1, TInvInit, PTL DEF Spec

LEMMA TypesFollow == TInv => TypeOK
  <1> SUFFICES ASSUME TInv PROVE TypeOK
    OBVIOUS
  <1>1. file_count \in Ino
    BY CountsFit DEF TInv
  <1>2. \A i \in DOMAIN file_stats : file_stats[i] \in {"dir", "file", Unset}
    BY DEF TInv, TypedTables, Modes, Kinds
  <1>3. \A i \in DOMAIN data : data[i].children \in Seq(Ino)
    <2>1. ASSUME NEW i \in 1..Len(data) PROVE data[i].children \in Seq(Ino)
      <3>1. data[i] \in Entries
        BY DEF TInv, TypedTables
      <3> QED
        BY <3>1 DEF Entries
    <2>2. DOMAIN data = 1..Len(data)
      BY DEF TInv, TypedTables
    <2> QED
      BY <2>1, <2>2
  <1>4. known \subseteq [ino : Ino, kind : {"dir", "file"}] /\ large \subseteq Ino
    BY KnownAre DEF TInv, TypedKernel, Kinds
  <1> QED
    BY <1>1, <1>2, <1>3, <1>4 DEF TInv, TypedTables, TypeOK

\* The tables keep their types and their bounds however many threads create at
\* once: no creation counts an inode beyond the room the bound on the work
\* leaves, and the kernel only knows inodes within it.  The code behind it is the
\* counting and resizing of assign3_mkdir and assign3_mknod.
THEOREM TypeCorrect == Spec => []TypeOK
  BY TInvHolds, TypesFollow, PTL

-----------------------------------------------------------------------------
(* What is at work at once.                                                  *)

\* The kernel lets no two requests run that it runs in turn, and what does run
\* at once is on record.
Busy(w) == pc[w] # "idle"
Together ==
    \A v, w \in Worker : v # w /\ Busy(v) /\ Busy(w) =>
        ~InTurn(req[v], req[w]) /\ Overlap(req[v], req[w]) \subseteq overlaps

LEMMA BothWays ==
    ASSUME NEW r, NEW s
    PROVE  (InTurn(r, s) <=> InTurn(s, r)) /\ Overlap(r, s) = Overlap(s, r)
  <1>1. InTurn(r, s) <=> InTurn(s, r)
    BY DEF InTurn
  <1>2. {r.op, s.op} = {s.op, r.op}
    OBVIOUS
  <1>3. Overlap(r, s) = Overlap(s, r)
    BY <1>2 DEF Overlap
  <1> QED
    BY <1>1, <1>3

\* Threads go on with their requests, or end them.
GoOn == \A v \in Worker : pc'[v] = "idle" \/ (pc[v] # "idle" /\ req'[v] = req[v])

LEMMA GotoGoesOn ==
    ASSUME TInv, NEW w \in Worker, NEW to, Goto(w, to), pc[w] # "idle"
    PROVE  GoOn
  BY DEF TInv, TypedWorkers, Goto, GoOn

LEMMA DoneGoesOn ==
    ASSUME TInv, NEW w \in Worker, Done(w)
    PROVE  GoOn
  <1>1. \A v \in Worker : v # w => pc'[v] = pc[v] /\ req'[v] = req[v]
    BY DEF TInv, TypedWorkers, Done
  <1>2. pc'[w] = "idle"
    BY DEF TInv, TypedWorkers, Done
  <1>3. ASSUME NEW v \in Worker, v # w PROVE pc'[v] = "idle" \/ (pc[v] # "idle" /\ req'[v] = req[v])
    BY <1>1, <1>3
  <1> QED
    BY <1>2, <1>3 DEF GoOn

LEMMA TogetherStays ==
    ASSUME Together, GoOn, overlaps' = overlaps
    PROVE  Together'
  <1> SUFFICES ASSUME NEW v \in Worker, NEW w \in Worker, v # w, pc'[v] # "idle", pc'[w] # "idle"
               PROVE  ~InTurn(req'[v], req'[w]) /\ Overlap(req'[v], req'[w]) \subseteq overlaps'
    BY DEF Together, Busy
  <1>1. pc[v] # "idle" /\ pc[w] # "idle" /\ req'[v] = req[v] /\ req'[w] = req[w]
    BY DEF GoOn
  <1>2. ~InTurn(req[v], req[w]) /\ Overlap(req[v], req[w]) \subseteq overlaps
    BY <1>1 DEF Together, Busy
  <1> QED
    BY <1>1, <1>2

LEMMA OthersGoOn ==
    ASSUME TInv, Next, fault' = "none", ~(\E w \in Worker : Receive(w))
    PROVE  GoOn /\ overlaps' = overlaps
  <1>1. CASE OpenDir \/ Destroy
    <2>1. UNCHANGED <<req, pc, overlaps>>
      BY <1>1 DEF OpenDir, Destroy, Unless, kernel
    <2> QED
      BY <2>1 DEF GoOn
  <1>2. ASSUME NEW w \in Worker, creation(w) PROVE GoOn /\ overlaps' = overlaps
    <2>1. CASE Reply(w)
      <3>1. Done(w) /\ overlaps' = overlaps
        BY <2>1 DEF Reply, Unless, Tell
      <3> QED
        BY <3>1, DoneGoesOn
    <2>2. CASE ~Reply(w)
      <3>1. \E to \in Places : Goto(w, to) /\ pc[w] # "idle" /\ overlaps' = overlaps
        BY <1>2, <2>2 DEF creation, LoadCount, StoreCount, Grow, PublishStats, SetStat, GrowChildren, AddChild,
                     PublishData, SetData, Unless, kernel, Places, Creation, Between
      <3> QED
        BY <3>1, GotoGoesOn
    <2> QED
      BY <2>1, <2>2
  <1>3. ASSUME NEW w \in Worker, Lookup(w) PROVE GoOn /\ overlaps' = overlaps
    <2>1. Done(w) /\ overlaps' = overlaps
      BY <1>3, LookupIs DEF Unless, Tell, kernel
    <2> QED
      BY <2>1, DoneGoesOn
  <1>4. ASSUME NEW w \in Worker, Readdir(w) PROVE GoOn /\ overlaps' = overlaps
    <2>1. Done(w) /\ overlaps' = overlaps
      BY <1>4, ReaddirStep
    <2> QED
      BY <2>1, DoneGoesOn
  <1>5. ASSUME NEW w \in Worker, Getattr(w) \/ Read(w) \/ StoreLength(w)
        PROVE  GoOn /\ overlaps' = overlaps
    <2>1. Done(w) /\ overlaps' = overlaps
      BY <1>5 DEF Getattr, Read, StoreLength, Unless, kernel
    <2> QED
      BY <2>1, DoneGoesOn
  <1>6. ASSUME NEW w \in Worker, FreeText(w) \/ CopyText(w) PROVE GoOn /\ overlaps' = overlaps
    <2>1. (Goto(w, "copy") \/ Goto(w, "length")) /\ overlaps' = overlaps /\ pc[w] # "idle"
      BY <1>6 DEF FreeText, CopyText, Unless, kernel
    <2> QED
      BY <2>1, GotoGoesOn
  <1> QED
    BY <1>1, <1>2, <1>3, <1>4, <1>5, <1>6 DEF Next

LEMMA ReceiveTogether ==
    ASSUME TInv, Together, NEW w \in Worker, Receive(w)
    PROVE  Together'
  <1>1. PICK r \in Request :
             /\ pc[w] = "idle" /\ \A s \in Others(w) : ~InTurn(r, s)
             /\ overlaps' = overlaps \cup UNION {Overlap(r, s) : s \in Others(w)}
             /\ req' = [req EXCEPT ![w] = r] /\ pc' = [pc EXCEPT ![w] = First(r)]
    BY ReceiveIs
  <1>2. /\ \A v \in Worker : v # w => pc'[v] = pc[v] /\ req'[v] = req[v]
        /\ req'[w] = r
    BY <1>1 DEF TInv, TypedWorkers
  <1>3. overlaps \subseteq overlaps' /\ \A s \in Others(w) : Overlap(r, s) \subseteq overlaps'
    BY <1>1
  <1>4. ASSUME NEW v \in Worker, v # w, pc'[v] # "idle"
        PROVE  ~InTurn(r, req'[v]) /\ Overlap(r, req'[v]) \subseteq overlaps'
    <2>1. pc[v] # "idle" /\ req'[v] = req[v]
      BY <1>2, <1>4
    <2>2. req[v] \in Others(w)
      BY <2>1 DEF Others
    <2> QED
      BY <1>1, <1>3, <2>1, <2>2
  <1> SUFFICES ASSUME NEW v \in Worker, NEW u \in Worker, v # u, pc'[v] # "idle", pc'[u] # "idle"
               PROVE  ~InTurn(req'[v], req'[u]) /\ Overlap(req'[v], req'[u]) \subseteq overlaps'
    BY DEF Together, Busy
  <1>5. CASE v = w
    BY <1>2, <1>4, <1>5
  <1>6. CASE u = w
    <2>1. ~InTurn(r, req'[v]) /\ Overlap(r, req'[v]) \subseteq overlaps'
      BY <1>4, <1>6
    <2>2. PICK s : s = req'[v]
      OBVIOUS
    <2>3. ~InTurn(s, r) /\ Overlap(s, r) \subseteq overlaps'
      BY <2>1, <2>2, BothWays
    <2> QED
      BY <1>2, <1>6, <2>2, <2>3
  <1>7. CASE v # w /\ u # w
    <2>1. pc[v] # "idle" /\ pc[u] # "idle" /\ req'[v] = req[v] /\ req'[u] = req[u]
      BY <1>2, <1>7
    <2>2. ~InTurn(req[v], req[u]) /\ Overlap(req[v], req[u]) \subseteq overlaps
      BY <2>1 DEF Together, Busy
    <2> QED
      BY <1>3, <2>1, <2>2
  <1> QED
    BY <1>5, <1>6, <1>7

LEMMA TogetherNext ==
    ASSUME TInv, Together, Next
    PROVE  Together'
  <1>1. CASE fault' # "none"
    <2>1. UNCHANGED <<req, pc, overlaps>>
      BY <1>1, BadEnds DEF kernel
    <2> QED
      BY <2>1, TogetherStays DEF GoOn
  <1>2. CASE fault' = "none" /\ \E w \in Worker : Receive(w)
    BY <1>2, ReceiveTogether
  <1>3. CASE fault' = "none" /\ ~(\E w \in Worker : Receive(w))
    BY <1>3, OthersGoOn, TogetherStays
  <1> QED
    BY <1>1, <1>2, <1>3

LEMMA TogetherHolds == Spec => []Together
  <1>1. Init => Together
    BY DEF Init, Together, Busy
  <1>2. TInv /\ Together /\ [Next]_vars => Together'
    <2>1. TInv /\ Together /\ UNCHANGED vars => Together'
      <3>1. UNCHANGED vars => GoOn /\ overlaps' = overlaps
        BY DEF vars, kernel, GoOn
      <3> QED
        BY <3>1, TogetherStays
    <2> QED
      BY <2>1, TogetherNext
  <1> QED
    BY <1>1, <1>2, TInvHolds, PTL DEF Spec

\* A creation is alone as long as no two have overlapped.
Lonely(w) == \A v \in Worker : v # w => pc[v] \notin Creation /\ ~Creates(req[v])

LEMMA CreatorIsAlone ==
    ASSUME TInv, Together, "creations" \notin overlaps, NEW w \in Worker, Creates(req[w])
    PROVE  Lonely(w)
  <1>1. ASSUME NEW v \in Worker, v # w, Creates(req[v]) PROVE FALSE
    <2>1. Busy(v) /\ Busy(w)
      BY <1>1 DEF TInv, StepFits, Busy, Creation, Between
    <2>2. Overlap(req[v], req[w]) = {"creations"}
      BY <1>1 DEF Overlap
    <2> QED
      BY <1>1, <2>1, <2>2 DEF Together
  <1> QED
    BY <1>1 DEF Lonely, TInv, StepFits

-----------------------------------------------------------------------------
(* The tree.                                                                 *)

At(S) == \E w \in Worker : pc[w] \in S

\* The tables are as large as the creation that is under way has made them.
Sizes ==
    /\ Len(file_stats) = IF At({"growStats", "publishStats"}) THEN file_count - 1 ELSE file_count
    /\ Len(data) = IF At(Between \ {"setData"}) THEN file_count - 1 ELSE file_count
    /\ "stats" \in moving <=> At({"publishStats"})
    /\ "data" \in moving <=> At({"publishData"})
    /\ \A w \in Worker : pc[w] \in {"store", "publishStats", "publishData"} => local[w] = file_count

\* The inodes that are complete.
Made == 1..(IF At(Between) THEN file_count - 1 ELSE file_count)

\* The directory into which a creation has put its inode already.
Joined == {"growData", "publishData", "setData"}
Joining(d) == \E w \in Worker : pc[w] \in Joined /\ req[w].ino = d
Copying(i) == \E w \in Worker : pc[w] = "copy" /\ req[w].ino = i

ChildFits(d, c) ==
    \/ c \in Made /\ c # 1 /\ data[c].parent = d
    \/ c = file_count /\ c \notin Made /\ Joining(d)

\* The entry of a complete inode.
EntryFits(i) ==
    /\ data[i].kind = file_stats[i] /\ data[i].kind \in Kinds /\ data[i].name # Unset
    /\ data[i].text.bytes = UnsetBytes => (i >= 5 /\ data[i].kind = "dir") \/ Copying(i)
    /\ \A k \in DOMAIN data[i].children : ChildFits(i, data[i].children[k])
    /\ \A j, k \in DOMAIN data[i].children :
         j # k => NameOf(data[i].children[j]) # NameOf(data[i].children[k])
    /\ i # 1 => /\ data[i].parent \in Made
                /\ \E k \in DOMAIN data[data[i].parent].children :
                     data[data[i].parent].children[k] = i

\* What a creation has written, and the name that is to be its own.
CreationFits(w) ==
    /\ pc[w] \in {"growChildren", "addChild"} \cup Joined => file_stats[file_count] = Kind(req[w])
    /\ pc[w] \in Joined =>
         \E k \in DOMAIN data[req[w].ino].children : data[req[w].ino].children[k] = file_count
    /\ pc[w] = "setData" => data[file_count] = UnsetEntry
    /\ pc[w] \in Creation \ {"reply"} => req[w].name \notin ChildNames(req[w].ino)

KnownFits == \A k \in known : k.ino \in Made /\ file_stats[k.ino] = k.kind

Tree == /\ Sizes /\ KnownFits /\ 4 \in Made
        /\ \A i \in Made : EntryFits(i)
        /\ \A w \in Worker : CreationFits(w)

\* The inductive invariant for the tree: with it goes that a second creation is
\* on record as soon as it starts.
TreeInv == "creations" \notin overlaps => Tree

\* The place of a creation that is alone is all there is to know of it.
SizesOf(w) ==
    /\ Len(file_stats) = IF pc[w] \in {"growStats", "publishStats"} THEN file_count - 1 ELSE file_count
    /\ Len(data) = IF pc[w] \in Between \ {"setData"} THEN file_count - 1 ELSE file_count
    /\ "stats" \in moving <=> pc[w] = "publishStats"
    /\ "data" \in moving <=> pc[w] = "publishData"
    /\ pc[w] \in {"store", "publishStats", "publishData"} => local[w] = file_count
MadeOf(w) == 1..(IF pc[w] \in Between THEN file_count - 1 ELSE file_count)

Alone ==
    \A w \in Worker : Lonely(w) =>
        /\ Sizes <=> SizesOf(w)
        /\ Made = MadeOf(w)
        /\ \A d \in Nat : Joining(d) <=> pc[w] \in Joined /\ req[w].ino = d

LEMMA AloneHolds == Alone
  <1> SUFFICES ASSUME NEW w \in Worker, Lonely(w)
               PROVE  /\ Sizes <=> SizesOf(w)
                      /\ Made = MadeOf(w)
                      /\ \A d \in Nat : Joining(d) <=> pc[w] \in Joined /\ req[w].ino = d
    BY DEF Alone
  <1>1. ASSUME NEW S, S \subseteq Creation PROVE At(S) <=> pc[w] \in S
    BY <1>1 DEF At, Lonely
  <1>2. /\ At({"growStats", "publishStats"}) <=> pc[w] \in {"growStats", "publishStats"}
        /\ At(Between \ {"setData"}) <=> pc[w] \in Between \ {"setData"}
        /\ At({"publishStats"}) <=> pc[w] = "publishStats"
        /\ At({"publishData"}) <=> pc[w] = "publishData"
        /\ At(Between) <=> pc[w] \in Between
    <2>1. /\ {"growStats", "publishStats"} \subseteq Creation /\ Between \ {"setData"} \subseteq Creation
          /\ {"publishStats"} \subseteq Creation /\ {"publishData"} \subseteq Creation
          /\ Between \subseteq Creation
      BY DEF Creation, Between
    <2>2. \A x, y : x \in {y} <=> x = y
      OBVIOUS
    <2> HIDE DEF At
    <2> QED
      BY <1>1, <2>1, <2>2
  <1>3. /\ \A v \in Worker : pc[v] \in {"store", "publishStats", "publishData"} => v = w
        /\ \A v \in Worker : pc[v] \in Joined => v = w
    BY DEF Lonely, Creation, Between, Joined
  <1>4. Sizes <=> SizesOf(w)
    BY <1>2, <1>3 DEF Sizes, SizesOf
  <1>5. Made = MadeOf(w)
    BY <1>2 DEF Made, MadeOf
  <1> QED
    BY <1>3, <1>4, <1>5 DEF Joining

\* What the steps do to the tables of a tree, but for those that add an entry:
\* the complete entries keep all but their texts.
SameBut(i) == /\ data'[i].name = data[i].name /\ data'[i].parent = data[i].parent
              /\ data'[i].kind = data[i].kind /\ data'[i].children = data[i].children

LEMMA EntriesStay ==
    ASSUME TInv, \A i \in Made : EntryFits(i), Made' = Made,
           \A i \in Made : file_stats'[i] = file_stats[i] /\ SameBut(i),
           \A i \in Made : data'[i].text.bytes = UnsetBytes =>
               (Copying(i))' \/ (data[i].text.bytes = UnsetBytes /\ ~Copying(i)),
           \A c \in Ino : (NameOf(c))' = NameOf(c),
           \A d \in Nat : Joining(d) => (Joining(d))' /\ file_count' = file_count,
           Made \subseteq 1..Len(data)
    PROVE  \A i \in Made : (EntryFits(i))'
  <1> SUFFICES ASSUME NEW i \in Made PROVE (EntryFits(i))'
    OBVIOUS
  <1>1. EntryFits(i) /\ SameBut(i) /\ file_stats'[i] = file_stats[i]
    OBVIOUS
  <1>2. data[i] \in Entries /\ i \in Nat
    BY DEF TInv, TypedTables, Made
  <1>3. PICK cs \in Seq(Ino) : cs = data[i].children
    BY <1>2 DEF Entries
  <1>4. /\ data'[i].kind = file_stats'[i] /\ data'[i].kind \in Kinds /\ data'[i].name # Unset
    BY <1>1 DEF EntryFits, SameBut
  <1>5. data'[i].text.bytes = UnsetBytes => (i >= 5 /\ data'[i].kind = "dir") \/ (Copying(i))'
    BY <1>1 DEF EntryFits, SameBut
  <1>6. ASSUME NEW k \in DOMAIN cs PROVE (ChildFits(i, cs[k]))'
    <2>1. PICK c \in Ino : c = cs[k]
      BY <1>3
    <2>2. ChildFits(i, c)
      BY <1>1, <1>3, <1>6, <2>1 DEF EntryFits
    <2>3. CASE c \in Made /\ c # 1 /\ data[c].parent = i
      <3>1. c \in Made' /\ data'[c].parent = i
        BY <2>3 DEF SameBut
      <3> QED
        BY <2>1, <2>3, <3>1 DEF ChildFits
    <2>4. CASE c = file_count /\ c \notin Made /\ Joining(i)
      <3>1. (Joining(i))' /\ c = file_count' /\ c \notin Made'
        BY <1>2, <2>4
      <3> QED
        BY <2>1, <3>1 DEF ChildFits
    <2> QED
      BY <2>2, <2>3, <2>4 DEF ChildFits
  <1>7. ASSUME NEW j \in DOMAIN cs, NEW k \in DOMAIN cs, j # k
        PROVE  (NameOf(cs[j]))' # (NameOf(cs[k]))'
    <2>1. PICK a \in Ino, b \in Ino : a = cs[j] /\ b = cs[k]
      BY <1>3
    <2>2. NameOf(a) # NameOf(b)
      BY <1>1, <1>3, <1>7, <2>1 DEF EntryFits
    <2>3. (NameOf(a))' = NameOf(a) /\ (NameOf(b))' = NameOf(b)
      OBVIOUS
    <2> QED
      BY <2>1, <2>2, <2>3
  <1>8. ASSUME i # 1
        PROVE  /\ data'[i].parent \in Made'
               /\ \E k \in DOMAIN data'[data'[i].parent].children :
                    data'[data'[i].parent].children[k] = i
    <2>1. PICK p \in Made : p = data[i].parent /\ p = data'[i].parent
      BY <1>1, <1>8 DEF EntryFits, SameBut
    <2>2. data'[p].children = data[p].children
      BY DEF SameBut
    <2>3. \E k \in DOMAIN data[p].children : data[p].children[k] = i
      BY <1>1, <1>8, <2>1 DEF EntryFits
    <2> QED
      BY <2>1, <2>2, <2>3
  <1>9. data'[i].children = cs
    BY <1>1, <1>3 DEF SameBut
  <1> QED
    BY <1>4, <1>5, <1>6, <1>7, <1>8, <1>9 DEF EntryFits

LEMMA MadeAreThere ==
    ASSUME TInv, Sizes
    PROVE  /\ Made \subseteq 1..Len(data) /\ Made \subseteq 1..Len(file_stats)
           /\ Made \subseteq 1..file_count /\ Made \subseteq Ino /\ Made \subseteq Nat
  <1>1. /\ At(Between \ {"setData"}) => At(Between)
        /\ At({"growStats", "publishStats"}) => At(Between)
    BY DEF At, Between
  <1>2. PICK n \in Nat : n = (IF At(Between) THEN file_count - 1 ELSE file_count)
    BY DEF TInv, TypedTables
  <1>3. n <= Len(data) /\ n <= Len(file_stats) /\ n <= file_count
    BY <1>1, <1>2 DEF Sizes, TInv, TypedTables
  <1>4. Made = 1..n
    BY <1>2 DEF Made
  <1>5. file_count \in Ino /\ Len(data) \in Nat /\ Len(file_stats) \in Nat /\ MaxWork \in Nat
    BY CountsFit, FileSystemAssumption DEF TInv, TypedTables
  <1> QED
    BY <1>3, <1>4, <1>5 DEF Ino

LEMMA NamesStay ==
    ASSUME TInv, Len(data') = Len(data), \A j \in 1..Len(data) : SameBut(j)
    PROVE  /\ \A c \in Ino : (NameOf(c))' = NameOf(c)
           /\ \A d \in Ino : (ChildNames(d))' = ChildNames(d)
           /\ \A d \in Ino : d <= Len(data) => data'[d].children = data[d].children
  <1>1. \A c \in Ino : c <= Len(data) => c \in 1..Len(data)
    BY DEF Ino, TInv, TypedTables
  <1>2. ASSUME NEW c \in Ino PROVE (NameOf(c))' = NameOf(c) /\ (ChildrenOf(c))' = ChildrenOf(c)
    <2>1. c <= Len(data) => data'[c].name = data[c].name /\ data'[c].children = data[c].children
      BY <1>1 DEF SameBut
    <2> QED
      BY <2>1 DEF NameOf, ChildrenOf
  <1>3. ASSUME NEW d \in Ino PROVE (ChildNames(d))' = ChildNames(d)
    <2>1. PICK cs : cs = ChildrenOf(d)
      OBVIOUS
    <2>2. cs = (ChildrenOf(d))' /\ \A k \in DOMAIN cs : cs[k] \in Ino
      BY <1>2, <2>1, ChildrenAre DEF TInv, Ino
    <2>3. \A k \in DOMAIN cs : (NameOf(cs[k]))' = NameOf(cs[k])
      <3>1. ASSUME NEW k \in DOMAIN cs PROVE (NameOf(cs[k]))' = NameOf(cs[k])
        <4>1. PICK c \in Ino : c = cs[k]
          BY <2>2
        <4> QED
          BY <1>2, <4>1
      <3> QED
        BY <3>1
    <2>4. ChildNames(d) = {NameOf(cs[k]) : k \in DOMAIN cs}
      BY <2>1 DEF ChildNames
    <2>5. (ChildNames(d))' = {(NameOf(cs[k]))' : k \in DOMAIN cs}
      BY <2>2 DEF ChildNames
    <2> QED
      BY <2>3, <2>4, <2>5
  <1> QED
    BY <1>1, <1>2, <1>3 DEF SameBut

\* A step of a thread beside a creation, or of a creation that does not touch
\* the tables.
LEMMA TreeAside ==
    ASSUME TInv, TInv', Tree, NEW w \in Worker, NEW to, pc' = [pc EXCEPT ![w] = to],
           pc[w] \notin Between \cup {"store"}, to \in {"load", "store"} \/ to \notin Creation,
           to = "store" => local'[w] = file_count,
           \A v \in Worker : v # w => local'[v] = local[v] /\ req'[v] = req[v],
           UNCHANGED <<file_count, file_stats, moving>>, Len(data') = Len(data),
           \A j \in 1..Len(data) : SameBut(j),
           \A j \in 1..Len(data) : j \notin Made => data'[j] = data[j],
           \A i \in Made : data'[i].text.bytes = UnsetBytes =>
               (Copying(i))' \/ (data[i].text.bytes = UnsetBytes /\ ~Copying(i)),
           \A k \in known' : k.ino \in Made /\ file_stats[k.ino] = k.kind,
           to \in {"load", "store"} =>
             \E d \in Ino : d = req'[w].ino /\ req'[w].name \notin ChildNames(d),
           \A v \in Worker : Creates(req[v]) => Lonely(v)
    PROVE  Tree'
  <1>1. /\ \A v \in Worker : pc'[v] = IF v = w THEN to ELSE pc[v]
        /\ to \notin Between
    BY DEF TInv, TypedWorkers, Creation, Between
  <1>2. /\ Made \subseteq 1..Len(data) /\ Made \subseteq Ino /\ Sizes
        /\ \A i \in Made : EntryFits(i)
    BY MadeAreThere DEF Tree
  <1>3. ASSUME NEW S, S \subseteq Between PROVE At(S)' <=> At(S)
    BY <1>1, <1>3 DEF At
  <1>4. /\ At({"growStats", "publishStats"})' <=> At({"growStats", "publishStats"})
        /\ At(Between \ {"setData"})' <=> At(Between \ {"setData"})
        /\ At({"publishStats"})' <=> At({"publishStats"})
        /\ At({"publishData"})' <=> At({"publishData"})
        /\ At(Between)' <=> At(Between)
    <2>1. /\ {"growStats", "publishStats"} \subseteq Between /\ Between \ {"setData"} \subseteq Between
          /\ {"publishStats"} \subseteq Between /\ {"publishData"} \subseteq Between
      BY DEF Between
    <2> QED
      BY <1>3, <2>1
  <1>5. Sizes'
    <2>1. \A v \in Worker : pc'[v] \in {"store", "publishStats", "publishData"} => local'[v] = file_count'
      BY <1>1, <1>2 DEF Sizes, Between
    <2> QED
      BY <1>2, <1>4, <2>1 DEF Sizes
  <1>6. Made' = Made
    BY <1>4 DEF Made
  <1>7. \A d \in Nat : Joining(d) => (Joining(d))' /\ file_count' = file_count
    BY <1>1 DEF Joining, Joined, Between
  <1>8. \A i \in Made' : (EntryFits(i))'
    <2>1. \A c \in Ino : (NameOf(c))' = NameOf(c)
      BY NamesStay
    <2>2. \A i \in Made : file_stats'[i] = file_stats[i] /\ SameBut(i)
      BY <1>2
    <2>3. \A i \in Made : (EntryFits(i))'
      BY <1>2, <1>6, <1>7, <2>1, <2>2, EntriesStay
    <2> QED
      BY <1>6, <2>3
  <1>9. ASSUME NEW v \in Worker, v # w PROVE (CreationFits(v))'
    <2>1. CreationFits(v) /\ pc'[v] = pc[v] /\ req'[v] = req[v]
      BY <1>1, <1>9 DEF Tree
    <2>2. CASE pc[v] \in Creation
      <3>1. PICK d \in Ino : d = req[v].ino
        BY <2>2, KnownAre DEF TInv, StepFits, OnDir
      <3>2. d \in Made
        <4>1. \E k \in known : k.ino = d
          BY <2>2, <3>1, KnownIs DEF TInv, StepFits, OnDir
        <4> QED
          BY <4>1 DEF Tree, KnownFits
      <3>3. (ChildNames(d))' = ChildNames(d) /\ data'[d].children = data[d].children
        <4>1. d <= Len(data)
          BY <1>2, <3>2
        <4> QED
          BY <4>1, NamesStay
      <3>4. ASSUME pc[v] = "setData" PROVE data'[file_count] = data[file_count]
        <4>1. Lonely(v)
          BY <2>2 DEF TInv, StepFits
        <4>2. Made = MadeOf(v) /\ SizesOf(v)
          BY <1>2, <4>1, AloneHolds DEF Alone
        <4>3. file_count \notin Made /\ file_count \in 1..Len(data)
          BY <3>4, <4>2 DEF MadeOf, SizesOf, Between, TInv, TypedTables
        <4> QED
          BY <4>3
      <3> QED
        BY <2>1, <3>1, <3>3, <3>4 DEF CreationFits
    <2>3. CASE pc[v] \notin Creation
      BY <2>1, <2>3 DEF CreationFits, Creation, Between, Joined
    <2> QED
      BY <2>1, <2>2, <2>3
  <1>10. (CreationFits(w))'
    <2>1. CASE to \in {"load", "store"}
      <3>1. PICK d \in Ino : d = req'[w].ino /\ req'[w].name \notin ChildNames(d)
        BY <2>1
      <3>2. (ChildNames(d))' = ChildNames(d)
        BY NamesStay
      <3>3. req'[w].name \notin (ChildNames(req[w].ino))'
        BY <3>1, <3>2
      <3> QED
        BY <1>1, <2>1, <3>3 DEF CreationFits, Joined
    <2>2. CASE to \notin Creation
      BY <1>1, <2>2 DEF CreationFits, Creation, Between, Joined
    <2> QED
      BY <2>1, <2>2
  <1>11. 4 \in Made' /\ KnownFits'
    BY <1>6 DEF Tree, KnownFits
  <1> QED
    BY <1>5, <1>6, <1>8, <1>9, <1>10, <1>11 DEF Tree

\* No two creations have overlapped, and so there is a tree.
Clear == TInv /\ Together /\ "creations" \notin overlaps /\ Tree

LEMMA ClearIs ==
    ASSUME Clear
    PROVE  /\ \A v \in Worker : Creates(req[v]) => Lonely(v)
           /\ DirKnown \subseteq Made /\ FileKnown \subseteq Made
           /\ \A k \in known : k.ino \in Made /\ file_stats[k.ino] = k.kind
           /\ Made \subseteq 1..Len(data) /\ Made \subseteq Ino /\ Made \subseteq Nat
           /\ Made \subseteq 1..Len(file_stats)
  <1>1. \A v \in Worker : Creates(req[v]) => Lonely(v)
    BY CreatorIsAlone DEF Clear
  <1>2. \A k \in known : k.ino \in Made /\ file_stats[k.ino] = k.kind
    BY DEF Clear, Tree, KnownFits
  <1>3. DirKnown \subseteq Made /\ FileKnown \subseteq Made
    BY <1>2, KnownIs
  <1>4. /\ Made \subseteq 1..Len(data) /\ Made \subseteq Ino /\ Made \subseteq Nat
        /\ Made \subseteq 1..Len(file_stats)
    BY MadeAreThere DEF Clear, Tree
  <1> QED
    BY <1>1, <1>2, <1>3, <1>4

LEMMA AsideSame ==
    ASSUME Clear, TInv', NEW w \in Worker, NEW to, pc' = [pc EXCEPT ![w] = to],
           pc[w] \notin Between \cup {"store", "copy"}, to \in {"load", "store"} \/ to \notin Creation,
           to = "store" => local'[w] = file_count,
           \A v \in Worker : v # w => local'[v] = local[v] /\ req'[v] = req[v],
           UNCHANGED tables,
           \A k \in known' : k.ino \in Made /\ file_stats[k.ino] = k.kind,
           to \in {"load", "store"} =>
             \E d \in Ino : d = req'[w].ino /\ req'[w].name \notin ChildNames(d)
    PROVE  Tree'
  <1>1. \A v \in Worker : pc'[v] = IF v = w THEN to ELSE pc[v]
    BY DEF Clear, TInv, TypedWorkers
  <1>2. UNCHANGED <<file_count, file_stats, moving>> /\ data' = data
    BY DEF tables
  <1>3. \A i \in Made : data'[i].text.bytes = UnsetBytes =>
          (Copying(i))' \/ (data[i].text.bytes = UnsetBytes /\ ~Copying(i))
    <2>1. \A i : Copying(i) => (Copying(i))'
      BY <1>1 DEF Copying
    <2> QED
      BY <1>2, <2>1
  <1>4. \A j \in 1..Len(data) : SameBut(j)
    BY <1>2 DEF SameBut
  <1>5. pc[w] \notin Between \cup {"store"} /\ TInv /\ Tree
    BY DEF Clear
  <1>6. \A v \in Worker : Creates(req[v]) => Lonely(v)
    BY ClearIs
  <1> QED
    BY <1>2, <1>3, <1>4, <1>5, <1>6, TreeAside

LEMMA LoadCountTree ==
    ASSUME Clear, TInv', NEW w \in Worker, LoadCount(w)
    PROVE  Tree'
  <1>1. /\ pc[w] = "load" /\ pc' = [pc EXCEPT ![w] = "store"] /\ req' = req
        /\ local' = [local EXCEPT ![w] = file_count] /\ UNCHANGED tables /\ known' = known
    BY DEF LoadCount, Goto, kernel
  <1>2. /\ \A v \in Worker : v # w => local'[v] = local[v] /\ req'[v] = req[v]
        /\ local'[w] = file_count
    BY <1>1 DEF Clear, TInv, TypedWorkers
  <1>3. \E d \in Ino : d = req'[w].ino /\ req'[w].name \notin ChildNames(d)
    <2>1. PICK d \in Ino : d = req[w].ino
      BY <1>1, KnownAre DEF Clear, TInv, StepFits, OnDir, Creation
    <2>2. req[w].name \notin ChildNames(d)
      BY <1>1, <2>1 DEF Clear, Tree, CreationFits, Creation
    <2> QED
      BY <1>1, <2>1, <2>2
  <1>4. pc[w] \notin Between \cup {"store", "copy"}
    BY <1>1 DEF Between
  <1>5. \A k \in known' : k.ino \in Made /\ file_stats[k.ino] = k.kind
    BY <1>1, ClearIs
  <1> QED
    BY <1>1, <1>2, <1>3, <1>4, <1>5, AsideSame

\* The steps that end a request and leave the tables alone.
LEMMA LastStepTree ==
    ASSUME Clear, TInv', NEW w \in Worker, Done(w), pc[w] \notin Between \cup {"store", "copy"},
           UNCHANGED tables, \A k \in known' : k.ino \in Made /\ file_stats[k.ino] = k.kind
    PROVE  Tree'
  <1>1. /\ pc' = [pc EXCEPT ![w] = "idle"]
        /\ \A v \in Worker : v # w => local'[v] = local[v] /\ req'[v] = req[v]
    BY DEF Done, Clear, TInv, TypedWorkers
  <1>2. "idle" \notin Creation
    BY DEF Creation, Between
  <1> QED
    BY <1>1, <1>2, AsideSame DEF Creation

LEMMA TellTree ==
    ASSUME Clear, NEW i \in Made, Tell(i)
    PROVE  \A k \in known' : k.ino \in Made /\ file_stats[k.ino] = k.kind
  <1>1. \A k \in known : k.ino \in Made /\ file_stats[k.ino] = k.kind
    BY ClearIs
  <1> QED
    BY <1>1 DEF Tell

LEMMA ReplyTree ==
    ASSUME Clear, TInv', NEW w \in Worker, Reply(w), fault' = "none"
    PROVE  Tree'
  <1>1. Tell(file_count) /\ Done(w) /\ UNCHANGED tables /\ pc[w] = "reply"
    BY DEF Reply, Unless
  <1>2. Lonely(w)
    BY <1>1, ClearIs DEF Clear, TInv, StepFits, Creation
  <1>3. Made = 1..file_count
    <2>1. Made = MadeOf(w)
      BY <1>2, AloneHolds DEF Alone
    <2> QED
      BY <1>1, <2>1 DEF MadeOf, Between
  <1>4. file_count \in Made
    BY <1>3 DEF Clear, TInv, TypedTables
  <1>5. \A k \in known' : k.ino \in Made /\ file_stats[k.ino] = k.kind
    BY <1>1, <1>4, TellTree
  <1>6. pc[w] \notin Between \cup {"store", "copy"}
    BY <1>1 DEF Between
  <1> QED
    BY <1>1, <1>5, <1>6, LastStepTree

\* A child is complete, unless the creation that has put it there is under way,
\* and then it has no name.
LEMMA ChildIs ==
    ASSUME Clear, NEW d \in Made, NEW k \in 1..Len(ChildrenOf(d)), NEW c, c = ChildrenOf(d)[k]
    PROVE  /\ d \in Nat \ {0} /\ ChildFits(d, c) /\ c \in Ino
           /\ c \in Made \/ (Joining(d) /\ c = file_count /\ NameOf(c) = Unset)
  <1>1. d \in 1..Len(data) /\ d \in Nat \ {0}
    BY ClearIs DEF Clear, TInv, TypedTables
  <1>2. ChildrenOf(d) = data[d].children /\ DOMAIN ChildrenOf(d) = 1..Len(ChildrenOf(d)) /\ c \in Ino
    BY <1>1, ChildrenAre DEF Clear, TInv
  <1>3. ChildFits(d, c)
    BY <1>2 DEF Clear, Tree, EntryFits
  <1>4. ASSUME c \notin Made PROVE Joining(d) /\ c = file_count /\ NameOf(c) = Unset
    <2>1. Joining(d) /\ c = file_count
      BY <1>3, <1>4 DEF ChildFits
    <2>2. PICK w \in Worker : pc[w] \in Joined /\ req[w].ino = d
      BY <2>1 DEF Joining
    <2>3. Lonely(w)
      BY <2>2, ClearIs DEF Clear, TInv, StepFits, Joined, Creation, Between
    <2>4. SizesOf(w)
      BY <2>3, AloneHolds DEF Alone, Clear, Tree
    <2>5. CASE pc[w] = "setData"
      <3>1. data[file_count] = UnsetEntry
        BY <2>5 DEF Clear, Tree, CreationFits
      <3>2. NameOf(file_count) = Unset
        BY <3>1 DEF NameOf, UnsetEntry, Entry
      <3> QED
        BY <2>1, <3>2
    <2>6. CASE pc[w] # "setData"
      <3>1. Len(data) = file_count - 1
        BY <2>2, <2>4, <2>6 DEF SizesOf, Joined, Between
      <3>2. ~(file_count <= Len(data))
        BY <3>1 DEF Clear, TInv, TypedTables
      <3>3. NameOf(file_count) = Unset
        BY <3>2 DEF NameOf
      <3> QED
        BY <2>1, <3>3
    <2> QED
      BY <2>5, <2>6
  <1> QED
    BY <1>1, <1>2, <1>3, <1>4

\* A listing of a directory only meets complete children.
LEMMA ChildIsMade ==
    ASSUME Clear, NEW w \in Worker, req[w].op = "readdir", pc[w] # "idle",
           NEW d, d = req[w].ino, NEW k \in 1..Len(ChildrenOf(d))
    PROVE  d \in Made /\ d \in Nat \ {0} /\ ChildrenOf(d)[k] \in Made
  <1>1. d \in Made
    BY ClearIs DEF Clear, TInv, StepFits, OnDir
  <1>2. ~Joining(d)
    <2> SUFFICES ASSUME NEW v \in Worker, pc[v] \in Joined, req[v].ino = d PROVE FALSE
      BY DEF Joining
    <2>1. Creates(req[v]) /\ pc[v] # "idle"
      BY DEF Clear, TInv, StepFits, Creation, Between, Joined
    <2>2. InTurn(req[v], req[w]) /\ v # w
      BY <2>1 DEF InTurn, Locks, Creates
    <2> QED
      BY <2>1, <2>2 DEF Clear, Together, Busy
  <1> QED
    BY <1>1, <1>2, ChildIs

LEMMA LookupTree ==
    ASSUME Clear, TInv', NEW w \in Worker, Lookup(w), fault' = "none"
    PROVE  Tree'
  <1>1. PICK d, name : d = req[w].ino /\ name = req[w].name
    OBVIOUS
  <1>2. pc[w] = "lookup" /\ pc[w] \notin Between \cup {"store", "copy"} /\ pc[w] # "idle"
    BY <1>1, LookupIs DEF Between
  <1>3. OnDir(req[w]) /\ ~Creates(req[w]) /\ d \in Nat \ {0}
    <2>1. OnDir(req[w]) /\ ~Creates(req[w])
      BY <1>2 DEF Clear, TInv, StepFits, Reading, OnDir, Creates
    <2> QED
      BY <1>1, <2>1, KnownAre DEF Clear, TInv, StepFits, Ino
  <1>4. Done(w) /\ UNCHANGED tables /\ \A k \in known' : k.ino \in Made /\ file_stats[k.ino] = k.kind
    <2>1. CASE FoundIn(d, name) = {}
      <3>1. Done(w) /\ UNCHANGED <<tables, kernel>>
        BY <1>1, <2>1, LookupIs DEF Unless
      <3> QED
        BY <3>1, ClearIs DEF kernel
    <2>2. CASE FoundIn(d, name) # {}
      <3>1. PICK c : c = ChildrenOf(d)[Min(FoundIn(d, name))]
        OBVIOUS
      <3>2. PICK bad : bad = ComparedBad(d, name)
        OBVIOUS
      <3>3. Unless(FirstBad(<<bad, BadStat(c)>>), Tell(c) /\ Done(w) /\ UNCHANGED tables)
        BY <1>1, <2>2, <3>1, <3>2, LookupIs
      <3>4. Tell(c) /\ Done(w) /\ UNCHANGED tables
        BY <3>3 DEF Unless
      <3>5. c \in Made
        <4>1. d \in Made
          BY <1>1, <1>2, <1>3, ClearIs DEF Clear, TInv, StepFits
        <4>2. Min(FoundIn(d, name)) \in 1..Len(ChildrenOf(d)) /\ NameOf(c) = name
          BY <1>3, <2>2, <3>1, FoundIs DEF Clear, TInv
        <4>3. name # Unset
          BY <1>1 DEF Clear, TInv, TypedWorkers, Requests, Names, NewName, NoName, Unset
        <4> QED
          BY <3>1, <4>1, <4>2, <4>3, ChildIs
      <3> QED
        BY <3>4, <3>5, TellTree
    <2> QED
      BY <2>1, <2>2
  <1> QED
    BY <1>2, <1>4, LastStepTree

LEMMA GetattrReadTree ==
    ASSUME Clear, TInv', NEW w \in Worker, Getattr(w) \/ Read(w), fault' = "none"
    PROVE  Tree'
  <1>1. Done(w) /\ UNCHANGED <<tables, kernel>> /\ pc[w] \notin Between \cup {"store", "copy"}
    BY DEF Getattr, Read, Unless, Between
  <1>2. \A k \in known' : k.ino \in Made /\ file_stats[k.ino] = k.kind
    BY <1>1, ClearIs DEF kernel
  <1> QED
    BY <1>1, <1>2, LastStepTree

LEMMA ReaddirTree ==
    ASSUME Clear, TInv', NEW w \in Worker, Readdir(w), fault' = "none"
    PROVE  Tree'
  <1>1. pc[w] = "readdir" /\ Done(w) /\ UNCHANGED <<tables, known>>
    BY ReaddirStep DEF Clear
  <1>2. pc[w] \notin Between \cup {"store", "copy"}
    BY <1>1 DEF Between
  <1>3. \A k \in known' : k.ino \in Made /\ file_stats[k.ino] = k.kind
    BY <1>1, ClearIs
  <1> QED
    BY <1>1, <1>2, <1>3, LastStepTree

\* A file gets another text.
LEMMA TextTree ==
    ASSUME Clear, TInv', NEW w \in Worker, pc[w] \in {"write", "copy", "length"},
           NEW i \in FileKnown, i = req[w].ino, NEW t, TextIs(i, t),
           NEW to \in {"copy", "length", "idle"}, pc' = [pc EXCEPT ![w] = to],
           \A v \in Worker : v # w => local'[v] = local[v] /\ req'[v] = req[v],
           UNCHANGED <<file_count, file_stats, moving, known>>,
           t.bytes = UnsetBytes => \/ to = "copy" /\ req' = req
                                   \/ t.bytes = data[i].text.bytes /\ pc[w] # "copy"
    PROVE  Tree'
  <1>1. \A v \in Worker : pc'[v] = IF v = w THEN to ELSE pc[v]
    BY DEF Clear, TInv, TypedWorkers
  <1>2. /\ Len(data') = Len(data) /\ \A j \in 1..Len(data) : j # i => data'[j] = data[j]
        /\ SameBut(i) /\ data'[i].text = t
    BY TextChanges DEF Clear, SameBut
  <1>3. /\ \A j \in 1..Len(data) : SameBut(j)
        /\ \A j \in 1..Len(data) : j \notin Made => data'[j] = data[j]
    <2>1. i \in Made
      BY ClearIs
    <2> QED
      BY <1>2, <2>1 DEF SameBut
  <1>4. ASSUME NEW j, Copying(j), j # i \/ pc[w] # "copy" PROVE (Copying(j))'
    <2>1. PICK v \in Worker : pc[v] = "copy" /\ req[v].ino = j
      BY <1>4 DEF Copying
    <2>2. v # w
      BY <1>4, <2>1
    <2> QED
      BY <1>1, <2>1, <2>2 DEF Copying
  <1>5. ASSUME NEW j \in Made, data'[j].text.bytes = UnsetBytes
        PROVE  (Copying(j))' \/ (data[j].text.bytes = UnsetBytes /\ ~Copying(j))
    <2>1. CASE j # i
      <3>1. data'[j] = data[j]
        BY <1>2, <2>1, ClearIs
      <3> QED
        BY <1>4, <1>5, <2>1, <3>1
    <2>2. CASE j = i /\ to = "copy" /\ req' = req
      BY <1>1, <2>2 DEF Copying
    <2>3. CASE j = i /\ t.bytes = data[i].text.bytes /\ pc[w] # "copy"
      BY <1>2, <1>4, <1>5, <2>3
    <2> QED
      BY <1>2, <1>5, <2>1, <2>2, <2>3
  <1>6. pc[w] \notin Between \cup {"store"} /\ to \notin Creation
    BY DEF Between, Creation
  <1>7. \A k \in known' : k.ino \in Made /\ file_stats[k.ino] = k.kind
    BY ClearIs
  <1>8. TInv /\ Tree /\ \A v \in Worker : Creates(req[v]) => Lonely(v)
    BY ClearIs DEF Clear
  <1>9. to \notin {"load", "store"} /\ UNCHANGED <<file_count, file_stats, moving>>
    OBVIOUS
  <1> QED
    BY <1>2, <1>3, <1>5, <1>6, <1>7, <1>8, <1>9, TreeAside

LEMMA WriteTree ==
    ASSUME Clear, TInv', NEW w \in Worker, FreeText(w) \/ CopyText(w) \/ StoreLength(w),
           fault' = "none"
    PROVE  Tree'
  <1>1. PICK i : i = req[w].ino
    OBVIOUS
  <1>2. TInv
    BY DEF Clear
  <1>3. CASE FreeText(w)
    <2>1. PICK t : TextIs(i, t)
      BY <1>1, <1>2, <1>3, FreeTextStep
    <2>2. pc[w] = "write" /\ pc' = [pc EXCEPT ![w] = "copy"] /\ req' = req /\ i \in FileKnown
          /\ UNCHANGED <<file_count, file_stats, moving, local, known>>
      BY <1>1, <1>2, <1>3, FreeTextStep DEF Goto, kernel
    <2> QED
      BY <1>1, <2>1, <2>2, TextTree
  <1>4. CASE CopyText(w)
    <2>1. PICK t : TextIs(i, t) /\ t.bytes \in Nat
      BY <1>1, <1>2, <1>4, CopyTextStep
    <2>2. pc[w] = "copy" /\ pc' = [pc EXCEPT ![w] = "length"] /\ req' = req /\ i \in FileKnown
          /\ UNCHANGED <<file_count, file_stats, moving, local, known>>
      BY <1>1, <1>2, <1>4, CopyTextStep DEF Goto, kernel
    <2>3. t.bytes # UnsetBytes
      BY <2>1 DEF UnsetBytes
    <2> QED
      BY <1>1, <2>1, <2>2, <2>3, TextTree
  <1>5. CASE StoreLength(w)
    <2>1. PICK t : TextIs(i, t) /\ t.bytes = data[i].text.bytes
      BY <1>1, <1>2, <1>5, StoreLengthStep
    <2>2. pc[w] = "length" /\ Done(w) /\ i \in FileKnown
          /\ UNCHANGED <<file_count, file_stats, moving, known>>
      BY <1>1, <1>2, <1>5, StoreLengthStep
    <2>3. /\ pc' = [pc EXCEPT ![w] = "idle"]
          /\ \A v \in Worker : v # w => local'[v] = local[v] /\ req'[v] = req[v]
      BY <1>2, <2>2 DEF Done, TInv, TypedWorkers
    <2> QED
      BY <1>1, <2>1, <2>2, <2>3, TextTree
  <1> QED
    BY <1>3, <1>4, <1>5

\* A creation starts when there is no other.
LEMMA ReceiveTree ==
    ASSUME Clear, TInv', NEW w \in Worker, Receive(w)
    PROVE  Tree'
  <1>1. PICK r \in Request :
             /\ pc[w] = "idle"
             /\ req' = [req EXCEPT ![w] = r] /\ pc' = [pc EXCEPT ![w] = First(r)]
             /\ UNCHANGED <<tables, local, known>>
    BY ReceiveIs
  <1>2. RequestFits(r)
    BY RequestIs DEF Clear, TInv
  <1>3. /\ \A v \in Worker : v # w => local'[v] = local[v] /\ req'[v] = req[v]
        /\ req'[w] = r
    BY <1>1 DEF Clear, TInv, TypedWorkers
  <1>4. /\ First(r) = "load" \/ First(r) \notin Creation
        /\ First(r) = "load" <=> Creates(r)
    BY <1>2 DEF RequestFits, Requests, Ops, Reading, First, Creates, Creation, Between
  <1>5. First(r) = "load" => \E d \in Ino : d = req'[w].ino /\ req'[w].name \notin ChildNames(d)
    BY <1>2, <1>3, <1>4, KnownAre DEF RequestFits, Clear, TInv
  <1>6. \A k \in known' : k.ino \in Made /\ file_stats[k.ino] = k.kind
    BY <1>1, ClearIs
  <1>7. pc[w] \notin Between \cup {"store", "copy"} /\ First(r) # "store"
    BY <1>1, <1>4 DEF Between, Creation
  <1>8. PICK to : to = First(r)
    OBVIOUS
  <1> QED
    BY <1>1, <1>3, <1>4, <1>5, <1>6, <1>7, <1>8, AsideSame

LEMMA TreeSame ==
    ASSUME Tree, UNCHANGED <<tables, req, pc, local, known>>
    PROVE  Tree'
  <1>1. UNCHANGED <<file_count, file_stats, data, moving, req, pc, local, known>>
    BY DEF tables
  <1>2. /\ Made' = Made /\ Sizes' /\ KnownFits'
        /\ \A i : (NameOf(i))' = NameOf(i) /\ (ChildNames(i))' = ChildNames(i)
        /\ \A i : ((Copying(i))' <=> Copying(i)) /\ ((Joining(i))' <=> Joining(i))
    <2>1. \A S : At(S)' <=> At(S)
      BY <1>1 DEF At
    <2>2. Made' = Made /\ Sizes'
      BY <1>1, <2>1 DEF Made, Sizes, Tree
    <2>3. KnownFits'
      BY <1>1, <2>2 DEF KnownFits, Tree
    <2>4. \A i : (NameOf(i))' = NameOf(i)
      BY <1>1 DEF NameOf
    <2>5. \A i : (ChildNames(i))' = ChildNames(i)
      BY <1>1 DEF ChildNames, NameOf, ChildrenOf
    <2>6. \A i : ((Copying(i))' <=> Copying(i)) /\ ((Joining(i))' <=> Joining(i))
      BY <1>1 DEF Copying, Joining
    <2> QED
      BY <2>2, <2>3, <2>4, <2>5, <2>6
  <1>3. ASSUME NEW i \in Made PROVE (EntryFits(i))'
    <2>1. \A d, c : (ChildFits(d, c))' <=> ChildFits(d, c)
      BY <1>1, <1>2 DEF ChildFits
    <2>2. EntryFits(i)
      BY DEF Tree
    <2> QED
      BY <1>1, <1>2, <2>1, <2>2 DEF EntryFits
  <1>4. ASSUME NEW w \in Worker PROVE (CreationFits(w))'
    BY <1>1, <1>2 DEF Tree, CreationFits
  <1> QED
    BY <1>2, <1>3, <1>4 DEF Tree

\* The steps of a creation that is alone, but for those that add to an entry: the
\* complete entries stay as they are.
LEMMA LonelyStays ==
    ASSUME Clear, TInv', NEW w \in Worker, pc[w] \in Creation, NEW to \in Creation, Goto(w, to)
    PROVE  /\ Lonely(w) /\ (Lonely(w))' /\ Creates(req[w]) /\ pc'[w] = to /\ req' = req
           /\ \A v \in Worker : v # w => pc'[v] = pc[v] /\ pc'[v] \notin Creation
           /\ Made = MadeOf(w) /\ SizesOf(w) /\ Made' = (MadeOf(w))' /\ (Sizes' <=> (SizesOf(w))')
           /\ \A d \in Nat : Joining(d) <=> (pc[w] \in Joined /\ req[w].ino = d)
           /\ \A d \in Nat : (Joining(d))' <=> (to \in Joined /\ req[w].ino = d)
           /\ \A i : Copying(i) <=> (Copying(i))'
           /\ req[w].ino \in Made /\ req[w].ino \in Ino /\ req[w].ino \in Nat
  <1>1. Creates(req[w])
    BY DEF Clear, TInv, StepFits
  <1>2. Lonely(w)
    BY <1>1, ClearIs
  <1>3. /\ pc'[w] = to /\ req' = req
        /\ \A v \in Worker : v # w => pc'[v] = pc[v] /\ pc'[v] \notin Creation
    BY <1>2 DEF Goto, Clear, TInv, TypedWorkers, Lonely
  <1>4. (Lonely(w))'
    BY <1>2, <1>3 DEF Lonely
  <1>5. /\ Made = MadeOf(w) /\ SizesOf(w)
        /\ \A d \in Nat : Joining(d) <=> (pc[w] \in Joined /\ req[w].ino = d)
    BY <1>2, AloneHolds DEF Alone, Clear, Tree
  <1>6. Alone'
    BY AloneHolds, PTL
  <1>7. /\ Made' = (MadeOf(w))' /\ (Sizes' <=> (SizesOf(w))')
        /\ \A d \in Nat : (Joining(d))' <=> (to \in Joined /\ req[w].ino = d)
    BY <1>3, <1>4, <1>6 DEF Alone
  <1>8. \A i : Copying(i) <=> (Copying(i))'
    <2>1. \A v \in Worker : pc'[v] = "copy" <=> pc[v] = "copy"
      <3>1. pc[w] # "copy" /\ pc'[w] # "copy"
        BY <1>3 DEF Creation, Between
      <3> QED
        BY <1>3, <3>1
    <2> QED
      BY <1>3, <2>1 DEF Copying
  <1>9. req[w].ino \in Made /\ req[w].ino \in Ino /\ req[w].ino \in Nat
    <2>1. req[w].ino \in DirKnown
      BY <1>1 DEF Clear, TInv, StepFits, OnDir
    <2> QED
      BY <2>1, ClearIs
  <1> QED
    BY <1>1, <1>2, <1>3, <1>4, <1>5, <1>7, <1>8, <1>9

LEMMA ChildNamesStay ==
    ASSUME TInv, NEW d \in Ino, (ChildrenOf(d))' = ChildrenOf(d),
           \A c \in Ino : (NameOf(c))' = NameOf(c)
    PROVE  (ChildNames(d))' = ChildNames(d)
  <1>1. PICK cs : cs = ChildrenOf(d)
    OBVIOUS
  <1>2. cs = (ChildrenOf(d))' /\ \A k \in DOMAIN cs : cs[k] \in Ino
    BY <1>1, ChildrenAre DEF TInv, Ino
  <1>3. \A k \in DOMAIN cs : (NameOf(cs[k]))' = NameOf(cs[k])
    <2>1. ASSUME NEW k \in DOMAIN cs PROVE (NameOf(cs[k]))' = NameOf(cs[k])
      <3>1. PICK c \in Ino : c = cs[k]
        BY <1>2
      <3> QED
        BY <3>1
    <2> QED
      BY <2>1
  <1>4. ChildNames(d) = {NameOf(cs[k]) : k \in DOMAIN cs}
    BY <1>1 DEF ChildNames
  <1>5. (ChildNames(d))' = {(NameOf(cs[k]))' : k \in DOMAIN cs}
    BY <1>2 DEF ChildNames
  <1> QED
    BY <1>3, <1>4, <1>5

LEMMA OneLess ==
    ASSUME NEW n \in Nat, NEW len, len = n - 1 \/ len = n
    PROVE  len >= n - 1
  OBVIOUS

LEMMA TableStepTree ==
    ASSUME Clear, TInv', NEW w \in Worker, pc[w] \in Between \cup {"store"}, NEW to \in Between,
           Goto(w, to), known' = known, (SizesOf(w))', (MadeOf(w))' = MadeOf(w),
           \A i \in MadeOf(w) : file_stats'[i] = file_stats[i] /\ data'[i] = data[i],
           \A c \in Ino : (NameOf(c))' = NameOf(c),
           pc[w] \in Joined <=> to \in Joined, pc[w] \in Joined => file_count' = file_count,
           to \in {"growChildren", "addChild"} \cup Joined => file_stats'[file_count'] = Kind(req[w]),
           to = "setData" => data'[file_count'] = UnsetEntry
    PROVE  Tree'
  <1>1. pc[w] \in Creation /\ to \in Creation
    BY DEF Creation
  <1>2. /\ Lonely(w) /\ (Lonely(w))' /\ Creates(req[w]) /\ pc'[w] = to /\ req' = req
        /\ \A v \in Worker : v # w => pc'[v] = pc[v] /\ pc'[v] \notin Creation
        /\ Made = MadeOf(w) /\ SizesOf(w) /\ Made' = (MadeOf(w))' /\ (Sizes' <=> (SizesOf(w))')
        /\ \A d \in Nat : Joining(d) <=> (pc[w] \in Joined /\ req[w].ino = d)
        /\ \A d \in Nat : (Joining(d))' <=> (to \in Joined /\ req[w].ino = d)
        /\ \A i : Copying(i) <=> (Copying(i))'
        /\ req[w].ino \in Made /\ req[w].ino \in Ino /\ req[w].ino \in Nat
    BY <1>1, LonelyStays
  <1>3. Sizes' /\ Made' = Made
    BY <1>2
  <1>4. \A i \in Made : (EntryFits(i))'
    <2>1. TInv /\ \A i \in Made : EntryFits(i)
      BY DEF Clear, Tree
    <2>2. \A i \in Made : file_stats'[i] = file_stats[i] /\ SameBut(i) /\ data'[i] = data[i]
      BY <1>2 DEF SameBut
    <2>3. \A i \in Made : data'[i].text.bytes = UnsetBytes =>
            (Copying(i))' \/ (data[i].text.bytes = UnsetBytes /\ ~Copying(i))
      BY <1>2, <2>2
    <2>4. \A d \in Nat : Joining(d) => (Joining(d))' /\ file_count' = file_count
      BY <1>2
    <2>5. Made \subseteq 1..Len(data)
      BY ClearIs
    <2> QED
      BY <1>3, <2>1, <2>2, <2>3, <2>4, <2>5, EntriesStay
  <1>5. KnownFits'
    <2>1. \A k \in known : k.ino \in Made /\ file_stats[k.ino] = k.kind
      BY ClearIs
    <2> QED
      BY <1>2, <1>3, <2>1 DEF KnownFits
  <1>6. (CreationFits(w))'
    <2>1. PICK d \in Made : d = req[w].ino /\ d \in Ino
      BY <1>2
    <2>2. data'[d] = data[d] /\ d <= Len(data) /\ d <= Len(data')
      <3>1. d \in 1..Len(data)
        BY <2>1, ClearIs
      <3>2. d \in (MadeOf(w))' /\ (SizesOf(w))'
        BY <1>2, <1>3
      <3>3. d <= file_count' - 1 /\ Len(data') >= file_count' - 1
        <4>1. file_count' \in Nat
          BY DEF TInv, TypedTables
        <4>2. (MadeOf(w))' = 1..(file_count' - 1)
          BY <1>2 DEF MadeOf
        <4>3. Len(data') = file_count' - 1 \/ Len(data') = file_count'
          BY <3>2 DEF SizesOf
        <4>4. d \in 1..(file_count' - 1)
          BY <3>2, <4>2
        <4>5. d <= file_count' - 1
          BY <4>4
        <4>6. Len(data') >= file_count' - 1
          BY <4>1, <4>3, OneLess
        <4> QED
          BY <4>5, <4>6
      <3>4. Len(data') \in Nat /\ file_count' \in Nat /\ d \in Nat /\ Len(data) \in Nat
        BY <2>1 DEF TInv, TypedTables, Ino, Clear
      <3>5. data'[d] = data[d]
        BY <1>2, <2>1
      <3> QED
        BY <3>1, <3>3, <3>4, <3>5
    <2>3. (ChildrenOf(d))' = ChildrenOf(d)
      BY <2>2 DEF ChildrenOf
    <2>4. (ChildNames(d))' = ChildNames(d)
      BY <2>1, <2>3, ChildNamesStay DEF Clear
    <2>5. CreationFits(w)
      BY DEF Clear, Tree
    <2>6. pc'[w] \in Joined => \E k \in DOMAIN data'[d].children : data'[d].children[k] = file_count'
      BY <1>2, <2>1, <2>2, <2>5 DEF CreationFits
    <2>7. req[w].name \notin (ChildNames(d))'
      <3>1. pc[w] \in Creation \ {"reply"}
        BY <1>1 DEF Between
      <3> QED
        BY <2>1, <2>4, <2>5, <3>1 DEF CreationFits
    <2> QED
      BY <1>2, <2>1, <2>6, <2>7 DEF CreationFits
  <1>7. ASSUME NEW v \in Worker, v # w PROVE (CreationFits(v))'
    BY <1>2, <1>7 DEF CreationFits, Joined, Creation, Between
  <1>8. 4 \in Made'
    BY <1>3 DEF Clear, Tree
  <1> QED
    BY <1>3, <1>4, <1>5, <1>6, <1>7, <1>8 DEF Tree

LEMMA StoreCountTree ==
    ASSUME Clear, TInv', NEW w \in Worker, StoreCount(w)
    PROVE  Tree'
  <1>1. pc[w] = "store" /\ Goto(w, "growStats") /\ file_count' = local[w] + 1
        /\ UNCHANGED <<file_stats, data, moving, local>> /\ known' = known
    BY DEF StoreCount, Counted, kernel
  <1>2. pc[w] \in Creation /\ "growStats" \in Creation /\ "growStats" \in Between
    BY <1>1 DEF Creation, Between
  <1>3. SizesOf(w) /\ pc'[w] = "growStats"
    BY <1>1, <1>2, LonelyStays
  <1>4. local[w] = file_count /\ file_count \in Nat
    BY <1>1, <1>3 DEF SizesOf, Clear, TInv, TypedTables
  <1>5. (SizesOf(w))'
    <2>1. /\ Len(file_stats) = file_count /\ Len(data) = file_count
          /\ "stats" \notin moving /\ "data" \notin moving
      BY <1>1, <1>3 DEF SizesOf, Between
    <2>2. file_count = file_count' - 1
      BY <1>1, <1>4
    <2> QED
      BY <1>1, <1>3, <2>1, <2>2 DEF SizesOf, Between
  <1>6. (MadeOf(w))' = MadeOf(w)
    <2>1. MadeOf(w) = 1..file_count
      BY <1>1 DEF MadeOf, Between
    <2>2. (MadeOf(w))' = 1..(file_count' - 1)
      BY <1>3 DEF MadeOf, Between
    <2>3. file_count' - 1 = file_count
      BY <1>1, <1>4
    <2> QED
      BY <2>1, <2>2, <2>3
  <1>7. /\ \A c \in Ino : (NameOf(c))' = NameOf(c)
        /\ \A i \in MadeOf(w) : file_stats'[i] = file_stats[i] /\ data'[i] = data[i]
    BY <1>1 DEF NameOf
  <1>8. pc[w] \notin Joined /\ "growStats" \notin {"growChildren", "addChild"} \cup Joined
    BY <1>1 DEF Joined
  <1> QED
    BY <1>1, <1>2, <1>5, <1>6, <1>7, <1>8, TableStepTree

LEMMA GrowTree ==
    ASSUME Clear, TInv', NEW w \in Worker, fault' = "none",
           Grow(w, "growStats", "stats", "publishStats") \/ Grow(w, "growData", "data", "publishData")
    PROVE  Tree'
  <1>1. PICK tbl \in {"stats", "data"}, to \in {"publishStats", "publishData"} :
          /\ moving' = moving \cup {tbl} /\ local' = [local EXCEPT ![w] = file_count]
          /\ Goto(w, to) /\ UNCHANGED <<file_count, file_stats, data>> /\ known' = known
          /\ \/ pc[w] = "growStats" /\ tbl = "stats" /\ to = "publishStats"
             \/ pc[w] = "growData" /\ tbl = "data" /\ to = "publishData"
    BY DEF Grow, Unless, Room, kernel
  <1>2. pc[w] \in Creation /\ to \in Creation /\ to \in Between /\ pc[w] \in Between
    BY <1>1 DEF Creation, Between
  <1>3. SizesOf(w) /\ pc'[w] = to
    BY <1>1, <1>2, LonelyStays
  <1>4. local'[w] = file_count
    BY <1>1 DEF Clear, TInv, TypedWorkers
  <1>5. (SizesOf(w))'
    <2>1. CASE to = "publishStats"
      <3>1. "stats" \in moving' /\ ("data" \in moving' <=> "data" \in moving)
        BY <1>1, <2>1
      <3> QED
        BY <1>1, <1>3, <1>4, <2>1, <3>1 DEF SizesOf, Between
    <2>2. CASE to = "publishData"
      <3>1. "data" \in moving' /\ ("stats" \in moving' <=> "stats" \in moving)
        BY <1>1, <2>2
      <3> QED
        BY <1>1, <1>3, <1>4, <2>2, <3>1 DEF SizesOf, Between
    <2> QED
      BY <1>1, <2>1, <2>2
  <1>6. (MadeOf(w))' = MadeOf(w)
    BY <1>1, <1>2, <1>3 DEF MadeOf
  <1>7. /\ \A c \in Ino : (NameOf(c))' = NameOf(c)
        /\ \A i \in MadeOf(w) : file_stats'[i] = file_stats[i] /\ data'[i] = data[i]
    BY <1>1 DEF NameOf
  <1>8. /\ pc[w] \in Joined <=> to \in Joined
        /\ to # "setData" /\ file_count' = file_count
    BY <1>1 DEF Joined
  <1>9. to \in {"growChildren", "addChild"} \cup Joined => file_stats'[file_count'] = Kind(req[w])
    <2>1. CreationFits(w)
      BY DEF Clear, Tree
    <2> QED
      BY <1>1, <1>8, <2>1 DEF CreationFits
  <1> QED
    BY <1>1, <1>2, <1>5, <1>6, <1>7, <1>8, <1>9, TableStepTree

LEMMA ResizedAt ==
    ASSUME NEW t, NEW n \in Nat, NEW u, NEW r, r = Resized(t, n, u)
    PROVE  /\ Len(r) = n
           /\ \A i \in 1..n : i <= Len(t) => r[i] = t[i]
           /\ \A i \in 1..n : ~(i <= Len(t)) => r[i] = u
  <1>1. r = [i \in 1..n |-> IF i <= Len(t) THEN t[i] ELSE u]
    BY DEF Resized
  <1> QED
    BY <1>1

LEMMA PublishStatsTree ==
    ASSUME Clear, TInv', NEW w \in Worker, PublishStats(w)
    PROVE  Tree'
  <1>1. /\ pc[w] = "publishStats" /\ Goto(w, "setStat")
        /\ file_stats' = Resized(file_stats, local[w], Unset) /\ moving' = moving \ {"stats"}
        /\ UNCHANGED <<file_count, data, local>> /\ known' = known
    BY DEF PublishStats, kernel
  <1>2. pc[w] \in Creation /\ "setStat" \in Creation /\ "setStat" \in Between /\ pc[w] \in Between
    BY <1>1 DEF Creation, Between
  <1>3. SizesOf(w) /\ pc'[w] = "setStat"
    BY <1>1, <1>2, LonelyStays
  <1>4. local[w] = file_count /\ file_count \in Nat /\ Len(file_stats) = file_count - 1
    BY <1>1, <1>3 DEF SizesOf, Clear, TInv, TypedTables
  <1>5. /\ Len(file_stats') = file_count
        /\ \A i \in 1..(file_count - 1) : file_stats'[i] = file_stats[i]
    <2>1. file_stats \in Seq(Modes) /\ Unset \in Modes
      BY DEF Clear, TInv, TypedTables, Modes
    <2>2. PICK n \in Nat : n = file_count
      BY <1>4
    <2>3. file_stats' = Resized(file_stats, n, Unset) /\ Len(file_stats) = n - 1
      BY <1>1, <1>4, <2>2
    <2>4. /\ Len(file_stats') = n
          /\ \A i \in 1..n : file_stats'[i] = IF i <= Len(file_stats) THEN file_stats[i] ELSE Unset
      <3>1. PICK r : r = Resized(file_stats, n, Unset)
        OBVIOUS
      <3>2. /\ Len(r) = n
            /\ \A i \in 1..n : i <= Len(file_stats) => r[i] = file_stats[i]
            /\ \A i \in 1..n : ~(i <= Len(file_stats)) => r[i] = Unset
        BY <3>1, ResizedAt
      <3>3. file_stats' = r
        BY <2>3, <3>1
      <3> QED
        BY <3>2, <3>3
    <2> QED
      BY <2>2, <2>3, <2>4
  <1>6. (SizesOf(w))'
    <2>1. "stats" \notin moving' /\ ("data" \in moving' <=> "data" \in moving)
      BY <1>1
    <2> QED
      BY <1>1, <1>3, <1>5, <2>1 DEF SizesOf, Between
  <1>7. (MadeOf(w))' = MadeOf(w) /\ MadeOf(w) = 1..(file_count - 1)
    BY <1>1, <1>2, <1>3 DEF MadeOf
  <1>8. /\ \A c \in Ino : (NameOf(c))' = NameOf(c)
        /\ \A i \in MadeOf(w) : file_stats'[i] = file_stats[i] /\ data'[i] = data[i]
    BY <1>1, <1>5, <1>7 DEF NameOf
  <1>9. pc[w] \notin Joined /\ "setStat" \notin {"growChildren", "addChild"} \cup Joined
    BY <1>1 DEF Joined
  <1> QED
    BY <1>1, <1>2, <1>6, <1>7, <1>8, <1>9, TableStepTree

LEMMA SetStatTree ==
    ASSUME Clear, TInv', NEW w \in Worker, SetStat(w), fault' = "none"
    PROVE  Tree'
  <1>1. /\ file_stats' = [file_stats EXCEPT ![file_count] = Kind(req[w])]
        /\ Goto(w, "growChildren") /\ UNCHANGED <<file_count, data, moving, local>> /\ known' = known
        /\ pc[w] = "setStat"
    BY DEF SetStat, Unless, kernel
  <1>2. pc[w] \in Creation /\ "growChildren" \in Creation /\ "growChildren" \in Between /\ pc[w] \in Between
    BY <1>1 DEF Creation, Between
  <1>3. SizesOf(w) /\ pc'[w] = "growChildren"
    BY <1>1, <1>2, LonelyStays
  <1>4. Len(file_stats) = file_count /\ file_count \in Nat /\ file_count \in 1..Len(file_stats)
    BY <1>1, <1>3 DEF SizesOf, Clear, TInv, TypedTables
  <1>5. /\ Len(file_stats') = file_count /\ file_stats'[file_count] = Kind(req[w])
        /\ \A i \in 1..(file_count - 1) : file_stats'[i] = file_stats[i]
    <2>1. file_stats \in Seq(Modes) /\ Kind(req[w]) \in Modes
      BY DEF Clear, TInv, TypedTables, Modes, Kinds, Kind
    <2>2. /\ Len(file_stats') = Len(file_stats) /\ file_stats'[file_count] = Kind(req[w])
          /\ \A j \in 1..Len(file_stats) : j # file_count => file_stats'[j] = file_stats[j]
      BY <1>1, <1>4, <2>1, ChangedAt
    <2> QED
      BY <1>4, <2>2
  <1>6. (SizesOf(w))'
    BY <1>1, <1>3, <1>5 DEF SizesOf, Between
  <1>7. (MadeOf(w))' = MadeOf(w) /\ MadeOf(w) = 1..(file_count - 1)
    BY <1>1, <1>2, <1>3 DEF MadeOf
  <1>8. /\ \A c \in Ino : (NameOf(c))' = NameOf(c)
        /\ \A i \in MadeOf(w) : file_stats'[i] = file_stats[i] /\ data'[i] = data[i]
    BY <1>1, <1>5, <1>7 DEF NameOf
  <1>9. pc[w] \notin Joined /\ "growChildren" \notin Joined
    BY <1>1 DEF Joined
  <1> QED
    BY <1>1, <1>2, <1>5, <1>6, <1>7, <1>8, <1>9, TableStepTree

LEMMA GrowChildrenTree ==
    ASSUME Clear, TInv', NEW w \in Worker, GrowChildren(w), fault' = "none"
    PROVE  Tree'
  <1>1. /\ pc[w] = "growChildren" /\ Goto(w, "addChild")
        /\ UNCHANGED <<file_count, file_stats, data, moving, local>> /\ known' = known
    BY DEF GrowChildren, Unless, kernel, tables
  <1>2. pc[w] \in Creation /\ "addChild" \in Creation /\ "addChild" \in Between /\ pc[w] \in Between
    BY <1>1 DEF Creation, Between
  <1>3. SizesOf(w) /\ pc'[w] = "addChild"
    BY <1>1, <1>2, LonelyStays
  <1>4. (SizesOf(w))'
    BY <1>1, <1>3 DEF SizesOf, Between
  <1>5. (MadeOf(w))' = MadeOf(w)
    BY <1>1, <1>2, <1>3 DEF MadeOf
  <1>6. /\ \A c \in Ino : (NameOf(c))' = NameOf(c)
        /\ \A i \in MadeOf(w) : file_stats'[i] = file_stats[i] /\ data'[i] = data[i]
    BY <1>1 DEF NameOf
  <1>7. pc[w] \notin Joined /\ "addChild" \notin Joined
    BY <1>1 DEF Joined
  <1>8. file_stats'[file_count'] = Kind(req[w])
    <2>1. CreationFits(w)
      BY DEF Clear, Tree
    <2> QED
      BY <1>1, <2>1 DEF CreationFits
  <1> QED
    BY <1>1, <1>2, <1>4, <1>5, <1>6, <1>7, <1>8, TableStepTree

\* The name of an inode whose entry is beyond the table, or not written.
LEMMA PublishDataStep ==
    ASSUME Clear, TInv', NEW w \in Worker, PublishData(w)
    PROVE  /\ pc[w] = "publishData" /\ Goto(w, "setData")
           /\ moving' = moving \ {"data"}
           /\ UNCHANGED <<file_count, file_stats, local>> /\ known' = known
           /\ SizesOf(w) /\ pc'[w] = "setData"
           /\ file_count \in Nat /\ file_count >= 4 /\ Len(data) = file_count - 1
           /\ Len(data') = file_count /\ data'[file_count] = UnsetEntry
           /\ \A i \in 1..(file_count - 1) : data'[i] = data[i]
  <1>1. /\ pc[w] = "publishData" /\ Goto(w, "setData")
        /\ data' = Resized(data, local[w], UnsetEntry) /\ moving' = moving \ {"data"}
        /\ UNCHANGED <<file_count, file_stats, local>> /\ known' = known
    BY DEF PublishData, kernel
  <1>2. pc[w] \in Creation /\ "setData" \in Creation /\ "setData" \in Between /\ pc[w] \in Between
    BY <1>1 DEF Creation, Between
  <1>3. SizesOf(w) /\ pc'[w] = "setData"
    BY <1>1, <1>2, LonelyStays
  <1>4. local[w] = file_count /\ file_count \in Nat /\ file_count >= 4 /\ Len(data) = file_count - 1
    BY <1>1, <1>3 DEF SizesOf, Clear, TInv, TypedTables, Between
  <1>5. /\ Len(data') = file_count /\ data'[file_count] = UnsetEntry
        /\ \A i \in 1..(file_count - 1) : data'[i] = data[i]
    <2>1. data \in Seq(Entries) /\ UnsetEntry \in Entries
      BY EntryTypes DEF Clear, TInv, TypedTables
    <2>2. PICK n \in Nat : n = file_count
      BY <1>4
    <2>3. data' = Resized(data, n, UnsetEntry) /\ Len(data) = n - 1 /\ n >= 4
      BY <1>1, <1>4, <2>2
    <2>4. /\ Len(data') = n
          /\ \A i \in 1..n : data'[i] = IF i <= Len(data) THEN data[i] ELSE UnsetEntry
      <3>1. PICK r : r = Resized(data, n, UnsetEntry)
        OBVIOUS
      <3>2. /\ Len(r) = n
            /\ \A i \in 1..n : i <= Len(data) => r[i] = data[i]
            /\ \A i \in 1..n : ~(i <= Len(data)) => r[i] = UnsetEntry
        BY <3>1, ResizedAt
      <3>3. data' = r
        BY <2>3, <3>1
      <3> QED
        BY <3>2, <3>3
    <2>5. n \in 1..n /\ ~(n <= Len(data))
      BY <2>3
    <2>6. data'[n] = UnsetEntry
      BY <2>4, <2>5
    <2>7. \A i \in 1..(n - 1) : i \in 1..n /\ i <= Len(data)
      BY <2>3
    <2> QED
      BY <2>2, <2>4, <2>6, <2>7
  <1> QED
    BY <1>1, <1>3, <1>4, <1>5

LEMMA PublishDataTree ==
    ASSUME Clear, TInv', NEW w \in Worker, PublishData(w)
    PROVE  Tree'
  <1>1. /\ pc[w] = "publishData" /\ Goto(w, "setData") /\ moving' = moving \ {"data"}
        /\ UNCHANGED <<file_count, file_stats, local>> /\ known' = known
    BY PublishDataStep
  <1>2. pc[w] \in Creation /\ "setData" \in Creation /\ "setData" \in Between /\ pc[w] \in Between
    BY <1>1 DEF Creation, Between
  <1>3. SizesOf(w) /\ pc'[w] = "setData"
    BY PublishDataStep
  <1>4. /\ local[w] = file_count /\ file_count \in Nat /\ file_count >= 4
        /\ Len(data) = file_count - 1
    BY <1>1, <1>3, PublishDataStep DEF SizesOf
  <1>5. /\ Len(data') = file_count /\ data'[file_count] = UnsetEntry
        /\ \A i \in 1..(file_count - 1) : data'[i] = data[i]
    BY PublishDataStep
  <1>6. (SizesOf(w))'
    <2>1. "data" \notin moving' /\ ("stats" \in moving' <=> "stats" \in moving)
      BY <1>1
    <2> QED
      BY <1>1, <1>3, <1>5, <2>1 DEF SizesOf, Between
  <1>7. (MadeOf(w))' = MadeOf(w) /\ MadeOf(w) = 1..(file_count - 1)
    BY <1>1, <1>2, <1>3 DEF MadeOf
  <1>8. \A i \in MadeOf(w) : file_stats'[i] = file_stats[i] /\ data'[i] = data[i]
    BY <1>1, <1>5, <1>7
  <1>9. ASSUME NEW c \in Ino PROVE (NameOf(c))' = NameOf(c)
    <2>1. c \in Nat /\ c >= 1
      BY DEF Ino
    <2>2. CASE c <= file_count - 1
      <3>1. data'[c] = data[c] /\ c <= Len(data) /\ c <= Len(data')
        BY <1>4, <1>5, <2>1, <2>2
      <3> QED
        BY <3>1 DEF NameOf
    <2>3. CASE c = file_count
      <3>1. data'[c].name = Unset /\ ~(c <= Len(data))
        BY <1>4, <1>5, <2>3, EntryTypes
      <3> QED
        BY <3>1 DEF NameOf
    <2>4. CASE c > file_count
      <3>1. ~(c <= Len(data)) /\ ~(c <= Len(data'))
        BY <1>4, <1>5, <2>1, <2>4
      <3> QED
        BY <3>1 DEF NameOf
    <2> QED
      BY <1>4, <2>1, <2>2, <2>3, <2>4
  <1>10. pc[w] \in Joined /\ "setData" \in Joined /\ file_count' = file_count
    BY <1>1 DEF Joined
  <1>11. file_stats'[file_count'] = Kind(req[w])
    <2>1. CreationFits(w)
      BY DEF Clear, Tree
    <2> QED
      BY <1>1, <1>10, <2>1 DEF CreationFits
  <1>12. data'[file_count'] = UnsetEntry
    BY <1>1, <1>5
  <1> QED
    BY <1>1, <1>2, <1>6, <1>7, <1>8, <1>9, <1>10, <1>11, <1>12, TableStepTree

LEMMA AppendIs ==
    ASSUME NEW S, NEW s \in Seq(S), NEW e \in S, NEW t, t = Append(s, e)
    PROVE  /\ DOMAIN t = 1..(Len(s) + 1) /\ t[Len(s) + 1] = e /\ Len(s) \in Nat
           /\ DOMAIN s = 1..Len(s)
           /\ \A k \in 1..Len(s) : t[k] = s[k] /\ k \in DOMAIN t
           /\ \A k \in DOMAIN t : k \in 1..Len(s) \/ k = Len(s) + 1
  OBVIOUS

LEMMA AddChildStep ==
    ASSUME Clear, TInv', NEW w \in Worker, AddChild(w), fault' = "none", NEW d, d = req[w].ino
    PROVE  /\ pc[w] = "addChild" /\ Goto(w, "growData")
           /\ UNCHANGED <<file_count, file_stats, moving, local>> /\ known' = known
           /\ d \in Made /\ d \in 1..Len(data) /\ Len(data') = Len(data)
           /\ data'[d].children = Append(data[d].children, file_count)
           /\ data'[d].name = data[d].name /\ data'[d].parent = data[d].parent
           /\ data'[d].kind = data[d].kind /\ data'[d].text = data[d].text
           /\ \A i \in 1..Len(data) : i # d => data'[i] = data[i]
  <1>1. /\ data' = [data EXCEPT ![d].children = Append(@, file_count)]
        /\ Goto(w, "growData") /\ UNCHANGED <<file_count, file_stats, moving, local>>
        /\ known' = known /\ pc[w] = "addChild"
    BY DEF AddChild, Unless, Child, kernel
  <1>2. pc[w] \in Creation /\ "growData" \in Creation
    BY <1>1 DEF Creation, Between
  <1>3. d \in Made /\ d \in Nat
    BY <1>1, <1>2, LonelyStays
  <1>4. d \in 1..Len(data) /\ d \in Nat \ {0} /\ d <= Len(data)
    <2>1. d \in 1..Len(data)
      BY <1>3, ClearIs
    <2> QED
      BY <1>3, <2>1
  <1>5. data[d] \in Entries /\ file_count \in Ino
    BY <1>4, CountsFit DEF Clear, TInv, TypedTables
  <1>6. PICK e : e = [data[d] EXCEPT !.children = Append(@, file_count)]
    OBVIOUS
  <1>7. /\ e \in Entries /\ e.children = Append(data[d].children, file_count)
        /\ e.name = data[d].name /\ e.parent = data[d].parent
        /\ e.kind = data[d].kind /\ e.text = data[d].text
    BY <1>5, <1>6, AppendedChild
  <1>8. data' = [data EXCEPT ![d] = e]
    BY <1>1, <1>6
  <1>9. /\ Len(data') = Len(data) /\ data'[d] = e
        /\ \A j \in 1..Len(data) : j # d => data'[j] = data[j]
    BY <1>4, <1>7, <1>8, DataStepTypes DEF Clear
  <1> QED
    BY <1>1, <1>3, <1>4, <1>7, <1>9

LEMMA AddChildTree ==
    ASSUME Clear, TInv', NEW w \in Worker, AddChild(w), fault' = "none"
    PROVE  Tree'
  <1>1. PICK d : d = req[w].ino
    OBVIOUS
  <1>2. /\ pc[w] = "addChild" /\ Goto(w, "growData")
        /\ UNCHANGED <<file_count, file_stats, moving, local>> /\ known' = known
        /\ d \in Made /\ d \in 1..Len(data) /\ Len(data') = Len(data)
        /\ data'[d].children = Append(data[d].children, file_count)
        /\ data'[d].name = data[d].name /\ data'[d].parent = data[d].parent
        /\ data'[d].kind = data[d].kind /\ data'[d].text = data[d].text
        /\ \A i \in 1..Len(data) : i # d => data'[i] = data[i]
    BY SMTT(30), <1>1, AddChildStep
  <1>3. pc[w] \in Creation /\ "growData" \in Creation
    BY <1>2 DEF Creation, Between
  <1>4. /\ Creates(req[w]) /\ pc'[w] = "growData" /\ req' = req
        /\ \A v \in Worker : v # w => pc'[v] = pc[v] /\ pc'[v] \notin Creation
        /\ Made = MadeOf(w) /\ SizesOf(w) /\ Made' = (MadeOf(w))' /\ (Sizes' <=> (SizesOf(w))')
        /\ \A i \in Nat : Joining(i) <=> (pc[w] \in Joined /\ req[w].ino = i)
        /\ \A i \in Nat : (Joining(i))' <=> ("growData" \in Joined /\ req[w].ino = i)
        /\ \A i : Copying(i) <=> (Copying(i))'
    BY <1>2, <1>3, LonelyStays
  <1>5. /\ Sizes' /\ Made' = Made /\ Made = 1..(file_count - 1)
        /\ Len(data) = file_count - 1 /\ file_count \in Nat /\ file_count \in Ino
    <2>1. Len(data) = file_count - 1 /\ file_count \in Nat /\ file_count \in Ino
      BY <1>2, <1>4, CountsFit DEF SizesOf, Between, Clear, TInv, TypedTables
    <2>2. (SizesOf(w))'
      BY <1>2, <1>4 DEF SizesOf, Between
    <2>3. MadeOf(w) = 1..(file_count - 1) /\ (MadeOf(w))' = 1..(file_count - 1)
      BY <1>2, <1>4 DEF MadeOf, Between
    <2> QED
      BY <1>4, <2>1, <2>2, <2>3
  <1>0. PICK n \in Ino : n = file_count /\ n = file_count'
    BY <1>2, <1>5
  <1>6. /\ file_count \notin Made /\ file_count \notin Made' /\ ~(file_count <= Len(data))
        /\ NameOf(n) = Unset /\ (NameOf(n))' = Unset
    BY <1>0, <1>2, <1>5 DEF NameOf
  <1>7. ASSUME NEW c \in Ino PROVE (NameOf(c))' = NameOf(c)
    <2>1. c <= Len(data) => data'[c].name = data[c].name
      <3>1. c <= Len(data) => c \in 1..Len(data)
        BY <1>5 DEF Ino
      <3> QED
        BY <1>2, <3>1
    <2> QED
      BY <1>2, <2>1 DEF NameOf
  <1>8. PICK cs \in Seq(Ino) : cs = data[d].children
    <2>1. data[d] \in Entries
      BY <1>2 DEF Clear, TInv, TypedTables
    <2> QED
      BY <2>1 DEF Entries
  <1>9. PICK ncs : ncs = Append(cs, n)
    OBVIOUS
  <1>10. /\ DOMAIN ncs = 1..(Len(cs) + 1) /\ ncs[Len(cs) + 1] = n /\ Len(cs) \in Nat
         /\ DOMAIN cs = 1..Len(cs)
         /\ \A k \in 1..Len(cs) : ncs[k] = cs[k] /\ k \in DOMAIN ncs
         /\ \A k \in DOMAIN ncs : k \in 1..Len(cs) \/ k = Len(cs) + 1
    BY <1>9, AppendIs
  <1>11. data'[d].children = ncs
    BY <1>0, <1>2, <1>8, <1>9
  <1>12. ASSUME NEW i \in Made, NEW c, ChildFits(i, c)
         PROVE  c \in Made /\ (ChildFits(i, c))'
    <2>1. ~Joining(i)
      <3>1. i \in Nat /\ pc[w] \notin Joined
        BY <1>2, ClearIs DEF Joined
      <3> QED
        BY <1>4, <3>1
    <2>2. c \in Made /\ c # 1 /\ data[c].parent = i
      BY <1>12, <2>1 DEF ChildFits
    <2>3. data'[c].parent = data[c].parent
      BY <1>2, <2>2, ClearIs
    <2> QED
      BY <1>5, <2>2, <2>3 DEF ChildFits
  <1>13. ASSUME NEW i \in Made, i # 1
         PROVE  /\ data[i].parent \in Made
                /\ \E k \in DOMAIN data'[data[i].parent].children :
                     data'[data[i].parent].children[k] = i
    <2>1. /\ data[i].parent \in Made
          /\ \E k \in DOMAIN data[data[i].parent].children : data[data[i].parent].children[k] = i
      BY <1>13 DEF Clear, Tree, EntryFits
    <2>2. CASE data[i].parent = d
      <3>1. PICK k \in DOMAIN cs : cs[k] = i
        BY <1>8, <2>1, <2>2
      <3>2. k \in DOMAIN ncs /\ ncs[k] = i
        BY <1>10, <3>1
      <3> QED
        BY <1>11, <2>1, <2>2, <3>2
    <2>3. CASE data[i].parent # d
      <3>1. data'[data[i].parent] = data[data[i].parent]
        BY <1>2, <2>1, <2>3, ClearIs
      <3> QED
        BY <2>1, <3>1
    <2> QED
      BY <2>2, <2>3
  <1>14. ASSUME NEW i \in Made, i # d PROVE (EntryFits(i))'
    <2>1. EntryFits(i) /\ data'[i] = data[i]
      BY <1>2, <1>14, ClearIs DEF Clear, Tree
    <2>2. PICK is \in Seq(Ino) : is = data[i].children
      <3>1. data[i] \in Entries
        BY ClearIs DEF Clear, TInv, TypedTables
      <3> QED
        BY <3>1 DEF Entries
    <2>3. \A k \in DOMAIN is : (ChildFits(i, is[k]))'
      BY <1>12, <2>1, <2>2 DEF EntryFits
    <2>4. \A j, k \in DOMAIN is : j # k => (NameOf(is[j]))' # (NameOf(is[k]))'
      <3>1. ASSUME NEW j \in DOMAIN is, NEW k \in DOMAIN is, j # k
            PROVE  (NameOf(is[j]))' # (NameOf(is[k]))'
        <4>1. PICK a \in Ino, b \in Ino : a = is[j] /\ b = is[k]
          BY <2>2
        <4>2. NameOf(a) # NameOf(b)
          BY <2>1, <2>2, <3>1, <4>1 DEF EntryFits
        <4>3. (NameOf(a))' = NameOf(a) /\ (NameOf(b))' = NameOf(b)
          BY <1>7
        <4> QED
          BY <4>1, <4>2, <4>3
      <3> QED
        BY <3>1
    <2>5. i # 1 => /\ data'[i].parent \in Made'
                   /\ \E k \in DOMAIN data'[data'[i].parent].children :
                        data'[data'[i].parent].children[k] = i
      BY <1>5, <1>13, <2>1
    <2>6. /\ data'[i].kind = file_stats'[i] /\ data'[i].kind \in Kinds /\ data'[i].name # Unset
          /\ data'[i].text.bytes = UnsetBytes => (i >= 5 /\ data'[i].kind = "dir") \/ (Copying(i))'
      BY <1>2, <1>4, <2>1 DEF EntryFits
    <2>7. data'[i].children = is
      BY <2>1, <2>2
    <2> QED
      BY <2>3, <2>4, <2>5, <2>6, <2>7 DEF EntryFits
  <1>15. (EntryFits(d))'
    <2>1. EntryFits(d)
      BY <1>2 DEF Clear, Tree
    <2>2. ASSUME NEW k \in 1..Len(cs)
          PROVE  cs[k] \in Made /\ cs[k] \in Ino /\ ncs[k] = cs[k]
                 /\ (ChildFits(d, cs[k]))' /\ (NameOf(cs[k]))' # Unset
      <3>1. PICK c \in Ino : c = cs[k]
        BY <1>8
      <3>2. ChildFits(d, c)
        BY <1>8, <1>10, <2>1, <3>1 DEF EntryFits
      <3>3. c \in Made /\ (ChildFits(d, c))'
        BY <1>2, <1>12, <3>2
      <3>4. NameOf(c) # Unset
        <4>1. EntryFits(c) /\ c <= Len(data)
          BY <3>3, ClearIs, <1>5 DEF Clear, Tree
        <4> QED
          BY <4>1 DEF EntryFits, NameOf
      <3> QED
        BY <1>7, <1>10, <3>1, <3>3, <3>4
    <2>3. (ChildFits(d, n))'
      <3>1. (Joining(d))'
        BY <1>1, <1>2, <1>4, ClearIs DEF Joined
      <3> QED
        BY <1>0, <1>2, <1>6, <3>1 DEF ChildFits
    <2>4. \A k \in DOMAIN ncs : (ChildFits(d, ncs[k]))'
      <3>1. ASSUME NEW k \in DOMAIN ncs PROVE (ChildFits(d, ncs[k]))'
        <4>1. CASE k \in 1..Len(cs)
          BY <2>2, <4>1
        <4>2. CASE k = Len(cs) + 1
          BY <1>10, <2>3, <4>2
        <4> QED
          BY <1>10, <4>1, <4>2
      <3> QED
        BY <3>1
    <2>5. ASSUME NEW j \in DOMAIN ncs, NEW k \in DOMAIN ncs, j # k
          PROVE  (NameOf(ncs[j]))' # (NameOf(ncs[k]))'
      <3>1. CASE j \in 1..Len(cs) /\ k \in 1..Len(cs)
        <4>1. PICK a \in Ino, b \in Ino : a = cs[j] /\ b = cs[k]
          BY <2>2, <3>1
        <4>2. NameOf(a) # NameOf(b)
          BY <1>8, <1>10, <2>1, <2>5, <3>1, <4>1 DEF EntryFits
        <4>3. (NameOf(a))' = NameOf(a) /\ (NameOf(b))' = NameOf(b)
          BY <1>7
        <4>4. ncs[j] = a /\ ncs[k] = b
          BY <2>2, <3>1, <4>1
        <4> QED
          BY <4>2, <4>3, <4>4
      <3>2. CASE j \in 1..Len(cs) /\ k = Len(cs) + 1
        BY <1>6, <1>10, <2>2, <3>2
      <3>3. CASE j = Len(cs) + 1 /\ k \in 1..Len(cs)
        BY <1>6, <1>10, <2>2, <3>3
      <3> QED
        BY <1>10, <2>5, <3>1, <3>2, <3>3
    <2>6. d # 1 => /\ data'[d].parent \in Made'
                   /\ \E k \in DOMAIN data'[data'[d].parent].children :
                        data'[data'[d].parent].children[k] = d
      BY <1>2, <1>5, <1>13
    <2>7. /\ data'[d].kind = file_stats'[d] /\ data'[d].kind \in Kinds /\ data'[d].name # Unset
          /\ data'[d].text.bytes = UnsetBytes => (d >= 5 /\ data'[d].kind = "dir") \/ (Copying(d))'
      BY <1>2, <1>4, <2>1 DEF EntryFits
    <2> QED
      BY <1>11, <2>4, <2>5, <2>6, <2>7 DEF EntryFits
  <1>16. (CreationFits(w))'
    <2>1. CreationFits(w)
      BY DEF Clear, Tree
    <2>2. file_stats'[file_count'] = Kind(req'[w])
      BY <1>2, <1>4, <2>1 DEF CreationFits
    <2>3. \E k \in DOMAIN data'[req'[w].ino].children : data'[req'[w].ino].children[k] = file_count'
      <3>1. Len(cs) + 1 \in DOMAIN ncs /\ ncs[Len(cs) + 1] = file_count'
        BY <1>0, <1>10
      <3> QED
        BY <1>1, <1>2, <1>4, <1>11, <3>1
    <2>4. req[w].name # Unset /\ req[w].name \notin ChildNames(d)
      BY <1>1, <1>2, <1>3, <1>4, <2>1 DEF CreationFits, Clear, TInv, StepFits, NewName, Unset
    <2>5. req[w].name \notin (ChildNames(d))'
      <3>1. ChildrenOf(d) = cs /\ (ChildrenOf(d))' = ncs
        BY <1>2, <1>5, <1>8, <1>11 DEF ChildrenOf
      <3>2. ASSUME NEW k \in DOMAIN ncs, (NameOf(ncs[k]))' = req[w].name PROVE FALSE
        <4>1. CASE k \in 1..Len(cs)
          <5>1. PICK c \in Ino : c = cs[k] /\ c = ncs[k]
            BY <1>8, <1>10, <4>1
          <5>2. NameOf(c) = req[w].name
            BY <1>7, <3>2, <5>1
          <5>3. NameOf(c) \in ChildNames(d)
            BY <1>10, <3>1, <4>1, <5>1 DEF ChildNames
          <5> QED
            BY <2>4, <5>2, <5>3
        <4>2. CASE k = Len(cs) + 1
          BY <1>6, <1>10, <2>4, <3>2, <4>2
        <4> QED
          BY <1>10, <4>1, <4>2
      <3>3. (ChildNames(d))' = {(NameOf(ncs[k]))' : k \in DOMAIN ncs}
        BY <3>1 DEF ChildNames
      <3> QED
        BY <3>2, <3>3
    <2>6. req'[w].name \notin (ChildNames(req[w].ino))'
      BY <1>1, <1>4, <2>5
    <2> QED
      BY <1>4, <2>2, <2>3, <2>6 DEF CreationFits
  <1>17. ASSUME NEW v \in Worker, v # w PROVE (CreationFits(v))'
    BY <1>4, <1>17 DEF CreationFits, Joined, Creation, Between
  <1>18. KnownFits' /\ 4 \in Made'
    <2>1. \A k \in known : k.ino \in Made /\ file_stats[k.ino] = k.kind
      BY ClearIs
    <2> QED
      BY <1>2, <1>5, <2>1 DEF KnownFits, Clear, Tree
  <1>19. \A i \in Made' : (EntryFits(i))'
    BY <1>5, <1>14, <1>15
  <1>20. \A v \in Worker : (CreationFits(v))'
    BY <1>16, <1>17
  <1> QED
    BY <1>5, <1>18, <1>19, <1>20 DEF Tree

LEMMA SetDataStep ==
    ASSUME Clear, TInv', NEW w \in Worker, SetData(w), fault' = "none",
           NEW d, d = req[w].ino, NEW n, n = file_count
    PROVE  /\ pc[w] = "setData" /\ Goto(w, "reply")
           /\ UNCHANGED <<file_count, file_stats, moving, local>> /\ known' = known
           /\ n \in Ino /\ n \in Nat /\ n >= 5 /\ Len(data) = n /\ Len(data') = n
           /\ data'[n].name = req[w].name /\ data'[n].parent = d
           /\ data'[n].kind = Kind(req[w]) /\ data'[n].children = <<>>
           /\ data'[n].text.bytes = UnsetBytes => Kind(req[w]) = "dir"
           /\ Kind(req[w]) = "file" => data'[n].text = NoText
           /\ \A i \in 1..n : i # n => data'[i] = data[i]
           /\ req[w].name \in NewName /\ Kind(req[w]) \in Kinds
  <1> DEFINE text == IF req[w].op = "mkdir" THEN data[file_count].text ELSE NoText
  <1>1. /\ data' = [data EXCEPT ![file_count] = Entry(req[w].name, d, Kind(req[w]), <<>>, text)]
        /\ Goto(w, "reply") /\ UNCHANGED <<file_count, file_stats, moving, local>>
        /\ pc[w] = "setData" /\ known' = known
    BY DEF SetData, Unless, kernel
  <1>2. pc[w] \in Creation /\ "reply" \in Creation
    BY <1>1 DEF Creation, Between
  <1>3. /\ SizesOf(w) /\ Made = MadeOf(w) /\ Creates(req[w]) /\ d \in Nat
    BY <1>1, <1>2, LonelyStays
  <1>4. n \in Ino /\ n \in Nat /\ Len(data) = n
    BY <1>1, <1>3, CountsFit DEF SizesOf, Between, Clear, TInv, TypedTables
  <1>5. n >= 5
    <2>1. 4 \in 1..(n - 1)
      BY <1>1, <1>3 DEF MadeOf, Between, Clear, Tree
    <2> QED
      BY <1>4, <2>1
  <1>6. data[n] \in Entries
    BY <1>4, <1>5 DEF Clear, TInv, TypedTables
  <1>7. /\ text \in Texts /\ (text.bytes = UnsetBytes => Kind(req[w]) = "dir")
        /\ Kind(req[w]) = "file" => text = NoText
    <2>1. NoText \in Texts /\ NoText.bytes # UnsetBytes
      BY DEF NoText, Text, Texts, UnsetBytes, NULL
    <2> QED
      BY <1>6, <2>1 DEF Entries, Kind
  <1>8. req[w].name \in NewName /\ req[w].name \in Names /\ Kind(req[w]) \in Kinds
    BY <1>3 DEF Clear, TInv, StepFits, Names, Kind, Kinds
  <1>9. PICK e : e = Entry(req[w].name, d, Kind(req[w]), <<>>, text)
    OBVIOUS
  <1>10. /\ e \in Entries /\ e.name = req[w].name /\ e.parent = d /\ e.kind = Kind(req[w])
         /\ e.children = <<>> /\ e.text = text
    <2> HIDE DEF text
    <2> QED
      BY <1>3, <1>7, <1>8, <1>9, EntryTypes
  <1>11. data' = [data EXCEPT ![n] = e]
    BY <1>1, <1>9
  <1>12. /\ Len(data') = Len(data) /\ data'[n] = e
         /\ \A j \in 1..Len(data) : j # n => data'[j] = data[j]
    <2>1. n \in Nat \ {0} /\ n <= Len(data)
      BY <1>4, <1>5
    <2> QED
      BY <1>10, <1>11, <2>1, DataStepTypes DEF Clear
  <1> HIDE DEF text
  <1> QED
    BY <1>1, <1>4, <1>5, <1>7, <1>8, <1>10, <1>12

LEMMA SetDataTree ==
    ASSUME Clear, TInv', NEW w \in Worker, SetData(w), fault' = "none"
    PROVE  Tree'
  <1>1. PICK d, n : d = req[w].ino /\ n = file_count
    OBVIOUS
  <1>2. /\ pc[w] = "setData" /\ Goto(w, "reply")
        /\ UNCHANGED <<file_count, file_stats, moving, local>> /\ known' = known
        /\ n \in Ino /\ n \in Nat /\ n >= 5 /\ Len(data) = n /\ Len(data') = n
        /\ data'[n].name = req[w].name /\ data'[n].parent = d
        /\ data'[n].kind = Kind(req[w]) /\ data'[n].children = <<>>
        /\ data'[n].text.bytes = UnsetBytes => Kind(req[w]) = "dir"
        /\ \A i \in 1..n : i # n => data'[i] = data[i]
        /\ req[w].name \in NewName /\ Kind(req[w]) \in Kinds
    BY <1>1, SetDataStep
  <1>3. pc[w] \in Creation /\ "reply" \in Creation
    BY <1>2 DEF Creation, Between
  <1>4. /\ Creates(req[w]) /\ pc'[w] = "reply" /\ req' = req
        /\ \A v \in Worker : v # w => pc'[v] = pc[v] /\ pc'[v] \notin Creation
        /\ Made = MadeOf(w) /\ SizesOf(w) /\ Made' = (MadeOf(w))' /\ (Sizes' <=> (SizesOf(w))')
        /\ \A i \in Nat : Joining(i) <=> (pc[w] \in Joined /\ req[w].ino = i)
        /\ \A i : Copying(i) <=> (Copying(i))'
        /\ d \in Made /\ d \in Ino /\ d \in Nat
    BY <1>1, <1>2, <1>3, LonelyStays
  <1>5. Sizes' /\ Made = 1..(n - 1) /\ Made' = 1..n /\ n = file_count'
    <2>1. (SizesOf(w))'
      BY <1>1, <1>2, <1>4 DEF SizesOf, Between
    <2>2. MadeOf(w) = 1..(n - 1) /\ (MadeOf(w))' = 1..n
      BY <1>1, <1>2, <1>4 DEF MadeOf, Between
    <2> QED
      BY <1>1, <1>2, <1>4, <2>1, <2>2
  <1>6. /\ n \notin Made /\ n \in Made' /\ n # 1 /\ d # n
        /\ \A i \in Made : i \in Made' /\ i \in 1..n /\ i # n /\ i \in Ino
        /\ \A i \in Made' : i \in Made \/ i = n
    <2>1. n \notin Made /\ n \in Made' /\ n # 1
      BY <1>2, <1>5
    <2>2. \A i \in Made : i \in Made' /\ i \in 1..n /\ i # n
      BY <1>2, <1>5
    <2>3. \A i \in Made' : i \in Made \/ i = n
      BY <1>2, <1>5
    <2>4. Made \subseteq Ino
      BY ClearIs
    <2> QED
      BY <1>4, <2>1, <2>2, <2>3, <2>4
  <1>7. \A i \in Made : data'[i] = data[i]
    BY <1>2, <1>6
  <1>8. CreationFits(w) /\ file_stats[n] = Kind(req[w]) /\ data[n] = UnsetEntry
        /\ (\E k \in DOMAIN data[d].children : data[d].children[k] = n)
        /\ req[w].name \notin ChildNames(d)
    <2>1. CreationFits(w)
      BY DEF Clear, Tree
    <2> QED
      BY <1>1, <1>2, <1>3, <2>1 DEF CreationFits, Joined
  <1>9. /\ NameOf(n) = Unset /\ (NameOf(n))' = req[w].name /\ req[w].name # Unset
        /\ \A c \in Made : (NameOf(c))' = NameOf(c) /\ NameOf(c) # Unset
    <2>1. NameOf(n) = Unset /\ (NameOf(n))' = req[w].name
      BY <1>2, <1>8, EntryTypes DEF NameOf
    <2>2. req[w].name # Unset
      BY <1>2 DEF NewName, Unset
    <2>3. ASSUME NEW c \in Made PROVE (NameOf(c))' = NameOf(c) /\ NameOf(c) # Unset
      <3>1. c <= Len(data) /\ c <= Len(data')
        BY <1>2, <1>6
      <3>2. EntryFits(c)
        BY DEF Clear, Tree
      <3> QED
        BY <1>7, <3>1, <3>2 DEF NameOf, EntryFits
    <2> QED
      BY <2>1, <2>2, <2>3
  <1>10. ASSUME NEW i \in Made, NEW c, ChildFits(i, c)
         PROVE  (ChildFits(i, c))' /\ (c \in Made \/ (c = n /\ i = d))
    <2>1. CASE c \in Made /\ c # 1 /\ data[c].parent = i
      BY <1>6, <1>7, <2>1 DEF ChildFits
    <2>2. CASE c = file_count /\ Joining(i)
      <3>1. i = d /\ c = n
        <4>1. i \in Nat
          BY ClearIs
        <4> QED
          BY <1>1, <1>4, <2>2, <4>1
      <3>2. c \in Made' /\ c # 1 /\ data'[c].parent = i
        BY <1>2, <1>6, <3>1
      <3> QED
        BY <3>1, <3>2 DEF ChildFits
    <2> QED
      BY <1>10, <2>1, <2>2 DEF ChildFits
  <1>11. ASSUME NEW i \in Made PROVE (EntryFits(i))'
    <2>1. EntryFits(i) /\ data'[i] = data[i]
      BY <1>7 DEF Clear, Tree
    <2>2. PICK is \in Seq(Ino) : is = data[i].children
      <3>1. data[i] \in Entries
        BY ClearIs DEF Clear, TInv, TypedTables
      <3> QED
        BY <3>1 DEF Entries
    <2>3. ASSUME NEW k \in DOMAIN is
          PROVE  (ChildFits(i, is[k]))' /\ (is[k] \in Made \/ (is[k] = n /\ i = d))
      <3>1. PICK c : c = is[k]
        OBVIOUS
      <3>2. ChildFits(i, c)
        BY <2>1, <2>2, <2>3, <3>1 DEF EntryFits
      <3> QED
        BY <1>10, <3>1, <3>2
    <2>4. ASSUME NEW j \in DOMAIN is, NEW k \in DOMAIN is, j # k
          PROVE  (NameOf(is[j]))' # (NameOf(is[k]))'
      <3>1. PICK a, b : a = is[j] /\ b = is[k]
        OBVIOUS
      <3>2. NameOf(a) # NameOf(b)
        BY <2>1, <2>2, <2>4, <3>1 DEF EntryFits
      <3>3. /\ a \in Made \/ (a = n /\ i = d)
            /\ b \in Made \/ (b = n /\ i = d)
        BY <2>3, <3>1
      <3>4. i = d => NameOf(a) # req[w].name /\ NameOf(b) # req[w].name
        <4>1. ASSUME i = d PROVE NameOf(a) \in ChildNames(d) /\ NameOf(b) \in ChildNames(d)
          <5>1. ChildrenOf(d) = is
            BY <1>2, <1>6, <2>2, <4>1 DEF ChildrenOf
          <5> QED
            BY <3>1, <5>1 DEF ChildNames
        <4> QED
          BY <1>8, <4>1
      <3>5. (NameOf(a))' # (NameOf(b))'
        <4>1. CASE a \in Made /\ b \in Made
          BY <1>9, <3>2, <4>1
        <4>2. CASE a = n /\ i = d /\ b \in Made
          BY <1>9, <3>4, <4>2
        <4>3. CASE b = n /\ i = d /\ a \in Made
          BY <1>9, <3>4, <4>3
        <4>4. a = n /\ b = n => FALSE
          BY <3>2
        <4> QED
          BY <3>3, <4>1, <4>2, <4>3, <4>4
      <3> QED
        BY <3>1, <3>5
    <2>5. i # 1 => /\ data'[i].parent \in Made'
                   /\ \E k \in DOMAIN data'[data'[i].parent].children :
                        data'[data'[i].parent].children[k] = i
      <3>1. i # 1 => /\ data[i].parent \in Made
                     /\ \E k \in DOMAIN data[data[i].parent].children :
                          data[data[i].parent].children[k] = i
        BY <2>1 DEF EntryFits
      <3> QED
        BY <1>6, <1>7, <2>1, <3>1
    <2>6. /\ data'[i].kind = file_stats'[i] /\ data'[i].kind \in Kinds /\ data'[i].name # Unset
          /\ data'[i].text.bytes = UnsetBytes => (i >= 5 /\ data'[i].kind = "dir") \/ (Copying(i))'
      BY <1>2, <1>4, <2>1 DEF EntryFits
    <2>7. data'[i].children = is
      BY <2>1, <2>2
    <2> QED
      BY <2>3, <2>4, <2>5, <2>6, <2>7 DEF EntryFits
  <1>12. (EntryFits(n))'
    <2>1. /\ data'[n].kind = file_stats'[n] /\ data'[n].kind \in Kinds /\ data'[n].name # Unset
          /\ data'[n].text.bytes = UnsetBytes => (n >= 5 /\ data'[n].kind = "dir") \/ (Copying(n))'
      BY <1>2, <1>8, <1>9
    <2>2. DOMAIN data'[n].children = {}
      BY <1>2
    <2>3. data'[n].parent \in Made' /\ \E k \in DOMAIN data'[data'[n].parent].children :
                                         data'[data'[n].parent].children[k] = n
      <3>1. data'[n].parent = d /\ d \in Made' /\ data'[d] = data[d]
        BY <1>2, <1>4, <1>6, <1>7
      <3> QED
        BY <1>8, <3>1
    <2> QED
      BY <2>1, <2>2, <2>3 DEF EntryFits
  <1>13. \A i \in Made' : (EntryFits(i))'
    BY <1>6, <1>11, <1>12
  <1>14. \A v \in Worker : (CreationFits(v))'
    <2>1. (CreationFits(w))'
      BY <1>4 DEF CreationFits, Joined
    <2>2. ASSUME NEW v \in Worker, v # w PROVE (CreationFits(v))'
      BY <1>4, <2>2 DEF CreationFits, Joined, Creation, Between
    <2> QED
      BY <2>1, <2>2
  <1>15. KnownFits' /\ 4 \in Made'
    <2>1. \A k \in known : k.ino \in Made /\ file_stats[k.ino] = k.kind
      BY ClearIs
    <2>2. 4 \in Made
      BY DEF Clear, Tree
    <2> QED
      BY <1>2, <1>6, <2>1, <2>2 DEF KnownFits
  <1> QED
    BY <1>5, <1>13, <1>14, <1>15 DEF Tree

LEMMA TreeInit == Init => Tree
  <1> SUFFICES ASSUME Init PROVE Tree
    OBVIOUS
  <1>1. TInv
    BY TInvInit
  <1>2. PICK page \in Nat : page = Page
    BY FileSystemAssumption
  <1>3. /\ file_count = 4 /\ file_stats = <<"dir", "dir", "file", "file">>
        /\ data = << Entry("tmp", 0, "dir", <<2>>, NoText),
                     Entry("assignment", 1, "dir", <<3, 4>>, NoText),
                     Entry("username", 2, "file", <<>>, Text(1, 1)),
                     Entry("features", 2, "file", <<>>, Text(page, page)) >>
        /\ moving = {} /\ \A v \in Worker : pc[v] = "idle"
        /\ known = {[ino |-> i, kind |-> file_stats[i]] : i \in 1..4}
    BY <1>2 DEF Init
  <1>4. /\ Len(data) = 4
        /\ data[1].name = "tmp" /\ data[1].kind = "dir" /\ data[1].children = <<2>>
        /\ data[2].name = "assignment" /\ data[2].parent = 1 /\ data[2].kind = "dir"
        /\ data[2].children = <<3, 4>>
        /\ data[3].name = "username" /\ data[3].parent = 2 /\ data[3].kind = "file"
        /\ data[3].children = <<>>
        /\ data[4].name = "features" /\ data[4].parent = 2 /\ data[4].kind = "file"
        /\ data[4].children = <<>>
    BY <1>3 DEF Entry
  <1>16. /\ data[1].text.bytes # UnsetBytes /\ data[2].text.bytes # UnsetBytes
         /\ data[3].text.bytes # UnsetBytes /\ data[4].text.bytes # UnsetBytes
    BY <1>3 DEF Entry, Text, NoText, NULL, UnsetBytes
  <1>5. \A S : S \subseteq Creation => ~At(S)
    <2>1. "idle" \notin Creation
      BY DEF Creation, Between
    <2> QED
      BY <1>3, <2>1 DEF At
  <1>6. Between \subseteq Creation
    BY DEF Creation
  <1>7. Made = 1..4 /\ Made = {1, 2, 3, 4}
    <2>1. ~At(Between)
      BY <1>5, <1>6
    <2>2. 1..4 = {1, 2, 3, 4}
      OBVIOUS
    <2> QED
      BY <1>3, <2>1, <2>2 DEF Made
  <1>8. Sizes
    <2>1. /\ ~At({"growStats", "publishStats"}) /\ ~At(Between \ {"setData"})
          /\ ~At({"publishStats"}) /\ ~At({"publishData"})
      <3>1. /\ {"growStats", "publishStats"} \subseteq Creation /\ Between \ {"setData"} \subseteq Creation
            /\ {"publishStats"} \subseteq Creation /\ {"publishData"} \subseteq Creation
        BY DEF Creation, Between
      <3> QED
        BY <1>5, <3>1
    <2>2. Len(file_stats) = 4
      BY <1>3
    <2> QED
      BY <1>3, <1>4, <2>1, <2>2 DEF Sizes
  <1>9. /\ file_stats[1] = "dir" /\ file_stats[2] = "dir"
        /\ file_stats[3] = "file" /\ file_stats[4] = "file"
    BY <1>3
  <1>10. KnownFits
    BY <1>3, <1>7 DEF KnownFits
  <1>11. /\ NameOf(2) = "assignment" /\ NameOf(3) = "username" /\ NameOf(4) = "features"
    BY <1>4 DEF NameOf
  <1>12. EntryFits(1)
    <2>1. DOMAIN data[1].children = {1} /\ data[1].children[1] = 2
      BY <1>4
    <2>2. ChildFits(1, 2)
      BY <1>4, <1>7 DEF ChildFits
    <2> QED
      BY <1>4, <1>9, <1>16, <2>1, <2>2 DEF EntryFits, Kinds, Unset
  <1>13. EntryFits(2)
    <2>1. DOMAIN data[2].children = {1, 2} /\ data[2].children[1] = 3 /\ data[2].children[2] = 4
      BY <1>4
    <2>2. ChildFits(2, 3) /\ ChildFits(2, 4)
      BY <1>4, <1>7 DEF ChildFits
    <2>3. DOMAIN data[1].children = {1} /\ data[1].children[1] = 2
      BY <1>4
    <2>4. \A j, k \in DOMAIN data[2].children :
            j # k => NameOf(data[2].children[j]) # NameOf(data[2].children[k])
      BY <1>11, <2>1
    <2>5. /\ data[2].parent \in Made
          /\ \E k \in DOMAIN data[data[2].parent].children : data[data[2].parent].children[k] = 2
      BY <1>4, <1>7, <2>3
    <2>6. \A k \in DOMAIN data[2].children : ChildFits(2, data[2].children[k])
      BY <2>1, <2>2
    <2>7. /\ data[2].kind = file_stats[2] /\ data[2].kind \in Kinds /\ data[2].name # Unset
          /\ data[2].text.bytes # UnsetBytes
      BY <1>4, <1>9, <1>16 DEF Kinds, Unset
    <2> QED
      BY <2>4, <2>5, <2>6, <2>7 DEF EntryFits
  <1>14. EntryFits(3) /\ EntryFits(4)
    <2>1. DOMAIN data[3].children = {} /\ DOMAIN data[4].children = {}
      BY <1>4
    <2>2. DOMAIN data[2].children = {1, 2} /\ data[2].children[1] = 3 /\ data[2].children[2] = 4
      BY <1>4
    <2>3. /\ data[3].kind = file_stats[3] /\ data[3].kind \in Kinds /\ data[3].name # Unset
          /\ data[4].kind = file_stats[4] /\ data[4].kind \in Kinds /\ data[4].name # Unset
      BY <1>4, <1>9 DEF Kinds, Unset
    <2>4. data[3].text.bytes # UnsetBytes /\ data[4].text.bytes # UnsetBytes
      BY <1>16
    <2>5. /\ data[3].parent \in Made
          /\ \E k \in DOMAIN data[data[3].parent].children : data[data[3].parent].children[k] = 3
      BY <1>4, <1>7, <2>2
    <2>6. /\ data[4].parent \in Made
          /\ \E k \in DOMAIN data[data[4].parent].children : data[data[4].parent].children[k] = 4
      BY <1>4, <1>7, <2>2
    <2> QED
      BY <2>1, <2>3, <2>4, <2>5, <2>6 DEF EntryFits
  <1>15. ASSUME NEW w \in Worker PROVE CreationFits(w)
    <2>1. pc[w] = "idle"
      BY <1>3
    <2> QED
      BY <2>1 DEF CreationFits, Creation, Between, Joined
  <1> QED
    BY <1>7, <1>8, <1>10, <1>12, <1>13, <1>14, <1>15 DEF Tree

LEMMA OverlapsGrow ==
    ASSUME TInv, Next
    PROVE  overlaps \subseteq overlaps'
  <1>1. CASE fault' # "none"
    BY <1>1, BadEnds DEF kernel
  <1>2. CASE fault' = "none" /\ \E w \in Worker : Receive(w)
    BY <1>2, ReceiveIs
  <1>3. CASE fault' = "none" /\ ~(\E w \in Worker : Receive(w))
    BY <1>3, OthersGoOn
  <1> QED
    BY <1>1, <1>2, <1>3

LEMMA TreeNext ==
    ASSUME Clear, Next
    PROVE  Tree'
  <1>1. TInv /\ Tree
    BY DEF Clear
  <1>2. TInv'
    BY <1>1, TInvNext
  <1>3. CASE fault' # "none"
    <2>1. UNCHANGED <<tables, req, pc, local, known>>
      BY <1>3, BadEnds DEF kernel
    <2> QED
      BY <1>1, <2>1, TreeSame
  <1>4. CASE fault' = "none"
    <2>1. ASSUME NEW w \in Worker, creation(w) PROVE Tree'
      BY <1>2, <1>4, <2>1, LoadCountTree, StoreCountTree, GrowTree, PublishStatsTree, SetStatTree,
         GrowChildrenTree, AddChildTree, PublishDataTree, SetDataTree, ReplyTree DEF creation
    <2>2. ASSUME NEW w \in Worker,
                 Receive(w) \/ Lookup(w) \/ Getattr(w) \/ Readdir(w) \/ Read(w)
                   \/ FreeText(w) \/ CopyText(w) \/ StoreLength(w)
          PROVE  Tree'
      BY <1>2, <1>4, <2>2, ReceiveTree, LookupTree, GetattrReadTree, ReaddirTree, WriteTree
    <2>3. ASSUME OpenDir \/ Destroy PROVE Tree'
      <3>1. UNCHANGED <<tables, req, pc, local, known>>
        BY <2>3 DEF OpenDir, Destroy, Unless, kernel
      <3> QED
        BY <1>1, <3>1, TreeSame
    <2> QED
      BY <2>1, <2>2, <2>3 DEF Next
  <1> QED
    BY <1>3, <1>4

LEMMA TreeInvHolds == Spec => []TreeInv
  <1>1. Init => TreeInv
    BY TreeInit DEF TreeInv
  <1>2. TInv /\ Together /\ TreeInv /\ [Next]_vars => TreeInv'
    <2>1. TInv /\ Together /\ TreeInv /\ Next => TreeInv'
      BY OverlapsGrow, TreeNext DEF TreeInv, Clear
    <2>2. TreeInv /\ UNCHANGED vars => TreeInv'
      <3>1. UNCHANGED vars => UNCHANGED <<tables, req, pc, local, known>> /\ overlaps' = overlaps
        BY DEF vars, kernel
      <3> QED
        BY <3>1, TreeSame DEF TreeInv
    <2> QED
      BY <2>1, <2>2
  <1> QED
    BY <1>1, <1>2, TInvHolds, TogetherHolds, PTL DEF Spec

\* A sequence whose members have different names has as many names as members.
LEMMA AsManyNames ==
    ASSUME NEW n \in Nat, NEW f, DOMAIN f = 1..n,
           \A j, k \in 1..n : j # k => f[j] # f[k],
           NEW S, S = {f[k] : k \in 1..n}
    PROVE  Cardinality(S) = n
  <1> DEFINE g == [k \in 1..n |-> f[k]]
  <1>1. g \in [1..n -> S]
    OBVIOUS
  <1>2. \A a, b \in 1..n : g[a] = g[b] => a = b
    OBVIOUS
  <1>3. \A t \in S : \E s \in 1..n : g[s] = t
    OBVIOUS
  <1> HIDE DEF g
  <1>4. g \in Bijection(1..n, S)
    BY <1>1, <1>2, <1>3, Fun_IsBij
  <1>5. ExistsBijection(1..n, S)
    BY <1>4, Fun_ExistsBij
  <1> QED
    BY <1>5, FS_CountingElements

LEMMA TreeFollows == TInv /\ TreeInv => TreeUnlessRaced
  <1> SUFFICES ASSUME TInv, Tree, ~Creating
               PROVE  /\ Len(data) = file_count /\ Len(file_stats) = file_count
                      /\ \A i \in 1..file_count :
                           /\ file_stats[i] = data[i].kind
                           /\ Cardinality(ChildNames(i)) = Len(data[i].children)
                           /\ \A k \in DOMAIN data[i].children :
                                /\ data[i].children[k] \in 2..file_count
                                /\ data[data[i].children[k]].parent = i
                      /\ \A i \in 2..file_count : \E k \in DOMAIN data[data[i].parent].children :
                           data[data[i].parent].children[k] = i
    BY DEF TreeInv, TreeUnlessRaced
  <1>1. \A w \in Worker : pc[w] \notin Creation
    BY DEF Creating, TInv, StepFits
  <1>2. \A S : S \subseteq Creation => ~At(S)
    BY <1>1 DEF At
  <1>3. Made = 1..file_count /\ Len(data) = file_count /\ Len(file_stats) = file_count
    <2>1. /\ {"growStats", "publishStats"} \subseteq Creation /\ Between \ {"setData"} \subseteq Creation
          /\ Between \subseteq Creation
      BY DEF Creation, Between
    <2>2. ~At({"growStats", "publishStats"}) /\ ~At(Between \ {"setData"}) /\ ~At(Between)
      BY <1>2, <2>1
    <2> QED
      BY <2>2 DEF Tree, Sizes, Made
  <1>4. \A i \in Nat : ~Joining(i)
    BY <1>1 DEF Joining, Joined, Creation, Between
  <1>5. file_count \in Nat /\ file_count >= 4
    BY DEF TInv, TypedTables
  <1>6. ASSUME NEW i \in 1..file_count
        PROVE  /\ file_stats[i] = data[i].kind
               /\ Cardinality(ChildNames(i)) = Len(data[i].children)
               /\ \A k \in DOMAIN data[i].children :
                    /\ data[i].children[k] \in 2..file_count
                    /\ data[data[i].children[k]].parent = i
    <2>1. EntryFits(i) /\ i \in Nat
      BY <1>3 DEF Tree
    <2>2. PICK cs \in Seq(Ino) : cs = data[i].children
      <3>1. data[i] \in Entries
        BY <1>3 DEF TInv, TypedTables
      <3> QED
        BY <3>1 DEF Entries
    <2>3. file_stats[i] = data[i].kind
      BY <2>1 DEF EntryFits
    <2>4. ASSUME NEW k \in DOMAIN cs PROVE cs[k] \in 2..file_count /\ data[cs[k]].parent = i
      <3>1. ChildFits(i, cs[k])
        BY <2>1, <2>2, <2>4 DEF EntryFits
      <3>2. cs[k] \in Made /\ cs[k] # 1 /\ data[cs[k]].parent = i
        BY <1>4, <2>1, <3>1 DEF ChildFits
      <3> QED
        BY <1>3, <1>5, <3>2
    <2>5. Cardinality(ChildNames(i)) = Len(cs)
      <3> DEFINE f == [k \in 1..Len(cs) |-> NameOf(cs[k])]
      <3>1. DOMAIN f = 1..Len(cs) /\ Len(cs) \in Nat /\ DOMAIN cs = 1..Len(cs)
        BY <2>2
      <3>2. \A j, k \in 1..Len(cs) : j # k => f[j] # f[k]
        BY <2>1, <2>2, <3>1 DEF EntryFits
      <3>3. ChildNames(i) = {f[k] : k \in 1..Len(cs)}
        <4>1. ChildrenOf(i) = cs
          BY <1>3, <2>2 DEF ChildrenOf
        <4> QED
          BY <3>1, <4>1 DEF ChildNames
      <3> HIDE DEF f
      <3> QED
        BY <3>1, <3>2, <3>3, AsManyNames
    <2> QED
      BY <2>2, <2>3, <2>4, <2>5
  <1>7. ASSUME NEW i \in 2..file_count
        PROVE  \E k \in DOMAIN data[data[i].parent].children :
                 data[data[i].parent].children[k] = i
    <2>1. i \in 1..file_count /\ i # 1
      BY <1>5
    <2>2. EntryFits(i)
      BY <1>3, <2>1 DEF Tree
    <2> QED
      BY <2>1, <2>2 DEF EntryFits
  <1> QED
    BY <1>3, <1>6, <1>7

\* Whatever lookups, reads, writes and listings run beside it, a creation leaves a
\* tree as long as no other creation has overlapped one: every inode is a child of
\* its parent, once, and of nothing else, under a name of its own, with the
\* attributes of what it is.  The code behind it is assign3_mkdir and
\* assign3_mknod, which keep four tables of an inode in step without a lock.
THEOREM TreeHolds == Spec => []TreeUnlessRaced
  BY TInvHolds, TreeInvHolds, TreeFollows, PTL

-----------------------------------------------------------------------------
(* The texts.                                                                *)

\* A file's length is that of its text, unless a thread is writing it; and the
\* text that waits for its length is the one of its writer.
Writing(i) == \E w \in Worker : pc[w] \in {"copy", "length"} /\ req[w].ino = i
TextFits(i) ==
    \/ data[i].text.len = 0
    \/ data[i].text.bytes \in Nat /\ data[i].text.len <= data[i].text.bytes + 1
    \/ Writing(i)
Lengths ==
    /\ \A i \in 1..Len(data) : data[i].kind = "file" => TextFits(i)
    /\ \A w \in Worker : pc[w] = "length" => data[req[w].ino].text.bytes = req[w].text
TextInv == overlaps \cap {"file", "creations"} = {} => Lengths

\* What keeps the lengths: the steps of a write aside, an entry is that of a file
\* without a text, or has the text that it had.
LEMMA LengthsStay ==
    ASSUME Clear, Lengths,
           \A i \in 1..Len(data)' : data'[i].kind = "file" =>
               \/ data'[i].text = NoText
               \/ i \in 1..Len(data) /\ data[i].kind = "file" /\ data'[i].text = data[i].text,
           \A i \in Made : data'[i].text = data[i].text,
           \A v \in Worker : pc[v] \in {"copy", "length"} \/ pc'[v] \in {"copy", "length"} =>
               pc'[v] = pc[v] /\ req'[v] = req[v]
    PROVE  Lengths'
  <1>1. \A i : Writing(i) => (Writing(i))'
    BY DEF Writing
  <1>2. ASSUME NEW i \in 1..Len(data)', data'[i].kind = "file" PROVE (TextFits(i))'
    <2>1. CASE data'[i].text = NoText
      BY <2>1 DEF TextFits, NoText, Text
    <2>2. CASE i \in 1..Len(data) /\ data[i].kind = "file" /\ data'[i].text = data[i].text
      BY <1>1, <2>2 DEF TextFits, Lengths
    <2> QED
      BY <1>2, <2>1, <2>2
  <1>3. ASSUME NEW w \in Worker, pc'[w] = "length"
        PROVE  data'[req'[w].ino].text.bytes = req'[w].text
    <2>1. pc[w] = "length" /\ req'[w] = req[w]
      BY <1>3
    <2>2. data[req[w].ino].text.bytes = req[w].text
      BY <2>1 DEF Lengths
    <2>3. req[w].ino \in Made
      BY <2>1, ClearIs DEF Clear, TInv, StepFits, OnFile
    <2> QED
      BY <2>1, <2>2, <2>3
  <1> QED
    BY <1>2, <1>3 DEF Lengths

LEMMA LengthsSame ==
    ASSUME Clear, Lengths, UNCHANGED data,
           \A v \in Worker : pc[v] \in {"copy", "length"} \/ pc'[v] \in {"copy", "length"} =>
               pc'[v] = pc[v] /\ req'[v] = req[v]
    PROVE  Lengths'
  BY LengthsStay

\* A thread goes from a place outside of the writes to another.
LEMMA OutsideWrites ==
    ASSUME TInv, NEW w \in Worker, pc[w] \notin {"copy", "length"},
           NEW to, to \notin {"copy", "length"}, pc' = [pc EXCEPT ![w] = to],
           \A v \in Worker : v # w => req'[v] = req[v]
    PROVE  \A v \in Worker : pc[v] \in {"copy", "length"} \/ pc'[v] \in {"copy", "length"} =>
               pc'[v] = pc[v] /\ req'[v] = req[v]
  BY DEF TInv, TypedWorkers

\* A creation's inode gets its text when it is not complete.
LEMMA CreationLengths ==
    ASSUME Clear, TInv', Lengths, NEW w \in Worker, creation(w), fault' = "none"
    PROVE  Lengths'
  <1>1. TInv /\ pc[w] \in Creation
    BY DEF Clear, creation, LoadCount, StoreCount, Grow, PublishStats, SetStat, GrowChildren,
           AddChild, PublishData, SetData, Reply, Creation, Between
  <1>2. \E to : /\ to \notin {"copy", "length"} /\ pc' = [pc EXCEPT ![w] = to]
                /\ \A v \in Worker : v # w => req'[v] = req[v]
    <2>1. Done(w) \/ \E to \in Creation : Goto(w, to)
      BY DEF creation, LoadCount, StoreCount, Grow, PublishStats, SetStat, GrowChildren,
             AddChild, PublishData, SetData, Reply, Unless, Creation, Between
    <2>2. CASE Done(w)
      BY <1>1, <2>2 DEF Done, TInv, TypedWorkers
    <2>3. CASE \E to \in Creation : Goto(w, to)
      BY <2>3 DEF Goto, Creation, Between
    <2> QED
      BY <2>1, <2>2, <2>3
  <1>3. \A v \in Worker : pc[v] \in {"copy", "length"} \/ pc'[v] \in {"copy", "length"} =>
               pc'[v] = pc[v] /\ req'[v] = req[v]
    <2>1. pc[w] \notin {"copy", "length"}
      BY <1>1 DEF Creation, Between
    <2> QED
      BY <1>1, <1>2, <2>1, OutsideWrites
  <1>4. Made \subseteq 1..Len(data) /\ Made = MadeOf(w)
    <2>1. Lonely(w)
      BY <1>1, ClearIs DEF TInv, StepFits
    <2> QED
      BY <2>1, ClearIs, AloneHolds DEF Alone
  <1>5. CASE AddChild(w)
    <2>1. PICK d : d = req[w].ino
      OBVIOUS
    <2>2. /\ d \in 1..Len(data) /\ Len(data') = Len(data)
          /\ data'[d].kind = data[d].kind /\ data'[d].text = data[d].text
          /\ \A i \in 1..Len(data) : i # d => data'[i] = data[i]
      BY <1>5, <2>1, AddChildStep
    <2>3. \A i \in 1..Len(data) : data'[i].kind = data[i].kind /\ data'[i].text = data[i].text
      BY <2>2
    <2>4. \A i \in Made : data'[i].text = data[i].text
      BY <1>4, <2>3
    <2>5. \A i \in 1..Len(data)' : data'[i].kind = "file" =>
               \/ data'[i].text = NoText
               \/ i \in 1..Len(data) /\ data[i].kind = "file" /\ data'[i].text = data[i].text
      BY <2>2, <2>3
    <2> QED
      BY <1>3, <2>4, <2>5, LengthsStay
  <1>6. CASE PublishData(w)
    <2>1. PICK n \in Nat : /\ n = file_count /\ n >= 4 /\ Len(data) = n - 1
                           /\ Len(data') = n /\ data'[n] = UnsetEntry
                           /\ \A i \in 1..(n - 1) : data'[i] = data[i]
      BY <1>6, PublishDataStep
    <2>2. UnsetEntry.kind = Unset
      BY DEF UnsetEntry, Entry
    <2>3. \A i \in 1..n : i \in 1..(n - 1) \/ i = n
      BY <2>1
    <2>4. \A i \in 1..Len(data)' : data'[i].kind = "file" =>
               i \in 1..Len(data) /\ data[i].kind = "file" /\ data'[i].text = data[i].text
      BY <2>1, <2>2, <2>3 DEF Unset
    <2>5. \A i \in Made : data'[i].text = data[i].text
      BY <1>4, <2>1
    <2> QED
      BY <1>3, <2>4, <2>5, LengthsStay
  <1>7. CASE SetData(w)
    <2>1. PICK n, d : n = file_count /\ d = req[w].ino
      OBVIOUS
    <2>2. /\ pc[w] = "setData" /\ n \in Nat /\ Len(data) = n /\ Len(data') = n
          /\ data'[n].kind = Kind(req[w])
          /\ Kind(req[w]) = "file" => data'[n].text = NoText
          /\ \A i \in 1..n : i # n => data'[i] = data[i]
      BY <1>7, <2>1, SetDataStep
    <2>3. \A i \in Made : i \in 1..n /\ i # n
      <3>1. Made = 1..(n - 1)
        BY <1>4, <2>1, <2>2 DEF MadeOf, Between
      <3> QED
        BY <2>2, <3>1
    <2>4. \A i \in Made : data'[i].text = data[i].text
      BY <2>2, <2>3
    <2>5. \A i \in 1..Len(data)' : data'[i].kind = "file" =>
               \/ data'[i].text = NoText
               \/ i \in 1..Len(data) /\ data[i].kind = "file" /\ data'[i].text = data[i].text
      BY <2>2
    <2> QED
      BY <1>3, <2>4, <2>5, LengthsStay
  <1>8. CASE ~(AddChild(w) \/ PublishData(w) \/ SetData(w))
    <2>1. UNCHANGED data
      BY <1>8 DEF creation, LoadCount, StoreCount, Grow, PublishStats, SetStat, GrowChildren,
             Reply, Unless, tables
    <2> QED
      BY <1>3, <2>1, LengthsSame
  <1> QED
    BY <1>5, <1>6, <1>7, <1>8

\* No other thread does anything to the file of one that writes.
LEMMA WriterIsAlone ==
    ASSUME TInv, Together, overlaps \cap {"file", "creations"} = {},
           NEW w \in Worker, OnFile(req[w]), pc[w] # "idle",
           NEW v \in Worker, v # w, OnFile(req[v]), pc[v] # "idle",
           req[v].op = "write" \/ req[w].op = "write"
    PROVE  req[v].ino # req[w].ino
  <1> SUFFICES ASSUME req[v].ino = req[w].ino PROVE FALSE
    OBVIOUS
  <1>1. ~Creates(req[v]) /\ ~Creates(req[w])
    BY DEF OnFile, Creates
  <1>2. (Creates(req[v]) <=> Creates(req[w])) /\ ~(Creates(req[v]) /\ Creates(req[w]))
    BY <1>1
  <1>3. "write" \in {req[v].op, req[w].op}
    OBVIOUS
  <1>4. Overlap(req[v], req[w]) = {"file"}
    BY <1>2, <1>3 DEF Overlap, Creates
  <1> QED
    BY <1>4 DEF Together, Busy

\* A write's own steps.
LEMMA WriteLengths ==
    ASSUME Clear, TInv', Lengths, overlaps \cap {"file", "creations"} = {},
           NEW w \in Worker, FreeText(w) \/ CopyText(w) \/ StoreLength(w), fault' = "none"
    PROVE  Lengths'
  <1>1. PICK i : i = req[w].ino
    OBVIOUS
  <1>2. TInv /\ Together
    BY DEF Clear
  <1>3. PICK t : /\ TextIs(i, t)
                 /\ \/ FreeText(w) /\ pc[w] = "write" /\ Goto(w, "copy")
                    \/ /\ CopyText(w) /\ pc[w] = "copy" /\ Goto(w, "length") /\ t.bytes = req[w].text
                    \/ /\ StoreLength(w) /\ pc[w] = "length" /\ Done(w)
                       /\ t.bytes = data[i].text.bytes /\ t.len = req[w].text + 1
    <2>1. CASE FreeText(w)
      BY <1>1, <1>2, <2>1, FreeTextStep
    <2>2. CASE CopyText(w)
      BY <1>1, <1>2, <2>2, CopyTextStep
    <2>3. CASE StoreLength(w)
      BY <1>1, <1>2, <2>3, StoreLengthStep
    <2> QED
      BY <2>1, <2>2, <2>3
  <1>4. UNCHANGED <<file_count, file_stats, moving>>
    BY <1>1, <1>2, FreeTextStep, CopyTextStep, StoreLengthStep
  <1>5. /\ Len(data') = Len(data) /\ data'[i].text = t /\ data'[i].kind = data[i].kind
        /\ \A j \in 1..Len(data) : j # i => data'[j] = data[j]
    BY <1>2, <1>3, <1>4, TextChanges
  <1>6. OnFile(req[w]) /\ req[w].op = "write" /\ pc[w] # "idle"
    BY <1>2, <1>3 DEF TInv, StepFits, OnFile
  <1>7. \A v \in Worker : v # w => pc'[v] = pc[v] /\ req'[v] = req[v]
    BY <1>2, <1>3 DEF Goto, Done, TInv, TypedWorkers
  <1>8. ASSUME NEW v \in Worker, v # w, pc[v] = "length" PROVE req[v].ino \in 1..Len(data) /\ req[v].ino # i
    <2>1. OnFile(req[v]) /\ req[v].op = "write" /\ pc[v] # "idle"
      BY <1>2, <1>8 DEF TInv, StepFits, OnFile
    <2>2. req[v].ino # req[w].ino
      BY <1>2, <1>6, <1>8, <2>1, WriterIsAlone
    <2>3. req[v].ino \in Made
      BY <1>2, <1>8, <2>1, ClearIs DEF TInv, StepFits
    <2> QED
      BY <1>1, <2>2, <2>3, ClearIs
  <1>9. ASSUME NEW v \in Worker, pc'[v] = "length"
        PROVE  data'[req'[v].ino].text.bytes = req'[v].text
    <2>1. CASE v # w
      <3>1. data[req[v].ino].text.bytes = req[v].text
        BY <1>7, <1>9, <2>1 DEF Lengths
      <3>2. data'[req[v].ino] = data[req[v].ino]
        BY <1>5, <1>7, <1>8, <1>9, <2>1
      <3> QED
        BY <1>7, <2>1, <3>1, <3>2
    <2>2. CASE v = w
      <3>1. t.bytes = req[w].text /\ req' = req
        BY <1>2, <1>3, <1>9, <2>2 DEF Goto, Done, TInv, TypedWorkers
      <3> QED
        BY <1>1, <1>5, <2>2, <3>1
    <2> QED
      BY <2>1, <2>2
  <1>10. ASSUME NEW j \in 1..Len(data), j # i, data[j].kind = "file" PROVE (TextFits(j))'
    <2>1. TextFits(j) /\ data'[j] = data[j]
      BY <1>5, <1>10 DEF Lengths
    <2>2. Writing(j) => (Writing(j))'
      BY <1>1, <1>7, <1>10 DEF Writing
    <2> QED
      BY <2>1, <2>2 DEF TextFits
  <1>11. (TextFits(i))'
    <2>1. CASE Goto(w, "copy") \/ Goto(w, "length")
      <3>1. pc'[w] \in {"copy", "length"} /\ req'[w].ino = i
        BY <1>1, <1>2, <2>1 DEF Goto, TInv, TypedWorkers
      <3> QED
        BY <3>1 DEF TextFits, Writing
    <2>2. CASE pc[w] = "length" /\ t.bytes = data[i].text.bytes /\ t.len = req[w].text + 1
      <3>1. t.bytes = req[w].text
        BY <1>1, <2>2 DEF Lengths
      <3>2. PICK b \in Nat : b = req[w].text
        BY <1>2 DEF TInv, TypedWorkers, Requests
      <3>3. t.bytes = b /\ t.len = b + 1 /\ b + 1 <= b + 1
        BY <2>2, <3>1, <3>2
      <3> QED
        BY <1>5, <3>3 DEF TextFits
    <2> QED
      BY <1>3, <2>1, <2>2
  <1> QED
    BY <1>5, <1>9, <1>10, <1>11 DEF Lengths

LEMMA LengthsNext ==
    ASSUME Clear, Lengths, overlaps \cap {"file", "creations"} = {}, Next
    PROVE  Lengths'
  <1>1. TInv
    BY DEF Clear
  <1>2. TInv'
    BY <1>1, TInvNext
  <1>3. CASE fault' # "none"
    <2>1. UNCHANGED <<data, req, pc>>
      BY <1>3, BadEnds DEF kernel, tables
    <2> QED
      BY <2>1, LengthsSame
  <1>4. CASE fault' = "none"
    <2>1. ASSUME NEW w \in Worker, creation(w) PROVE Lengths'
      BY <1>2, <1>4, <2>1, CreationLengths
    <2>2. ASSUME NEW w \in Worker, FreeText(w) \/ CopyText(w) \/ StoreLength(w) PROVE Lengths'
      BY <1>2, <1>4, <2>2, WriteLengths
    <2>3. ASSUME NEW w \in Worker, Receive(w) PROVE Lengths'
      <3>1. PICK r \in Request :
               /\ pc[w] = "idle"
               /\ req' = [req EXCEPT ![w] = r] /\ pc' = [pc EXCEPT ![w] = First(r)]
               /\ UNCHANGED <<tables, local, known>>
        BY <2>3, ReceiveIs
      <3>2. RequestFits(r)
        BY <1>1, RequestIs DEF TInv
      <3>3. First(r) \notin {"copy", "length"}
        BY <3>2 DEF RequestFits, Requests, Ops, Reading, First, Creates
      <3>4. \A v \in Worker : v # w => req'[v] = req[v]
        BY <1>1, <3>1 DEF TInv, TypedWorkers
      <3>5. PICK to : to = First(r)
        OBVIOUS
      <3>6. \A v \in Worker : pc[v] \in {"copy", "length"} \/ pc'[v] \in {"copy", "length"} =>
               pc'[v] = pc[v] /\ req'[v] = req[v]
        BY <1>1, <3>1, <3>3, <3>4, <3>5, OutsideWrites
      <3>7. UNCHANGED data
        BY <3>1 DEF tables
      <3> QED
        BY <3>6, <3>7, LengthsSame
    <2>4. ASSUME NEW w \in Worker, Lookup(w) \/ Getattr(w) \/ Readdir(w) \/ Read(w) PROVE Lengths'
      <3>1. Done(w) /\ UNCHANGED tables /\ pc[w] \notin {"copy", "length"}
        <4>1. CASE Lookup(w)
          BY <1>4, <4>1, LookupIs DEF Unless
        <4>2. CASE Readdir(w)
          BY <1>1, <1>4, <4>2, ReaddirStep
        <4>3. CASE Getattr(w) \/ Read(w)
          BY <1>4, <4>3 DEF Getattr, Read, Unless
        <4> QED
          BY <2>4, <4>1, <4>2, <4>3
      <3>2. pc' = [pc EXCEPT ![w] = "idle"] /\ \A v \in Worker : v # w => req'[v] = req[v]
        BY <1>1, <3>1 DEF Done, TInv, TypedWorkers
      <3>3. \A v \in Worker : pc[v] \in {"copy", "length"} \/ pc'[v] \in {"copy", "length"} =>
               pc'[v] = pc[v] /\ req'[v] = req[v]
        BY <1>1, <3>1, <3>2, OutsideWrites
      <3>4. UNCHANGED data
        BY <3>1 DEF tables
      <3> QED
        BY <3>3, <3>4, LengthsSame
    <2>5. ASSUME OpenDir \/ Destroy PROVE Lengths'
      <3>1. UNCHANGED <<data, req, pc>>
        BY <2>5 DEF OpenDir, Destroy, Unless, tables
      <3> QED
        BY <3>1, LengthsSame
    <2> QED
      BY <2>1, <2>2, <2>3, <2>4, <2>5 DEF Next
  <1> QED
    BY <1>3, <1>4

LEMMA LengthsInit == Init => Lengths
  <1> SUFFICES ASSUME Init PROVE Lengths
    OBVIOUS
  <1>1. PICK page \in Nat : page = Page
    BY FileSystemAssumption
  <1>2. /\ data = << Entry("tmp", 0, "dir", <<2>>, NoText),
                     Entry("assignment", 1, "dir", <<3, 4>>, NoText),
                     Entry("username", 2, "file", <<>>, Text(1, 1)),
                     Entry("features", 2, "file", <<>>, Text(page, page)) >>
        /\ \A v \in Worker : pc[v] = "idle"
    BY <1>1 DEF Init
  <1>3. /\ Len(data) = 4 /\ data[1].kind = "dir" /\ data[2].kind = "dir"
        /\ data[3].text = Text(1, 1) /\ data[4].text = Text(page, page)
    BY <1>2 DEF Entry
  <1>4. TextFits(3) /\ TextFits(4)
    BY <1>3 DEF TextFits, Text
  <1>5. \A i \in 1..4 : i = 1 \/ i = 2 \/ i = 3 \/ i = 4
    OBVIOUS
  <1> QED
    BY <1>2, <1>3, <1>4, <1>5 DEF Lengths

LEMMA TextInvHolds == Spec => []TextInv
  <1>1. Init => TextInv
    BY LengthsInit DEF TextInv
  <1>2. TInv /\ Together /\ TreeInv /\ TextInv /\ [Next]_vars => TextInv'
    <2>1. TInv /\ Together /\ TreeInv /\ TextInv /\ Next => TextInv'
      <3> SUFFICES ASSUME TInv, Together, TreeInv, TextInv, Next,
                          overlaps' \cap {"file", "creations"} = {}
                   PROVE  Lengths'
        BY DEF TextInv
      <3>1. overlaps \cap {"file", "creations"} = {} /\ "creations" \notin overlaps
        BY OverlapsGrow
      <3> QED
        BY <3>1, LengthsNext DEF TextInv, TreeInv, Clear
    <2>2. TextInv /\ UNCHANGED vars => TextInv'
      <3>1. UNCHANGED vars => UNCHANGED <<data, req, pc, overlaps>>
        BY DEF vars, kernel, tables
      <3> QED
        BY <3>1 DEF TextInv, Lengths, TextFits, Writing
    <2> QED
      BY <2>1, <2>2
  <1> QED
    BY <1>1, <1>2, TInvHolds, TogetherHolds, TreeInvHolds, PTL DEF Spec

-----------------------------------------------------------------------------
(* What can be wrong with an access.                                         *)

\* When what may be wrong.
Explained(bad) ==
    /\ bad \in {"freed", "overflow"} => overlaps # {}
    /\ bad = "unset" => \/ overlaps \cap {"creation", "creations"} # {}
                        \/ \E i \in 5..file_count : data[i].kind = "dir"
    /\ bad = "overread" => \E w \in Worker :
         /\ req[w].op = "read"
         /\ \/ req[w].off > 0 /\ req[w].ino \in Long
            \/ overlaps \cap {"file", "creations"} # {}
    /\ bad = "stack" => \E i \in DOMAIN data : Len(data[i].children) + 2 > Fits

\* What is known of every state.
Steady == TInv /\ Together /\ TreeInv /\ TextInv

LEMMA SteadyHolds == Spec => []Steady
  BY TInvHolds, TogetherHolds, TreeInvHolds, TextInvHolds, PTL DEF Steady

LEMMA SteadyIs ==
    ASSUME Steady
    PROVE  TInv /\ Together /\ (Clear \/ "creations" \in overlaps)
  BY DEF Steady, TreeInv, Clear

LEMMA FirstBadIn ==
    ASSUME NEW S, NEW s \in Seq(S)
    PROVE  /\ FirstBad(s) = "none" \/ FirstBad(s) \in S
           /\ Len(s) >= 1 /\ FirstBad(s) # "none" /\ FirstBad(s) # s[1] => s[1] = "none"
  <1>1. Len(s) \in Nat /\ DOMAIN s = 1..Len(s) /\ \A k \in 1..Len(s) : s[k] \in S
    OBVIOUS
  <1>2. PICK n \in Nat : n = Len(s)
    BY <1>1
  <1>3. CASE FirstBad(s) # "none"
    <2>1. PICK k \in 1..n : s[k] = FirstBad(s) /\ \A j \in 1..n : j < k => s[j] = "none"
      BY <1>1, <1>2, <1>3, FirstBadIs
    <2>2. FirstBad(s) \in S
      BY <1>1, <1>2, <2>1
    <2>3. FirstBad(s) # s[1] => k # 1
      BY <2>1
    <2>4. n >= 1 /\ k # 1 => 1 \in 1..n /\ 1 < k
      OBVIOUS
    <2> QED
      BY <1>2, <2>1, <2>2, <2>3, <2>4
  <1> QED
    BY <1>3

\* No creation is under way.
LEMMA NoCreation ==
    ASSUME Clear, \A v \in Worker : ~Creates(req[v])
    PROVE  /\ "stats" \notin moving /\ "data" \notin moving
           /\ Made = 1..file_count
  <1>1. \A v \in Worker : pc[v] \notin Creation
    BY DEF Clear, TInv, StepFits
  <1>2. \A S : S \subseteq Creation => ~At(S)
    BY <1>1 DEF At
  <1>3. {"publishStats"} \subseteq Creation /\ {"publishData"} \subseteq Creation
        /\ Between \subseteq Creation
    BY DEF Creation, Between
  <1>4. ~At({"publishStats"}) /\ ~At({"publishData"}) /\ ~At(Between)
    BY <1>2, <1>3
  <1> QED
    BY <1>4 DEF Clear, Tree, Sizes, Made

\* An access of an inode that is complete, as long as no two creations overlap.
LEMMA AccessExplained ==
    ASSUME Steady, NEW i \in Nat, Clear => i \in Made,
           overlaps = {} => \A v \in Worker : ~Creates(req[v])
    PROVE  Explained(BadData(i)) /\ Explained(BadStat(i))
  <1>1. /\ BadData(i) \in {"none", "freed", "overflow", "unset"}
        /\ BadStat(i) \in {"none", "freed", "overflow"}
    BY GoodAccess, SteadyIs DEF TInv
  <1>2. CASE "creations" \in overlaps
    BY <1>1, <1>2 DEF Explained
  <1>3. CASE Clear
    <2>1. i \in Made /\ i <= Len(data) /\ i <= Len(file_stats) /\ data[i].name # Unset
      BY <1>3, ClearIs DEF Clear, Tree, EntryFits
    <2>2. /\ BadData(i) = "none" \/ (BadData(i) = "freed" /\ "data" \in moving)
          /\ BadStat(i) = "none" \/ (BadStat(i) = "freed" /\ "stats" \in moving)
      <3>1. i \in Nat /\ Len(data) \in Nat /\ Len(file_stats) \in Nat
        BY <1>3 DEF Clear, TInv, TypedTables
      <3>2. ~(i > Len(data)) /\ ~(i > Len(file_stats))
        BY <2>1, <3>1
      <3> QED
        BY <2>1, <3>2 DEF BadData, BadStat, Bad
    <2>3. overlaps = {} => BadData(i) = "none" /\ BadStat(i) = "none"
      BY <1>3, <2>2, NoCreation
    <2> QED
      BY <2>2, <2>3 DEF Explained
  <1> QED
    BY <1>2, <1>3, SteadyIs

\* A request that does not create is alone when nothing is on record.
LEMMA NoneCreates ==
    ASSUME Steady, NEW w \in Worker, pc[w] # "idle", ~Creates(req[w])
    PROVE  "creation" \notin overlaps => \A v \in Worker : ~Creates(req[v])
  <1> SUFFICES ASSUME "creation" \notin overlaps, NEW v \in Worker, Creates(req[v]) PROVE FALSE
    OBVIOUS
  <1>1. v # w /\ Busy(v) /\ Busy(w)
    BY DEF Steady, TInv, StepFits, Busy, Creation, Between
  <1>2. (Creates(req[v]) # Creates(req[w])) /\ ~(Creates(req[v]) /\ Creates(req[w]))
    BY DEF Creates
  <1>3. Overlap(req[v], req[w]) = {"creation"}
    BY <1>2 DEF Overlap, Creates
  <1> QED
    BY <1>1, <1>3 DEF Steady, Together

LEMMA NothingExplained == Explained("none")
  BY DEF Explained

\* A creation meets nothing wrong as long as it is alone.
LEMMA CreationExplained ==
    ASSUME Steady, fault = "none", fault' # "none", NEW w \in Worker, creation(w)
    PROVE  Explained(fault')
  <1>1. PICK bad : bad = fault'
    OBVIOUS
  <1>2. \/ pc[w] = "growStats" /\ bad = "freed" /\ "stats" \in moving
        \/ pc[w] = "growData" /\ bad = "freed" /\ "data" \in moving
        \/ pc[w] \in {"setStat", "reply"} /\ bad = BadStat(file_count)
        \/ pc[w] \in {"growChildren", "addChild"} /\ bad = BadData(req[w].ino)
        \/ pc[w] = "setData" /\ bad = Bad("data", Len(data), file_count)
    BY <1>1 DEF creation, LoadCount, StoreCount, Grow, PublishStats, SetStat, GrowChildren, AddChild,
                PublishData, SetData, Reply, Unless
  <1>3. pc[w] \in Creation
    BY <1>2 DEF Creation, Between
  <1>4. TInv /\ file_count \in Nat /\ Len(data) \in Nat /\ Len(file_stats) \in Nat
    BY DEF Steady, TInv, TypedTables
  <1>5. CASE "creations" \in overlaps
    <2>1. bad \in {"none", "freed", "overflow", "unset"}
      <3>1. req[w].ino \in Nat
        BY <1>4 DEF TInv, TypedWorkers, Requests
      <3> QED
        BY <1>2, <1>4, <3>1, GoodAccess DEF TInv, Bad
    <2> QED
      BY <1>1, <1>5, <2>1 DEF Explained
  <1>6. CASE Clear
    <2>1. /\ Creates(req[w]) /\ Lonely(w)
      BY <1>3, <1>6, ClearIs DEF Clear, TInv, StepFits
    <2>2. SizesOf(w) /\ Made = MadeOf(w)
      BY <1>6, <2>1, AloneHolds DEF Alone, Clear, Tree
    <2>3. CASE pc[w] = "growStats" /\ bad = "freed" /\ "stats" \in moving
      BY <2>2, <2>3 DEF SizesOf
    <2>4. CASE pc[w] = "growData" /\ bad = "freed" /\ "data" \in moving
      BY <2>2, <2>4 DEF SizesOf
    <2>5. CASE pc[w] \in {"setStat", "reply"} /\ bad = BadStat(file_count)
      <3>1. Len(file_stats) = file_count /\ "stats" \notin moving
        BY <2>2, <2>5 DEF SizesOf
      <3>2. bad = "none"
        BY <1>4, <2>5, <3>1 DEF BadStat, Bad
      <3> QED
        BY <1>1, <3>2
    <2>6. CASE pc[w] \in {"growChildren", "addChild"} /\ bad = BadData(req[w].ino)
      <3>1. req[w].ino \in Made
        BY <1>6, <2>1, ClearIs DEF Clear, TInv, StepFits, OnDir
      <3>2. "data" \notin moving
        BY <2>2, <2>6 DEF SizesOf
      <3>3. req[w].ino <= Len(data) /\ data[req[w].ino].name # Unset /\ req[w].ino \in Nat
        BY <1>6, <3>1, ClearIs DEF Clear, Tree, EntryFits
      <3>4. bad = "none"
        BY <1>4, <2>6, <3>2, <3>3 DEF BadData, Bad
      <3> QED
        BY <1>1, <3>4
    <2>7. CASE pc[w] = "setData" /\ bad = Bad("data", Len(data), file_count)
      <3>1. Len(data) = file_count /\ "data" \notin moving
        BY <2>2, <2>7 DEF SizesOf, Between
      <3>2. bad = "none"
        BY <1>4, <2>7, <3>1 DEF Bad
      <3> QED
        BY <1>1, <3>2
    <2> QED
      BY <1>2, <2>3, <2>4, <2>5, <2>6, <2>7
  <1> QED
    BY <1>5, <1>6, SteadyIs

\* The accesses of a request about a directory: the directory and its children.
DirAccesses(d) ==
    {BadData(d), BadStat(d), BadList(d)}
        \cup {BadData(ChildrenOf(d)[k]) : k \in DOMAIN ChildrenOf(d)}
        \cup {BadStat(ChildrenOf(d)[k]) : k \in DOMAIN ChildrenOf(d)}

LEMMA DirAccessExplained ==
    ASSUME Steady, NEW w \in Worker, pc[w] \in {"lookup", "readdir"}, NEW d, d = req[w].ino,
           NEW bad \in DirAccesses(d)
    PROVE  Explained(bad)
  <1>1. pc[w] # "idle" /\ OnDir(req[w]) /\ ~Creates(req[w])
    BY DEF Steady, TInv, StepFits, Reading, OnDir, Creates
  <1>2. d \in Nat \ {0} /\ d \in DirKnown
    BY <1>1, KnownAre DEF Steady, TInv, StepFits, Ino
  <1>3. \A k \in DOMAIN ChildrenOf(d) : k \in 1..Len(ChildrenOf(d)) /\ ChildrenOf(d)[k] \in Nat
    BY <1>2, ChildrenAre DEF Steady, TInv, Ino
  <1>4. CASE "creation" \in overlaps
    <2>1. BadList(d) \in {"none", "freed"}
      BY DEF BadList
    <2>2. \A i \in Nat : BadData(i) \in {"none", "freed", "overflow", "unset"}
                           /\ BadStat(i) \in {"none", "freed", "overflow"}
      BY GoodAccess DEF Steady, TInv
    <2>3. bad \in {"none", "freed", "overflow", "unset"}
      BY <1>2, <1>3, <2>1, <2>2 DEF DirAccesses
    <2> QED
      BY <1>4, <2>3 DEF Explained
  <1>5. CASE "creation" \notin overlaps
    <2>1. \A v \in Worker : ~Creates(req[v])
      BY <1>1, <1>5, NoneCreates
    <2>2. \A v \in Worker : pc[v] \notin Creation
      BY <2>1 DEF Steady, TInv, StepFits
    <2>3. Explained(BadData(d)) /\ Explained(BadStat(d))
      BY <1>2, <2>1, ClearIs, AccessExplained
    <2>4. Explained(BadList(d))
      <3>1. BadList(d) = "none"
        BY <2>2 DEF BadList, Creation, Between
      <3> QED
        BY <3>1, NothingExplained
    <2>5. ASSUME NEW k \in DOMAIN ChildrenOf(d)
          PROVE  Explained(BadData(ChildrenOf(d)[k])) /\ Explained(BadStat(ChildrenOf(d)[k]))
      <3>1. PICK c \in Nat : c = ChildrenOf(d)[k]
        BY <1>3
      <3>2. ~Joining(d)
        BY <2>2 DEF Joining, Joined, Creation, Between
      <3>3. Clear => c \in Made
        BY <1>2, <1>3, <3>1, <3>2, ClearIs, ChildIs
      <3>4. Explained(BadData(c)) /\ Explained(BadStat(c))
        BY <2>1, <3>3, AccessExplained
      <3> QED
        BY <3>1, <3>4
    <2> QED
      BY <2>3, <2>4, <2>5 DEF DirAccesses
  <1> QED
    BY <1>4, <1>5

LEMMA SequenceOf ==
    ASSUME NEW S, NEW n \in Nat, NEW f, DOMAIN f = 1..n, f = [k \in 1..n |-> f[k]],
           \A k \in 1..n : f[k] \in S
    PROVE  f \in Seq(S) /\ Len(f) = n
  OBVIOUS

LEMMA AccessSequences ==
    ASSUME TypedTables, NEW d \in Nat \ {0}, NEW S, DirAccesses(d) \subseteq S
    PROVE  /\ <<BadData(d)>> \in Seq(S) /\ <<BadData(d), BadList(d)>> \in Seq(S)
           /\ BadChildren(d) \in Seq(S)
           /\ Len(BadChildren(d)) = Len(ChildrenOf(d))
           /\ [k \in DOMAIN ChildrenOf(d) |-> BadStat(ChildrenOf(d)[k])] \in Seq(S)
  <1>1. PICK n \in Nat : n = Len(ChildrenOf(d)) /\ DOMAIN ChildrenOf(d) = 1..n
    BY ChildrenAre
  <1>2. BadData(d) \in S /\ BadList(d) \in S
    BY DEF DirAccesses
  <1>6. <<BadData(d)>> \in Seq(S) /\ <<BadData(d), BadList(d)>> \in Seq(S)
    <2>1. PICK x, y : x = BadData(d) /\ y = BadList(d)
      OBVIOUS
    <2>2. <<x>> \in Seq(S) /\ <<x, y>> \in Seq(S)
      BY <1>2, <2>1
    <2> QED
      BY <2>1, <2>2
  <1>3. \A k \in 1..n : BadData(ChildrenOf(d)[k]) \in S /\ BadStat(ChildrenOf(d)[k]) \in S
    BY <1>1 DEF DirAccesses
  <1>4. BadChildren(d) \in Seq(S) /\ Len(BadChildren(d)) = n
    <2>1. BadChildren(d) = [k \in 1..n |-> BadData(ChildrenOf(d)[k])]
      BY <1>1 DEF BadChildren
    <2>2. PICK f : f = [k \in 1..n |-> BadData(ChildrenOf(d)[k])]
      OBVIOUS
    <2>3. DOMAIN f = 1..n /\ f = [k \in 1..n |-> f[k]] /\ \A k \in 1..n : f[k] \in S
      BY <1>3, <2>2
    <2>4. f \in Seq(S) /\ Len(f) = n
      BY <2>3, SequenceOf
    <2> QED
      BY <2>1, <2>2, <2>4
  <1>5. [k \in DOMAIN ChildrenOf(d) |-> BadStat(ChildrenOf(d)[k])] \in Seq(S)
    <2>1. PICK f : f = [k \in 1..n |-> BadStat(ChildrenOf(d)[k])]
      OBVIOUS
    <2>2. DOMAIN f = 1..n /\ f = [k \in 1..n |-> f[k]] /\ \A k \in 1..n : f[k] \in S
      BY <1>3, <2>1
    <2>3. f \in Seq(S)
      BY <2>2, SequenceOf
    <2> QED
      BY <1>1, <2>1, <2>3
  <1> QED
    BY <1>1, <1>4, <1>5, <1>6

LEMMA JoinSeq ==
    ASSUME NEW S, NEW s \in Seq(S), NEW t \in Seq(S)
    PROVE  /\ s \o t \in Seq(S) /\ Len(s \o t) = Len(s) + Len(t)
           /\ Len(s) >= 1 => (s \o t)[1] = s[1]
  OBVIOUS

LEMMA SubSequence ==
    ASSUME NEW S, NEW s \in Seq(S), NEW m \in 0..Len(s)
    PROVE  SubSeq(s, 1, m) \in Seq(S)
  OBVIOUS

LEMMA ComparedIs ==
    ASSUME TypedTables, NEW d \in Nat \ {0}, NEW name
    PROVE  ComparedBad(d, name) = "none" \/ ComparedBad(d, name) \in DirAccesses(d)
  <1>1. PICK S : S = DirAccesses(d)
    OBVIOUS
  <1>2. PICK m : m = IF FoundIn(d, name) = {} THEN Len(ChildrenOf(d)) ELSE Min(FoundIn(d, name))
    OBVIOUS
  <1>3. PICK a, b : a = <<BadData(d), BadList(d)>> /\ b = BadChildren(d)
    OBVIOUS
  <1>4. a \in Seq(S) /\ b \in Seq(S) /\ Len(b) = Len(ChildrenOf(d)) /\ Len(b) \in Nat
    BY <1>1, <1>3, AccessSequences, ChildrenAre
  <1>5. m \in 0..Len(b)
    <2>1. FoundIn(d, name) # {} => Min(FoundIn(d, name)) \in 1..Len(ChildrenOf(d))
      BY FoundIs
    <2>2. CASE FoundIn(d, name) = {}
      <3>1. m = Len(b)
        BY <1>2, <1>4, <2>2
      <3> QED
        BY <1>4, <3>1
    <2>3. CASE FoundIn(d, name) # {}
      <3>1. m \in 1..Len(b)
        BY <1>2, <1>4, <2>1, <2>3
      <3> QED
        BY <1>4, <3>1
    <2> QED
      BY <2>2, <2>3
  <1>6. PICK c : c = SubSeq(b, 1, m)
    OBVIOUS
  <1>7. c \in Seq(S)
    BY <1>4, <1>5, <1>6, SubSequence
  <1>8. PICK s : s = a \o c
    OBVIOUS
  <1>9. s \in Seq(S)
    BY <1>4, <1>7, <1>8, JoinSeq
  <1>10. ComparedBad(d, name) = FirstBad(s)
    BY <1>2, <1>3, <1>6, <1>8 DEF ComparedBad
  <1> QED
    BY <1>1, <1>9, <1>10, FirstBadIn

LEMMA LookupExplained ==
    ASSUME Steady, fault = "none", fault' # "none", NEW w \in Worker, Lookup(w)
    PROVE  Explained(fault')
  <1>1. PICK d, name, f : d = req[w].ino /\ name = req[w].name /\ f = fault'
    OBVIOUS
  <1>2. pc[w] = "lookup"
    BY <1>1, LookupIs
  <1>3. d \in Nat \ {0} /\ TypedTables
    BY <1>1, <1>2, KnownAre DEF Steady, TInv, StepFits, Reading, OnDir, Ino
  <1>4. PICK bad : bad = ComparedBad(d, name)
    OBVIOUS
  <1>5. f \in DirAccesses(d) \/ f = "none"
    <2>1. bad = "none" \/ bad \in DirAccesses(d)
      BY <1>3, <1>4, ComparedIs
    <2>2. CASE FoundIn(d, name) = {}
      <3>1. f = bad
        BY <1>1, <1>4, <2>2, LookupIs DEF Unless
      <3> QED
        BY <2>1, <3>1
    <2>3. CASE FoundIn(d, name) # {}
      <3>1. PICK k : k = Min(FoundIn(d, name)) /\ k \in DOMAIN ChildrenOf(d)
        BY <1>3, <2>3, FoundIs, ChildrenAre
      <3>2. PICK c : c = ChildrenOf(d)[k]
        OBVIOUS
      <3>3. Unless(FirstBad(<<bad, BadStat(c)>>), Tell(c) /\ Done(w) /\ UNCHANGED tables)
        BY <1>1, <1>4, <2>3, <3>1, <3>2, LookupIs
      <3>4. f = FirstBad(<<bad, BadStat(c)>>)
        BY <1>1, <3>3 DEF Unless
      <3>5. PICK b : b = BadStat(c)
        OBVIOUS
      <3>6. f # "none" => f = bad \/ f = b
        BY <3>4, <3>5, FirstOfTwo
      <3>7. b \in DirAccesses(d)
        BY <3>1, <3>2, <3>5 DEF DirAccesses
      <3> QED
        BY <2>1, <3>6, <3>7
    <2> QED
      BY <2>2, <2>3
  <1>6. Explained(f)
    BY <1>1, <1>2, <1>5, DirAccessExplained
  <1> QED
    BY <1>1, <1>6

\* What may be wrong with the answer of a listing.
LEMMA AnswerIs ==
    ASSUME TypedTables, NEW d \in Nat \ {0}, NEW off \in Nat
    PROVE  \/ AnswerBad(d, off) \in DirAccesses(d) \cup {"none"}
           \/ /\ AnswerBad(d, off) = "stack" /\ BadData(d) = "none"
              /\ Len(Answered(d, off)) > Fits
  <1>1. PICK S : S = DirAccesses(d) \cup
                       {IF Len(Answered(d, off)) > Fits THEN "stack" ELSE "none"}
    OBVIOUS
  <1>2. PICK a, b, c, e :
          /\ a = <<BadData(d)>> /\ b = BadChildren(d)
          /\ c = [k \in DOMAIN ChildrenOf(d) |-> BadStat(ChildrenOf(d)[k])]
          /\ e = <<BadStat(d), IF Len(Answered(d, off)) > Fits THEN "stack" ELSE "none">>
    OBVIOUS
  <1>3. a \in Seq(S) /\ b \in Seq(S) /\ c \in Seq(S)
    <2>1. DirAccesses(d) \subseteq S
      BY <1>1
    <2> QED
      BY <1>2, <2>1, AccessSequences
  <1>4. e \in Seq(S)
    <2>1. PICK x, y : x = BadStat(d) /\ y = IF Len(Answered(d, off)) > Fits THEN "stack" ELSE "none"
      OBVIOUS
    <2>2. x \in S /\ y \in S
      BY <1>1, <2>1 DEF DirAccesses
    <2>3. e = <<x, y>>
      BY <1>2, <2>1
    <2> QED
      BY <2>2, <2>3
  <1>5. PICK ab : ab = a \o b
    OBVIOUS
  <1>6. Len(a) = 1 /\ a[1] = BadData(d)
    BY <1>2
  <1>7. ab \in Seq(S) /\ Len(ab) >= 1 /\ ab[1] = BadData(d)
    <2>1. PICK m \in Nat : m = Len(b)
      BY <1>3
    <2>0. 1 \in 1..Len(a)
      BY <1>6
    <2>2. ab \in Seq(S) /\ Len(ab) = Len(a) + Len(b) /\ ab[1] = a[1]
      BY <1>3, <1>5, <2>0, JoinSeq
    <2>3. Len(ab) = 1 + m
      BY <1>6, <2>1, <2>2
    <2>4. Len(ab) >= 1
      BY <2>3
    <2> QED
      BY <1>6, <2>2, <2>4
  <1>8. PICK abc : abc = ab \o c
    OBVIOUS
  <1>9. abc \in Seq(S) /\ Len(abc) >= 1 /\ abc[1] = BadData(d)
    <2>1. Len(ab) \in Nat /\ Len(c) \in Nat
      BY <1>3, <1>7
    <2>2. abc \in Seq(S) /\ Len(abc) = Len(ab) + Len(c) /\ abc[1] = ab[1]
      BY <1>3, <1>7, <1>8, JoinSeq
    <2> QED
      BY <1>7, <2>1, <2>2
  <1>10. PICK s : s = abc \o e
    OBVIOUS
  <1>11. s \in Seq(S) /\ Len(s) >= 1 /\ s[1] = BadData(d)
    <2>1. Len(abc) \in Nat /\ Len(e) \in Nat
      BY <1>4, <1>9
    <2>2. s \in Seq(S) /\ Len(s) = Len(abc) + Len(e) /\ s[1] = abc[1]
      BY <1>4, <1>9, <1>10, JoinSeq
    <2> QED
      BY <1>9, <2>1, <2>2
  <1>12. AnswerBad(d, off) = FirstBad(s)
    BY <1>2, <1>5, <1>8, <1>10 DEF AnswerBad, GivenBad
  <1>13. /\ FirstBad(s) = "none" \/ FirstBad(s) \in S
         /\ FirstBad(s) # "none" /\ FirstBad(s) # s[1] => s[1] = "none"
    BY <1>11, FirstBadIn
  <1>14. CASE FirstBad(s) \in DirAccesses(d) \cup {"none"}
    BY <1>12, <1>14
  <1>15. CASE FirstBad(s) \notin DirAccesses(d) \cup {"none"}
    <2>1. FirstBad(s) = "stack" /\ Len(Answered(d, off)) > Fits
      BY <1>1, <1>13, <1>15
    <2>2. FirstBad(s) # BadData(d)
      BY <1>15 DEF DirAccesses
    <2>3. BadData(d) = "none"
      BY <1>11, <1>13, <1>15, <2>2
    <2> QED
      BY <1>12, <2>1, <2>3
  <1> QED
    BY <1>14, <1>15

LEMMA ReaddirExplained ==
    ASSUME Steady, fault = "none", fault' # "none", NEW w \in Worker, Readdir(w)
    PROVE  Explained(fault')
  <1>1. PICK d, off, f : d = req[w].ino /\ off = req[w].off /\ f = fault'
    OBVIOUS
  <1>2. pc[w] = "readdir"
    BY <1>1, ReaddirIs
  <1>3. d \in Nat \ {0} /\ TypedTables /\ off \in Nat
    BY <1>1, <1>2, KnownAre DEF Steady, TInv, StepFits, Reading, OnDir, Ino, TypedWorkers, Requests
  <1>4. f = BadData(d) \/ f = AnswerBad(d, off)
    BY <1>1, ReaddirIs DEF Unless
  <1>5. CASE f \in DirAccesses(d)
    BY <1>1, <1>2, <1>5, DirAccessExplained
  <1>6. CASE f = "stack" /\ BadData(d) = "none" /\ Len(Answered(d, off)) > Fits
    <2>1. d \in DOMAIN data /\ d <= Len(data)
      <3>1. d <= Len(data)
        BY <1>3, <1>6, GoodAccess
      <3>2. DOMAIN data = 1..Len(data) /\ Len(data) \in Nat
        BY <1>3 DEF TypedTables
      <3> QED
        BY <1>3, <3>1, <3>2
    <2>2. ChildrenOf(d) = data[d].children /\ Len(ChildrenOf(d)) \in Nat
      BY <1>3, <2>1, ChildrenAre
    <2>3. Len(Answered(d, off)) <= Len(ChildrenOf(d)) + 2 /\ Len(Answered(d, off)) \in Nat
      BY <1>3, AnsweredIs
    <2>4. Len(ChildrenOf(d)) + 2 > Fits
      BY <1>6, <2>2, <2>3, FileSystemAssumption
    <2>5. Len(data[d].children) + 2 > Fits
      BY <2>2, <2>4
    <2>6. Explained(f)
      BY <1>6, <2>1, <2>5 DEF Explained
    <2> QED
      BY <1>1, <2>6
  <1>7. f \in DirAccesses(d) \/ f = "none"
          \/ (f = "stack" /\ BadData(d) = "none" /\ Len(Answered(d, off)) > Fits)
    <2>1. BadData(d) \in DirAccesses(d)
      BY DEF DirAccesses
    <2> QED
      BY <1>3, <1>4, <2>1, AnswerIs
  <1> QED
    BY <1>1, <1>5, <1>6, <1>7

LEMMA GetattrExplained ==
    ASSUME Steady, fault = "none", fault' # "none", NEW w \in Worker, Getattr(w)
    PROVE  Explained(fault')
  <1>1. PICK i, f : i = req[w].ino /\ f = fault'
    OBVIOUS
  <1>2. pc[w] = "getattr" /\ f = BadStat(i)
    BY <1>1 DEF Getattr, Unless
  <1>3. pc[w] # "idle" /\ ~Creates(req[w]) /\ i \in DirKnown \cup FileKnown
    BY <1>1, <1>2 DEF Steady, TInv, StepFits, Reading, Creates
  <1>4. i \in Nat
    BY <1>3, KnownAre DEF Steady, TInv, Ino
  <1>5. Clear => i \in Made
    BY <1>3, ClearIs
  <1>6. Explained(BadStat(i))
    BY <1>3, <1>4, <1>5, NoneCreates, AccessExplained
  <1> QED
    BY <1>1, <1>2, <1>6

\* The accesses of a request about a file.
LEMMA FileAccessExplained ==
    ASSUME Steady, NEW w \in Worker, pc[w] \in {"read", "write", "copy", "length"},
           NEW i, i = req[w].ino
    PROVE  /\ i \in Nat \ {0} /\ i \in FileKnown /\ OnFile(req[w]) /\ ~Creates(req[w])
           /\ Explained(BadData(i)) /\ Explained(BadStat(i))
  <1>1. pc[w] # "idle" /\ OnFile(req[w]) /\ ~Creates(req[w])
    BY DEF Steady, TInv, StepFits, Reading, OnFile, Creates
  <1>2. i \in FileKnown /\ i \in Nat \ {0}
    BY <1>1, KnownAre DEF Steady, TInv, StepFits, Ino
  <1>3. Clear => i \in Made
    BY <1>2, ClearIs
  <1>4. Explained(BadData(i)) /\ Explained(BadStat(i))
    BY <1>1, <1>2, <1>3, NoneCreates, AccessExplained
  <1> QED
    BY <1>1, <1>2, <1>4

\* A text that is freed is being written, by another thread.
LEMMA FreedExplained ==
    ASSUME Steady, NEW w \in Worker, pc[w] \in {"read", "write"}, NEW i, i = req[w].ino,
           data[i].text.bytes = UnsetBytes
    PROVE  overlaps # {}
  <1> SUFFICES ASSUME overlaps = {} PROVE FALSE
    OBVIOUS
  <1>1. i \in FileKnown /\ OnFile(req[w]) /\ ~Creates(req[w]) /\ Clear
    BY FileAccessExplained, SteadyIs
  <1>2. i \in Made /\ file_stats[i] = "file" /\ EntryFits(i)
    BY <1>1, ClearIs, KnownIs DEF Clear, Tree
  <1>3. Copying(i)
    BY <1>2 DEF EntryFits
  <1>4. PICK v \in Worker : pc[v] = "copy" /\ req[v].ino = i
    BY <1>3 DEF Copying
  <1>5. v # w /\ pc[v] # "idle" /\ pc[w] # "idle" /\ req[v].op = "write" /\ OnFile(req[v])
    BY <1>4 DEF Steady, TInv, StepFits, OnFile
  <1> QED
    BY <1>1, <1>4, <1>5, WriterIsAlone DEF Steady

\* A first page is within the text of its file.
LEMMA FirstPageIsWithin ==
    ASSUME Steady, overlaps \cap {"file", "creations"} = {},
           NEW w \in Worker, pc[w] = "read", NEW i, i = req[w].ino,
           data[i].kind # "dir", data[i].text.len # 0
    PROVE  Within(data[i].text, 0)
  <1>1. i \in FileKnown /\ OnFile(req[w]) /\ Clear
    <2>1. "creations" \notin overlaps
      OBVIOUS
    <2> QED
      BY <2>1, FileAccessExplained, SteadyIs
  <1>2. i \in Made /\ i \in 1..Len(data) /\ EntryFits(i)
    BY <1>1, ClearIs DEF Clear, Tree
  <1>3. data[i].kind = "file" /\ TextFits(i)
    BY <1>2 DEF EntryFits, Kinds, Steady, TextInv, Lengths
  <1>4. ~Writing(i)
    <2> SUFFICES ASSUME NEW v \in Worker, pc[v] \in {"copy", "length"}, req[v].ino = i PROVE FALSE
      BY DEF Writing
    <2>1. v # w /\ pc[v] # "idle" /\ pc[w] # "idle" /\ req[v].op = "write" /\ OnFile(req[v])
      BY DEF Steady, TInv, StepFits, OnFile
    <2> QED
      BY <1>1, <2>1, WriterIsAlone DEF Steady
  <1>5. PICK t \in Texts : t = data[i].text
    <2>1. data[i] \in Entries
      BY <1>2 DEF Steady, TInv, TypedTables
    <2> QED
      BY <2>1 DEF Entries
  <1>6. t.bytes \in Nat /\ t.len \in Nat /\ t.len <= t.bytes + 1
    BY <1>3, <1>4, <1>5 DEF TextFits, Texts
  <1>7. PICK n : n = Sent(t, 0)
    OBVIOUS
  <1>8. n \in Nat /\ n <= t.len
    BY <1>6, <1>7, FileSystemAssumption DEF Sent
  <1> QED
    BY <1>5, <1>6, <1>7, <1>8 DEF Within

\* A read meets a text that a write has freed, or goes beyond one that is too short.
LEMMA TextExplained ==
    ASSUME Steady, NEW w \in Worker, pc[w] = "read", NEW i, i = req[w].ino, BadData(i) = "none"
    PROVE  Explained(BadText(data[i], req[w].off))
  <1>1. PICK e, off : e = data[i] /\ off = req[w].off
    OBVIOUS
  <1>2. off \in Nat /\ req[w].op = "read" /\ (off # 0 => req[w].ino \in Long)
    BY <1>1 DEF Steady, TInv, StepFits, TypedWorkers, Requests, Reading
  <1>3. PICK bad : bad = BadText(e, off)
    OBVIOUS
  <1>4. \/ bad = "none"
        \/ bad = "freed" /\ e.text.bytes = UnsetBytes
        \/ bad = "overread" /\ e.kind # "dir" /\ e.text.len # 0 /\ ~Within(e.text, off)
    BY <1>3 DEF BadText
  <1>5. CASE bad = "none"
    BY <1>1, <1>3, <1>5, NothingExplained
  <1>6. CASE bad = "freed" /\ e.text.bytes = UnsetBytes
    <2>1. overlaps # {}
      BY <1>1, <1>6, FreedExplained
    <2>2. Explained(bad)
      BY <1>6, <2>1 DEF Explained
    <2> QED
      BY <1>1, <1>3, <2>2
  <1>7. CASE bad = "overread" /\ e.kind # "dir" /\ e.text.len # 0 /\ ~Within(e.text, off)
    <2>1. (off > 0 /\ req[w].ino \in Long) \/ overlaps \cap {"file", "creations"} # {}
      <3>1. CASE off = 0
        <4>1. ~Within(data[i].text, 0) /\ data[i].kind # "dir" /\ data[i].text.len # 0
          BY <1>1, <1>7, <3>1
        <4> QED
          BY <4>1, FirstPageIsWithin
      <3>2. CASE off # 0
        BY <1>2, <3>2
      <3> QED
        BY <3>1, <3>2
    <2>2. Explained(bad)
      BY <1>1, <1>2, <1>7, <2>1 DEF Explained
    <2> QED
      BY <1>1, <1>3, <2>2
  <1> QED
    BY <1>4, <1>5, <1>6, <1>7

LEMMA FileExplained ==
    ASSUME Steady, fault = "none", fault' # "none", NEW w \in Worker,
           Read(w) \/ FreeText(w) \/ CopyText(w) \/ StoreLength(w)
    PROVE  Explained(fault')
  <1>1. PICK i, f : i = req[w].ino /\ f = fault'
    OBVIOUS
  <1>2. CASE Read(w)
    <2>1. pc[w] = "read" /\ (f = BadData(i) \/ (BadData(i) = "none" /\ f = BadText(data[i], req[w].off)))
      BY <1>1, <1>2 DEF Read, Unless
    <2>2. Explained(f)
      BY <1>1, <2>1, FileAccessExplained, TextExplained
    <2> QED
      BY <1>1, <2>2
  <1>3. CASE FreeText(w)
    <2>1. /\ pc[w] = "write"
          /\ f = BadData(i) \/ (f = "freed" /\ data[i].text.bytes = UnsetBytes)
      BY <1>1, <1>3 DEF FreeText, Unless
    <2>2. CASE f = BadData(i)
      <3>1. Explained(BadData(i))
        BY <1>1, <2>1, FileAccessExplained
      <3> QED
        BY <1>1, <2>2, <3>1
    <2>3. CASE f = "freed" /\ data[i].text.bytes = UnsetBytes
      <3>1. overlaps # {}
        BY <1>1, <2>1, <2>3, FreedExplained
      <3>2. Explained(f)
        BY <2>3, <3>1 DEF Explained
      <3> QED
        BY <1>1, <3>2
    <2> QED
      BY <2>1, <2>2, <2>3
  <1>4. CASE CopyText(w)
    <2>1. pc[w] = "copy" /\ f = BadData(i)
      BY <1>1, <1>4 DEF CopyText, Unless
    <2>2. Explained(BadData(i))
      BY <1>1, <2>1, FileAccessExplained
    <2> QED
      BY <1>1, <2>1, <2>2
  <1>5. CASE StoreLength(w)
    <2>1. pc[w] = "length" /\ f = FirstBad(<<BadData(i), BadStat(i)>>)
      BY <1>1, <1>5 DEF StoreLength, Unless
    <2>2. PICK a, b : a = BadData(i) /\ b = BadStat(i)
      OBVIOUS
    <2>3. f = a \/ f = b
      BY <1>1, <2>1, <2>2, FirstOfTwo
    <2>4. Explained(a) /\ Explained(b)
      BY <1>1, <2>1, <2>2, FileAccessExplained
    <2>5. Explained(f)
      BY <2>3, <2>4
    <2> QED
      BY <1>1, <2>5
  <1> QED
    BY <1>2, <1>3, <1>4, <1>5

\* destroy frees the text of an inode that mkdir has not given one.
FreedBad == [i \in 1..file_count |->
               IF BadData(i) # "none" THEN BadData(i)
               ELSE IF data[i].text.bytes = UnsetBytes THEN "unset" ELSE "none"]

LEMMA DestroyExplained ==
    ASSUME Steady, fault = "none", fault' # "none", Destroy
    PROVE  Explained(fault')
  <1>1. PICK f : f = fault'
    OBVIOUS
  <1>2. (\A v \in Worker : pc[v] = "idle") /\ f = FirstBad(FreedBad)
    BY <1>1 DEF Destroy, Unless, FreedBad
  <1>3. \A v \in Worker : ~Creates(req[v])
    BY <1>2, IdleIs DEF Steady, TInv, StepFits
  <1>4. PICK n \in Nat : n = file_count
    BY DEF Steady, TInv, TypedTables
  <1>5. PICK k \in 1..n : FreedBad[k] = f
    <2>1. DOMAIN FreedBad = 1..n
      BY <1>4 DEF FreedBad
    <2>2. PICK s : s = FreedBad
      OBVIOUS
    <2>3. DOMAIN s = 1..n /\ FirstBad(s) # "none"
      BY <1>1, <1>2, <2>1, <2>2
    <2>4. \E k \in 1..n : s[k] = FirstBad(s)
      BY <2>3, FirstBadIs
    <2> QED
      BY <1>2, <2>2, <2>4
  <1>6. Clear => k \in Made
    BY <1>3, <1>4, NoCreation
  <1>7. f = BadData(k) \/ (f = "unset" /\ BadData(k) = "none" /\ data[k].text.bytes = UnsetBytes)
    <2>1. f = IF BadData(k) # "none" THEN BadData(k)
              ELSE IF data[k].text.bytes = UnsetBytes THEN "unset" ELSE "none"
      BY <1>4, <1>5 DEF FreedBad
    <2> QED
      BY <1>1, <2>1
  <1>8. CASE f = BadData(k)
    <2>1. Explained(BadData(k))
      BY <1>3, <1>6, AccessExplained
    <2> QED
      BY <1>1, <1>8, <2>1
  <1>9. CASE f = "unset" /\ data[k].text.bytes = UnsetBytes
    <2>1. ASSUME Clear PROVE \E i \in 5..file_count : data[i].kind = "dir"
      <3>1. EntryFits(k)
        BY <1>6, <2>1 DEF Clear, Tree
      <3>2. ~Copying(k)
        BY <1>2 DEF Copying
      <3>3. k >= 5 /\ data[k].kind = "dir"
        BY <1>9, <3>1, <3>2 DEF EntryFits
      <3>4. k \in 5..file_count
        BY <1>4, <3>3
      <3> QED
        BY <3>3, <3>4
    <2>2. Explained(f)
      BY <1>9, <2>1, SteadyIs DEF Explained
    <2> QED
      BY <1>1, <2>2
  <1> QED
    BY <1>7, <1>8, <1>9

LEMMA FaultsNext ==
    ASSUME Steady, Next, FaultsExplained
    PROVE  FaultsExplained'
  <1>1. fault = "none"
    BY DEF Next
  <1>2. CASE fault' = "none"
    BY <1>2 DEF FaultsExplained
  <1>3. CASE fault' # "none"
    <2>1. UNCHANGED <<tables, req, known, large, overlaps>>
      BY <1>3, BadEnds DEF kernel
    <2>2. Explained(fault')
      <3>1. ASSUME NEW w \in Worker, Receive(w) PROVE FALSE
        BY <1>1, <1>3, <3>1, ReceiveIs
      <3>2. ASSUME OpenDir PROVE FALSE
        BY <1>1, <1>3, <3>2 DEF OpenDir
      <3>3. Destroy => Explained(fault')
        BY <1>1, <1>3, DestroyExplained
      <3>4. ASSUME NEW w \in Worker, creation(w) PROVE Explained(fault')
        BY <1>1, <1>3, <3>4, CreationExplained
      <3>5. ASSUME NEW w \in Worker,
                   Lookup(w) \/ Getattr(w) \/ Readdir(w) \/ Read(w) \/ FreeText(w)
                     \/ CopyText(w) \/ StoreLength(w)
            PROVE  Explained(fault')
        BY <1>1, <1>3, <3>5, LookupExplained, GetattrExplained, ReaddirExplained, FileExplained
      <3> QED
        BY <3>1, <3>2, <3>3, <3>4, <3>5 DEF Next
    <2>3. PICK f : f = fault'
      OBVIOUS
    <2>4. UNCHANGED <<file_count, data, req, overlaps>> /\ Long' = Long
      BY <2>1 DEF tables, Long, FileKnown
    <2> QED
      BY <2>2, <2>3, <2>4 DEF Explained, FaultsExplained
  <1> QED
    BY <1>2, <1>3

\* An access is only bad for one of a few reasons.  Freed memory and memory beyond
\* a table need two requests at once, one of which creates or writes.  What was
\* never written needs a creation and another request at once, or is the text of
\* a directory that mkdir made and destroy frees.  Only a read leaves a text: in
\* the second page of a file that has been written there or that mknod made, whose
\* st_size is what realloc left, or when it overlaps a write of the file, or after
\* two creations at once.  And readdir overruns its buffer only for a directory
\* with more entries than it holds.  Every handler of assign3.c is behind it, and
\* the loop that runs them in threads.
THEOREM OnlySuchFaults == Spec => []FaultsExplained
  <1>1. Init => FaultsExplained
    BY DEF Init, FaultsExplained
  <1>2. Steady /\ FaultsExplained /\ [Next]_vars => FaultsExplained'
    <2>1. FaultsExplained /\ UNCHANGED vars => FaultsExplained'
      BY DEF FaultsExplained, vars, tables, kernel, Long, FileKnown
    <2> QED
      BY <2>1, FaultsNext
  <1> QED
    BY <1>1, <1>2, SteadyHolds, PTL DEF Spec

-----------------------------------------------------------------------------
(* What a process sees that lists a directory.                               *)

\* The entries of a directory that has these children.
Entire(cs) == <<Dot, DotDot>> \o cs
Begins(s, t) == Len(s) <= Len(t) /\ s = SubSeq(t, 1, Len(s))

\* Only one answer that the caller has taken as a whole, the first, leads beyond
\* the entries: an answer at a later offset is shorter, and what is made meanwhile
\* moves the end.
Listed(l, cs) ==
    /\ l.off <= Len(cs) + 2
    /\ l.off = 0 => l.seen = <<>> /\ ~l.parts
    /\ l.off > Len(cs) + 1 => l.seen = Entire(cs) /\ ~l.parts
    /\ l.ended => ~l.parts /\ Begins(l.seen, Entire(cs))
    /\ ~l.grew => /\ l.ended => l.off > Len(cs) + 1
                  /\ ~l.parts => l.off = 0 \/ l.off > Len(cs) + 1

\* At most one readdir is at work, at the offset the listing has come to.
Lister(v) ==
    /\ listing.dir # 0 /\ req[v].ino = listing.dir /\ req[v].off = listing.off
    /\ ~listing.ended
Filling(d) == \E v \in Worker : Creates(req[v]) /\ req[v].ino = d
ListInv ==
    /\ listing.dir = 0 => /\ listing.seen = <<>> /\ listing.off = 0 /\ ~listing.ended
                          /\ ~listing.grew /\ ~listing.parts
    /\ \A v \in Worker : pc[v] = "readdir" => Lister(v)
    /\ (listing.dir # 0 /\ "creations" \notin overlaps) =>
         /\ Listed(listing, ChildrenOf(listing.dir))
         /\ ~listing.grew => ~Filling(listing.dir)

LEMMA EntireIs ==
    ASSUME NEW cs \in Seq(Ino)
    PROVE  Entire(cs) \in Seq(Int) /\ Len(Entire(cs)) = Len(cs) + 2 /\ Len(cs) \in Nat
  <1>1. cs \in Seq(Int)
    <2>1. \A k \in 1..Len(cs) : cs[k] \in Int
      <3>1. \A k \in 1..Len(cs) : cs[k] \in Ino
        OBVIOUS
      <3> QED
        BY <3>1 DEF Ino
    <2>2. cs = [k \in 1..Len(cs) |-> cs[k]] /\ Len(cs) \in Nat
      OBVIOUS
    <2>3. [k \in 1..Len(cs) |-> cs[k]] \in Seq(Int)
      BY <2>1, <2>2
    <2> QED
      BY <2>2, <2>3
  <1>2. PICK a : a = <<Dot, DotDot>>
    OBVIOUS
  <1>3. a \in Seq(Int) /\ Len(a) = 2
    BY <1>2 DEF Dot, DotDot
  <1> QED
    BY <1>1, <1>2, <1>3 DEF Entire

LEMMA SubSeqIs ==
    ASSUME NEW t \in Seq(Int), NEW n \in Nat, n <= Len(t)
    PROVE  /\ SubSeq(t, 1, n) \in Seq(Int) /\ Len(SubSeq(t, 1, n)) = n
           /\ \A k \in 1..n : SubSeq(t, 1, n)[k] = t[k]
  <1>1. 1 \in 1..(Len(t) + 1) /\ n \in 0..Len(t)
    OBVIOUS
  <1>2. /\ SubSeq(t, 1, n) \in Seq(Int)
        /\ Len(SubSeq(t, 1, n)) = IF 1 <= n THEN n - 1 + 1 ELSE 0
        /\ \A k \in 1..(n - 1 + 1) : SubSeq(t, 1, n)[k] = t[1 + k - 1]
    BY <1>1, SubSeqProperties
  <1> QED
    BY <1>2

LEMMA BeginsIs ==
    ASSUME NEW t \in Seq(Int)
    PROVE  /\ Begins(t, t)
           /\ SubSeq(t, 1, Len(t)) = t
           /\ \A e \in Int, s \in Seq(Int) : Begins(s, t) => Begins(s, Append(t, e))
  <1>1. SubSeq(t, 1, Len(t)) = t /\ Len(t) \in Nat
    BY SubSeqFull
  <1>2. ASSUME NEW e \in Int, NEW s \in Seq(Int), Begins(s, t) PROVE Begins(s, Append(t, e))
    <2>1. PICK n, m : n = Len(s) /\ m = Len(t)
      OBVIOUS
    <2>0. n \in Nat /\ m \in Nat /\ n <= m /\ s = SubSeq(t, 1, n)
      BY <1>2, <2>1 DEF Begins
    <2>2. PICK u : u = Append(t, e)
      OBVIOUS
    <2>7. u \in Seq(Int) /\ Len(u) = m + 1 /\ \A k \in 1..m : u[k] = t[k]
      BY <2>1, <2>2
    <2>3. \A k \in 1..n : s[k] = t[k]
      BY <2>0, <2>1, SubSeqIs
    <2>4. SubSeq(u, 1, n) \in Seq(Int) /\ Len(SubSeq(u, 1, n)) = n
      BY <2>0, <2>7, SubSeqIs
    <2>5. \A k \in 1..n : SubSeq(u, 1, n)[k] = s[k]
      <3>1. \A k \in 1..n : SubSeq(u, 1, n)[k] = u[k]
        BY <2>0, <2>7, SubSeqIs
      <3>2. \A k \in 1..n : k \in 1..m
        BY <2>0
      <3> QED
        BY <2>3, <2>7, <3>1, <3>2
    <2>6. s = SubSeq(u, 1, n)
      BY <2>1, <2>4, <2>5, SeqEqual
    <2> QED
      BY <2>0, <2>1, <2>2, <2>6, <2>7 DEF Begins
  <1> QED
    BY <1>1, <1>2 DEF Begins

LEMMA ListedGrows ==
    ASSUME NEW l \in Listings, NEW cs \in Seq(Ino), NEW c \in Ino, Listed(l, cs), l.grew
    PROVE  Listed(l, Append(cs, c))
  <1>1. PICK n, ds : n = Len(cs) /\ ds = Append(cs, c)
    OBVIOUS
  <1>2. n \in Nat /\ ds \in Seq(Ino) /\ Len(ds) = n + 1 /\ l.off \in Nat /\ l.seen \in Seq(Int)
    BY <1>1 DEF Listings
  <1>3. l.off <= n + 2 /\ (l.off = 0 => l.seen = <<>> /\ ~l.parts)
    BY <1>1 DEF Listed
  <1>4. ASSUME l.off > n + 2 PROVE FALSE
    BY <1>2, <1>3, <1>4
  <1>5. ASSUME l.ended PROVE ~l.parts /\ Begins(l.seen, Entire(ds))
    <2>1. ~l.parts /\ Begins(l.seen, Entire(cs))
      BY <1>5 DEF Listed
    <2>2. c \in Int
      BY DEF Ino
    <2>3. Entire(ds) = Append(Entire(cs), c)
      <3>1. PICK t, u : t = Entire(ds) /\ u = Append(Entire(cs), c)
        OBVIOUS
      <3>4. t \in Seq(Int) /\ Len(t) = n + 3
        BY <1>2, <3>1, EntireIs
      <3>5. Entire(cs) \in Seq(Int) /\ Len(Entire(cs)) = n + 2
        BY <1>1, <1>2, EntireIs
      <3>6. PICK v : v = Entire(cs)
        OBVIOUS
      <3>2. t \in Seq(Int) /\ u \in Seq(Int) /\ Len(t) = n + 3 /\ Len(u) = n + 3
        BY <1>2, <2>2, <3>1, <3>4, <3>5, <3>6
      <3>3. \A k \in 1..(n + 3) : t[k] = u[k]
        BY <1>1, <1>2, <3>1 DEF Entire
      <3> QED
        BY <3>1, <3>2, <3>3, SeqEqual
    <2> QED
      BY <1>2, <2>1, <2>2, <2>3, EntireIs, BeginsIs
  <1>6. l.off <= Len(ds) + 2 /\ ~(l.off > Len(ds) + 1)
    BY <1>2, <1>3, <1>4
  <1> QED
    BY <1>1, <1>3, <1>5, <1>6 DEF Listed

LEMMA ListedEnds ==
    ASSUME NEW l \in Listings, NEW q \in Listings, NEW cs \in Seq(Ino), Listed(l, cs),
           Ends(l.off, Len(cs)), q.off = l.off, q.seen = l.seen, q.parts = l.parts, q.grew = l.grew
    PROVE  Listed(q, cs)
  <1>1. l.off > Len(cs) + 1
    BY DEF Ends
  <1>2. l.seen = Entire(cs) /\ ~l.parts
    BY <1>1 DEF Listed
  <1>3. Begins(l.seen, Entire(cs))
    BY <1>2, EntireIs, BeginsIs
  <1> QED
    BY <1>1, <1>2, <1>3 DEF Listed

LEMMA ListedTakes ==
    ASSUME NEW l \in Listings, NEW q \in Listings, NEW cs \in Seq(Ino), Listed(l, cs),
           ~Ends(l.off, Len(cs)), ~l.ended, NEW a \in Seq(Int), NEW n \in 1..Len(a),
           Len(a) <= Len(cs) + 2, l.off # 0 => Len(a) <= Len(cs) + 1,
           l.off = 0 => a = Entire(cs),
           q.off = n, q.seen = l.seen \o SubSeq(a, 1, n), q.ended = l.ended, q.grew = l.grew,
           q.parts <=> (l.parts \/ n < Len(a))
    PROVE  Listed(q, cs)
  <1>1. PICK m \in Nat, z \in Nat : m = Len(cs) /\ z = Len(a)
    OBVIOUS
  <1>2. n \in Nat /\ n >= 1 /\ n <= z /\ z <= m + 2 /\ l.off \in Nat
    BY <1>1 DEF Listings
  <1>3. ~(l.off > m + 1) /\ (l.off # 0 => z <= m + 1)
    BY <1>1 DEF Ends
  <1>4. ASSUME l.off = 0, n = z PROVE n = m + 2 /\ q.seen = Entire(cs) /\ ~q.parts
    <2>1. a = Entire(cs) /\ l.seen = <<>> /\ ~l.parts
      BY <1>4 DEF Listed
    <2>2. z = m + 2
      BY <1>1, <2>1, EntireIs
    <2>3. q.seen = <<>> \o a
      BY <1>1, <1>4, <2>1, BeginsIs
    <2>4. <<>> \o a = a
      OBVIOUS
    <2> QED
      BY <1>1, <1>4, <2>1, <2>2, <2>3, <2>4
  <1>5. ASSUME n > m + 1 PROVE l.off = 0 /\ n = z
    BY <1>2, <1>3, <1>5
  <1>6. ASSUME ~q.grew, ~q.parts PROVE n > m + 1
    <2>1. ~l.parts /\ ~(n < z) /\ ~l.grew
      BY <1>1, <1>6
    <2>2. l.off = 0
      BY <1>1, <1>3, <2>1 DEF Listed
    <2> QED
      BY <1>2, <1>4, <2>1, <2>2
  <1>7. q.off <= m + 2 /\ q.off # 0 /\ ~q.ended
    BY <1>2
  <1>8. q.off > m + 1 => q.seen = Entire(cs) /\ ~q.parts
    BY <1>4, <1>5
  <1>9. ~q.grew => (~q.parts => q.off > m + 1)
    BY <1>6
  <1> QED
    BY <1>1, <1>7, <1>8, <1>9 DEF Listed

\* A directory keeps its children, or a creation has just added one.
Same(d) == (ChildrenOf(d))' = ChildrenOf(d)
Grows(d) == Filling(d) /\ \E c \in Ino : (ChildrenOf(d))' = Append(ChildrenOf(d), c)

LEMMA ChildrenGrow ==
    ASSUME Clear, Next, fault' = "none", NEW d \in DirKnown
    PROVE  Same(d) \/ Grows(d)
  <1>1. TInv /\ TInv' /\ fault = "none"
    BY TInvNext DEF Clear, Next
  <1>2. d \in Made /\ d \in 1..Len(data) /\ d \in Ino /\ d \in Nat
    BY ClearIs
  <1>3. Len(data) \in Nat
    BY <1>1 DEF TInv, TypedTables
  <1>4. ASSUME data' = data PROVE Same(d)
    BY <1>4 DEF ChildrenOf, Same
  <1>5. ASSUME Len(data') >= Len(data), data'[d].children = data[d].children
        PROVE  Same(d)
    <2>1. PICK m \in Nat, n \in Nat : m = Len(data) /\ n = Len(data')
      BY <1>1 DEF TInv, TypedTables
    <2>2. d <= m /\ d <= n
      BY <1>2, <1>5, <2>1
    <2> QED
      BY <1>5, <2>1, <2>2 DEF ChildrenOf, Same
  <1>6. ASSUME NEW w \in Worker, creation(w) PROVE Same(d) \/ Grows(d)
    <2>1. CASE AddChild(w)
      <3>1. PICK p : p = req[w].ino
        OBVIOUS
      <3>2. /\ pc[w] = "addChild" /\ Len(data') = Len(data) /\ UNCHANGED file_count
            /\ data'[p].children = Append(data[p].children, file_count)
            /\ \A i \in 1..Len(data) : i # p => data'[i] = data[i]
        BY <1>1, <1>4, <2>1, <3>1, AddChildStep
      <3>3. Creates(req[w])
        BY <1>1, <3>2 DEF TInv, StepFits, Creation, Between
      <3>4. CASE d # p
        BY <1>2, <1>3, <1>5, <3>2, <3>4
      <3>5. CASE d = p
        <4>1. PICK m \in Nat : m = Len(data) /\ d <= m /\ m = Len(data')
          BY <1>2, <1>3, <3>2
        <4>2. (ChildrenOf(d))' = Append(ChildrenOf(d), file_count)
          BY <3>2, <3>5, <4>1 DEF ChildrenOf
        <4>3. file_count \in Ino
          BY <1>1, CountsFit DEF TInv
        <4> QED
          BY <3>1, <3>3, <3>5, <4>2, <4>3 DEF Grows, Filling
      <3> QED
        BY <3>4, <3>5
    <2>2. CASE PublishData(w)
      <3>1. PICK n : n = file_count
        OBVIOUS
      <3>2. /\ n \in Nat /\ Len(data) = n - 1 /\ Len(data') = n
            /\ \A i \in 1..(n - 1) : data'[i] = data[i]
        BY <1>1, <2>2, <3>1, PublishDataStep
      <3>3. data'[d] = data[d] /\ Len(data') >= Len(data)
        BY <1>2, <3>2
      <3> QED
        BY <1>5, <3>3
    <2>3. CASE SetData(w)
      <3>1. PICK p, n : p = req[w].ino /\ n = file_count
        OBVIOUS
      <3>2. /\ pc[w] = "setData" /\ Goto(w, "reply") /\ n \in Nat
            /\ Len(data) = n /\ Len(data') = n
            /\ \A i \in 1..n : i # n => data'[i] = data[i]
        BY <1>1, <2>3, <3>1, SetDataStep
      <3>3. pc[w] \in Creation /\ "reply" \in Creation
        BY <3>2 DEF Creation, Between
      <3>4. Made = MadeOf(w)
        BY <1>1, <3>2, <3>3, LonelyStays
      <3>5. d \in 1..n /\ d # n
        BY <1>2, <3>1, <3>2, <3>4 DEF MadeOf, Between
      <3>6. data'[d] = data[d] /\ Len(data') >= Len(data)
        BY <3>2, <3>5
      <3> QED
        BY <1>5, <3>6
    <2>4. CASE ~AddChild(w) /\ ~PublishData(w) /\ ~SetData(w)
      <3>1. data' = data
        BY <1>6, <2>4 DEF creation, LoadCount, StoreCount, Grow, PublishStats, SetStat,
                          GrowChildren, Reply, Unless, tables
      <3> QED
        BY <1>4, <3>1
    <2> QED
      BY <2>1, <2>2, <2>3, <2>4
  <1>7. ASSUME NEW w \in Worker, FreeText(w) \/ CopyText(w) \/ StoreLength(w) PROVE Same(d)
    <2>1. PICK i : i = req[w].ino
      OBVIOUS
    <2>2. \E t : TextIs(i, t) /\ UNCHANGED <<file_count, file_stats, moving>>
      BY <1>1, <1>7, <2>1, FreeTextStep, CopyTextStep, StoreLengthStep
    <2>3. /\ Len(data') = Len(data) /\ data'[i].children = data[i].children
          /\ \A j \in 1..Len(data) : j # i => data'[j] = data[j]
      BY <1>1, <2>2, TextChanges
    <2>4. data'[d].children = data[d].children
      BY <1>2, <2>3
    <2> QED
      BY <1>3, <1>5, <2>3, <2>4
  <1>8. ASSUME NEW w \in Worker, Receive(w) \/ Lookup(w) \/ Getattr(w) \/ Readdir(w) \/ Read(w)
        PROVE  data' = data
    <2>1. Receive(w) => data' = data
      BY ReceiveIs DEF tables
    <2>2. Readdir(w) => data' = data
      BY <1>1, ReaddirStep DEF tables
    <2>3. Lookup(w) => data' = data
      BY LookupIs DEF Unless, tables
    <2>4. Getattr(w) \/ Read(w) => data' = data
      BY DEF Getattr, Read, Unless, tables
    <2> QED
      BY <1>8, <2>1, <2>2, <2>3, <2>4
  <1>9. OpenDir \/ Destroy => data' = data
    BY DEF OpenDir, Destroy, Unless, tables
  <1> QED
    BY <1>4, <1>6, <1>7, <1>8, <1>9 DEF Next

\* Threads that go on are where they were, with what they were asked.
LEMMA ListersGoOn ==
    ASSUME TInv, TInv', GoOn, NEW v \in Worker
    PROVE  /\ pc'[v] = "readdir" => pc[v] = "readdir" /\ req'[v] = req[v]
           /\ Creates(req'[v]) => Creates(req[v]) /\ req'[v] = req[v]
  <1>1. pc[v] \in Places /\ StepFits(v)
    BY DEF TInv, TypedWorkers
  <1>2. ASSUME pc'[v] = "readdir" PROVE pc[v] = "readdir" /\ req'[v] = req[v]
    <2>1. pc[v] # "idle" /\ req'[v] = req[v]
      BY <1>2 DEF GoOn
    <2>2. req[v].op = "readdir"
      BY <1>2, <2>1 DEF TInv, StepFits, Reading
    <2> QED
      BY <1>1, <2>1, <2>2 DEF StepFits, Creates, Places, Reading, Creation
  <1>3. ASSUME Creates(req'[v]) PROVE Creates(req[v]) /\ req'[v] = req[v]
    <2>1. pc'[v] # "idle"
      <3>1. pc'[v] = "idle" => req'[v] = Idle
        BY DEF TInv, StepFits
      <3> QED
        BY <1>3, <3>1, IdleIs
    <2>2. req'[v] = req[v]
      BY <2>1 DEF GoOn
    <2> QED
      BY <1>3, <2>2
  <1> QED
    BY <1>2, <1>3

\* A step that is none of the listing's.
LEMMA ListSame ==
    ASSUME TInv, TInv', ListInv, GoOn, overlaps' = overlaps, listing' = listing,
           listing.dir # 0 /\ "creations" \notin overlaps => Same(listing.dir) \/ Grows(listing.dir)
    PROVE  ListInv'
  <1>1. \A v \in Worker : /\ pc'[v] = "readdir" => pc[v] = "readdir" /\ req'[v] = req[v]
                          /\ Creates(req'[v]) => Creates(req[v]) /\ req'[v] = req[v]
    BY ListersGoOn
  <1>2. listing.dir = 0 => /\ listing.seen = <<>> /\ listing.off = 0 /\ ~listing.ended
                           /\ ~listing.grew /\ ~listing.parts
    BY DEF ListInv
  <1>3. \A v \in Worker : pc'[v] = "readdir" => Lister(v)'
    BY <1>1 DEF ListInv, Lister
  <1>4. ASSUME listing.dir # 0, "creations" \notin overlaps
        PROVE  /\ Listed(listing, (ChildrenOf(listing.dir))')
               /\ ~listing.grew => ~(Filling(listing.dir))'
    <2>1. Listed(listing, ChildrenOf(listing.dir)) /\ (~listing.grew => ~Filling(listing.dir))
      BY <1>4 DEF ListInv
    <2>2. (Filling(listing.dir))' => Filling(listing.dir)
      BY <1>1 DEF Filling
    <2>3. listing \in Listings /\ listing.dir \in Nat \ {0}
      BY <1>4 DEF TInv, TypedKernel, Listings
    <2>4. ChildrenOf(listing.dir) \in Seq(Ino)
      BY <2>3, ChildrenAre DEF TInv
    <2>5. CASE Same(listing.dir)
      <3>1. (ChildrenOf(listing.dir))' = ChildrenOf(listing.dir)
        BY <2>5 DEF Same
      <3> QED
        BY <2>1, <2>2, <3>1
    <2>6. CASE Grows(listing.dir)
      <3>1. PICK c \in Ino : (ChildrenOf(listing.dir))' = Append(ChildrenOf(listing.dir), c)
        BY <2>6 DEF Grows
      <3>2. listing.grew
        BY <2>1, <2>6 DEF Grows
      <3> QED
        BY <2>1, <2>3, <2>4, <3>1, <3>2, ListedGrows
    <2> QED
      BY <1>4, <2>5, <2>6
  <1> QED
    BY <1>2, <1>3, <1>4 DEF ListInv

LEMMA ReceiveList ==
    ASSUME TInv, ListInv, NEW w \in Worker, Receive(w)
    PROVE  ListInv'
  <1>1. PICK r \in Request :
             /\ pc[w] = "idle"
             /\ overlaps' = overlaps \cup UNION {Overlap(r, s) : s \in Others(w)}
             /\ req' = [req EXCEPT ![w] = r] /\ pc' = [pc EXCEPT ![w] = First(r)]
             /\ listing' = [listing EXCEPT !.grew = @ \/ (Creates(r) /\ r.ino = listing.dir)]
             /\ UNCHANGED <<tables, local, known, large, mounted, fault>>
    BY ReceiveIs
  <1>2. RequestFits(r) /\ DirKnown \subseteq Nat \ {0}
    BY RequestIs, KnownAre DEF TInv, Ino
  <1>3. PICK b \in BOOLEAN : b = (listing.grew \/ (Creates(r) /\ r.ino = listing.dir))
    BY DEF TInv, TypedKernel, Listings
  <1>4. /\ listing'.dir = listing.dir /\ listing'.off = listing.off /\ listing'.seen = listing.seen
        /\ listing'.ended = listing.ended /\ listing'.parts = listing.parts /\ listing'.grew = b
    <2>1. listing' = [listing EXCEPT !.grew = b]
      BY <1>1, <1>3
    <2> QED
      BY <2>1, ListingGrows DEF TInv, TypedKernel
  <1>5. /\ \A v \in Worker : v # w => pc'[v] = pc[v] /\ req'[v] = req[v]
        /\ req'[w] = r /\ pc'[w] = First(r)
    BY <1>1 DEF TInv, TypedWorkers
  <1>6. listing'.dir = 0 => /\ listing'.seen = <<>> /\ listing'.off = 0 /\ ~listing'.ended
                            /\ ~listing'.grew /\ ~listing'.parts
    <2>1. Creates(r) => r.ino # 0
      BY <1>2 DEF RequestFits
    <2> QED
      BY <1>3, <1>4, <2>1 DEF ListInv
  <1>7. \A v \in Worker : pc'[v] = "readdir" => Lister(v)'
    <2>1. First(r) = "readdir" => r.op = "readdir"
      BY DEF First
    <2>2. r.op = "readdir" =>
            listing.dir # 0 /\ r.ino = listing.dir /\ r.off = listing.off /\ ~listing.ended
      BY <1>2 DEF RequestFits
    <2>3. ASSUME NEW v \in Worker, v # w, pc'[v] = "readdir"
          PROVE  /\ listing.dir # 0 /\ req'[v].ino = listing.dir /\ req'[v].off = listing.off
                 /\ ~listing.ended
      BY <1>5, <2>3 DEF ListInv, Lister
    <2> QED
      BY <1>4, <1>5, <2>1, <2>2, <2>3 DEF Lister
  <1>8. ASSUME listing.dir # 0, "creations" \notin overlaps'
        PROVE  /\ Listed(listing', (ChildrenOf(listing.dir))')
               /\ ~b => ~(Filling(listing.dir))'
    <2>1. PICK d, cs : d = listing.dir /\ cs = ChildrenOf(d)
      OBVIOUS
    <2>2. Listed(listing, cs) /\ (~listing.grew => ~Filling(d))
      BY <1>1, <1>8, <2>1 DEF ListInv
    <2>3. cs = (ChildrenOf(listing.dir))'
      BY <1>1, <1>4, <2>1 DEF ChildrenOf, tables
    <2>4. ~b => ~listing.grew
      BY <1>3
    <2>5. Listed(listing', cs)
      BY <1>4, <2>2, <2>4 DEF Listed
    <2>6. ASSUME ~b, NEW v \in Worker, Creates(req'[v]), req'[v].ino = d PROVE FALSE
      BY <1>3, <1>5, <2>1, <2>2, <2>6 DEF Filling
    <2> QED
      BY <1>4, <2>1, <2>3, <2>5, <2>6 DEF Filling
  <1> QED
    BY <1>4, <1>6, <1>7, <1>8 DEF ListInv

LEMMA OpenDirList ==
    ASSUME TInv, ListInv, OpenDir
    PROVE  ListInv'
  <1>1. PICK d \in DirKnown :
          /\ listing.dir = 0
          /\ listing' = [listing EXCEPT !.dir = d,
                           !.grew = \E v \in Worker : Creates(req[v]) /\ req[v].ino = d]
          /\ UNCHANGED <<tables, req, pc, local, known, large, overlaps, mounted>>
    BY DEF OpenDir
  <1>2. d # 0 /\ d \in Nat \ {0}
    BY KnownAre DEF TInv, Ino
  <1>3. PICK b \in BOOLEAN : b = \E v \in Worker : Creates(req[v]) /\ req[v].ino = d
    OBVIOUS
  <1>4. /\ listing'.dir = d /\ listing'.off = listing.off /\ listing'.seen = listing.seen
        /\ listing'.ended = listing.ended /\ listing'.parts = listing.parts /\ listing'.grew = b
    <2>1. listing' = [listing EXCEPT !.dir = d, !.grew = b]
      BY <1>1, <1>3
    <2> QED
      BY <2>1 DEF TInv, TypedKernel, Listings
  <1>5. listing.seen = <<>> /\ listing.off = 0 /\ ~listing.ended /\ ~listing.parts
    BY <1>1 DEF ListInv
  <1>6. \A v \in Worker : pc'[v] # "readdir"
    BY <1>1 DEF ListInv, Lister
  <1>7. Listed(listing', (ChildrenOf(d))')
    <2>1. PICK cs : cs = ChildrenOf(d) /\ Len(cs) \in Nat
      BY <1>2, ChildrenAre DEF TInv
    <2>2. (ChildrenOf(d))' = cs
      BY <1>1, <2>1 DEF ChildrenOf, tables
    <2> QED
      BY <1>4, <1>5, <2>1, <2>2 DEF Listed
  <1>8. ~b => ~(Filling(d))'
    BY <1>1, <1>3 DEF Filling
  <1> QED
    BY <1>2, <1>4, <1>6, <1>7, <1>8 DEF ListInv

LEMMA ReaddirList ==
    ASSUME Steady, TInv', ListInv, NEW w \in Worker, Readdir(w), fault' = "none", GoOn,
           overlaps' = overlaps
    PROVE  ListInv'
  <1>1. PICK d, off, cs : d = req[w].ino /\ off = req[w].off /\ cs = ChildrenOf(d)
    OBVIOUS
  <1>2. TInv /\ Together
    BY DEF Steady
  <1>3. /\ pc[w] = "readdir" /\ Done(w)
        /\ UNCHANGED <<tables, known, large, overlaps, work, mounted>>
        /\ d \in Ino /\ d \in Nat \ {0} /\ off \in Nat
        /\ listing' \in Listings /\ listing'.dir = listing.dir /\ listing'.grew = listing.grew
        /\ \/ /\ Ends(off, Len(cs))
              /\ listing'.ended /\ listing'.off = listing.off /\ listing'.seen = listing.seen
              /\ listing'.parts = listing.parts
           \/ /\ ~Ends(off, Len(cs)) /\ listing'.ended = listing.ended
              /\ \E n \in 1..Len(Answered(d, off)) :
                   /\ listing'.off = n /\ listing'.seen = SeenWith(d, off, n)
                   /\ listing'.parts <=> (listing.parts \/ n < Len(Answered(d, off)))
    BY <1>1, <1>2, ReaddirStep
  <1>4. listing.dir # 0 /\ d = listing.dir /\ off = listing.off /\ ~listing.ended
    BY <1>1, <1>3 DEF ListInv, Lister
  <1>5. \A v \in Worker : /\ pc'[v] = "readdir" => pc[v] = "readdir" /\ req'[v] = req[v]
                          /\ Creates(req'[v]) => Creates(req[v]) /\ req'[v] = req[v]
    BY <1>2, ListersGoOn
  <1>6. ASSUME NEW v \in Worker, pc'[v] = "readdir" PROVE FALSE
    <2>1. pc'[w] = "idle"
      BY <1>2, <1>3 DEF Done, TInv, TypedWorkers
    <2>2. v # w /\ pc[v] = "readdir" /\ req[v].ino = d
      BY <1>4, <1>5, <1>6, <2>1 DEF ListInv, Lister
    <2>3. req[v].op = "readdir" /\ req[w].op = "readdir"
      BY <1>2, <1>3, <2>2 DEF TInv, StepFits, Reading
    <2>4. InTurn(req[v], req[w])
      BY <1>1, <2>2, <2>3 DEF InTurn, Locks
    <2> QED
      BY <1>2, <1>3, <2>2, <2>4 DEF Together, Busy
  <1>7. ASSUME "creations" \notin overlaps
        PROVE  /\ Listed(listing', (ChildrenOf(listing.dir))')
               /\ ~listing.grew => ~(Filling(listing.dir))'
    <2>1. Listed(listing, cs) /\ (~listing.grew => ~Filling(listing.dir))
      BY <1>1, <1>4, <1>7 DEF ListInv
    <2>2. cs = (ChildrenOf(listing.dir))'
      BY <1>1, <1>3, <1>4 DEF ChildrenOf, tables
    <2>3. (Filling(listing.dir))' => Filling(listing.dir)
      BY <1>3, <1>5 DEF Filling
    <2>4. cs \in Seq(Ino) /\ listing \in Listings
      BY <1>1, <1>2, <1>3, ChildrenAre DEF TInv, TypedKernel
    <2>5. Listed(listing', cs)
      <3>1. CASE Ends(off, Len(cs))
        BY <1>3, <1>4, <2>1, <2>4, <3>1, ListedEnds
      <3>2. CASE ~Ends(off, Len(cs))
        <4>1. PICK a : a = Answered(d, off)
          OBVIOUS
        <4>2. PICK n \in 1..Len(a) :
                /\ listing'.ended = listing.ended
                /\ listing'.off = n /\ listing'.seen = listing.seen \o SubSeq(a, 1, n)
                /\ listing'.parts <=> (listing.parts \/ n < Len(a))
          BY <1>3, <3>2, <4>1 DEF SeenWith
        <4>3. /\ a \in Seq(Int) /\ Len(a) <= Len(cs) + 2
              /\ off # 0 => Len(a) <= Len(cs) + 1
              /\ off = 0 => a = Entire(cs)
          BY <1>1, <1>2, <1>3, <4>1, AnsweredIs DEF TInv, Entire
        <4> QED
          BY <1>3, <1>4, <2>1, <2>4, <3>2, <4>2, <4>3, ListedTakes
      <3> QED
        BY <3>1, <3>2
    <2> QED
      BY <2>1, <2>2, <2>3, <2>5
  <1> QED
    BY <1>3, <1>4, <1>6, <1>7 DEF ListInv

LEMMA ListNext ==
    ASSUME Steady, ListInv, Next
    PROVE  ListInv'
  <1>1. TInv /\ TInv' /\ (Clear \/ "creations" \in overlaps)
    BY TInvNext, SteadyIs
  <1>2. CASE fault' # "none"
    <2>1. UNCHANGED <<tables, req, pc, listing, overlaps>>
      BY <1>2, BadEnds DEF kernel
    <2>2. GoOn
      BY <2>1 DEF GoOn
    <2>3. Same(listing.dir)
      BY <2>1 DEF ChildrenOf, tables, Same
    <2> QED
      BY <1>1, <2>1, <2>2, <2>3, ListSame
  <1>3. CASE fault' = "none" /\ \E w \in Worker : Receive(w)
    BY <1>1, <1>3, ReceiveList
  <1>4. CASE OpenDir
    BY <1>1, <1>4, OpenDirList
  <1>5. CASE fault' = "none" /\ ~(\E w \in Worker : Receive(w)) /\ ~OpenDir
    <2>1. GoOn /\ overlaps' = overlaps
      BY <1>1, <1>5, OthersGoOn
    <2>2. CASE \E w \in Worker : Readdir(w)
      BY <1>1, <1>5, <2>1, <2>2, ReaddirList
    <2>3. CASE ~(\E w \in Worker : Readdir(w))
      <3>1. listing' = listing
        <4>1. ASSUME NEW w \in Worker, creation(w) PROVE listing' = listing
          BY <1>5, <4>1 DEF creation, LoadCount, StoreCount, Grow, PublishStats, SetStat,
                            GrowChildren, AddChild, PublishData, SetData, Reply, Unless, Tell, kernel
        <4>2. ASSUME NEW w \in Worker, Lookup(w) PROVE listing' = listing
          BY <1>5, <4>2, LookupIs DEF Unless, Tell, kernel
        <4>3. ASSUME NEW w \in Worker,
                     Getattr(w) \/ Read(w) \/ FreeText(w) \/ CopyText(w) \/ StoreLength(w)
              PROVE  listing' = listing
          BY <1>5, <4>3 DEF Getattr, Read, FreeText, CopyText, StoreLength, Unless, kernel
        <4>4. Destroy => listing' = listing
          BY <1>5 DEF Destroy, Unless, kernel
        <4> QED
          BY <1>5, <2>3, <4>1, <4>2, <4>3, <4>4 DEF Next
      <3>2. ASSUME listing.dir # 0, "creations" \notin overlaps
            PROVE  Same(listing.dir) \/ Grows(listing.dir)
        <4>1. listing.dir \in DirKnown
          BY <1>1, <3>2 DEF TInv, TypedKernel
        <4>2. Clear
          BY <1>1, <3>2
        <4>3. PICK d \in DirKnown : d = listing.dir
          BY <4>1
        <4>4. Same(d) \/ Grows(d)
          BY <1>5, <4>2, ChildrenGrow
        <4>5. d = listing'.dir
          BY <3>1, <4>3
        <4> QED
          BY <4>3, <4>4, <4>5 DEF Same, Grows, ChildrenOf
      <3> QED
        BY <1>1, <2>1, <3>1, <3>2, ListSame
    <2> QED
      BY <2>2, <2>3
  <1> QED
    BY <1>2, <1>3, <1>4, <1>5

LEMMA ListHolds == Spec => []ListInv
  <1>1. Init => ListInv
    BY DEF Init, ListInv
  <1>2. Steady /\ ListInv /\ [Next]_vars => ListInv'
    <2>1. Steady /\ ListInv /\ UNCHANGED vars => ListInv'
      <3> SUFFICES ASSUME Steady, ListInv, UNCHANGED vars PROVE ListInv'
        OBVIOUS
      <3>1. UNCHANGED <<tables, req, pc, local, kernel>> /\ listing' = listing /\ overlaps' = overlaps
        BY DEF vars, kernel
      <3>2. GoOn /\ data' = data
        BY <3>1 DEF GoOn, tables
      <3>3. TInv /\ TInv'
        BY <3>1, TInvSame DEF Steady
      <3>4. Same(listing.dir)
        BY <3>1, <3>2 DEF ChildrenOf, Same
      <3> QED
        BY <3>1, <3>2, <3>3, <3>4, ListSame
    <2> QED
      BY <2>1, ListNext
  <1> QED
    BY <1>1, <1>2, SteadyHolds, PTL DEF Spec

\* Unless two creations overlap, a process that has listed a directory to its end
\* has seen its first entries, each once and in the order of the table, and all of
\* them if nothing was made there since the process opened it: whatever runs
\* meanwhile, and however its buffer cuts the answers, for the end comes only
\* after a first answer that it took as a whole.  The code behind it is
\* assign3_readdir, whose answers give all the children at any offset but the last.
THEOREM ListingsExact == Spec => []ListingExact
  <1>1. Steady /\ ListInv => ListingExact
    <2> SUFFICES ASSUME Steady, ListInv, listing.dir # 0, "creations" \notin overlaps
                 PROVE  LET all == <<Dot, DotDot>> \o data[listing.dir].children
                        IN  /\ listing.ended =>
                                 /\ ~listing.parts
                                 /\ Len(listing.seen) <= Len(all)
                                 /\ listing.seen = SubSeq(all, 1, Len(listing.seen))
                                 /\ ~listing.grew => listing.seen = all
                            /\ ~listing.grew /\ ~listing.parts => listing.seen \in {<<>>, all}
      BY DEF ListingExact
    <2>1. PICK d \in DirKnown : d = listing.dir
      BY DEF Steady, TInv, TypedKernel
    <2>2. d \in 1..Len(data)
      BY SteadyIs, ClearIs
    <2>3. ChildrenOf(d) = data[d].children
      BY <2>2 DEF ChildrenOf, Steady, TInv, TypedTables
    <2>4. Listed(listing, data[d].children)
      BY <2>1, <2>3 DEF ListInv
    <2>5. Entire(data[d].children) = <<Dot, DotDot>> \o data[d].children
      BY DEF Entire
    <2> HIDE DEF Entire
    <2> QED
      BY <2>1, <2>4, <2>5 DEF Listed, Begins
  <1> QED
    BY <1>1, SteadyHolds, ListHolds, PTL
=============================================================================
