----------------------- MODULE CounterVersionsProofs -----------------------
(***************************************************************************)
(* Theorems about the concurrent versions of lab 2's program, for any      *)
(* number of jobs, increments and worker threads.  Of libdispatch.c: the   *)
(* semaphore excludes and no increment is lost.  Of both: they count as    *)
(* the serial program, and pthreads.c frees its counters when the threads  *)
(* are done.                                                               *)
(***************************************************************************)
EXTENDS CounterVersions, FiniteSetTheorems, TLAPS

-----------------------------------------------------------------------------
(* libdispatch.c                                                             *)

\* Where a job is says how far its loop is, and main() reports at the end.
Progress ==
    /\ \A j \in Job : InCritical(j) => i[j] < WORK_PER_JOB
    /\ \A j \in Job : pc[j] = "done" => i[j] = WORK_PER_JOB
    /\ \A j \in Job : pc[j] = "new" <=> j > submitted
    /\ reported => \A j \in Job : pc[j] = "done"

\* The inductive invariant.  A loaded value is only safe to store because the
\* semaphore lets nobody else in, and the counter only counts what is stored
\* because of that.
IInv == TypeOK /\ MutualExclusion /\ Progress /\ LoadIsFresh /\ NoLostIncrement

-----------------------------------------------------------------------------
(* Lemmas about the set of increments that have been stored.                 *)

\* Every set of increments is finite, all of them being JOBS * WORK_PER_JOB.
LEMMA AllIncrements ==
    /\ IsFiniteSet(Job \X (1..WORK_PER_JOB))
    /\ Cardinality(Job \X (1..WORK_PER_JOB)) = JOBS * WORK_PER_JOB
  <1>1. IsFiniteSet(Job) /\ Cardinality(Job) = JOBS
    <2>1. JOBS \in Int /\ 1 \in Int /\ (1 > JOBS => JOBS = 0)
      BY DispatchAssumption
    <2> QED
      BY <2>1, FS_Interval DEF Job
  <1>2. IsFiniteSet(1..WORK_PER_JOB) /\ Cardinality(1..WORK_PER_JOB) = WORK_PER_JOB
    <2>1. WORK_PER_JOB \in Int /\ 1 \in Int /\ (1 > WORK_PER_JOB => WORK_PER_JOB = 0)
      BY DispatchAssumption
    <2> QED
      BY <2>1, FS_Interval
  <1> QED
    BY <1>1, <1>2, FS_Product

\* Storing an increment that was not stored before adds one to their number.
LEMMA OneMoreStored ==
    ASSUME NEW p \in Job \X (1..WORK_PER_JOB), p \notin Stored
    PROVE  /\ Cardinality(Stored \cup {p}) = Cardinality(Stored) + 1
           /\ Cardinality(Stored) \in Nat
           /\ Cardinality(Stored) < JOBS * WORK_PER_JOB
  <1>1. Stored \in SUBSET (Job \X (1..WORK_PER_JOB))
    BY DEF Stored
  <1>2. Stored \cup {p} \in SUBSET (Job \X (1..WORK_PER_JOB))
    BY <1>1
  <1>3. IsFiniteSet(Stored)
    BY <1>1, AllIncrements, FS_Subset
  <1>4. Cardinality(Stored) \in Nat
    BY <1>3, FS_CardinalityType
  <1>5. Cardinality(Stored \cup {p}) = Cardinality(Stored) + 1
    BY <1>3, FS_AddElement
  <1>6. Cardinality(Stored \cup {p}) <= JOBS * WORK_PER_JOB
    BY <1>2, AllIncrements, FS_Subset
  <1>7. JOBS * WORK_PER_JOB \in Nat
    BY DispatchAssumption
  <1> QED
    BY <1>4, <1>5, <1>6, <1>7

\* A store adds the increment the job is at, and no other.
LEMMA StoreStores ==
    ASSUME IInv, NEW j \in Job, Store(j)
    PROVE  /\ <<j, i[j] + 1>> \in Job \X (1..WORK_PER_JOB)
           /\ <<j, i[j] + 1>> \notin Stored
           /\ Stored' = Stored \cup {<<j, i[j] + 1>>}
  <1> USE DEF IInv, TypeOK
  <1>1. pc[j] = "store" /\ pc' = [pc EXCEPT ![j] = "signal"] /\ i' = i
    BY DEF Store
  <1>2. i[j] \in Nat /\ i[j] < WORK_PER_JOB /\ WORK_PER_JOB \in Nat
    BY <1>1, DispatchAssumption DEF Progress, InCritical
  <1>3. <<j, i[j] + 1>> \in Job \X (1..WORK_PER_JOB)
    BY <1>2
  <1>4. <<j, i[j] + 1>> \notin Stored
    BY <1>1, <1>2 DEF Stored
  <1>5. \A p \in Job \X (1..WORK_PER_JOB) :
          p \in Stored' <=> p \in Stored \/ p = <<j, i[j] + 1>>
    <2> SUFFICES ASSUME NEW k \in Job, NEW n \in 1..WORK_PER_JOB
                 PROVE  <<k, n>> \in Stored' <=> <<k, n>> \in Stored \/ <<k, n>> = <<j, i[j] + 1>>
      OBVIOUS
    <2>1. <<k, n>> \in Stored <=> n <= i[k] \/ (n = i[k] + 1 /\ pc[k] = "signal")
      BY DEF Stored
    <2>2. <<k, n>> \in Stored' <=> n <= i[k] \/ (n = i[k] + 1 /\ pc'[k] = "signal")
      BY <1>1 DEF Stored
    <2>3. CASE k = j
      BY <1>1, <1>2, <2>1, <2>2, <2>3
    <2>4. CASE k # j
      BY <1>1, <2>1, <2>2, <2>4
    <2> QED
      BY <2>3, <2>4
  <1>6. Stored \subseteq Job \X (1..WORK_PER_JOB) /\ Stored' \subseteq Job \X (1..WORK_PER_JOB)
    BY DEF Stored
  <1> QED
    BY <1>3, <1>4, <1>5, <1>6

\* No other step of a job changes what has been stored.
LEMMA OthersStoreNothing ==
    ASSUME IInv, NEW j \in Job,
           Start(j) \/ Wait(j) \/ Load(j) \/ Signal(j) \/ Finish(j)
    PROVE  Stored' = Stored
  <1> SUFFICES ASSUME NEW k \in Job, NEW n \in 1..WORK_PER_JOB
               PROVE  <<k, n>> \in Stored' <=> <<k, n>> \in Stored
    BY DEF Stored
  <1>1. <<k, n>> \in Stored <=> n <= i[k] \/ (n = i[k] + 1 /\ pc[k] = "signal")
    BY DEF Stored
  <1>2. <<k, n>> \in Stored' <=> n <= i'[k] \/ (n = i'[k] + 1 /\ pc'[k] = "signal")
    BY DEF Stored
  <1>3. i[k] \in Nat /\ i[j] \in Nat /\ n \in Nat
    BY DispatchAssumption DEF IInv, TypeOK
  <1> USE DEF IInv, TypeOK
  <1>4. CASE Signal(j)
    BY <1>1, <1>2, <1>3, <1>4 DEF Signal
  <1>5. CASE ~Signal(j)
    <2>1. i' = i /\ (pc'[k] = "signal" <=> pc[k] = "signal")
      BY <1>5 DEF Start, Wait, Load, Finish
    <2> QED
      BY <1>1, <1>2, <2>1
  <1> QED
    BY <1>4, <1>5

-----------------------------------------------------------------------------
\* Initially nothing has been counted and nobody is inside.
LEMMA InitIInv == Init => IInv
  <1> SUFFICES ASSUME Init PROVE IInv
    OBVIOUS
  <1> USE DispatchAssumption DEF Init, InitialValue
  <1>1. TypeOK
    <2>1. 0 \in 0..JOBS /\ 0 \in 0..WORK_PER_JOB /\ 0 \in Nat /\ 1 \in 0..1
      OBVIOUS
    <2> QED
      BY <2>1 DEF TypeOK
  <1>2. MutualExclusion
    BY DEF MutualExclusion, InCritical
  <1>3. Progress /\ LoadIsFresh
    BY DEF Progress, LoadIsFresh, InCritical, Job
  <1>4. NoLostIncrement
    <2>1. Stored = {}
      BY DEF Stored
    <2> QED
      BY <2>1, FS_EmptySet DEF NoLostIncrement
  <1> QED
    BY <1>1, <1>2, <1>3, <1>4 DEF IInv

\* A step that leaves every critical section, the counter and the stored
\* increments alone keeps what is said of them.
LEMMA FrameIInv ==
    ASSUME IInv, UNCHANGED <<semaphore, counter, loaded>>, Stored' = Stored,
           \A j \in Job : /\ InCritical(j)' <=> InCritical(j)
                          /\ pc'[j] = "store" => pc[j] = "store"
    PROVE  MutualExclusion' /\ LoadIsFresh' /\ NoLostIncrement'
  <1>1. MutualExclusion'
    BY DEF IInv, MutualExclusion
  <1>2. LoadIsFresh'
    BY DEF IInv, LoadIsFresh
  <1>3. NoLostIncrement'
    BY DEF IInv, NoLostIncrement
  <1> QED
    BY <1>1, <1>2, <1>3

\* main()'s steps touch neither the jobs that run nor the counter.
LEMMA MainIInv == IInv /\ main => IInv'
  <1> SUFFICES ASSUME IInv, main PROVE IInv'
    OBVIOUS
  <1> USE DispatchAssumption
  <1>1. CASE Submit
    <2>1. /\ submitted + 1 \in 1..JOBS
          /\ submitted' = submitted + 1
          /\ pc' = [pc EXCEPT ![submitted + 1] = "queued"]
          /\ UNCHANGED <<reported, i, loaded, semaphore, counter>>
      BY <1>1 DEF IInv, Submit, TypeOK
    <2>2. submitted + 1 \in Job /\ pc[submitted + 1] = "new"
      BY <2>1 DEF IInv, Progress, Job, TypeOK
    <2>3. TypeOK'
      BY <2>1, <2>2 DEF IInv, TypeOK
    <2>4. \A j \in Job : pc'[j] = IF j = submitted + 1 THEN "queued" ELSE pc[j]
      BY <2>1, <2>2 DEF IInv, TypeOK
    <2>5. Progress'
      BY <2>1, <2>2, <2>4 DEF IInv, Progress, InCritical, Job, TypeOK
    <2>6. Stored' = Stored
      BY <2>1, <2>2, <2>4 DEF Stored
    <2>7. MutualExclusion' /\ LoadIsFresh' /\ NoLostIncrement'
      BY <2>1, <2>2, <2>4, <2>6, FrameIInv DEF InCritical
    <2> QED
      BY <2>3, <2>5, <2>7 DEF IInv
  <1>2. CASE Report
    <2>1. UNCHANGED <<submitted, pc, i, loaded, semaphore, counter>> /\ reported' = TRUE
      BY <1>2 DEF Report
    <2>2. TypeOK' /\ Progress'
      BY <1>2, <2>1 DEF IInv, TypeOK, Progress, InCritical, Report
    <2>3. Stored' = Stored
      BY <2>1 DEF Stored
    <2>4. MutualExclusion' /\ LoadIsFresh' /\ NoLostIncrement'
      BY <2>1, <2>3, FrameIInv DEF InCritical
    <2> QED
      BY <2>2, <2>4 DEF IInv
  <1> QED
    BY <1>1, <1>2 DEF main

\* Every step of a job, one by one.
LEMMA JobIInv == IInv => \A j \in Job : increment(j) => IInv'
  <1> SUFFICES ASSUME IInv, NEW j \in Job, increment(j) PROVE IInv'
    OBVIOUS
  <1> USE DispatchAssumption
  <1>1. TypeOK /\ MutualExclusion /\ Progress /\ LoadIsFresh /\ NoLostIncrement
    BY DEF IInv
  <1>2. submitted' = submitted /\ reported' = reported
    BY DEF increment, Start, Wait, Load, Store, Signal, Finish
  <1>3. ~reported /\ pc[j] # "new" /\ pc'[j] # "new"
    BY <1>1 DEF increment, Start, Wait, Load, Store, Signal, Finish, TypeOK, Progress
  <1>4. CASE Start(j)
    <2>1. pc[j] = "queued" /\ pc' = [pc EXCEPT ![j] = "loop"]
          /\ UNCHANGED <<i, loaded, semaphore, counter>>
      BY <1>4 DEF Start
    <2>2. TypeOK' /\ Progress'
      BY <1>1, <1>2, <1>3, <2>1 DEF TypeOK, Progress, InCritical
    <2>3. MutualExclusion' /\ LoadIsFresh' /\ NoLostIncrement'
      BY <1>1, <1>4, <2>1, OthersStoreNothing, FrameIInv DEF InCritical, TypeOK
    <2> QED
      BY <2>2, <2>3 DEF IInv
  <1>5. CASE Finish(j)
    <2>1. pc[j] = "loop" /\ i[j] >= WORK_PER_JOB /\ pc' = [pc EXCEPT ![j] = "done"]
          /\ UNCHANGED <<i, loaded, semaphore, counter>>
      BY <1>1, <1>5 DEF Finish, More, TypeOK
    <2>2. TypeOK' /\ Progress'
      BY <1>1, <1>2, <1>3, <2>1 DEF TypeOK, Progress, InCritical
    <2>3. MutualExclusion' /\ LoadIsFresh' /\ NoLostIncrement'
      BY <1>1, <1>5, <2>1, OthersStoreNothing, FrameIInv DEF InCritical, TypeOK
    <2> QED
      BY <2>2, <2>3 DEF IInv
  <1>6. CASE Wait(j)
    <2>1. pc[j] = "loop" /\ i[j] < WORK_PER_JOB /\ semaphore > 0
          /\ semaphore' = semaphore - 1 /\ pc' = [pc EXCEPT ![j] = "load"]
          /\ UNCHANGED <<i, loaded, counter>>
      BY <1>6 DEF Wait, More
    <2>2. semaphore = 1 /\ semaphore' = 0 /\ \A k \in Job : ~InCritical(k)
      BY <1>1, <2>1 DEF TypeOK, MutualExclusion
    <2>3. TypeOK' /\ Progress'
      BY <1>1, <1>2, <1>3, <2>1, <2>2 DEF TypeOK, Progress, InCritical
    <2>4. \A k \in Job : InCritical(k)' <=> k = j
      BY <1>1, <2>1, <2>2 DEF TypeOK, InCritical
    <2>5. MutualExclusion'
      BY <2>2, <2>4 DEF MutualExclusion
    <2>6. LoadIsFresh'
      BY <1>1, <2>1 DEF LoadIsFresh, TypeOK
    <2>7. NoLostIncrement'
      BY <1>1, <1>6, <2>1, OthersStoreNothing DEF NoLostIncrement
    <2> QED
      BY <2>3, <2>5, <2>6, <2>7 DEF IInv
  <1>7. CASE Load(j)
    <2>1. pc[j] = "load" /\ pc' = [pc EXCEPT ![j] = "store"]
          /\ loaded' = [loaded EXCEPT ![j] = counter]
          /\ UNCHANGED <<i, semaphore, counter>>
      BY <1>7 DEF Load
    <2>2. TypeOK' /\ Progress'
      BY <1>1, <1>2, <1>3, <2>1 DEF TypeOK, Progress, InCritical
    <2>3. \A k \in Job : InCritical(k)' <=> InCritical(k)
      BY <1>1, <2>1 DEF TypeOK, InCritical
    <2>4. MutualExclusion'
      BY <1>1, <2>1, <2>3 DEF MutualExclusion
    <2>5. LoadIsFresh'
      BY <1>1, <2>1 DEF LoadIsFresh, TypeOK
    <2>6. NoLostIncrement'
      BY <1>1, <1>7, <2>1, OthersStoreNothing DEF NoLostIncrement
    <2> QED
      BY <2>2, <2>4, <2>5, <2>6 DEF IInv
  <1>8. CASE Store(j)
    <2>1. pc[j] = "store" /\ pc' = [pc EXCEPT ![j] = "signal"]
          /\ counter' = loaded[j] + 1
          /\ UNCHANGED <<i, loaded, semaphore>>
      BY <1>8 DEF Store
    <2>2. TypeOK' /\ Progress'
      BY <1>1, <1>2, <1>3, <2>1 DEF TypeOK, Progress, InCritical
    <2>3. \A k \in Job : InCritical(k)' <=> InCritical(k)
      BY <1>1, <2>1 DEF TypeOK, InCritical
    <2>4. MutualExclusion'
      BY <1>1, <2>1, <2>3 DEF MutualExclusion
    <2>5. \A k \in Job : pc'[k] # "store"
      BY <1>1, <2>1 DEF TypeOK, InCritical, MutualExclusion
    <2>6. LoadIsFresh'
      BY <2>5 DEF LoadIsFresh
    <2>7. counter' = Cardinality(Stored) + 1
      BY <1>1, <2>1 DEF LoadIsFresh, NoLostIncrement
    <2>8. NoLostIncrement'
      BY <1>8, <2>7, StoreStores, OneMoreStored DEF NoLostIncrement
    <2> QED
      BY <2>2, <2>4, <2>6, <2>8 DEF IInv
  <1>9. CASE Signal(j)
    <2>1. pc[j] = "signal" /\ pc' = [pc EXCEPT ![j] = "loop"]
          /\ semaphore' = semaphore + 1 /\ i' = [i EXCEPT ![j] = @ + 1]
          /\ UNCHANGED <<loaded, counter>>
      BY <1>9 DEF Signal
    <2>2. InCritical(j) /\ semaphore = 0 /\ semaphore' = 1
      BY <1>1, <2>1 DEF MutualExclusion, InCritical
    <2>3. TypeOK'
      BY <1>1, <1>2, <2>1, <2>2 DEF TypeOK, Progress
    <2>4. Progress'
      BY <1>1, <1>2, <1>3, <2>1 DEF TypeOK, Progress, InCritical
    <2>5. \A k \in Job : ~InCritical(k)'
      BY <1>1, <2>1, <2>2 DEF TypeOK, InCritical, MutualExclusion
    <2>6. MutualExclusion'
      BY <2>2, <2>5 DEF MutualExclusion
    <2>7. LoadIsFresh'
      BY <2>5 DEF LoadIsFresh, InCritical
    <2>8. NoLostIncrement'
      BY <1>1, <1>9, <2>1, OthersStoreNothing DEF NoLostIncrement
    <2> QED
      BY <2>3, <2>4, <2>6, <2>7, <2>8 DEF IInv
  <1> QED
    BY <1>4, <1>5, <1>6, <1>7, <1>8, <1>9 DEF increment

\* A stuttering step keeps the invariant.
LEMMA StutterIInv == IInv /\ UNCHANGED vars => IInv'
  BY DEF IInv, vars, TypeOK, MutualExclusion, InCritical, Progress, LoadIsFresh,
         NoLostIncrement, Stored

\* The invariant holds of every reachable state.
THEOREM Invariance == Spec => []IInv
  <1>1. IInv /\ [Next]_vars => IInv'
    BY MainIInv, JobIInv, StutterIInv DEF Next
  <1> QED
    BY InitIInv, <1>1, PTL DEF Spec, Safety

\* Every variable keeps to its type: among others the semaphore never exceeds
\* the value it was created with (libdispatch.c lines 34, 70-72).
THEOREM TypeCorrect == Spec => []TypeOK
  <1>1. IInv => TypeOK
    BY DEF IInv
  <1> QED
    BY Invariance, <1>1, PTL

\* At most one job is between wait and signal (lines 70-72).
THEOREM MutualExclusionHolds == Spec => []MutualExclusion
  <1>1. IInv => MutualExclusion
    BY DEF IInv
  <1> QED
    BY Invariance, <1>1, PTL

\* The counter is the number of increments performed (line 71).
THEOREM NoLostIncrementHolds == Spec => []NoLostIncrement
  <1>1. IInv => NoLostIncrement
    BY DEF IInv
  <1> QED
    BY Invariance, <1>1, PTL

-----------------------------------------------------------------------------
\* When every job is done, everything there is to count has been counted.
LEMMA DoneIsTotal ==
    ASSUME IInv, \A j \in Job : pc[j] = "done"
    PROVE  counter = JOBS * WORK_PER_JOB
  <1>1. \A j \in Job : i[j] = WORK_PER_JOB
    BY DEF IInv, Progress
  <1>2. Stored = Job \X (1..WORK_PER_JOB)
    <2>1. \A j \in Job : \A n \in 1..WORK_PER_JOB : <<j, n>> \in Stored
      BY <1>1, DispatchAssumption DEF Stored
    <2> QED
      BY <2>1 DEF Stored
  <1> QED
    BY <1>2, AllIncrements DEF IInv, NoLostIncrement

\* A step that counts nothing, or one more, or reports everything.
LEMMA StepCountsAsSerial == IInv /\ [Next]_vars => [Serial!Next]_Serial!vars
  <1> SUFFICES ASSUME IInv, [Next]_vars PROVE [Serial!Next]_Serial!vars
    OBVIOUS
  <1>1. CASE Report
    <2>1. ~reported /\ reported' = TRUE /\ counter' = counter
          /\ \A j \in Job : pc[j] = "done"
      BY <1>1 DEF Report
    <2>2. counter = Serial!Total
      BY <2>1, DoneIsTotal DEF Serial!Total
    <2> QED
      BY <2>1, <2>2 DEF Serial!Next, Serial!Report
  <1>2. ASSUME NEW j \in Job, Store(j) PROVE [Serial!Next]_Serial!vars
    <2>1. counter' = counter + 1 /\ reported' = reported
      BY <1>2 DEF IInv, LoadIsFresh, Store
    <2>2. ~reported
      BY <1>2 DEF IInv, Progress, Store
    <2>3. counter < Serial!Total
      BY <1>2, StoreStores, OneMoreStored DEF IInv, NoLostIncrement, Serial!Total
    <2> QED
      BY <2>1, <2>2, <2>3 DEF Serial!Next, Serial!Increment
  <1>3. CASE Submit
    BY <1>3 DEF Submit, Serial!vars
  <1>4. ASSUME NEW j \in Job, Start(j) \/ Wait(j) \/ Load(j) \/ Signal(j) \/ Finish(j)
        PROVE  [Serial!Next]_Serial!vars
    BY <1>4 DEF Start, Wait, Load, Signal, Finish, Serial!vars
  <1>5. CASE UNCHANGED vars
    BY <1>5 DEF vars, Serial!vars
  <1> QED
    BY <1>1, <1>2, <1>3, <1>4, <1>5 DEF Next, main, increment

\* For every number of jobs and workers, the program behaves like the serial
\* one: every step is an increment by one, the report of the full count, or
\* invisible to the counter (the safety part of the serial program).
THEOREM CountsAsSerial == Spec => Serial!Safety
  <1>1. Init => Serial!Init
    BY DEF Init, Serial!Init
  <1> QED
    BY <1>1, StepCountsAsSerial, Invariance, PTL DEF Spec, Safety, Serial!Safety

-----------------------------------------------------------------------------
(* Both versions                                                             *)

\* main() has come as far as the threads it has joined are done; a thread in its
\* loop's body has an iteration left.
Joins ==
    /\ \A j \in 1..joined : tpc[j] = "done"
    /\ state \in {"printed", "freed"} => joined = JOBS
    /\ \A j \in Job : tpc[j] \in {"load", "store", "unlock"} => ti[j] < WORK_PER_JOB

\* A thread's counter is its loop index, but for the increment of the iteration it is
\* in; nobody else writes to it between the thread's load and its store.
Counts ==
    /\ \A j \in Job : tpc[j] = "store" => tloaded[j] = counters[j]
    /\ \A j \in Job : counters[j] = IF tpc[j] = "unlock" THEN ti[j] + 1 ELSE ti[j]
    /\ \A j \in Job : tpc[j] = "done" => ti[j] = WORK_PER_JOB
    /\ \A j \in Job : j > created => tpc[j] = "new"

\* The inductive invariant: the one of each version, the other one being at its
\* initial state.
VersionsInv ==
    /\ version \in {"libdispatch", "pthreads"}
    /\ IInv
    /\ Threads!TypeOK
    /\ Joins
    /\ Counts

LEMMA InitVersionsInv == VersionsInit => VersionsInv
  <1> SUFFICES ASSUME VersionsInit PROVE VersionsInv
    OBVIOUS
  <1>1. version \in {"libdispatch", "pthreads"} /\ IInv
    BY InitIInv DEF VersionsInit
  <1>2. Threads!Init
    BY DEF VersionsInit
  <1>3. Threads!TypeOK
    BY <1>2, DispatchAssumption DEF Threads!Init, Threads!TypeOK, Threads!Job, Threads!Nobody
  <1>4. Joins
    BY <1>2, DispatchAssumption DEF Threads!Init, Joins, Job, Threads!Job
  <1>5. Counts
    BY <1>2, DispatchAssumption DEF Threads!Init, Counts, Job, Threads!Job
  <1> QED
    BY <1>1, <1>3, <1>4, <1>5 DEF VersionsInv

\* A step of libdispatch.c is one of DispatchCounter.
LEMMA DispatchedKeeps == VersionsInv /\ Dispatched(Next) => VersionsInv'
  <1> SUFFICES ASSUME VersionsInv, Dispatched(Next) PROVE VersionsInv'
    OBVIOUS
  <1>1. Next /\ UNCHANGED <<version, threadVars>>
    BY DEF Dispatched
  <1>2. IInv'
    BY <1>1, MainIInv, JobIInv DEF Next, VersionsInv
  <1>3. Threads!TypeOK' /\ Joins' /\ Counts' /\ version' \in {"libdispatch", "pthreads"}
    BY <1>1 DEF VersionsInv, threadVars, Threads!TypeOK, Joins, Counts
  <1> QED
    BY <1>2, <1>3 DEF VersionsInv

\* main() of pthreads.c, with or without a failing pthread_create.
LEMMA ThreadsMainKeeps ==
    ASSUME Threads!TypeOK, Joins, Threads!main \/ Threads!CreateFails
    PROVE  Threads!TypeOK' /\ Joins'
  <1> USE DispatchAssumption DEF Threads!Job, Job, Threads!Nobody
  <1>1. CASE Threads!Create
    <2>1. created < JOBS /\ created' = created + 1
          /\ tpc' = [tpc EXCEPT ![created + 1] = "lock"]
          /\ UNCHANGED <<joined, state, ti, tloaded, mutex, counters>>
      BY <1>1 DEF Threads!Create
    <2>2. joined < created' /\ created + 1 \in 1..JOBS
      BY <2>1 DEF Threads!TypeOK
    <2>3. Threads!TypeOK'
      BY <2>1, <2>2 DEF Threads!TypeOK
    <2>4. Joins'
      BY <2>1, <2>2 DEF Threads!TypeOK, Joins
    <2> QED
      BY <2>3, <2>4
  <1>2. CASE Threads!CreateFails
    BY <1>2 DEF Threads!CreateFails, Threads!threads, Threads!TypeOK, Joins
  <1>3. CASE Threads!Join
    <2>1. created = JOBS /\ joined < JOBS /\ tpc[joined + 1] = "done" /\ joined' = joined + 1
          /\ state = "running" /\ UNCHANGED <<created, state, tpc, ti, tloaded, mutex, counters>>
      BY <1>3 DEF Threads!Join, Threads!Joinable, Threads!threads
    <2>2. Threads!TypeOK'
      BY SMTT(30), <2>1 DEF Threads!TypeOK
    <2>3. Joins'
      BY <2>1 DEF Threads!TypeOK, Joins
    <2> QED
      BY <2>2, <2>3
  <1>4. CASE Threads!Report
    BY <1>4 DEF Threads!Report, Threads!threads, Threads!TypeOK, Joins
  <1>5. CASE Threads!Free
    BY <1>5 DEF Threads!Free, Threads!threads, Threads!TypeOK, Joins
  <1> QED
    BY <1>1, <1>2, <1>3, <1>4, <1>5 DEF Threads!main

\* A thread of pthreads.c: once it is done it stays done.
LEMMA ThreadKeeps ==
    ASSUME Threads!TypeOK, Joins, NEW j \in Job, Threads!increment(j)
    PROVE  Threads!TypeOK' /\ Joins'
  <1> USE DispatchAssumption DEF Threads!Job, Job, Threads!Nobody
  <1>1. UNCHANGED <<created, joined, state>> /\ tpc[j] # "done"
    BY DEF Threads!increment, Threads!main_, Threads!Lock, Threads!Load, Threads!Store,
           Threads!Unlock, Threads!Finish
  <1>2. CASE Threads!Lock(j)
    <2>1. ti[j] < WORK_PER_JOB /\ mutex' = j /\ tpc' = [tpc EXCEPT ![j] = "load"]
          /\ UNCHANGED <<ti, tloaded, counters>>
      BY <1>2 DEF Threads!Lock, Threads!More
    <2>2. Threads!TypeOK'
      BY <1>1, <2>1 DEF Threads!TypeOK
    <2>3. Joins'
      BY <1>1, <2>1 DEF Threads!TypeOK, Joins
    <2> QED
      BY <2>2, <2>3
  <1>3. CASE Threads!Load(j)
    <2>1. tpc[j] = "load" /\ tpc' = [tpc EXCEPT ![j] = "store"]
          /\ tloaded' = [tloaded EXCEPT ![j] = counters[j]]
          /\ UNCHANGED <<ti, mutex, counters>>
      BY <1>3 DEF Threads!Load
    <2>2. Threads!TypeOK'
      BY <1>1, <2>1 DEF Threads!TypeOK
    <2>3. Joins'
      BY <1>1, <2>1 DEF Threads!TypeOK, Joins
    <2> QED
      BY <2>2, <2>3
  <1>4. CASE Threads!Store(j)
    <2>1. tpc[j] = "store" /\ tpc' = [tpc EXCEPT ![j] = "unlock"]
          /\ counters' = [counters EXCEPT ![j] = tloaded[j] + 1]
          /\ UNCHANGED <<ti, tloaded, mutex>>
      BY <1>4 DEF Threads!Store
    <2>2. Threads!TypeOK'
      <3>1. tloaded[j] + 1 \in Nat
        BY DEF Threads!TypeOK
      <3>2. counters' \in [Job -> Nat] /\ tpc' \in [Job -> {"new", "lock", "load", "store", "unlock", "done"}]
        BY <2>1, <3>1 DEF Threads!TypeOK
      <3> QED
        BY <1>1, <2>1, <3>2 DEF Threads!TypeOK
    <2>3. Joins'
      BY <1>1, <2>1 DEF Threads!TypeOK, Joins
    <2> QED
      BY <2>2, <2>3
  <1>5. CASE Threads!Unlock(j)
    <2>1. tpc[j] = "unlock" /\ tpc' = [tpc EXCEPT ![j] = "lock"]
          /\ mutex' = 0 /\ ti' = [ti EXCEPT ![j] = @ + 1]
          /\ UNCHANGED <<tloaded, counters>>
      BY <1>5 DEF Threads!Unlock, Threads!Nobody
    <2>2. ti[j] + 1 \in 0..WORK_PER_JOB
      BY <2>1 DEF Threads!TypeOK, Joins
    <2>3. Threads!TypeOK'
      BY <1>1, <2>1, <2>2 DEF Threads!TypeOK, Threads!Nobody
    <2>4. Joins'
      BY <1>1, <2>1 DEF Threads!TypeOK, Joins
    <2> QED
      BY <2>3, <2>4
  <1>6. CASE Threads!Finish(j)
    <2>1. tpc' = [tpc EXCEPT ![j] = "done"] /\ UNCHANGED <<ti, tloaded, mutex, counters>>
      BY <1>6 DEF Threads!Finish
    <2>2. Threads!TypeOK'
      BY <1>1, <2>1 DEF Threads!TypeOK
    <2>3. Joins'
      BY <1>1, <2>1 DEF Threads!TypeOK, Joins
    <2> QED
      BY <2>2, <2>3
  <1> QED
    BY <1>2, <1>3, <1>4, <1>5, <1>6 DEF Threads!increment

\* main() starts a thread at its first iteration and writes to no counter.
LEMMA ThreadsMainCounts ==
    ASSUME Threads!TypeOK, Counts, Threads!main \/ Threads!CreateFails
    PROVE  Counts'
  <1> USE DispatchAssumption DEF Threads!Job, Job
  <1>1. CASE Threads!Create
    <2>1. created < JOBS /\ created' = created + 1
          /\ tpc' = [tpc EXCEPT ![created + 1] = "lock"]
          /\ UNCHANGED <<ti, tloaded, counters>>
      BY <1>1 DEF Threads!Create
    <2>2. tpc[created + 1] = "new" /\ created \in Nat
      BY <2>1 DEF Threads!TypeOK, Counts
    <2> QED
      BY <2>1, <2>2 DEF Threads!TypeOK, Counts
  <1>2. CASE Threads!CreateFails \/ Threads!Join \/ Threads!Report \/ Threads!Free
    <2>1. UNCHANGED <<created, tpc, ti, tloaded, counters>>
      BY <1>2 DEF Threads!CreateFails, Threads!Join, Threads!Report, Threads!Free, Threads!threads
    <2> QED
      BY <2>1 DEF Counts
  <1> QED
    BY <1>1, <1>2 DEF Threads!main

\* A thread's load, store and unlock count one increment.
LEMMA ThreadCounts ==
    ASSUME Threads!TypeOK, Joins, Counts, NEW j \in Job, Threads!increment(j)
    PROVE  Counts'
  <1> USE DispatchAssumption DEF Threads!Job, Job, Threads!TypeOK
  <1>1. created' = created /\ tpc[j] # "new"
    BY DEF Threads!increment, Threads!main_, Threads!Lock, Threads!Load, Threads!Store,
           Threads!Unlock, Threads!Finish
  <1>2. CASE Threads!Lock(j)
    <2>1. tpc[j] = "lock" /\ tpc' = [tpc EXCEPT ![j] = "load"] /\ UNCHANGED <<ti, tloaded, counters>>
      BY <1>2 DEF Threads!Lock
    <2> QED
      BY <1>1, <2>1 DEF Counts
  <1>3. CASE Threads!Load(j)
    <2>1. tpc[j] = "load" /\ tpc' = [tpc EXCEPT ![j] = "store"]
          /\ tloaded' = [tloaded EXCEPT ![j] = counters[j]] /\ UNCHANGED <<ti, counters>>
      BY <1>3 DEF Threads!Load
    <2> QED
      BY <1>1, <2>1 DEF Counts
  <1>4. CASE Threads!Store(j)
    <2>1. tpc[j] = "store" /\ tpc' = [tpc EXCEPT ![j] = "unlock"]
          /\ counters' = [counters EXCEPT ![j] = tloaded[j] + 1] /\ UNCHANGED <<ti, tloaded>>
      BY <1>4 DEF Threads!Store
    <2>2. tloaded[j] = counters[j] /\ counters[j] = ti[j]
      BY <2>1 DEF Counts
    <2> QED
      BY <1>1, <2>1, <2>2 DEF Counts
  <1>5. CASE Threads!Unlock(j)
    <2>1. tpc[j] = "unlock" /\ tpc' = [tpc EXCEPT ![j] = "lock"]
          /\ ti' = [ti EXCEPT ![j] = @ + 1] /\ UNCHANGED <<tloaded, counters>>
      BY <1>5 DEF Threads!Unlock
    <2> QED
      BY <1>1, <2>1 DEF Counts
  <1>6. CASE Threads!Finish(j)
    <2>1. tpc[j] = "lock" /\ ~ (ti[j] < WORK_PER_JOB)
          /\ tpc' = [tpc EXCEPT ![j] = "done"] /\ UNCHANGED <<ti, tloaded, counters>>
      BY <1>6 DEF Threads!Finish, Threads!More
    <2>2. ti[j] = WORK_PER_JOB
      BY <2>1
    <2> QED
      BY <1>1, <2>1, <2>2 DEF Counts
  <1> QED
    BY <1>2, <1>3, <1>4, <1>5, <1>6 DEF Threads!increment

\* A step of pthreads.c leaves DispatchCounter alone.
LEMMA ThreadedKeeps == VersionsInv /\ Threaded(Threads!Next) => VersionsInv'
  <1> SUFFICES ASSUME VersionsInv, Threaded(Threads!Next) PROVE VersionsInv'
    OBVIOUS
  <1>1. Threads!Next /\ UNCHANGED <<version, vars>>
    BY DEF Threaded
  <1>2. IInv'
    BY <1>1, StutterIInv DEF VersionsInv
  <1>3. Threads!TypeOK' /\ Joins' /\ Counts'
    BY <1>1, ThreadsMainKeeps, ThreadKeeps, ThreadsMainCounts, ThreadCounts DEF VersionsInv, Threads!Next, Threads!Job, Job
  <1> QED
    BY <1>1, <1>2, <1>3 DEF VersionsInv

\* Whichever version is run, its invariant holds of every reachable state.
THEOREM VersionsInvariance == VersionsSpec => []VersionsInv
  <1>1. VersionsInv /\ UNCHANGED allVars => VersionsInv'
    <2> SUFFICES ASSUME VersionsInv, UNCHANGED allVars PROVE VersionsInv'
      OBVIOUS
    <2>1. UNCHANGED <<version, vars, threadVars>>
      BY DEF allVars
    <2>2. IInv'
      BY <2>1, StutterIInv DEF VersionsInv
    <2> QED
      BY <2>1, <2>2 DEF VersionsInv, threadVars, Threads!TypeOK, Joins, Counts
  <1>2. VersionsInv /\ [VersionsNext]_allVars => VersionsInv'
    BY <1>1, DispatchedKeeps, ThreadedKeeps DEF VersionsNext
  <1> QED
    BY InitVersionsInv, <1>2, PTL DEF VersionsSpec

\* Every variable of either version keeps to its type.
THEOREM TypesCorrect == VersionsSpec => []TypesOK
  <1>1. VersionsInv => TypesOK
    BY DEF VersionsInv, IInv, TypesOK
  <1> QED
    BY VersionsInvariance, <1>1, PTL

\* pthreads.c frees the counters when every thread has ended, whatever their
\* number: the joins of lines 61-63 come first.
THEOREM NoUseAfterFreeHolds == VersionsSpec => []NoUseAfterFree
  <1>1. VersionsInv => NoUseAfterFree
    <2> SUFFICES ASSUME VersionsInv, state = "freed", NEW j \in Job PROVE tpc[j] = "done"
      BY DEF NoUseAfterFree, Threads!NoUseAfterFree, Threads!Job, Job
    <2> QED
      BY DEF VersionsInv, Joins, Job
  <1> QED
    BY VersionsInvariance, <1>1, PTL

\* At most one job of libdispatch.c is between wait and signal, in whichever version.
THEOREM VersionsExclude == VersionsSpec => []MutualExclusion
  <1>1. VersionsInv => MutualExclusion
    BY DEF VersionsInv, IInv
  <1> QED
    BY VersionsInvariance, <1>1, PTL

-----------------------------------------------------------------------------
(* The refinement                                                            *)

LEMMA SumIsCardinality == Threads!Sum = Cardinality(Threads!Counted)
  <1>1. \A S : Threads!Cardinality(S) = Cardinality(S)
    BY DEF Threads!Cardinality, Cardinality
  <1> QED
    BY <1>1 DEF Threads!Sum

\* What the threads have counted: never more than there is to count.
LEMMA CountedIsFinite ==
    ASSUME VersionsInv
    PROVE  /\ Threads!Counted \subseteq Job \X (1..WORK_PER_JOB)
           /\ IsFiniteSet(Threads!Counted)
           /\ Threads!Sum \in Nat
  <1>1. ASSUME NEW j \in Job PROVE counters[j] \in Nat /\ counters[j] <= WORK_PER_JOB
    <2>1. /\ counters[j] \in Nat /\ ti[j] \in 0..WORK_PER_JOB
          /\ tpc[j] = "unlock" => ti[j] < WORK_PER_JOB
          /\ counters[j] = IF tpc[j] = "unlock" THEN ti[j] + 1 ELSE ti[j]
      BY DEF VersionsInv, Threads!TypeOK, Threads!Job, Job, Joins, Counts
    <2> QED
      BY <2>1, DispatchAssumption
  <1>2. ASSUME NEW p \in Threads!Counted PROVE p \in Job \X (1..WORK_PER_JOB)
    <2>1. PICK j \in Job : p \in {j} \X (1..counters[j])
      BY DEF Threads!Counted, Threads!Job, Job
    <2>2. PICK n \in 1..counters[j] : p = <<j, n>>
      BY <2>1
    <2>3. n \in 1..WORK_PER_JOB
      BY <1>1, DispatchAssumption
    <2> QED
      BY <2>2, <2>3
  <1>3. Threads!Counted \subseteq Job \X (1..WORK_PER_JOB)
    BY <1>2
  <1>4. IsFiniteSet(Threads!Counted)
    BY <1>3, AllIncrements, FS_Subset
  <1>5. Threads!Sum \in Nat
    BY <1>4, SumIsCardinality, FS_CardinalityType
  <1> QED
    BY <1>3, <1>4, <1>5

Bounded ==
    /\ Threads!Counted \subseteq Job \X (1..WORK_PER_JOB)
    /\ Threads!Sum = Cardinality(Threads!Counted)

LEMMA CountedIsBounded == VersionsInv => Bounded
  BY CountedIsFinite, SumIsCardinality DEF Bounded

\* A store adds the increment its thread is at, and no other.
LEMMA ThreadStoreCounts ==
    ASSUME VersionsInv, VersionsInv', NEW j \in Job, Threads!Store(j)
    PROVE  Threads!Sum' = Threads!Sum + 1 /\ Threads!Sum < JOBS * WORK_PER_JOB
  <1> DEFINE added == <<j, counters[j] + 1>>
  <1>1. /\ tpc[j] = "store" /\ counters' = [counters EXCEPT ![j] = counters[j] + 1]
        /\ counters \in [Job -> Nat] /\ counters[j] \in Nat
    BY DEF Threads!Store, VersionsInv, Counts, Threads!TypeOK, Threads!Job, Job
  <1>2. \A k \in Job : counters'[k] = IF k = j THEN counters[j] + 1 ELSE counters[k]
    BY <1>1
  <1>3. \A k \in Job : \A n \in Nat : <<k, n>> \in Threads!Counted <=> n \in 1..counters[k]
    BY DEF Threads!Counted, Threads!Job, Job
  <1>4. \A k \in Job : \A n \in Nat : <<k, n>> \in Threads!Counted' <=> n \in 1..counters'[k]
    BY DEF Threads!Counted, Threads!Job, Job
  <1>5. /\ Threads!Counted \subseteq Job \X (1..WORK_PER_JOB)
        /\ IsFiniteSet(Threads!Counted) /\ Threads!Sum \in Nat
    BY CountedIsFinite
  <1>6. Threads!Counted' \subseteq Job \X (1..WORK_PER_JOB)
    <2>1. Bounded'
      BY CountedIsBounded, PTL
    <2> QED
      BY <2>1 DEF Bounded
  <1>7. added \notin Threads!Counted
    BY <1>1, <1>3
  <1>8. Threads!Counted' = Threads!Counted \cup {added}
    <2>1. ASSUME NEW k \in Job, NEW n \in Nat
          PROVE  <<k, n>> \in Threads!Counted' <=> <<k, n>> \in Threads!Counted \/ <<k, n>> = added
      <3>1. n \in 1..counters'[k] <=> n \in 1..counters[k] \/ (k = j /\ n = counters[j] + 1)
        <4>1. counters[k] \in Nat
          BY <1>1
        <4> QED
          BY <1>1, <1>2, <4>1
      <3> QED
        BY <1>3, <1>4, <3>1
    <2>2. added \in Job \X Nat
      BY <1>1
    <2>3. Threads!Counted \subseteq Job \X Nat /\ Threads!Counted' \subseteq Job \X Nat
      BY <1>5, <1>6, DispatchAssumption
    <2> HIDE DEF added
    <2> QED
      BY <2>1, <2>2, <2>3
  <1> HIDE DEF added
  <1>9. Cardinality(Threads!Counted \cup {added}) = Cardinality(Threads!Counted) + 1
    BY <1>5, <1>7, FS_AddElement
  <1>10. Cardinality(Threads!Counted \cup {added}) <= JOBS * WORK_PER_JOB
    <2>1. Threads!Counted \cup {added} \subseteq Job \X (1..WORK_PER_JOB)
      BY <1>6, <1>8
    <2> QED
      BY <2>1, AllIncrements, FS_Subset
  <1>11. Threads!Sum = Cardinality(Threads!Counted) /\ Threads!Sum' = Cardinality(Threads!Counted')
    <2>1. Bounded /\ Bounded'
      BY CountedIsBounded, PTL
    <2> QED
      BY <2>1 DEF Bounded
  <1>12. JOBS * WORK_PER_JOB \in Nat
    BY DispatchAssumption
  <1> QED
    BY <1>5, <1>8, <1>9, <1>10, <1>11, <1>12

\* When every thread is done, everything there is to count has been counted.
LEMMA ThreadsDoneIsTotal ==
    ASSUME VersionsInv, \A j \in Job : tpc[j] = "done"
    PROVE  Threads!Sum = JOBS * WORK_PER_JOB
  <1>1. \A j \in Job : counters[j] = WORK_PER_JOB
    BY DEF VersionsInv, Counts
  <1>2. Job \X (1..WORK_PER_JOB) \subseteq Threads!Counted
    <2> SUFFICES ASSUME NEW j \in Job, NEW n \in 1..WORK_PER_JOB PROVE <<j, n>> \in Threads!Counted
      OBVIOUS
    <2> QED
      BY <1>1 DEF Threads!Counted, Threads!Job, Job
  <1>3. Threads!Counted = Job \X (1..WORK_PER_JOB)
    BY <1>2, CountedIsFinite
  <1> QED
    BY <1>3, AllIncrements, SumIsCardinality

\* What main() of pthreads.c has reported is reported.
threadsReported == state \in {"printed", "freed"}

\* A step of pthreads.c counts nothing, or one more, or reports everything.
LEMMA ThreadedCountsAsSerial ==
    ASSUME VersionsInv, VersionsInv', Threads!Next
    PROVE  \/ Threads!Sum' = Threads!Sum /\ threadsReported' = threadsReported
           \/ /\ ~threadsReported /\ ~threadsReported'
              /\ Threads!Sum < JOBS * WORK_PER_JOB
              /\ Threads!Sum' = Threads!Sum + 1
           \/ /\ ~threadsReported /\ threadsReported'
              /\ Threads!Sum = JOBS * WORK_PER_JOB
              /\ Threads!Sum' = Threads!Sum
  <1>1. ASSUME UNCHANGED counters PROVE Threads!Sum' = Threads!Sum
    BY <1>1 DEF Threads!Sum, Threads!Counted
  <1>2. ASSUME state \in {"printed", "freed"} PROVE \A j \in Job : tpc[j] = "done"
    BY <1>2 DEF VersionsInv, Joins, Job
  <1>3. CASE Threads!Create \/ Threads!Join
    BY <1>1, <1>3 DEF Threads!Create, Threads!Join, Threads!threads, threadsReported
  <1>4. CASE Threads!CreateFails \/ Threads!Free
    BY <1>1, <1>4 DEF Threads!CreateFails, Threads!Free, Threads!threads, threadsReported
  <1>5. CASE Threads!Report
    <2>1. state = "running" /\ state' = "printed" /\ joined = JOBS /\ UNCHANGED counters
      BY <1>5 DEF Threads!Report, Threads!threads
    <2>2. \A j \in Job : tpc[j] = "done"
      BY <2>1 DEF VersionsInv, Joins, Job
    <2> QED
      BY <1>1, <2>1, <2>2, ThreadsDoneIsTotal DEF threadsReported
  <1>6. ASSUME NEW j \in Job, Threads!Store(j), UNCHANGED state
        PROVE  /\ ~threadsReported /\ ~threadsReported'
               /\ Threads!Sum < JOBS * WORK_PER_JOB
               /\ Threads!Sum' = Threads!Sum + 1
    <2>1. tpc[j] = "store"
      BY <1>6 DEF Threads!Store
    <2>2. ~threadsReported /\ ~threadsReported'
      BY <1>2, <1>6, <2>1 DEF threadsReported
    <2> QED
      BY <1>6, <2>2, ThreadStoreCounts
  <1>7. ASSUME NEW j \in Job, Threads!Lock(j) \/ Threads!Load(j) \/ Threads!Unlock(j) \/ Threads!Finish(j),
               UNCHANGED state
        PROVE  Threads!Sum' = Threads!Sum /\ threadsReported' = threadsReported
    BY <1>1, <1>7 DEF Threads!Lock, Threads!Load, Threads!Unlock, Threads!Finish, threadsReported
  <1>8. ASSUME NEW j \in Job, Threads!increment(j)
        PROVE  UNCHANGED state /\ (Threads!Lock(j) \/ Threads!Load(j) \/ Threads!Store(j)
                                   \/ Threads!Unlock(j) \/ Threads!Finish(j))
    BY <1>8 DEF Threads!increment, Threads!main_
  <1> QED
    BY <1>3, <1>4, <1>5, <1>6, <1>7, <1>8 DEF Threads!Next, Threads!main, Threads!Job, Job

\* Whichever version is run, and for any number of jobs, increments and workers:
\* every step counts one more, reports the full count, or is invisible to the
\* serial program (the safety part of ImplementSerial).
THEOREM VersionsCountAsSerial == VersionsSpec => ImplementSerial
  <1> DEFINE sum == IF version = "libdispatch" THEN counter ELSE Threads!Sum
             rep == IF version = "libdispatch" THEN reported ELSE state \in {"printed", "freed"}
  <1>1. VersionsInit => Built!Init
    <2> SUFFICES ASSUME VersionsInit PROVE Built!Init
      OBVIOUS
    <2>1. counter = 0 /\ reported = FALSE /\ state = "running" /\ \A j \in Job : counters[j] = 0
      BY DEF VersionsInit, Init, Threads!Init, Threads!Job, Job
    <2>2. Threads!Counted = {}
      BY <2>1 DEF Threads!Counted, Threads!Job, Job
    <2>3. Threads!Sum = 0
      BY <2>2, FS_EmptySet, SumIsCardinality
    <2> QED
      BY <2>1, <2>3 DEF Built!Init
  <1>2. VersionsInv /\ VersionsInv' /\ [VersionsNext]_allVars => [Built!Next]_Built!vars
    <2> SUFFICES ASSUME VersionsInv, VersionsInv', [VersionsNext]_allVars
                 PROVE  [Built!Next]_Built!vars
      OBVIOUS
    <2>1. CASE Dispatched(Next)
      <3>1. version = "libdispatch" /\ version' = "libdispatch"
        BY <2>1 DEF Dispatched
      <3>2. [Serial!Next]_Serial!vars
        BY <2>1, StepCountsAsSerial DEF Dispatched, VersionsInv
      <3> QED
        BY <3>1, <3>2 DEF Serial!Next, Serial!Increment, Serial!Report, Serial!Total, Serial!vars,
           Built!Next, Built!Increment, Built!Report, Built!Total, Built!vars
    <2>2. CASE Threaded(Threads!Next)
      <3>1. version = "pthreads" /\ version' = "pthreads" /\ Threads!Next
        BY <2>2 DEF Threaded
      <3> QED
        BY <3>1, ThreadedCountsAsSerial DEF threadsReported,
           Built!Next, Built!Increment, Built!Report, Built!Total, Built!vars
    <2>3. CASE UNCHANGED allVars
      <3>1. UNCHANGED <<version, counter, reported, state, counters>>
        BY <2>3 DEF allVars, vars, threadVars
      <3> QED
        BY <3>1 DEF Built!vars, Threads!Sum, Threads!Counted
    <2> QED
      BY <2>1, <2>2, <2>3 DEF VersionsNext
  <1> QED
    BY <1>1, <1>2, VersionsInvariance, PTL DEF VersionsSpec, ImplementSerial, Built!Safety
=============================================================================
