-------------------------- MODULE DispatchCounter --------------------------
(***************************************************************************)
(* labs/lab2/libdispatch.c: main() submits JOBS jobs to a global dispatch  *)
(* queue as one group; every job adds one to the same counter WORK_PER_JOB *)
(* times, each time inside a counting semaphore created with value 1; main *)
(* waits for the group and prints the result.  The increment is split into *)
(* its load and its store, so that the semaphore has something to protect. *)
(***************************************************************************)
EXTENDS Integers, FiniteSets

CONSTANTS JOBS,          \* number of jobs
          WORK_PER_JOB,  \* increments per job
          WORKERS        \* threads the queue runs jobs on (libdispatch)

ASSUME DispatchAssumption ==
    /\ JOBS \in Nat
    /\ WORK_PER_JOB \in Nat
    /\ WORKERS \in Nat \ {0}

Job == 1..JOBS

VARIABLES submitted,     \* jobs handed to dispatch_group_async_f so far
          reported,      \* has main() returned from the wait and printed?
          pc,            \* where each job is
          i,             \* loop index of each job
          loaded,        \* the value a job's load of *countp saw
          semaphore,     \* value of the dispatch semaphore
          counter        \* main()'s counter, shared by every job

vars == <<submitted, reported, pc, i, loaded, semaphore, counter>>

Running(j) == pc[j] \in {"loop", "load", "store", "signal"}

TypeOK ==
    /\ submitted \in 0..JOBS
    /\ reported \in BOOLEAN
    /\ pc \in [Job -> {"new", "queued", "loop", "load", "store", "signal", "done"}]
    /\ i \in [Job -> 0..WORK_PER_JOB]
    /\ loaded \in [Job -> Nat]
    /\ semaphore \in 0..1
    /\ counter \in Nat

\* A bug: as many jobs may be inside as there are.
InitialValueJobs == JOBS

\* dispatch_semaphore_create(1)
InitialValue == 1

Init ==
    /\ submitted = 0
    /\ reported = FALSE
    /\ pc = [j \in Job |-> "new"]
    /\ i = [j \in Job |-> 0]
    /\ loaded = [j \in Job |-> 0]
    /\ semaphore = InitialValue
    /\ counter = 0

-----------------------------------------------------------------------------
\* main(): the submission loop.
Submit ==
    /\ submitted < JOBS
    /\ submitted' = submitted + 1
    /\ pc' = [pc EXCEPT ![submitted'] = "queued"]
    /\ UNCHANGED <<reported, i, loaded, semaphore, counter>>

\* main(): the group is waited for after every job is in it; the wait returns
\* when the group is empty, and the result is printed.
Report ==
    /\ ~reported
    /\ submitted = JOBS
    /\ \A j \in Job : pc[j] = "done"
    /\ reported' = TRUE
    /\ UNCHANGED <<submitted, pc, i, loaded, semaphore, counter>>

-----------------------------------------------------------------------------
\* The queue gives a waiting job one of its worker threads.
Start(j) ==
    /\ pc[j] = "queued"
    /\ Cardinality({k \in Job : Running(k)}) < WORKERS
    /\ pc' = [pc EXCEPT ![j] = "loop"]
    /\ UNCHANGED <<submitted, reported, i, loaded, semaphore, counter>>

\* A bug: the loop runs once too often.
MoreAndOne(j) == i[j] <= WORK_PER_JOB

\* The test of the loop.
More(j) == i[j] < WORK_PER_JOB

\* dispatch_semaphore_wait: the loop runs once more.
Wait(j) ==
    /\ pc[j] = "loop"
    /\ More(j)
    /\ semaphore > 0
    /\ semaphore' = semaphore - 1
    /\ pc' = [pc EXCEPT ![j] = "load"]
    /\ UNCHANGED <<submitted, reported, i, loaded, counter>>

\* (*countp)++, its read half.
Load(j) ==
    /\ pc[j] = "load"
    /\ loaded' = [loaded EXCEPT ![j] = counter]
    /\ pc' = [pc EXCEPT ![j] = "store"]
    /\ UNCHANGED <<submitted, reported, i, semaphore, counter>>

\* (*countp)++, its write half.
Store(j) ==
    /\ pc[j] = "store"
    /\ counter' = loaded[j] + 1
    /\ pc' = [pc EXCEPT ![j] = "signal"]
    /\ UNCHANGED <<submitted, reported, i, loaded, semaphore>>

\* A bug: the last iteration leaves the loop before the signal.
SignalUnlessLast(j) ==
    /\ pc[j] = "signal"
    /\ semaphore' = IF i[j] + 1 < WORK_PER_JOB THEN semaphore + 1 ELSE semaphore
    /\ i' = [i EXCEPT ![j] = @ + 1]
    /\ pc' = [pc EXCEPT ![j] = "loop"]
    /\ UNCHANGED <<submitted, reported, loaded, counter>>

\* dispatch_semaphore_signal, and the loop's i++.
Signal(j) ==
    /\ pc[j] = "signal"
    /\ semaphore' = semaphore + 1
    /\ i' = [i EXCEPT ![j] = @ + 1]
    /\ pc' = [pc EXCEPT ![j] = "loop"]
    /\ UNCHANGED <<submitted, reported, loaded, counter>>

\* The loop is over and increment() returns: the job leaves the group.
Finish(j) ==
    /\ pc[j] = "loop"
    /\ ~More(j)
    /\ pc' = [pc EXCEPT ![j] = "done"]
    /\ UNCHANGED <<submitted, reported, i, loaded, semaphore, counter>>

increment(j) ==
    Start(j) \/ Wait(j) \/ Load(j) \/ Store(j) \/ Signal(j) \/ Finish(j)

main == Submit \/ Report

Next == main \/ \E j \in Job : increment(j)

Fairness == WF_vars(main) /\ \A j \in Job : WF_vars(increment(j))

Safety == Init /\ [][Next]_vars
Spec == Safety /\ Fairness

-----------------------------------------------------------------------------
InCritical(j) == pc[j] \in {"load", "store", "signal"}

\* The semaphore around (*countp)++ admits one job at a time and its value
\* says whether one is inside (libdispatch.c lines 70-72).
MutualExclusion ==
    /\ \A j, k \in Job : InCritical(j) /\ InCritical(k) => j = k
    /\ semaphore = 0 <=> \E j \in Job : InCritical(j)

\* The increments that have been stored: job p[1], iteration p[2].
Stored == {p \in Job \X (1..WORK_PER_JOB) :
             \/ p[2] <= i[p[1]]
             \/ p[2] = i[p[1]] + 1 /\ pc[p[1]] = "signal"}

\* No increment is lost or counted twice, whatever the interleaving of the
\* loads and stores of different jobs: the counter is always the number of
\* increments performed so far.
NoLostIncrement == counter = Cardinality(Stored)

\* A job holds no stale copy of the counter when it stores: what it loaded is
\* still what the counter holds.
LoadIsFresh == \A j \in Job : pc[j] = "store" => loaded[j] = counter

\* Whatever the schedule and the number of workers, the program counts as the
\* serial one does: one by one, to JOBS * WORK_PER_JOB, and the report comes
\* after the last increment (CounterVersions checks it).
Serial == INSTANCE SerialCounter
=============================================================================
