--------------------------- MODULE PthreadCounter ---------------------------
(***************************************************************************)
(* labs/lab2/pthreads.c: main() starts JOBS threads, each with a counter   *)
(* of its own that it increments WORK_PER_JOB times, all of them under one *)
(* mutex; main joins the threads in order, prints and frees the counters.  *)
(***************************************************************************)
EXTENDS Integers, FiniteSets

CONSTANTS JOBS,          \* number of threads
          WORK_PER_JOB   \* increments of each

Job == 1..JOBS
Nobody == 0

VARIABLES created,       \* threads main() has started
          joined,        \* threads main() has joined
          state,         \* "running", "printed", "freed" or, after err(), "exited"
          pc, i,         \* each thread's next step and loop index
          loaded,        \* what a thread's load of *countp saw
          mutex,         \* its holder
          counters

main_ == <<created, joined, state>>
threads == <<pc, i, loaded, mutex, counters>>
vars == <<main_, threads>>

TypeOK ==
    /\ created \in 0..JOBS /\ joined \in 0..created
    /\ state \in {"running", "printed", "freed", "exited"}
    /\ pc \in [Job -> {"new", "lock", "load", "store", "unlock", "done"}]
    /\ i \in [Job -> 0..WORK_PER_JOB]
    /\ loaded \in [Job -> Nat] /\ counters \in [Job -> Nat]
    /\ mutex \in Job \cup {Nobody}

Init ==
    /\ created = 0 /\ joined = 0 /\ state = "running"
    /\ pc = [j \in Job |-> "new"] /\ i = [j \in Job |-> 0]
    /\ loaded = [j \in Job |-> 0] /\ mutex = Nobody
    /\ counters = [j \in Job |-> 0]

-----------------------------------------------------------------------------
Create ==
    /\ state = "running" /\ created < JOBS
    /\ created' = created + 1
    /\ pc' = [pc EXCEPT ![created'] = "lock"]
    /\ UNCHANGED <<joined, state, i, loaded, mutex, counters>>

\* pthread_create fails: err() ends the process, and every thread with it.
CreateFails ==
    /\ state = "running" /\ created < JOBS
    /\ state' = "exited"
    /\ UNCHANGED <<created, joined, threads>>

\* A bug: the thread is waited for by number only.
JoinableOnceCreated(j) == j <= created

Joinable(j) == pc[j] = "done"

Join ==
    /\ state = "running" /\ created = JOBS /\ joined < JOBS
    /\ Joinable(joined + 1)
    /\ joined' = joined + 1
    /\ UNCHANGED <<created, state, threads>>

Report ==
    /\ state = "running" /\ joined = JOBS
    /\ state' = "printed"
    /\ UNCHANGED <<created, joined, threads>>

Free ==
    /\ state = "printed"
    /\ state' = "freed"
    /\ UNCHANGED <<created, joined, threads>>

main == Create \/ Join \/ Report \/ Free

-----------------------------------------------------------------------------
\* A bug: the loop runs once too often.
MoreAndOne(j) == i[j] <= WORK_PER_JOB

\* The test of the loop.
More(j) == i[j] < WORK_PER_JOB

Lock(j) ==
    /\ pc[j] = "lock" /\ More(j)
    /\ mutex = Nobody
    /\ mutex' = j
    /\ pc' = [pc EXCEPT ![j] = "load"]
    /\ UNCHANGED <<i, loaded, counters>>

Load(j) ==
    /\ pc[j] = "load"
    /\ loaded' = [loaded EXCEPT ![j] = counters[j]]
    /\ pc' = [pc EXCEPT ![j] = "store"]
    /\ UNCHANGED <<i, mutex, counters>>

Store(j) ==
    /\ pc[j] = "store"
    /\ counters' = [counters EXCEPT ![j] = loaded[j] + 1]
    /\ pc' = [pc EXCEPT ![j] = "unlock"]
    /\ UNCHANGED <<i, loaded, mutex>>

\* A bug: the mutex is kept when the last increment is done.
UnlockUnlessLast(j) ==
    /\ pc[j] = "unlock"
    /\ mutex' = IF i[j] + 1 < WORK_PER_JOB THEN Nobody ELSE mutex
    /\ i' = [i EXCEPT ![j] = @ + 1]
    /\ pc' = [pc EXCEPT ![j] = "lock"]
    /\ UNCHANGED <<loaded, counters>>

Unlock(j) ==
    /\ pc[j] = "unlock"
    /\ mutex' = Nobody
    /\ i' = [i EXCEPT ![j] = @ + 1]
    /\ pc' = [pc EXCEPT ![j] = "lock"]
    /\ UNCHANGED <<loaded, counters>>

Finish(j) ==
    /\ pc[j] = "lock" /\ ~More(j)
    /\ pc' = [pc EXCEPT ![j] = "done"]
    /\ UNCHANGED <<i, loaded, mutex, counters>>

increment(j) ==
    /\ state # "exited"
    /\ Lock(j) \/ Load(j) \/ Store(j) \/ Unlock(j) \/ Finish(j)
    /\ UNCHANGED main_

Next == main \/ CreateFails \/ \E j \in Job : increment(j)

Fairness == WF_vars(main) /\ \A j \in Job : WF_vars(increment(j))

Spec == Init /\ [][Next]_vars /\ Fairness

-----------------------------------------------------------------------------
\* A counter is freed when no thread can touch it any more (lines 61-82).
NoUseAfterFree == state = "freed" => \A j \in Job : pc[j] = "done"

\* What the threads have counted together, with one element for each increment
\* that a counter holds; the product that line 73 prints, without looking at the
\* counters, must be its last value.
Counted == UNION {{j} \X (1..counters[j]) : j \in Job}
Sum == Cardinality(Counted)
=============================================================================
