-------------------------- MODULE CounterVersions --------------------------
(***************************************************************************)
(* labs/lab2/Makefile builds one program in several versions.  The two     *)
(* concurrent ones, DispatchCounter and PthreadCounter, are checked side   *)
(* by side against the serial one: a behaviour is a run of one of them,    *)
(* chosen at the start, and the variables of the other keep their initial  *)
(* values.                                                                 *)
(***************************************************************************)
EXTENDS DispatchCounter

VARIABLES version,       \* the version that is run
          created, joined, state,                \* of PthreadCounter
          tpc, ti, tloaded, mutex, counters      \* and its threads

Threads == INSTANCE PthreadCounter WITH pc <- tpc, i <- ti, loaded <- tloaded

threadVars == <<created, joined, state, tpc, ti, tloaded, mutex, counters>>
allVars == <<version, vars, threadVars>>

VersionsInit ==
    /\ version \in {"libdispatch", "pthreads"}
    /\ Init
    /\ Threads!Init

Dispatched(A) == version = "libdispatch" /\ A /\ UNCHANGED <<version, threadVars>>
Threaded(A) == version = "pthreads" /\ A /\ UNCHANGED <<version, vars>>

VersionsNext == Dispatched(Next) \/ Threaded(Threads!Next)

VersionsFairness ==
    /\ WF_allVars(Dispatched(main))
    /\ WF_allVars(Threaded(Threads!main))
    /\ \A j \in Job : /\ WF_allVars(Dispatched(increment(j)))
                      /\ WF_allVars(Threaded(Threads!increment(j)))

VersionsSpec == VersionsInit /\ [][VersionsNext]_allVars /\ VersionsFairness

-----------------------------------------------------------------------------
\* The types of both versions.
TypesOK ==
    /\ version \in {"libdispatch", "pthreads"}
    /\ TypeOK
    /\ Threads!TypeOK

\* pthreads.c frees a counter when no thread can touch it any more (lines
\* 61-82: after the joins).
NoUseAfterFree == Threads!NoUseAfterFree

\* Whichever version is run counts as the serial program does, one by one and
\* to JOBS * WORK_PER_JOB, and reports after the last increment; pthreads.c
\* reports a product (line 73), without looking at the counters.
Built == INSTANCE SerialCounter WITH
    counter <- IF version = "libdispatch" THEN counter ELSE Threads!Sum,
    reported <- IF version = "libdispatch" THEN reported
                                           ELSE state \in {"printed", "freed"}
ImplementSerial == Built!Safety

\* Both versions end: no job stays blocked on the semaphore and no thread on
\* the mutex, even with fewer workers than jobs; pthreads.c also ends when
\* pthread_create fails.
VersionsTerminate == <>(reported \/ state \in {"freed", "exited"})
=============================================================================
