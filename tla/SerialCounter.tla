--------------------------- MODULE SerialCounter ---------------------------
(***************************************************************************)
(* labs/lab2/serial.c: JOBS calls of increment(), each of which adds one   *)
(* to the counter WORK_PER_JOB times, then one report of the result.  It   *)
(* is also the abstract specification of the concurrent versions of the    *)
(* same program, DispatchCounter and PthreadCounter: whatever the          *)
(* schedule, they count as the serial program counts.                      *)
(***************************************************************************)
EXTENDS Integers

CONSTANTS JOBS,          \* number of jobs, -D JOBS in the Makefile
          WORK_PER_JOB   \* increments of one job, -D WORK_PER_JOB

VARIABLES counter,       \* the counter of main()
          reported       \* has main() printed its result?

vars == <<counter, reported>>

Total == JOBS * WORK_PER_JOB

Init == counter = 0 /\ reported = FALSE

\* One (*countp)++ of the two nested loops (main's and increment's).
Increment ==
    /\ ~reported
    /\ counter < Total
    /\ counter' = counter + 1
    /\ UNCHANGED reported

\* Both loops have ended: main prints what was counted.
Report ==
    /\ ~reported
    /\ counter = Total
    /\ reported' = TRUE
    /\ UNCHANGED counter

Next == Increment \/ Report

Safety == Init /\ [][Next]_vars
Spec == Safety /\ WF_vars(Next)
=============================================================================
