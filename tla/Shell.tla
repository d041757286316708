------------------------------- MODULE Shell -------------------------------
(***************************************************************************)
(* assignments/2/mysh.c: a shell that runs one command at a time, forwards *)
(* Ctrl-C and Ctrl-Z to it, and gives its prompt back when the command has *)
(* ended or was stopped.  Its steps are those between which a signal       *)
(* matters: reading a line, fork, storing the result of fork (line 118, in *)
(* the shell and in the child), exec, and waitpid.                         *)
(*                                                                         *)
(* The kernel is external: pids are given again once a process has been    *)
(* waited for; the terminal sends a key's signal to the whole process      *)
(* group, the shell and every child of it; a child has the shell's         *)
(* handlers until exec, and from then on the default actions; a handler    *)
(* restarts the call it interrupts.                                        *)
(***************************************************************************)
EXTENDS Integers

CONSTANTS Pids,       \* the process numbers of the system
          MaxLines,   \* bound: lines that are typed
          MaxKeys,    \* bound: keys that are pressed
          MaxConts    \* bound: SIGCONTs from elsewhere

ASSUME ShellAssumption ==
    /\ Pids \subseteq Nat \ {0}
    /\ MaxLines \in Nat /\ MaxKeys \in Nat /\ MaxConts \in Nat

Signals == {"INT", "TSTP"}
Zombie == {"exited", "signaled"}
Unexeced == {"forked", "cleared"}

VARIABLES pc,            \* the shell's next step
          numHistory,    \* lines kept in history_commands
          child_pid,     \* the shell's global
          new,           \* what fork has returned, before line 118 stores it
          signals,       \* signals pending for the shell
          kind,          \* who a process is
          st,            \* its state
          memo,          \* child_pid in the memory of a child
          pending,       \* signals pending for it
          told,          \* has waitpid reported its last stop?
          abandoned,     \* has the shell gone back to its prompt without it?
          keys, conts    \* keys pressed, SIGCONTs sent

shell == <<pc, numHistory, child_pid, new>>
procs == <<kind, st, memo, told, abandoned>>
world == <<keys, conts>>
vars == <<shell, signals, procs, pending, world>>

TypeOK ==
    /\ pc \in {"read", "fork", "assign", "wait", "exited", "crashed"}
    /\ numHistory \in 0..MaxLines
    /\ child_pid \in Pids \cup {0, -1} /\ new \in Pids \cup {0}
    /\ signals \subseteq Signals
    /\ kind \in [Pids -> {"none", "child", "stranger"}]
    /\ st \in [Pids -> {"free", "running", "stopped"} \cup Unexeced \cup Zombie]
    /\ memo \in [Pids -> Pids \cup {0, -1}]
    /\ pending \in [Pids -> SUBSET Signals]
    /\ told \in [Pids -> BOOLEAN] /\ abandoned \in [Pids -> BOOLEAN]
    /\ keys \in 0..MaxKeys /\ conts \in 0..MaxConts

Init ==
    /\ pc = "read" /\ numHistory = 0 /\ child_pid = 0 /\ new = 0
    /\ signals = {}
    /\ kind = [p \in Pids |-> "none"] /\ st = [p \in Pids |-> "free"]
    /\ memo = [p \in Pids |-> 0] /\ pending = [p \in Pids |-> {}]
    /\ told = [p \in Pids |-> FALSE] /\ abandoned = [p \in Pids |-> FALSE]
    /\ keys = 0 /\ conts = 0

Alive(p) == st[p] \notin {"free"} \cup Zombie

-----------------------------------------------------------------------------
(* The shell's loop.                                                         *)

\* A line is in history before anything is done with it.
Remember ==
    /\ numHistory < MaxLines
    /\ numHistory' = numHistory + 1

\* A blank line: args is NULL, and is read (line 94) before it is tested (98).
\* The end of the input is the same, getline having written nothing.
Blank == pc' = "crashed" /\ UNCHANGED numHistory

\* exit ends the shell; history comes back to the prompt; any other line, and
\* what an unset buffer may hold at the end of the input, is a command.
Command == Remember /\ pc' \in {"exited", "read", "fork"}

Line ==
    /\ pc = "read"
    /\ Blank \/ Command
    /\ UNCHANGED <<child_pid, new, signals, procs, pending, world>>

Fork(p) ==
    /\ pc = "fork" /\ st[p] = "free"
    /\ pc' = "assign" /\ new' = p
    /\ kind' = [kind EXCEPT ![p] = "child"]
    /\ st' = [st EXCEPT ![p] = "forked"]
    /\ memo' = [memo EXCEPT ![p] = child_pid]
    /\ UNCHANGED <<numHistory, child_pid, signals, pending, told, abandoned, world>>

\* A bug: whatever fork returns is taken for a child.
ForkFailsUnseen ==
    /\ pc = "fork"
    /\ pc' = "assign" /\ new' = -1
    /\ UNCHANGED <<numHistory, child_pid, signals, procs, pending, world>>

\* fork returns -1, which is neither of the two cases.
ForkFails ==
    /\ pc = "fork"
    /\ pc' = "read" /\ child_pid' = -1
    /\ UNCHANGED <<numHistory, new, signals, procs, pending, world>>

Assign ==
    /\ pc = "assign"
    /\ pc' = "wait" /\ child_pid' = new /\ new' = 0
    /\ UNCHANGED <<numHistory, signals, procs, pending, world>>

\* A bug: a child that was killed does not end the loop.
EndsUnlessSignaled(status) == status \in {"exited", "stopped"}

\* The loop's condition, negated.
Ends(status) == status \in {"signaled", "exited", "stopped"}

\* A bug: waitpid is called without WUNTRACED.
ReportsEnds(p) == st[p] \in Zombie

\* What waitpid with WUNTRACED reports.
Reports(p) == st[p] \in Zombie \/ (st[p] = "stopped" /\ ~told[p])

\* A bug: waitpid(-1, ...).
AwaitedAny(p) == kind[p] = "child"

\* waitpid(child_pid, ...).
Awaited(p) == p = child_pid

\* waitpid reaps a child that has ended, whose pid is free from then on.
Wait(p) ==
    /\ pc = "wait" /\ Awaited(p) /\ Reports(p)
    /\ pc' = IF Ends(st[p]) THEN "read" ELSE "wait"
    /\ IF st[p] \in Zombie
       THEN /\ st' = [st EXCEPT ![p] = "free"]
            /\ kind' = [kind EXCEPT ![p] = "none"]
            /\ abandoned' = [abandoned EXCEPT ![p] = FALSE]
            /\ UNCHANGED told
       ELSE /\ told' = [told EXCEPT ![p] = TRUE]
            /\ abandoned' = [abandoned EXCEPT ![p] = TRUE]
            /\ UNCHANGED <<st, kind>>
    /\ UNCHANGED <<numHistory, child_pid, new, signals, memo, pending, world>>

-----------------------------------------------------------------------------
(* Signals.                                                                  *)

\* A bug: the result of a fork that failed is taken for a pid.
ReceiversOfAny(pid) ==
    IF pid = 0 THEN {} ELSE {p \in Pids : Alive(p) /\ pid \in {p, -1}}

\* Whom ctrlCfunc and ctrlZfunc signal when child_pid is pid.
Receivers(pid) == {p \in Pids : Alive(p) /\ pid > 0 /\ p = pid}

\* ps get one more signal, or one that they have already.
Sent(ps, sig) == [p \in Pids |-> IF p \in ps THEN pending[p] \cup {sig} ELSE pending[p]]

\* ctrlCfunc or ctrlZfunc in the shell.
Handle(sig) ==
    /\ sig \in signals /\ pc \notin {"exited", "crashed"}
    /\ signals' = signals \ {sig}
    /\ pending' = Sent(Receivers(child_pid), sig)
    /\ UNCHANGED <<shell, procs, world>>

\* The same in a child before its exec, with the child's copy of child_pid.
ChildHandles(p, sig) ==
    /\ st[p] \in Unexeced /\ sig \in pending[p]
    /\ pending' = [Sent(Receivers(memo[p]), sig) EXCEPT ![p] = @ \ {sig}]
    /\ UNCHANGED <<shell, signals, procs, world>>

\* The terminal's part in Ctrl-C and Ctrl-Z.
Key(sig) ==
    /\ keys < MaxKeys /\ pc \notin {"exited", "crashed"}
    /\ keys' = keys + 1
    /\ signals' = signals \cup {sig}
    /\ pending' = Sent({p \in Pids : Alive(p) /\ kind[p] = "child"}, sig)
    /\ UNCHANGED <<shell, procs, conts>>

-----------------------------------------------------------------------------
(* The children, and processes the shell does not know.                      *)

\* Line 118 in the child.
Clear(p) ==
    /\ st[p] = "forked"
    /\ st' = [st EXCEPT ![p] = "cleared"] /\ memo' = [memo EXCEPT ![p] = 0]
    /\ UNCHANGED <<shell, signals, kind, pending, told, abandoned, world>>

Becomes(p, state) ==
    /\ st' = [st EXCEPT ![p] = state]
    /\ UNCHANGED <<shell, signals, kind, memo, told, abandoned, world>>

\* execvp; when it fails the child exits.
Exec(p) ==
    /\ st[p] = "cleared"
    /\ \/ Becomes(p, "running") /\ UNCHANGED pending
       \/ Becomes(p, "exited") /\ pending' = [pending EXCEPT ![p] = {}]

\* A process ends.  A child stays until it is waited for.
End(p, how) ==
    /\ IF kind[p] = "child"
       THEN st' = [st EXCEPT ![p] = how] /\ UNCHANGED kind
       ELSE /\ st' = [st EXCEPT ![p] = "free"]
            /\ kind' = [kind EXCEPT ![p] = "none"]
    /\ pending' = [pending EXCEPT ![p] = {}]
    /\ UNCHANGED <<shell, signals, memo, told, abandoned, world>>

\* The default action of a signal.
Deliver(p, sig) ==
    /\ st[p] = "running" /\ sig \in pending[p]
    /\ IF sig = "INT"
       THEN End(p, "signaled")
       ELSE /\ st' = [st EXCEPT ![p] = "stopped"]
            /\ told' = [told EXCEPT ![p] = FALSE]
            /\ pending' = [pending EXCEPT ![p] = @ \ {sig}]
            /\ UNCHANGED <<shell, signals, kind, memo, abandoned, world>>

Exit(p) == st[p] = "running" /\ End(p, "exited")

\* Somebody continues a process: a stop that is pending is dropped.
Continue(p) ==
    /\ st[p] \in {"running", "stopped"} /\ conts < MaxConts
    /\ conts' = conts + 1
    /\ st' = [st EXCEPT ![p] = "running"]
    /\ pending' = [pending EXCEPT ![p] = @ \ {"TSTP"}]
    /\ UNCHANGED <<shell, signals, kind, memo, told, abandoned, keys>>

\* Another program of the user is given the pid.
Born(p) ==
    /\ st[p] = "free"
    /\ st' = [st EXCEPT ![p] = "running"]
    /\ kind' = [kind EXCEPT ![p] = "stranger"]
    /\ UNCHANGED <<shell, signals, memo, pending, told, abandoned, world>>

main ==
    \/ Line \/ ForkFails \/ Assign
    \/ \E p \in Pids : Fork(p) \/ Wait(p)

process(p) ==
    \/ Clear(p) \/ Exec(p) \/ Exit(p) \/ Continue(p) \/ Born(p)
    \/ \E sig \in Signals : ChildHandles(p, sig) \/ Deliver(p, sig)

Next ==
    \/ main
    \/ \E sig \in Signals : Handle(sig) \/ Key(sig)
    \/ \E p \in Pids : process(p)

\* The shell runs unless it waits for input, the kernel delivers signals, and
\* a child comes to its exec.  Nobody has to type, press a key, or end.
Fairness ==
    /\ WF_vars(Assign) /\ WF_vars(\E p \in Pids : Wait(p))
    /\ \A sig \in Signals : WF_vars(Handle(sig))
    /\ \A p \in Pids :
         /\ WF_vars(Clear(p)) /\ WF_vars(Exec(p))
         /\ \A sig \in Signals : WF_vars(ChildHandles(p, sig)) /\ WF_vars(Deliver(p, sig))

Spec == Init /\ [][Next]_vars /\ Fairness

-----------------------------------------------------------------------------
\* child_pid is stale from the end of a command to line 118 of the next one,
\* and in the next child until it has come there too: until then a key may
\* signal a process that has been given the old pid (lines 64-75), and never
\* while the shell waits for a command, nor when there is no such pid (a fork
\* that has failed leaves -1, which kill takes for everybody).
StrangersSafeWhileWaiting ==
    [][\A p \in Pids :
         kind[p] = "stranger" /\ pending'[p] \ pending[p] # {}
           => \/ child_pid = p /\ pc # "wait"
              \/ \E c \in Pids : st[c] = "forked" /\ memo[c] = p]_vars

\* The command the prompt is kept back for.
Foreground == IF pc = "assign" THEN {new} ELSE IF pc = "wait" THEN {child_pid} ELSE {}

\* The shell never comes back to its prompt with a command going on behind it
\* that it has not seen suspended, and every zombie it leaves for ever is of a
\* command that it has (lines 131-136).
OnlySuspendedLeftBehind ==
    \A p \in Pids : kind[p] = "child" /\ p \notin Foreground => abandoned[p]

\* sig has reached the command the shell waits for, after its exec.
Reached(sig) ==
    pc = "wait" /\ st[child_pid] = "running" /\ sig \in pending[child_pid]

\* "Cancellation" and "Suspension" (line 4): when Ctrl-C has reached a command
\* the prompt comes back, also when the command is stopped and continued at
\* the same time; when Ctrl-Z has, unless somebody continues it before the
\* shell has been told.
PromptComesBack ==
    /\ Reached("INT") ~> pc # "wait"
    /\ Reached("TSTP") ~> pc # "wait" \/ conts > 0
=============================================================================
