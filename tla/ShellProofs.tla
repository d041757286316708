---------------------------- MODULE ShellProofs ----------------------------
(***************************************************************************)
(* Theorems about Shell, for any set of pids and any number of lines and   *)
(* keys: whom its signals reach, and which children it leaves behind.      *)
(***************************************************************************)
EXTENDS Shell, TLAPS

\* The command the prompt is kept back for is a child that has not been waited
\* for, so that its pid cannot be given to another process.
ForegroundIsChild ==
    /\ pc = "assign" => new \in Pids /\ kind[new] = "child"
    /\ pc = "wait" => child_pid \in Pids /\ kind[child_pid] = "child"

\* The pid of a child is in use; between line 118 and exec its own copy of
\* child_pid names nobody.
ProcessInv ==
    \A p \in Pids : /\ kind[p] = "child" => st[p] # "free"
                    /\ st[p] = "cleared" => memo[p] = 0

IInv == TypeOK /\ ForegroundIsChild /\ ProcessInv /\ OnlySuspendedLeftBehind

-----------------------------------------------------------------------------
LEMMA InitIInv == Init => IInv
  <1> SUFFICES ASSUME Init PROVE IInv
    OBVIOUS
  <1>1. TypeOK
    BY ShellAssumption DEF Init, TypeOK
  <1>2. ForegroundIsChild /\ ProcessInv /\ OnlySuspendedLeftBehind
    BY DEF Init, ForegroundIsChild, ProcessInv, OnlySuspendedLeftBehind
  <1> QED
    BY <1>1, <1>2 DEF IInv

LEMMA SentType ==
    ASSUME TypeOK, NEW ps, NEW sig \in Signals
    PROVE  Sent(ps, sig) \in [Pids -> SUBSET Signals]
  BY DEF Sent, TypeOK

\* A step that only moves pending signals.
LEMMA SignalIInv ==
    ASSUME IInv, UNCHANGED <<shell, procs, conts>>, keys' \in 0..MaxKeys,
           signals' \subseteq Signals, pending' \in [Pids -> SUBSET Signals]
    PROVE  IInv'
  <1> USE DEF IInv, shell, procs
  <1>1. TypeOK'
    BY DEF TypeOK
  <1>2. ForegroundIsChild' /\ ProcessInv'
    BY DEF ForegroundIsChild, ProcessInv
  <1>3. OnlySuspendedLeftBehind'
    BY DEF OnlySuspendedLeftBehind, Foreground
  <1> QED
    BY <1>1, <1>2, <1>3

LEMMA HandlersIInv ==
    ASSUME IInv, NEW sig \in Signals,
           \/ Handle(sig) \/ Key(sig)
           \/ \E p \in Pids : ChildHandles(p, sig)
    PROVE  IInv'
  <1>1. TypeOK
    BY DEF IInv
  <1>2. CASE Handle(sig)
    <2>1. signals' \subseteq Signals /\ keys' \in 0..MaxKeys
      BY <1>1, <1>2 DEF Handle, TypeOK, world
    <2>2. pending' \in [Pids -> SUBSET Signals]
      BY <1>1, <1>2, SentType DEF Handle
    <2> QED
      BY <1>2, <2>1, <2>2, SignalIInv DEF Handle, world
  <1>3. CASE Key(sig)
    <2>1. signals' \subseteq Signals /\ keys' \in 0..MaxKeys
      BY <1>1, <1>3, ShellAssumption DEF Key, TypeOK
    <2>2. pending' \in [Pids -> SUBSET Signals]
      BY <1>1, <1>3, SentType DEF Key
    <2> QED
      BY <1>3, <2>1, <2>2, SignalIInv DEF Key
  <1>4. ASSUME NEW p \in Pids, ChildHandles(p, sig) PROVE IInv'
    <2>1. signals' \subseteq Signals /\ keys' \in 0..MaxKeys
      BY <1>1, <1>4 DEF ChildHandles, TypeOK, world
    <2>2. Sent(Receivers(memo[p]), sig) \in [Pids -> SUBSET Signals]
      BY <1>1, SentType
    <2>3. pending' \in [Pids -> SUBSET Signals]
      BY <1>4, <2>2 DEF ChildHandles
    <2> QED
      BY <1>4, <2>1, <2>3, SignalIInv DEF ChildHandles, world
  <1> QED
    BY <1>2, <1>3, <1>4

-----------------------------------------------------------------------------
(* The shell's own steps.                                                    *)

LEMMA MainIInv == ASSUME IInv, Line \/ ForkFails \/ Assign PROVE IInv'
  <1> USE ShellAssumption DEF IInv, procs, world
  <1>1. CASE Line
    <2>1. TypeOK'
      BY <1>1 DEF Line, Blank, Command, Remember, TypeOK
    <2>2. /\ pc = "read" /\ pc' \notin {"assign", "wait"}
          /\ UNCHANGED <<kind, st, memo, abandoned>>
      BY <1>1 DEF Line, Blank, Command
    <2> QED
      BY <2>1, <2>2 DEF ForegroundIsChild, ProcessInv, OnlySuspendedLeftBehind, Foreground
  <1>2. CASE ForkFails
    <2>1. TypeOK'
      BY <1>2 DEF ForkFails, TypeOK
    <2>2. pc = "fork" /\ pc' = "read" /\ UNCHANGED <<kind, st, memo, abandoned>>
      BY <1>2 DEF ForkFails
    <2> QED
      BY <2>1, <2>2 DEF ForegroundIsChild, ProcessInv, OnlySuspendedLeftBehind, Foreground
  <1>3. CASE Assign
    <2>1. new \in Pids /\ kind[new] = "child"
      BY <1>3 DEF Assign, ForegroundIsChild
    <2>2. TypeOK'
      BY <1>3, <2>1 DEF Assign, TypeOK
    <2>3. /\ pc = "assign" /\ pc' = "wait" /\ child_pid' = new
          /\ UNCHANGED <<kind, st, memo, abandoned>>
      BY <1>3 DEF Assign
    <2> QED
      BY <2>1, <2>2, <2>3 DEF ForegroundIsChild, ProcessInv, OnlySuspendedLeftBehind, Foreground
  <1> QED
    BY <1>1, <1>2, <1>3

LEMMA ForkIInv == ASSUME IInv, NEW p \in Pids, Fork(p) PROVE IInv'
  <1> USE DEF IInv
  <1>1. TypeOK'
    BY DEF Fork, TypeOK, Unexeced, world
  <1>2. /\ pc = "fork" /\ pc' = "assign" /\ new' = p
        /\ kind' = [kind EXCEPT ![p] = "child"]
        /\ st' = [st EXCEPT ![p] = "forked"]
        /\ UNCHANGED abandoned
        /\ \A q \in Pids \ {p} : memo'[q] = memo[q]
    BY DEF Fork, TypeOK
  <1>3. ForegroundIsChild'
    BY <1>2 DEF ForegroundIsChild, TypeOK
  <1>4. ProcessInv'
    BY <1>2 DEF ProcessInv, TypeOK
  <1>5. OnlySuspendedLeftBehind'
    BY <1>2 DEF OnlySuspendedLeftBehind, Foreground, TypeOK
  <1> QED
    BY <1>1, <1>3, <1>4, <1>5

\* waitpid frees a pid or has seen the child stopped; in both cases the loop
\* ends, and the prompt comes back.
LEMMA WaitIInv == ASSUME IInv, NEW p \in Pids, Wait(p) PROVE IInv'
  <1> USE DEF IInv
  <1>1. pc = "wait" /\ p = child_pid /\ pc' = "read"
    BY DEF Wait, Awaited, Reports, Ends, Zombie
  <1>2. CASE st[p] \in Zombie
    <2>1. /\ st' = [st EXCEPT ![p] = "free"] /\ kind' = [kind EXCEPT ![p] = "none"]
          /\ abandoned' = [abandoned EXCEPT ![p] = FALSE]
          /\ UNCHANGED <<memo, told>>
      BY <1>2 DEF Wait
    <2>2. TypeOK'
      BY <1>1, <2>1 DEF Wait, TypeOK, world
    <2>3. ProcessInv'
      BY <2>1 DEF ProcessInv, TypeOK
    <2>4. OnlySuspendedLeftBehind'
      BY <1>1, <2>1 DEF OnlySuspendedLeftBehind, Foreground, TypeOK
    <2> QED
      BY <1>1, <2>2, <2>3, <2>4 DEF ForegroundIsChild
  <1>3. CASE st[p] \notin Zombie
    <2>1. /\ told' = [told EXCEPT ![p] = TRUE]
          /\ abandoned' = [abandoned EXCEPT ![p] = TRUE]
          /\ UNCHANGED <<st, kind, memo>>
      BY <1>3 DEF Wait
    <2>2. TypeOK'
      BY <1>1, <2>1 DEF Wait, TypeOK, world
    <2>3. ProcessInv'
      BY <2>1 DEF ProcessInv
    <2>4. OnlySuspendedLeftBehind'
      BY <1>1, <2>1 DEF OnlySuspendedLeftBehind, Foreground, TypeOK
    <2> QED
      BY <1>1, <2>2, <2>3, <2>4 DEF ForegroundIsChild
  <1> QED
    BY <1>2, <1>3

-----------------------------------------------------------------------------
(* The processes' steps.  None makes a child, and only that of a stranger      *)
(* frees a pid.                                                                *)

LEMMA StepOfProcess ==
    ASSUME IInv, NEW p \in Pids, UNCHANGED <<shell, abandoned>>, TypeOK',
           NEW state, NEW who,
           st' = [st EXCEPT ![p] = state], kind' = [kind EXCEPT ![p] = who],
           who = "child" <=> kind[p] = "child", who = "child" => state # "free",
           memo' = IF state = "cleared" THEN [memo EXCEPT ![p] = 0] ELSE memo
    PROVE  IInv'
  <1> USE DEF IInv, shell
  <1>1. ForegroundIsChild'
    BY DEF ForegroundIsChild, TypeOK
  <1>2. ProcessInv'
    BY DEF ProcessInv, TypeOK
  <1>3. OnlySuspendedLeftBehind'
    BY DEF OnlySuspendedLeftBehind, Foreground, TypeOK
  <1> QED
    BY <1>1, <1>2, <1>3

LEMMA ClearExecIInv == ASSUME IInv, NEW p \in Pids, Clear(p) \/ Exec(p) PROVE IInv'
  <1> USE DEF IInv
  <1>1. CASE Clear(p)
    <2>1. TypeOK'
      BY <1>1 DEF Clear, TypeOK, Unexeced, shell, world
    <2>2. kind' = [kind EXCEPT ![p] = kind[p]]
      BY <1>1 DEF Clear, TypeOK
    <2> QED
      BY <1>1, <2>1, <2>2, StepOfProcess DEF Clear
  <1>2. CASE Exec(p)
    <2>1. PICK state \in {"running", "exited"} : Becomes(p, state)
      BY <1>2 DEF Exec
    <2>2. pending' \in [Pids -> SUBSET Signals]
      BY <1>2 DEF Exec, TypeOK
    <2>3. TypeOK'
      BY <2>1, <2>2 DEF Becomes, TypeOK, Zombie, shell, world
    <2>4. kind' = [kind EXCEPT ![p] = kind[p]]
      BY <2>1 DEF Becomes, TypeOK
    <2> QED
      BY <2>1, <2>3, <2>4, StepOfProcess DEF Becomes
  <1> QED
    BY <1>1, <1>2

LEMMA EndIInv ==
    ASSUME IInv, NEW p \in Pids, NEW how \in Zombie, End(p, how), st[p] = "running"
    PROVE  IInv'
  <1> USE DEF IInv
  <1>1. pending' \in [Pids -> SUBSET Signals]
    BY DEF End, TypeOK
  <1>2. CASE kind[p] = "child"
    <2>1. st' = [st EXCEPT ![p] = how] /\ kind' = [kind EXCEPT ![p] = kind[p]]
      BY <1>2 DEF End, TypeOK
    <2>2. TypeOK'
      BY <1>1, <2>1 DEF End, TypeOK, shell, world
    <2> QED
      BY <1>2, <2>1, <2>2, StepOfProcess DEF End, Zombie
  <1>3. CASE kind[p] # "child"
    <2>1. st' = [st EXCEPT ![p] = "free"] /\ kind' = [kind EXCEPT ![p] = "none"]
      BY <1>3 DEF End
    <2>2. TypeOK'
      BY <1>1, <2>1 DEF End, TypeOK, shell, world
    <2> QED
      BY <1>3, <2>1, <2>2, StepOfProcess DEF End
  <1> QED
    BY <1>2, <1>3

LEMMA OtherProcessIInv ==
    ASSUME IInv, NEW p \in Pids,
           Exit(p) \/ Continue(p) \/ Born(p) \/ \E sig \in Signals : Deliver(p, sig)
    PROVE  IInv'
  <1> USE DEF IInv
  <1>1. CASE Exit(p)
    BY <1>1, EndIInv DEF Exit, Zombie
  <1>2. CASE Continue(p)
    <2>1. kind' = [kind EXCEPT ![p] = kind[p]]
      BY <1>2 DEF Continue, TypeOK
    <2>2. pending' \in [Pids -> SUBSET Signals]
      BY <1>2 DEF Continue, TypeOK
    <2>3. conts' \in 0..MaxConts
      BY <1>2, ShellAssumption DEF Continue, TypeOK
    <2>4. TypeOK'
      BY <1>2, <2>2, <2>3 DEF Continue, TypeOK, shell
    <2> QED
      BY <1>2, <2>1, <2>4, StepOfProcess DEF Continue
  <1>3. CASE Born(p)
    <2>1. TypeOK'
      BY <1>3 DEF Born, TypeOK, shell, world
    <2>2. kind[p] # "child"
      BY <1>3 DEF Born, ProcessInv
    <2> QED
      BY <1>3, <2>1, <2>2, StepOfProcess DEF Born
  <1>4. ASSUME NEW sig \in Signals, Deliver(p, sig) PROVE IInv'
    <2>1. CASE sig = "INT"
      BY <1>4, <2>1, EndIInv DEF Deliver, Zombie
    <2>2. CASE sig # "INT"
      <3>1. kind' = [kind EXCEPT ![p] = kind[p]]
        BY <1>4, <2>2 DEF Deliver, TypeOK
      <3>2. pending' \in [Pids -> SUBSET Signals]
        BY <1>4, <2>2 DEF Deliver, TypeOK
      <3>3. TypeOK'
        BY <1>4, <2>2, <3>2 DEF Deliver, TypeOK, shell, world
      <3> QED
        BY <1>4, <2>2, <3>1, <3>3, StepOfProcess DEF Deliver
    <2> QED
      BY <2>1, <2>2
  <1> QED
    BY <1>1, <1>2, <1>3, <1>4

-----------------------------------------------------------------------------
LEMMA StepIInv == IInv /\ [Next]_vars => IInv'
  <1> SUFFICES ASSUME IInv, [Next]_vars PROVE IInv'
    OBVIOUS
  <1>1. CASE UNCHANGED vars
    <2>1. TypeOK'
      BY <1>1 DEF IInv, TypeOK, vars, shell, procs, world
    <2>2. ForegroundIsChild' /\ ProcessInv' /\ OnlySuspendedLeftBehind'
      BY <1>1 DEF IInv, ForegroundIsChild, ProcessInv, OnlySuspendedLeftBehind, Foreground,
                  vars, shell, procs
    <2> QED
      BY <2>1, <2>2 DEF IInv
  <1>2. CASE main
    BY <1>2, MainIInv, ForkIInv, WaitIInv DEF main
  <1>3. CASE \E sig \in Signals : Handle(sig) \/ Key(sig)
    BY <1>3, HandlersIInv
  <1>4. CASE \E p \in Pids : process(p)
    <2> PICK p \in Pids : process(p)
      BY <1>4
    <2>1. CASE \E sig \in Signals : ChildHandles(p, sig)
      BY <2>1, HandlersIInv
    <2> QED
      BY <2>1, ClearExecIInv, OtherProcessIInv DEF process
  <1> QED
    BY <1>1, <1>2, <1>3, <1>4 DEF Next

\* The invariant holds of every reachable state.
THEOREM Invariance == Spec => []IInv
  BY InitIInv, StepIInv, PTL DEF Spec

\* The state of the shell and its children keeps to its types.
THEOREM TypeCorrect == Spec => []TypeOK
  <1>1. IInv => TypeOK
    BY DEF IInv
  <1> QED
    BY Invariance, <1>1, PTL

\* However many commands are suspended and continued, the shell is at its
\* prompt only with commands behind it that it has seen stopped (lines 131-136).
THEOREM OnlySuspendedLeftBehindHolds == Spec => []OnlySuspendedLeftBehind
  <1>1. IInv => OnlySuspendedLeftBehind
    BY DEF IInv
  <1> QED
    BY Invariance, <1>1, PTL

-----------------------------------------------------------------------------
(* Whom a signal reaches.                                                    *)

\* What StrangersSafeWhileWaiting says of a step.
StrayOnlyIfStale ==
    \A p \in Pids :
        kind[p] = "stranger" /\ pending'[p] \ pending[p] # {}
          => \/ child_pid = p /\ pc # "wait"
             \/ \E c \in Pids : st[c] = "forked" /\ memo[c] = p

LEMMA SentOnly ==
    ASSUME NEW ps, NEW sig, NEW p \in Pids, p \notin ps
    PROVE  Sent(ps, sig)[p] = pending[p]
  BY DEF Sent

\* A step that sends nothing.
LEMMA QuietStep ==
    ASSUME \A p \in Pids : pending'[p] \subseteq pending[p] PROVE StrayOnlyIfStale
  BY DEF StrayOnlyIfStale

LEMMA HandleStray == ASSUME IInv, NEW sig \in Signals, Handle(sig) PROVE StrayOnlyIfStale
  <1> SUFFICES ASSUME NEW p \in Pids, kind[p] = "stranger", pending'[p] # pending[p]
               PROVE  child_pid = p /\ pc # "wait"
    BY DEF StrayOnlyIfStale
  <1>1. pending' = Sent(Receivers(child_pid), sig)
    BY DEF Handle
  <1>2. p \in Receivers(child_pid)
    BY <1>1, SentOnly
  <1>3. child_pid = p
    BY <1>2 DEF Receivers
  <1> QED
    BY <1>3 DEF IInv, ForegroundIsChild

LEMMA ChildHandlesStray ==
    ASSUME IInv, NEW c \in Pids, NEW sig \in Signals, ChildHandles(c, sig)
    PROVE  StrayOnlyIfStale
  <1> SUFFICES ASSUME NEW p \in Pids, kind[p] = "stranger", pending'[p] \ pending[p] # {}
               PROVE  st[c] = "forked" /\ memo[c] = p
    BY DEF StrayOnlyIfStale
  <1>1. pending' = [Sent(Receivers(memo[c]), sig) EXCEPT ![c] = @ \ {sig}]
    BY DEF ChildHandles
  <1>2. p \in Receivers(memo[c])
    <2> SUFFICES ASSUME p \notin Receivers(memo[c]) PROVE FALSE
      OBVIOUS
    <2>1. Sent(Receivers(memo[c]), sig)[p] = pending[p]
      BY SentOnly
    <2>2. pending'[p] \subseteq pending[p]
      BY <1>1, <2>1 DEF Sent
    <2> QED
      BY <2>2
  <1>3. memo[c] = p /\ memo[c] > 0
    BY <1>2 DEF Receivers
  <1>4. st[c] # "cleared"
    BY <1>3 DEF IInv, ProcessInv
  <1> QED
    BY <1>3, <1>4 DEF ChildHandles, Unexeced

LEMMA KeyStray == ASSUME NEW sig \in Signals, Key(sig) PROVE StrayOnlyIfStale
  <1> DEFINE group == {p \in Pids : Alive(p) /\ kind[p] = "child"}
  <1>1. pending' = Sent(group, sig)
    BY DEF Key
  <1>2. ASSUME NEW p \in Pids, kind[p] = "stranger" PROVE pending'[p] = pending[p]
    BY <1>1, <1>2, SentOnly
  <1> QED
    BY <1>2 DEF StrayOnlyIfStale

LEMMA ProcessQuiet ==
    ASSUME IInv, NEW p \in Pids,
           \/ Clear(p) \/ Exec(p) \/ Exit(p) \/ Continue(p) \/ Born(p)
           \/ \E sig \in Signals : Deliver(p, sig)
    PROVE  StrayOnlyIfStale
  <1>0. pending \in [Pids -> SUBSET Signals]
    BY DEF IInv, TypeOK
  <1>1. \/ pending' = pending
        \/ pending' = [pending EXCEPT ![p] = {}]
        \/ \E sig : pending' = [pending EXCEPT ![p] = @ \ {sig}]
    BY DEF Clear, Exec, Exit, Continue, Born, Deliver, End, Becomes
  <1>2. \A q \in Pids : pending'[q] \subseteq pending[q]
    BY <1>0, <1>1
  <1> QED
    BY <1>2, QuietStep

\* While the shell waits for a command, no key makes it signal a process that
\* is not its own, for any number of processes that come and go; where it can
\* happen, a stale child_pid names the process (lines 64-75 and 118).
THEOREM StrangersSafeHolds == Spec => StrangersSafeWhileWaiting
  <1>1. IInv /\ [Next]_vars => [StrayOnlyIfStale]_vars
    <2> SUFFICES ASSUME IInv, Next PROVE StrayOnlyIfStale
      OBVIOUS
    <2>1. CASE main
      <3>1. pending' = pending
        BY <2>1 DEF main, Line, ForkFails, Assign, Fork, Wait
      <3> QED
        BY <3>1, QuietStep
    <2>2. CASE \E sig \in Signals : Handle(sig) \/ Key(sig)
      BY <2>2, HandleStray, KeyStray
    <2>3. CASE \E p \in Pids : process(p)
      <3> PICK p \in Pids : process(p)
        BY <2>3
      <3>1. CASE \E sig \in Signals : ChildHandles(p, sig)
        BY <3>1, ChildHandlesStray
      <3> QED
        BY <3>1, ProcessQuiet DEF process
    <2> QED
      BY <2>1, <2>2, <2>3 DEF Next
  <1>2. [StrayOnlyIfStale]_vars =>
          [\A p \in Pids :
             kind[p] = "stranger" /\ pending'[p] \ pending[p] # {}
               => \/ child_pid = p /\ pc # "wait"
                  \/ \E c \in Pids : st[c] = "forked" /\ memo[c] = p]_vars
    BY DEF StrayOnlyIfStale
  <1> QED
    BY Invariance, <1>1, <1>2, PTL DEF Spec, StrangersSafeWhileWaiting
=============================================================================
