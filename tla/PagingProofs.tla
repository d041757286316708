---------------------------- MODULE PagingProofs ----------------------------
(***************************************************************************)
(* Theorems about Paging: each way in which the program can go wrong has   *)
(* the cause that is known, however long the interface is used.            *)
(***************************************************************************)
EXTENDS Paging, SequenceTheorems, TLAPS

\* Where the GUI thread is says whether there is a window.
Window ==
    /\ upc \in {"none", "start"} => main_window = "NULL" /\ ~quit
    /\ upc \in {"idle", "wait"} => main_window = "shown" /\ ~quit
    /\ upc = "timer" => main_window # "NULL"
    /\ main_window = "destroyed" => quit

\* main() queues one dialog, and then only waits; a queued dialog finds at most
\* one other dialog shown, which a button has opened.
Queue ==
    /\ mpc \in {"init", "create"} => upc = "none"
    /\ mpc \in {"init", "create", "sleep", "show"} =>
         dialog_queue \in {NULL, 0} /\ Len(dialogs) <= 1
    /\ dialog_queue = 1 => mpc \in {"join", "ended"} /\ Len(dialogs) <= 1
    /\ mpc = "ended" => upc = "finished"

\* The inductive invariant.
PInv == TypeOK /\ Window /\ Queue /\ CommandsOneByOne /\ FaultsExplained

\* What showing a dialog does to the others.
LEMMA OneMoreDialog ==
    ASSUME NEW ds \in Seq({"confirm", "text"}), NEW d \in {"confirm", "text"}
    PROVE  Append(ds, d) \in Seq({"confirm", "text"}) /\ Len(Append(ds, d)) = Len(ds) + 1
  OBVIOUS

\* What an answer does to them.
LEMMA OneDialogLess ==
    ASSUME NEW ds \in Seq({"confirm", "text"}), ds # <<>>
    PROVE  LET fewer == SubSeq(ds, 1, Len(ds) - 1)
           IN  fewer \in Seq({"confirm", "text"}) /\ Len(fewer) = Len(ds) - 1
  <1>1. Len(ds) \in Nat \ {0} /\ Len(ds) >= 1
    BY EmptySeq, LenProperties
  <1>2. \A k \in 1..Len(ds) - 1 : ds[k] \in {"confirm", "text"}
    BY <1>1, ElementOfSeq
  <1> DEFINE fewer == SubSeq(ds, 1, Len(ds) - 1)
  <1>3. Len(ds) - 1 \in Int /\ 1 \in Int
    BY <1>1
  <1>4. fewer \in Seq({"confirm", "text"})
        /\ Len(fewer) = IF 1 <= Len(ds) - 1 THEN Len(ds) - 1 - 1 + 1 ELSE 0
    BY <1>2, <1>3, SubSeqProperties
  <1>5. \A n \in Nat \ {0} : (IF 1 <= n - 1 THEN n - 1 - 1 + 1 ELSE 0) = n - 1
    OBVIOUS
  <1>6. Len(fewer) = Len(ds) - 1
    <2> HIDE DEF fewer
    <2> QED
      BY <1>1, <1>4, <1>5, Zenon
  <1> QED
    BY <1>4, <1>6, Zenon

LEMMA InitPInv == Init => PInv
  <1> SUFFICES ASSUME Init PROVE PInv
    OBVIOUS
  <1>1. Len(dialogs) = 0 /\ dialogs \in Seq({"confirm", "text"})
    BY DEF Init
  <1>2. Flags
    BY Zenon DEF Init, Flags
  <1>3. TypeOK
    BY <1>1, <1>2 DEF TypeOK, Init, NULL
  <1>4. Window /\ Queue
    BY <1>1 DEF Window, Queue, Init, NULL
  <1>5. CommandsOneByOne /\ FaultsExplained
    BY DEF CommandsOneByOne, FaultsExplained, Init
  <1> QED
    BY <1>3, <1>4, <1>5 DEF PInv

\* main().
LEMMA MainPInv == PInv /\ fault = "none" /\ main => PInv'
  <1> SUFFICES ASSUME PInv, fault = "none", main PROVE PInv'
    OBVIOUS
  <1> USE DEF PInv, TypeOK, Window, Queue, CommandsOneByOne, FaultsExplained, gui, NULL
  <1>1. UNCHANGED <<ui, main_window, dialogs, quit, command>> /\ shown' \in {shown, TRUE}
    BY DEF main, ui_init, Create, Sleep, Show, ui_show_gtk, ui_show_cmdline, Join
  <1>2. Flags'
    BY <1>1, Zenon DEF Flags
  <1>3. CASE ui_init
    <2>1. mpc = "init" /\ mpc' \in {"exited", "create"} /\ dialog_queue' \in {NULL, 0, dialog_queue}
          /\ UNCHANGED <<upc, fault>>
      BY <1>3 DEF ui_init
    <2> QED
      BY <1>1, <1>2, <2>1
  <1>4. CASE Create
    BY <1>1, <1>2, <1>4 DEF Create
  <1>5. CASE Sleep
    BY <1>1, <1>2, <1>5 DEF Sleep
  <1>6. CASE Show
    <2>1. mpc = "show" /\ mpc' = "join" /\ upc' = upc
      BY <1>6 DEF Show
    <2>2. /\ dialog_queue' \in {NULL, 0, 1} /\ fault' \in {"none", "no queue"}
          /\ fault' = "no queue" => dialog_queue' = NULL
      <3>1. CASE ui_show_gtk
        <4>1. dialog_queue \in {NULL, 0}
          BY <2>1
        <4>2. CASE dialog_queue = NULL
          BY <3>1, <4>2 DEF ui_show_gtk
        <4>3. CASE dialog_queue = 0
          BY <3>1, <4>3 DEF ui_show_gtk
        <4> QED
          BY <4>1, <4>2, <4>3
      <3>2. CASE ui_show_cmdline
        BY <2>1, <3>2 DEF ui_show_cmdline
      <3> QED
        BY <1>6, <3>1, <3>2 DEF Show
    <2> QED
      BY <1>1, <1>2, <2>1, <2>2
  <1>7. CASE Join
    <2>1. mpc = "join" /\ mpc' \in {"join", "ended"} /\ fault' \in {"none", "no thread"}
          /\ (mpc' = "ended" => upc = "finished") /\ UNCHANGED <<dialog_queue, upc>>
      BY <1>7 DEF Join, Joinable
    <2> QED
      BY ZenonT(30), <1>1, <1>2, <2>1
  <1> QED
    BY <1>3, <1>4, <1>5, <1>6, <1>7 DEF main

\* The end of an iteration in which a queued dialog has been shown, or none.
LEMMA TimerPInv ==
    PInv /\ fault = "none" /\ (dialog_queue_check \/ NotDue) => PInv'
  <1> SUFFICES ASSUME PInv, fault = "none", dialog_queue_check \/ NotDue PROVE PInv'
    OBVIOUS
  <1> USE DEF PInv, TypeOK, Window, Queue, CommandsOneByOne, FaultsExplained, gui, NULL
  <1>1. /\ upc = "timer" /\ UNCHANGED <<ui, mpc, main_window, quit, command>>
        /\ shown' \in {shown, TRUE} /\ mpc # "ended"
    BY DEF dialog_queue_check, NotDue
  <1>2. upc' \in {"finished", "idle"} /\ (upc' = "idle" => ~quit)
    BY DEF dialog_queue_check, NotDue, EndOfIteration
  <1>3. Flags'
    BY <1>1, Zenon DEF Flags
  <1>4. CASE UNCHANGED <<dialog_queue, dialogs, fault>>
    BY <1>1, <1>2, <1>3, <1>4
  <1>5. CASE dialog_queue > 0 /\ Taken /\ dialog_show("text")
    <2>1. dialog_queue = 1 /\ dialog_queue' = 0 /\ mpc = "join" /\ Len(dialogs) <= 1
      BY <1>1, <1>5 DEF Taken
    <2>2. Append(dialogs, "text") \in Seq({"confirm", "text"})
          /\ Len(Append(dialogs, "text")) = Len(dialogs) + 1
      BY OneMoreDialog
    <2>3. dialogs' \in Seq({"confirm", "text"}) /\ Len(dialogs') <= 2
      <3>1. dialogs' \in {dialogs, Append(dialogs, "text")}
        BY <1>5 DEF dialog_show
      <3>2. dialogs \in Seq({"confirm", "text"}) /\ Len(dialogs) \in Nat
        OBVIOUS
      <3> HIDE DEF PInv
      <3> QED
        BY <2>1, <2>2, <3>1, <3>2
    <2>4. main_window # "NULL" /\ command = "none"
      BY <1>1
    <2>5. \/ fault' = "none"
          \/ fault' = "freed window" /\ main_window = "destroyed" /\ quit
      BY <1>5, <2>4 DEF dialog_show
    <2>6. TypeOK'
      BY <1>1, <1>2, <1>3, <2>1, <2>3, <2>5
    <2>7. Window' /\ Queue'
      BY <1>1, <1>2, <2>1
    <2>8. CommandsOneByOne' /\ FaultsExplained'
      BY <1>1, <2>1, <2>4, <2>5
    <2> QED
      BY <2>6, <2>7, <2>8
  <1> QED
    BY <1>4, <1>5 DEF dialog_queue_check, NotDue, gui

\* Buttons, which are served when there is no other dialog, and the command.
LEMMA ButtonPInv ==
    PInv /\ fault = "none" /\ (on_click_print \/ on_click_bye \/ get_command_rusage) => PInv'
  <1> SUFFICES ASSUME PInv, fault = "none",
                      on_click_print \/ on_click_bye \/ get_command_rusage
               PROVE  PInv'
    OBVIOUS
  <1> USE DEF PInv, TypeOK, Window, Queue, CommandsOneByOne, FaultsExplained, gui, NULL
  <1>1. /\ upc \in {"idle", "wait"} /\ upc' = "timer" /\ main_window = "shown" /\ dialogs = <<>>
        /\ UNCHANGED <<ui, mpc, dialog_queue, main_window, quit, shown>> /\ command' = "none"
    <2>1. CASE on_click_print \/ on_click_bye
      BY <2>1 DEF on_click_print, on_click_bye, Clickable
    <2>2. CASE get_command_rusage
      BY <2>2 DEF get_command_rusage, Waited
    <2> QED
      BY <2>1, <2>2
  <1>2. Flags'
    BY <1>1, Zenon DEF Flags
  <1>3. PICK d \in {"confirm", "text"} : dialogs' = Append(dialogs, d) /\ fault' = "none"
    BY <1>1 DEF on_click_print, on_click_bye, get_command_rusage, dialog_show
  <1>4. dialogs' \in Seq({"confirm", "text"}) /\ Len(dialogs') = 1
    <2>1. dialogs' = <<d>>
      BY <1>1, <1>3
    <2> QED
      BY <2>1
  <1>5. TypeOK'
    BY <1>1, <1>2, <1>3, <1>4
  <1>6. Window' /\ Queue'
    BY <1>1, <1>4
  <1>7. CommandsOneByOne' /\ FaultsExplained'
    BY <1>1, <1>3
  <1> QED
    BY <1>5, <1>6, <1>7

\* The steps that show nothing.
LEMMA QuietPInv ==
    /\ PInv /\ fault = "none"
    /\ Enter \/ Build \/ NoEvent \/ on_click_run \/ Exec \/ CommandEnds \/ CloseWindow
    => PInv'
  <1> SUFFICES ASSUME PInv, fault = "none",
                      Enter \/ Build \/ NoEvent \/ on_click_run \/ Exec \/ CommandEnds \/ CloseWindow
               PROVE  PInv'
    OBVIOUS
  <1> USE DEF PInv, TypeOK, Window, Queue, CommandsOneByOne, FaultsExplained, gui, NULL
  <1>1. UNCHANGED <<ui, mpc, dialog_queue, dialogs, shown>> /\ quit' \in {quit, TRUE}
    BY DEF Enter, Build, NoEvent, on_click_run, Exec, CommandEnds, CloseWindow
  <1>2. Flags'
    BY <1>1, Zenon DEF Flags
  <1>3. CASE Enter
    BY <1>1, <1>2, <1>3 DEF Enter
  <1>4. CASE Build
    BY <1>1, <1>2, <1>4 DEF Build
  <1>5. CASE NoEvent
    BY <1>1, <1>2, <1>5 DEF NoEvent
  <1>6. CASE on_click_run
    BY <1>1, <1>2, <1>6 DEF on_click_run, Clickable
  <1>7. CASE Exec
    BY <1>1, <1>2, <1>7 DEF Exec
  <1>8. CASE CommandEnds
    BY <1>1, <1>2, <1>8 DEF CommandEnds
  <1>9. CASE CloseWindow
    BY <1>1, <1>2, <1>9 DEF CloseWindow, Clickable
  <1> QED
    BY <1>3, <1>4, <1>5, <1>6, <1>7, <1>8, <1>9

\* An answer takes a dialog away, and may end the program.
LEMMA RespondPInv == PInv /\ fault = "none" /\ Respond => PInv'
  <1> SUFFICES ASSUME PInv, fault = "none", Respond PROVE PInv'
    OBVIOUS
  <1> USE DEF PInv, TypeOK, Window, Queue, CommandsOneByOne, FaultsExplained, NULL
  <1>1. /\ upc = "idle" /\ upc' = "timer" /\ dialogs # <<>>
        /\ dialogs' = SubSeq(dialogs, 1, Len(dialogs) - 1)
        /\ UNCHANGED <<ui, mpc, dialog_queue, main_window, command, shown, fault>>
    BY DEF Respond
  <1>2. quit' \in BOOLEAN
    BY Zenon DEF Respond
  <1>3. Flags'
    BY <1>1, <1>2, Zenon DEF Flags
  <1>4. dialogs' \in Seq({"confirm", "text"}) /\ Len(dialogs') = Len(dialogs) - 1
    BY <1>1, OneDialogLess
  <1>5. command = "none" /\ main_window = "shown"
    BY <1>1
  <1>6. Len(dialogs) \in Nat
    OBVIOUS
  <1>7. TypeOK'
    BY <1>1, <1>3, <1>4, <1>6
  <1>8. Window' /\ Queue'
    BY <1>1, <1>4, <1>5, <1>6
  <1>9. CommandsOneByOne' /\ FaultsExplained'
    BY <1>1, <1>5
  <1> QED
    BY <1>7, <1>8, <1>9

-----------------------------------------------------------------------------
\* The invariant holds of every reachable state.
THEOREM Invariance == Spec => []PInv
  <1>1. PInv /\ Next => PInv'
    BY MainPInv, TimerPInv, ButtonPInv, QuietPInv, RespondPInv DEF Next, ui_run, User
  <1>2. PInv /\ UNCHANGED vars => PInv'
    <2> SUFFICES ASSUME PInv,
                        UNCHANGED <<ui, mpc, dialog_queue, upc, main_window, dialogs>>,
                        UNCHANGED <<quit, command, shown, fault>>
                 PROVE  PInv'
      BY DEF vars, gui
    <2> USE DEF PInv, TypeOK, Window, Queue, CommandsOneByOne, FaultsExplained, NULL
    <2>1. Flags'
      BY Zenon DEF Flags
    <2>2. TypeOK'
      BY <2>1
    <2> QED
      BY <2>1, <2>2
  <1> QED
    BY InitPInv, <1>1, <1>2, PTL DEF Spec

\* Every variable keeps to its type: among others, no more than two dialogs
\* are ever shown at once.
THEOREM TypeCorrect == Spec => []TypeOK
  <1>1. PInv => TypeOK
    BY DEF PInv
  <1> QED
    BY Invariance, <1>1, PTL

\* The assertion of gtk-ui.c line 191 holds, and what does go wrong has the
\* causes named.
THEOREM FaultsExplainedHolds == Spec => []FaultsExplained
  <1>1. PInv => FaultsExplained
    BY DEF PInv
  <1> QED
    BY Invariance, <1>1, PTL

\* One command at a time, and no dialog beside it (rusage.c lines 17-22).
THEOREM CommandsOneByOneHolds == Spec => []CommandsOneByOne
  <1>1. PInv => CommandsOneByOne
    BY DEF PInv
  <1> QED
    BY Invariance, <1>1, PTL
=============================================================================
