------------------------------- MODULE Paging -------------------------------
(***************************************************************************)
(* labs/lab3/3-paging: main() starts a user interface in a thread, sleeps  *)
(* for a second, asks it to show how much memory has been used and waits   *)
(* for it to end (main.c).  The interface is linked in: cmdline/ui.c       *)
(* prints, and ends when Enter is pressed; gui/gtk-ui.c queues the dialogs *)
(* of other threads for a timer of the GUI thread, and runs commands whose *)
(* usage it shows (rusage.c).                                              *)
(*                                                                         *)
(* GTK is external: an iteration of gtk_main handles at most one event,    *)
(* then the timer if it is due, then looks whether it has been told to     *)
(* quit.  Of several modal dialogs the last one gets the user's input, and *)
(* the window does when there is none.                                     *)
(***************************************************************************)
EXTENDS Integers, Sequences

NULL == -1

VARIABLES ui,             \* which interface is linked: "gtk" or "cmdline"
          mpc,            \* main()'s next step
          dialog_queue,   \* dialogs that are queued, or NULL
          upc,            \* the interface thread's next step
          main_window,
          dialogs,        \* the modal dialogs that are shown, last one on top
          quit,           \* has gtk_main_quit been called?
          command,        \* the command a button has started
          shown,          \* has main()'s text been shown or printed?
          fault           \* how the program went wrong

gui == <<main_window, dialogs, quit, command>>
vars == <<ui, mpc, dialog_queue, upc, gui, shown, fault>>

Flags == quit \in BOOLEAN /\ shown \in BOOLEAN

TypeOK ==
    /\ Flags
    /\ ui \in {"gtk", "cmdline"}
    /\ mpc \in {"init", "create", "sleep", "show", "join", "ended", "exited"}
    /\ dialog_queue \in {NULL, 0, 1}
    /\ upc \in {"none", "start", "idle", "wait", "timer", "finished"}
    /\ main_window \in {"NULL", "shown", "destroyed"}
    /\ dialogs \in Seq({"confirm", "text"}) /\ Len(dialogs) <= 2
    /\ command \in {"none", "forked", "running", "over"}
    /\ fault \in {"none", "no queue", "no thread", "no window", "freed window",
                  "unset text", "two processes on one display"}

Init ==
    /\ ui \in {"gtk", "cmdline"}
    /\ mpc = "init" /\ dialog_queue = NULL
    /\ upc = "none" /\ main_window = "NULL" /\ dialogs = <<>> /\ quit = FALSE
    /\ command = "none" /\ shown = FALSE /\ fault = "none"

-----------------------------------------------------------------------------
\* dialog_show in the present state of main_window.
dialog_show(dialog) ==
    \/ /\ main_window = "shown"
       /\ dialogs' = Append(dialogs, dialog)
       /\ UNCHANGED fault
    \/ /\ main_window = "NULL" /\ fault' = "no window"
       /\ UNCHANGED dialogs
    \/ /\ main_window = "destroyed" /\ fault' = "freed window"
       /\ UNCHANGED dialogs

(* main().                                                                   *)

\* gtk_init ends the program when there is no display; main() does not look
\* at the result of ui_init, which is false when there is no queue.
ui_init ==
    /\ mpc = "init"
    /\ \/ ui = "gtk" /\ mpc' = "exited" /\ UNCHANGED dialog_queue
       \/ ui = "gtk" /\ mpc' = "create" /\ dialog_queue' \in {NULL, 0}
       \/ ui = "cmdline" /\ mpc' = "create" /\ UNCHANGED dialog_queue
    /\ UNCHANGED <<ui, upc, gui, shown, fault>>

\* The result of pthread_create is not looked at either.
Create ==
    /\ mpc = "create"
    /\ mpc' = "sleep"
    /\ upc' \in {"none", "start"}
    /\ UNCHANGED <<ui, dialog_queue, gui, shown, fault>>

\* A second is long, and promises nothing.
Sleep ==
    /\ mpc = "sleep"
    /\ mpc' = "show"
    /\ UNCHANGED <<ui, dialog_queue, upc, gui, shown, fault>>

\* A bug: main() shows the dialog itself.
ui_show_now ==
    /\ ui = "gtk"
    /\ dialog_show("text")
    /\ UNCHANGED <<dialog_queue, shown>>

\* ui_show of gtk-ui.c.  When malloc or strdup fails nothing is queued.
ui_show_gtk ==
    /\ ui = "gtk"
    /\ IF dialog_queue = NULL
       THEN fault' = "no queue" /\ UNCHANGED dialog_queue
       ELSE dialog_queue' \in {dialog_queue, dialog_queue + 1} /\ UNCHANGED fault
    /\ UNCHANGED <<shown, dialogs>>

\* ui_show of cmdline/ui.c.
ui_show_cmdline ==
    /\ ui = "cmdline"
    /\ shown' = TRUE
    /\ UNCHANGED <<dialog_queue, fault, dialogs>>

Show ==
    /\ mpc = "show"
    /\ mpc' = "join"
    /\ ui_show_gtk \/ ui_show_cmdline
    /\ UNCHANGED <<ui, upc, main_window, quit, command>>

\* A bug: main() does not wait.
JoinableOnceStarted == upc # "none"

\* pthread_join returns.
Joinable == upc = "finished"

\* Without a thread, the pthread_t that is waited for was never set.
Join ==
    /\ mpc = "join"
    /\ \/ upc = "none" /\ fault' = "no thread" /\ UNCHANGED mpc
       \/ Joinable /\ mpc' = "ended" /\ UNCHANGED fault
    /\ UNCHANGED <<ui, dialog_queue, upc, gui, shown>>

main == ui_init \/ Create \/ Sleep \/ Show \/ Join

-----------------------------------------------------------------------------
(* ui_run of cmdline/ui.c: Enter is pressed.                                 *)

Enter ==
    /\ ui = "cmdline" /\ upc = "start"
    /\ upc' = "finished"
    /\ UNCHANGED <<ui, mpc, dialog_queue, gui, shown, fault>>

(* ui_run of gtk-ui.c and its callbacks.                                     *)

Build ==
    /\ ui = "gtk" /\ upc = "start"
    /\ main_window' = "shown" /\ upc' = "idle"
    /\ UNCHANGED <<ui, mpc, dialog_queue, dialogs, quit, command, shown, fault>>

\* An iteration without an event.
NoEvent ==
    /\ upc = "idle"
    /\ upc' = "timer"
    /\ UNCHANGED <<ui, mpc, dialog_queue, gui, shown, fault>>

\* The user can get at the window's buttons.
Clickable == upc = "idle" /\ main_window = "shown" /\ dialogs = <<>>

on_click_print ==
    /\ Clickable
    /\ dialog_show("text")
    /\ upc' = "timer"
    /\ UNCHANGED <<ui, mpc, dialog_queue, main_window, quit, command, shown>>

on_click_bye ==
    /\ Clickable
    /\ dialogs' = Append(dialogs, "confirm")
    /\ upc' = "timer"
    /\ UNCHANGED <<ui, mpc, dialog_queue, main_window, quit, command, shown, fault>>

\* on_click_run_cc, on_click_run_grep_large and on_click_run_grep_small, up to
\* wait4: the GUI thread waits.  When fork fails nothing is written to usage.
on_click_run ==
    /\ Clickable
    /\ \/ command' = "forked" /\ upc' = "wait" /\ UNCHANGED fault
       \/ fault' = "unset text" /\ UNCHANGED <<command, upc>>
    /\ UNCHANGED <<ui, mpc, dialog_queue, main_window, dialogs, quit, shown>>

\* execvp returns when it fails: the child goes on as a second GUI thread.
Exec ==
    /\ command = "forked"
    /\ \/ command' = "running" /\ UNCHANGED fault
       \/ fault' = "two processes on one display" /\ UNCHANGED command
    /\ UNCHANGED <<ui, mpc, dialog_queue, upc, main_window, dialogs, quit, shown>>

CommandEnds ==
    /\ command = "running"
    /\ command' = "over"
    /\ UNCHANGED <<ui, mpc, dialog_queue, upc, main_window, dialogs, quit, shown, fault>>

\* A bug: wait4 is called with WNOHANG.
WaitedNot == UNCHANGED command

\* wait4 returns.
Waited == command = "over" /\ command' = "none"

\* get_command_rusage returns, and the usage is shown.
get_command_rusage ==
    /\ upc = "wait" /\ Waited
    /\ dialog_show("text")
    /\ upc' = "timer"
    /\ UNCHANGED <<ui, mpc, dialog_queue, main_window, quit, shown>>

\* The user answers the dialog on top, or closes it, which is no ACCEPT.
Respond ==
    /\ upc = "idle" /\ dialogs # <<>>
    /\ LET top == dialogs[Len(dialogs)]
       IN quit' \in (IF top = "confirm" THEN BOOLEAN ELSE {FALSE})
    /\ dialogs' = SubSeq(dialogs, 1, Len(dialogs) - 1)
    /\ upc' = "timer"
    /\ UNCHANGED <<ui, mpc, dialog_queue, main_window, command, shown, fault>>

\* The user closes the window: on_destroy.
CloseWindow ==
    /\ Clickable
    /\ main_window' = "destroyed"
    /\ quit' = TRUE
    /\ upc' = "timer"
    /\ UNCHANGED <<ui, mpc, dialog_queue, dialogs, command, shown, fault>>

\* The end of an iteration: gtk_main and ui_run return once they have to.
EndOfIteration == upc' = IF quit THEN "finished" ELSE "idle"

\* A bug: the dialogs that are queued are looked at, not taken.
TakenNot == UNCHANGED dialog_queue

\* g_async_queue_try_pop.
Taken == dialog_queue' = dialog_queue - 1

\* A bug: no dialog is put in front of another one.
dialog_queue_check_polite ==
    /\ upc = "timer" /\ dialog_queue # NULL
    /\ \/ /\ dialog_queue = 0 \/ dialogs # <<>>
          /\ UNCHANGED <<dialog_queue, dialogs, shown, fault>>
       \/ dialog_queue > 0 /\ dialogs = <<>> /\ Taken /\ dialog_show("text") /\ shown' = TRUE
    /\ EndOfIteration
    /\ UNCHANGED <<ui, mpc, main_window, quit, command>>

dialog_queue_check ==
    /\ upc = "timer" /\ dialog_queue # NULL
    /\ \/ dialog_queue = 0 /\ UNCHANGED <<dialog_queue, dialogs, shown, fault>>
       \/ dialog_queue > 0 /\ Taken /\ dialog_show("text") /\ shown' = TRUE
    /\ EndOfIteration
    /\ UNCHANGED <<ui, mpc, main_window, quit, command>>

\* The timer is not due.
NotDue ==
    /\ upc = "timer"
    /\ EndOfIteration
    /\ UNCHANGED <<ui, mpc, dialog_queue, gui, shown, fault>>

ui_run ==
    \/ Build \/ NoEvent \/ get_command_rusage \/ dialog_queue_check \/ NotDue

User == Enter \/ on_click_print \/ on_click_bye \/ on_click_run \/ Respond \/ CloseWindow

Next ==
    /\ fault = "none"
    /\ main \/ ui_run \/ User \/ Exec \/ CommandEnds

\* main() and the GUI thread run, the commands (grep and cc of a file) end, and
\* a timer of 100 ms is due again and again.  The user may do nothing.
Fairness ==
    /\ WF_vars(fault = "none" /\ main) /\ WF_vars(fault = "none" /\ ui_run)
    /\ WF_vars(fault = "none" /\ (Exec \/ CommandEnds))
    /\ SF_vars(fault = "none" /\ dialog_queue_check)

Spec == Init /\ [][Next]_vars /\ Fairness

-----------------------------------------------------------------------------
\* Showing a dialog of main() cannot find a window that is not there yet: the
\* assertion of line 191 holds, because it is the GUI thread that shows it,
\* after it has made the window (main() only queues: the warning at line 30),
\* and not because main() has slept.  It can find a window that is gone, in the
\* iteration that has closed it and in no other; the other ways to go wrong are
\* results that nobody looks at.
FaultsExplained ==
    /\ fault # "no window"
    /\ fault = "freed window" => quit /\ mpc = "join" /\ main_window = "destroyed"
    /\ fault = "no queue" => dialog_queue = NULL
    /\ fault \in {"unset text", "two processes on one display"} => dialogs = <<>>

\* A command is waited for before its usage is shown, and no button is served
\* in between (rusage.c line 22).
CommandsOneByOne == command # "none" => upc = "wait" /\ dialogs = <<>>

\* What main() queues is shown, unless the interface ends before.
DialogShown == dialog_queue = 1 ~> shown \/ quit \/ fault # "none"

\* main() ends after its interface and not before; it does end once the user
\* has asked for it.
EndsAfterQuit ==
    /\ [][mpc' = "ended" => upc = "finished"]_vars
    /\ quit \/ upc = "finished" ~> mpc = "ended" \/ fault # "none"
=============================================================================
