------------------------------- MODULE Dialogs -------------------------------
(***************************************************************************)
(* The windows of a starting client. Three threads share them: the main    *)
(* thread of nydus-client, the one that shows the timed messages, and the  *)
(* one in Gtk.main, which alone answers the user and carries out what      *)
(* close() asked for. A window, once destroyed, does not come back, and    *)
(* close() does nothing to one that was never shown.                       *)
(***************************************************************************)
EXTENDS Naturals, FiniteSets

CONSTANT
    Last        \* Len(DIALOGS). The first two messages wait for the next stage; the
                \* last one stays too, and ends Gtk when it closes

ASSUME DialogAssumption == Last \in Nat /\ Last > 3

VARIABLES
    level,      \* Gtk.main_level(): "before" Gtk.main, "running", "ended"
    win,        \* [message -> "hidden", "shown", "closing" or "gone"]
    err,        \* the error window, likewise
    errFrom,    \* what the main thread was doing when it failed, or "nothing"
    idx,        \* dialog_idx
    locked,     \* the timed thread holds DIAG_LOCK
    main,       \* where the main thread is
    timed,      \* where the timed thread is: "none", "loop", "looking", "asleep", "over"
    game,       \* "off", "running", "over"
    visible     \* a window with Minecraft's title is on the screen

vars == <<level, win, err, errFrom, idx, locked, main, timed, game, visible>>

Windows == 1..Last

Init ==
    /\ level = "before" /\ win = [w \in Windows |-> "hidden"] /\ err = "hidden"
    /\ errFrom = "nothing" /\ idx = 0 /\ locked = FALSE
    /\ main = "begin" /\ timed = "none" /\ game = "off" /\ visible = FALSE

-----------------------------------------------------------------------------
(* Windows.                                                                 *)

Close(s) == IF s = "shown" THEN "closing" ELSE s

\* Close the message before the current one, and show that.
AdvanceAlone == [win EXCEPT ![idx + 1] = "shown"]
Advance == [w \in Windows |-> IF w = idx THEN Close(win[w])
                              ELSE IF w = idx + 1 THEN "shown" ELSE win[w]]
ClosePrevious == [w \in Windows |-> IF w = idx THEN Close(win[w]) ELSE win[w]]
CloseAllDialogs == [w \in Windows |-> Close(win[w])]

EveryWindow(w) == TRUE
QuitsOnClose(w) == w = Last

\* The main loop destroys a window, because it was closed or because the user
\* clicks it away.
Destroy(w) ==
    /\ level = "running" /\ win[w] \in {"closing", "shown"}
    /\ win' = [win EXCEPT ![w] = "gone"]
    /\ level' = IF QuitsOnClose(w) THEN "ended" ELSE level
    /\ UNCHANGED <<err, errFrom, idx, locked, main, timed, game, visible>>

Dismiss ==
    /\ level = "running" /\ err = "shown"
    /\ err' = "gone" /\ level' = "ended"
    /\ UNCHANGED <<win, errFrom, idx, locked, main, timed, game, visible>>

GtkMain ==
    /\ level = "before"
    /\ level' = "running"
    /\ UNCHANGED <<win, err, errFrom, idx, locked, main, timed, game, visible>>

-----------------------------------------------------------------------------
(* The main thread.                                                         *)

\* show_next_dialog for a message without timeout.
ShowNext(from, to) ==
    /\ main = from /\ ~locked
    /\ win' = Advance /\ idx' = idx + 1
    /\ main' = to
    /\ UNCHANGED <<level, err, errFrom, locked, timed, game, visible>>

Ask == ShowNext("begin", "request")

\* The server takes longer to answer than the other thread to enter Gtk.main.
StartGame == level # "before" /\ ShowNext("request", "install")

\* Everything is installed: show_next_dialog leaves the rest to a new thread.
Launch ==
    /\ main = "install" /\ ~locked
    /\ win' = ClosePrevious
    /\ timed' = "loop" /\ game' = "running" /\ main' = "play"
    /\ UNCHANGED <<level, err, errFrom, idx, locked, visible>>

\* The game's thread is over.
Joined ==
    /\ main = "play" /\ game = "over"
    /\ main' = IF level = "running" THEN "end" ELSE "release"
    /\ UNCHANGED <<level, win, err, errFrom, idx, locked, timed, game, visible>>

EndGtk ==
    /\ main = "end" /\ ~locked
    /\ win' = CloseAllDialogs
    /\ main' = "quit"
    /\ UNCHANGED <<level, err, errFrom, idx, locked, timed, game, visible>>

QuitLater ==
    /\ main = "quit"
    /\ main' = "release"
    /\ UNCHANGED <<level, win, err, errFrom, idx, locked, timed, game, visible>>
Quit ==
    /\ main = "quit"
    /\ level' = "ended" /\ main' = "release"
    /\ UNCHANGED <<win, err, errFrom, idx, locked, timed, game, visible>>

Released ==
    /\ main = "release"
    /\ main' = "done"
    /\ UNCHANGED <<level, win, err, errFrom, idx, locked, timed, game, visible>>

\* Whatever client_main raises; the timed messages stop under the lock, the
\* error is shown after it.
Fail ==
    /\ main \in {"request", "install", "play", "release"}
    /\ errFrom' = main /\ main' = "failed"
    /\ UNCHANGED <<level, win, err, idx, locked, timed, game, visible>>

CloseMessages ==
    /\ main = "failed" /\ ~locked
    /\ win' = CloseAllDialogs /\ UNCHANGED idx
    /\ main' = "showing"
    /\ UNCHANGED <<level, err, errFrom, locked, timed, game, visible>>
StopMessages ==
    /\ main = "failed" /\ ~locked
    /\ win' = CloseAllDialogs /\ idx' = Last
    /\ main' = "showing"
    /\ UNCHANGED <<level, err, errFrom, locked, timed, game, visible>>

ShowError ==
    /\ main = "showing"
    /\ err' = "shown" /\ main' = "done"
    /\ UNCHANGED <<level, win, errFrom, idx, locked, timed, game, visible>>

-----------------------------------------------------------------------------
(* The thread of show_timed_dialogs, between taking the lock and its break. *)

EnterUnlessQuit ==
    /\ timed = "loop" /\ ~locked
    /\ IF level # "running"
       THEN timed' = "over" /\ UNCHANGED <<win, locked>>
       ELSE timed' = "looking" /\ locked' = TRUE /\ win' = ClosePrevious
    /\ UNCHANGED <<level, err, errFrom, idx, main, game, visible>>
Enter ==
    /\ timed = "loop" /\ ~locked
    /\ IF level # "running" \/ idx >= Last
       THEN timed' = "over" /\ UNCHANGED <<win, locked>>
       ELSE timed' = "looking" /\ locked' = TRUE /\ win' = ClosePrevious
    /\ UNCHANGED <<level, err, errFrom, idx, main, game, visible>>

MinecraftVisible ==
    /\ timed = "looking" /\ visible
    /\ win' = CloseAllDialogs /\ level' = "ended"
    /\ timed' = "over" /\ locked' = FALSE
    /\ UNCHANGED <<err, errFrom, idx, main, game, visible>>

ShowTimed ==
    /\ timed = "looking" /\ ~visible
    /\ win' = [win EXCEPT ![idx + 1] = "shown"] /\ idx' = idx + 1
    /\ timed' = IF idx + 1 = Last THEN "over" ELSE "asleep"
    /\ locked' = FALSE
    /\ UNCHANGED <<level, err, errFrom, main, game, visible>>

WakeUp ==
    /\ timed = "asleep"
    /\ timed' = "loop"
    /\ UNCHANGED <<level, win, err, errFrom, idx, locked, main, game, visible>>

-----------------------------------------------------------------------------
(* The game, whose window shows up sooner or later or never.                *)

Appear ==
    /\ game = "running" /\ ~visible
    /\ visible' = TRUE
    /\ UNCHANGED <<level, win, err, errFrom, idx, locked, main, timed, game>>

GameEnds ==
    /\ game = "running"
    /\ game' = "over" /\ visible' = FALSE
    /\ UNCHANGED <<level, win, err, errFrom, idx, locked, main, timed>>

\* The process ends with the last of its threads.
Over == main = "done" /\ timed \in {"none", "over"} /\ game # "running" /\ level = "ended"
Gone == Over /\ UNCHANGED vars

MainStep == Ask \/ StartGame \/ Launch \/ Joined \/ EndGtk \/ Quit \/ Released \/ StopMessages \/ ShowError
TimedStep == Enter \/ MinecraftVisible \/ ShowTimed \/ WakeUp
LoopStep == GtkMain \/ \E w \in Windows : win[w] = "closing" /\ Destroy(w)

Next ==
    \/ MainStep \/ Fail \/ TimedStep
    \/ GtkMain \/ \E w \in Windows : Destroy(w)
    \/ Dismiss \/ Appear \/ GameEnds \/ Gone

Spec == Init /\ [][Next]_vars

\* Every thread goes on, the server answers, what is missing gets installed,
\* the game is ended and an error window that can be dismissed is.
FairSpec ==
    /\ Spec
    /\ WF_vars(MainStep) /\ WF_vars(TimedStep) /\ WF_vars(LoopStep)
    /\ WF_vars(Dismiss) /\ WF_vars(GameEnds)

-----------------------------------------------------------------------------

\* Everything has its type; the index stays within DIALOGS.
TypeOK ==
    /\ level \in {"before", "running", "ended"}
    /\ win \in [Windows -> {"hidden", "shown", "closing", "gone"}]
    /\ err \in {"hidden", "shown", "gone"}
    /\ errFrom \in {"nothing", "request", "install", "play", "release"}
    /\ idx \in 0..Last /\ locked = (timed = "looking")
    /\ main \in {"begin", "request", "install", "play", "end", "quit", "release", "failed", "showing", "done"}
    /\ timed \in {"none", "loop", "looking", "asleep", "over"}
    /\ game \in {"off", "running", "over"} /\ visible \in BOOLEAN

(* At most one message is on the screen that nobody has asked to close,    *)
(* although two threads show them in turn (dialogs.py:145-147, 234-236).   *)
OneMessage == Cardinality({w \in Windows : win[w] = "shown"}) <= 1

(* Once the error path has stopped the messages none appears any more:     *)
(* "Set to max so no more info messages appear" (dialogs.py:200), whatever *)
(* the timed thread was about to do.                                       *)
NoMessageAfterError ==
    [][errFrom # "nothing" /\ main \in {"showing", "done"} =>
         \A w \in Windows : win'[w] = "shown" => win[w] = "shown"]_vars

(* An error before the game is started stays on the screen until the user  *)
(* has dismissed it (dialogs.py:63): nothing else ends the main loop.      *)
StartErrorStays ==
    errFrom \in {"request", "install"} /\ err # "gone" => level # "ended"

(* The process ends, with all its threads, after the game or an error:     *)
(* "This should ensure all extra threads terminate" (nydus-client:196).    *)
ProcessEnds == <>Over

=============================================================================
