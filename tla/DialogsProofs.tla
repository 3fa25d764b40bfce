---------------------------- MODULE DialogsProofs ----------------------------
(***************************************************************************)
(* What the three threads do to the windows, for any number of messages.   *)
(***************************************************************************)
EXTENDS Dialogs, FiniteSetTheorems, TLAPS

\* How far the messages are before the game is started.
StageOK ==
    /\ main = "begin" => idx = 0
    /\ main = "request" => idx = 1
    /\ main = "install" => idx = 2
    /\ main \in {"begin", "request", "install"} =>
         timed = "none" /\ level # "ended" /\ win[Last] = "hidden"
    /\ timed = "looking" => idx < Last

\* Only the message that dialog_idx stands for is shown, and none while the
\* timed thread looks for Minecraft's window: DIAG_LOCK keeps others out.
ShownOK ==
    \A w \in Windows : win[w] = "shown" => w = idx /\ timed # "looking"

\* After an error no message is left to show, and before the game was started
\* there is nobody to end the main loop.
ErrorOK ==
    /\ main \notin {"failed", "showing", "done"} => errFrom = "nothing"
    /\ err # "hidden" => main = "done"
    /\ errFrom # "nothing" /\ main \in {"showing", "done"} => idx = Last /\ timed # "looking"
    /\ errFrom \in {"request", "install"} =>
         timed = "none" /\ win[Last] = "hidden" /\ (err # "gone" => level # "ended")

IInv == TypeOK /\ StageOK /\ ShownOK /\ ErrorOK

LEMMA InitInv == Init => IInv
<1> SUFFICES ASSUME Init PROVE IInv
  OBVIOUS
<1>1. /\ level = "before" /\ idx = 0 /\ main = "begin" /\ timed = "none" /\ game = "off"
      /\ err = "hidden" /\ errFrom = "nothing" /\ win = [w \in Windows |-> "hidden"]
  BY DEF Init
<1>2. locked = (timed = "looking") /\ visible \in BOOLEAN
  <2>1. locked = FALSE /\ visible = FALSE
    BY DEF Init
  <2>2. (timed = "looking") = FALSE
    BY <1>1
  <2> QED BY <2>1, <2>2
<1>3. Last \in Windows /\ Last \in Nat /\ Last > 3
  BY DialogAssumption DEF Windows
<1>4. TypeOK
  BY <1>1, <1>2, <1>3 DEF TypeOK
<1>5. StageOK /\ ShownOK /\ ErrorOK
  BY <1>1, <1>3 DEF StageOK, ShownOK, ErrorOK
<1> QED BY <1>4, <1>5 DEF IInv

\* What the calls do to the windows.
LEMMA CloseIs ==
    ASSUME TypeOK
    PROVE  /\ \A w \in Windows : Close(win[w]) \in {"hidden", "closing", "gone"}
           /\ \A w \in Windows : win[w] = "hidden" => Close(win[w]) = "hidden"
           /\ CloseAllDialogs \in [Windows -> {"hidden", "shown", "closing", "gone"}]
           /\ ClosePrevious \in [Windows -> {"hidden", "shown", "closing", "gone"}]
           /\ Advance \in [Windows -> {"hidden", "shown", "closing", "gone"}]
           /\ \A w \in Windows : CloseAllDialogs[w] = Close(win[w])
           /\ \A w \in Windows : ClosePrevious[w] = IF w = idx THEN Close(win[w]) ELSE win[w]
           /\ \A w \in Windows : Advance[w] = IF w = idx THEN Close(win[w])
                                              ELSE IF w = idx + 1 THEN "shown" ELSE win[w]
BY DEF TypeOK, Close, CloseAllDialogs, ClosePrevious, Advance

LEMMA LastIsWindow == Last \in Windows /\ Last \in Nat /\ Last > 3
BY DialogAssumption DEF Windows

LEMMA LoopSteps ==
    ASSUME IInv, GtkMain \/ Dismiss \/ \E w \in Windows : Destroy(w)
    PROVE  IInv'
<1> USE LastIsWindow DEF IInv, TypeOK, StageOK, ShownOK, ErrorOK
<1>1. CASE GtkMain
  BY <1>1 DEF GtkMain
<1>2. CASE Dismiss
  BY <1>2 DEF Dismiss
<1>3. ASSUME NEW w \in Windows, Destroy(w) PROVE IInv'
  <2>1. win' \in [Windows -> {"hidden", "shown", "closing", "gone"}]
    BY <1>3 DEF Destroy
  <2>2. \A v \in Windows : win'[v] = "shown" => win[v] = "shown"
    BY <1>3 DEF Destroy
  <2>3. win[Last] = "hidden" => level' = level /\ win'[Last] = "hidden"
    BY <1>3 DEF Destroy, QuitsOnClose
  <2>4. level' \in {"before", "running", "ended"}
    BY <1>3 DEF Destroy
  <2> QED BY <1>3, <2>1, <2>2, <2>3, <2>4 DEF Destroy
<1> QED BY <1>1, <1>2, <1>3

LEMMA MainSteps ==
    ASSUME IInv, MainStep \/ Fail
    PROVE  IInv'
<1> USE LastIsWindow, CloseIs DEF IInv, TypeOK, StageOK, ShownOK, ErrorOK
<1>1. CASE Ask
  BY <1>1 DEF Ask, ShowNext
<1>2. CASE StartGame
  BY <1>2 DEF StartGame, ShowNext
<1>3. CASE Launch
  BY <1>3 DEF Launch
<1>4. CASE Joined
  BY <1>4 DEF Joined
<1>5. CASE EndGtk
  BY <1>5 DEF EndGtk
<1>6. CASE Quit
  BY <1>6 DEF Quit
<1>7. CASE Released
  BY <1>7 DEF Released
<1>8. CASE StopMessages
  <2>1. timed # "looking"
    BY <1>8 DEF StopMessages
  <2>2. /\ win' = CloseAllDialogs /\ idx' = Last /\ main = "failed" /\ main' = "showing"
        /\ UNCHANGED <<level, err, errFrom, locked, timed, game, visible>>
    BY <1>8 DEF StopMessages
  <2>3. TypeOK'
    BY <2>2
  <2>4. StageOK' /\ ShownOK'
    BY <2>1, <2>2
  <2>5. ErrorOK'
    BY <2>1, <2>2
  <2> QED BY <2>3, <2>4, <2>5
<1>9. CASE ShowError
  BY <1>9 DEF ShowError
<1>10. CASE Fail
  BY <1>10 DEF Fail
<1> QED BY <1>1, <1>2, <1>3, <1>4, <1>5, <1>6, <1>7, <1>8, <1>9, <1>10 DEF MainStep

LEMMA TimedSteps ==
    ASSUME IInv, TimedStep
    PROVE  IInv'
<1> USE LastIsWindow, CloseIs DEF IInv, TypeOK, StageOK, ShownOK, ErrorOK
<1>1. CASE Enter
  <2>1. CASE timed' = "over" /\ UNCHANGED <<win, locked>>
    BY <1>1, <2>1 DEF Enter
  <2>2. CASE timed' = "looking" /\ locked' = TRUE /\ win' = ClosePrevious /\ idx < Last
    <3>1. locked' = (timed' = "looking")
      BY <2>2
    <3>2. /\ UNCHANGED <<level, err, errFrom, idx, main, game, visible>> /\ level = "running"
          /\ timed = "loop"
      BY <1>1, <2>2 DEF Enter
    <3>3. errFrom # "nothing" => main \notin {"showing", "done"}
      BY <2>2, <3>2
    <3>4. TypeOK'
      BY <2>2, <3>1, <3>2
    <3>5. StageOK' /\ ShownOK'
      BY <2>2, <3>2
    <3>6. ErrorOK'
      BY <2>2, <3>2, <3>3
    <3> QED BY <3>4, <3>5, <3>6
  <2>3. \/ timed' = "over" /\ UNCHANGED <<win, locked>>
        \/ timed' = "looking" /\ locked' = TRUE /\ win' = ClosePrevious /\ ~(idx >= Last)
    BY <1>1 DEF Enter
  <2>4. idx >= Last \/ idx < Last
    BY LastIsWindow
  <2> QED BY <2>1, <2>2, <2>3, <2>4
<1>2. CASE MinecraftVisible
  BY <1>2 DEF MinecraftVisible
<1>3. CASE ShowTimed
  <2>1. idx + 1 \in Windows /\ idx + 1 \in 0..Last /\ idx < Last
    BY <1>3 DEF ShowTimed, Windows
  <2>2. locked' = (timed' = "looking")
    <3>1. locked' = FALSE /\ timed' # "looking"
      BY <1>3 DEF ShowTimed
    <3> QED BY <3>1
  <2>3. win' \in [Windows -> {"hidden", "shown", "closing", "gone"}]
    BY <1>3 DEF ShowTimed
  <2>4. \A w \in Windows : win'[w] = "shown" => w = idx + 1
    BY <1>3, <2>1 DEF ShowTimed
  <2> QED BY <1>3, <2>1, <2>2, <2>3, <2>4 DEF ShowTimed
<1>4. CASE WakeUp
  BY <1>4 DEF WakeUp
<1> QED BY <1>1, <1>2, <1>3, <1>4 DEF TimedStep

LEMMA StepInv == IInv /\ [Next]_vars => IInv'
<1> SUFFICES ASSUME IInv, [Next]_vars PROVE IInv'
  OBVIOUS
<1>1. CASE Appear
  BY <1>1 DEF Appear, IInv, TypeOK, StageOK, ShownOK, ErrorOK
<1>2. CASE GameEnds
  BY <1>2 DEF GameEnds, IInv, TypeOK, StageOK, ShownOK, ErrorOK
<1>3. CASE UNCHANGED vars
  BY <1>3 DEF vars, IInv, TypeOK, StageOK, ShownOK, ErrorOK
<1> QED BY <1>1, <1>2, <1>3, LoopSteps, MainSteps, TimedSteps DEF Next, Gone

\* The index stays within DIALOGS, and the lock is held only while the timed thread looks.
THEOREM WindowsTypeCorrect == Spec => []TypeOK
<1>1. IInv => TypeOK
  BY DEF IInv
<1> QED BY InitInv, StepInv, <1>1, PTL DEF Spec

\* However many messages there are, at most one is on the screen that nobody has
\* asked to close.
THEOREM OneMessageAtATime == Spec => []OneMessage
<1>1. IInv => OneMessage
  <2> SUFFICES ASSUME IInv PROVE OneMessage
    OBVIOUS
  <2> DEFINE S == {w \in Windows : win[w] = "shown"}
  <2>1. S \subseteq {idx}
    BY DEF IInv, ShownOK
  <2>2. IsFiniteSet({idx}) /\ Cardinality({idx}) = 1
    BY FS_Singleton
  <2>3. Cardinality(S) <= 1
    BY <2>1, <2>2, FS_Subset
  <2> QED BY <2>3 DEF OneMessage
<1> QED BY InitInv, StepInv, <1>1, PTL DEF Spec

\* An error before the game was started stays until it is dismissed.
THEOREM ErrorStays == Spec => []StartErrorStays
<1>1. IInv => StartErrorStays
  BY DEF IInv, ErrorOK, StartErrorStays
<1> QED BY InitInv, StepInv, <1>1, PTL DEF Spec

\* No message appears any more once the error path has stopped them.
THEOREM SilentAfterError == Spec => NoMessageAfterError
<1> DEFINE A == errFrom # "nothing" /\ main \in {"showing", "done"} =>
                  \A w \in Windows : win'[w] = "shown" => win[w] = "shown"
<1>1. IInv /\ [Next]_vars => [A]_vars
  <2> SUFFICES ASSUME IInv, Next, errFrom # "nothing", main \in {"showing", "done"},
                      NEW w \in Windows, win'[w] = "shown"
               PROVE  win[w] = "shown"
    OBVIOUS
  <2>1. timed # "looking"
    BY DEF IInv, ErrorOK
  <2>2. CASE win' = win
    BY <2>2
  <2>3. ASSUME NEW v \in Windows, Destroy(v) PROVE win[w] = "shown"
    BY <2>3 DEF Destroy, IInv, TypeOK
  <2>4. CASE Enter
    BY <2>4, CloseIs DEF Enter, IInv
  <2> QED BY <2>1, <2>2, <2>3, <2>4
          DEF Next, MainStep, Ask, StartGame, ShowNext, Launch, Joined, EndGtk, Quit, Released,
              StopMessages, ShowError, Fail, TimedStep, MinecraftVisible, ShowTimed, WakeUp,
              GtkMain, Dismiss, Appear, GameEnds, Gone, vars
<1> QED BY InitInv, StepInv, <1>1, PTL DEF Spec, NoMessageAfterError
=============================================================================
