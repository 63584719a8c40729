-------------------------- MODULE GuiPanel_proofs --------------------------
(***************************************************************************)
(* Proofs about the panels of the GUI (GuiPanel), for any set of panels    *)
(* and any number of runs.                                                 *)
(***************************************************************************)
EXTENDS GuiPanel, SequenceTheorems, TLAPS

-----------------------------------------------------------------------------
(* The inductive invariant                                                 *)

PanelType ==
  [busy : BOOLEAN, failed : BOOLEAN, cancelled : BOOLEAN, handled : BOOLEAN,
   timer : BOOLEAN, shown : {"none", "phase", "ok", "cancelling", "cancelled"},
   tick : BOOLEAN]

Pcs == {"none", "spawned", "saved", "patched", "command", "blocked", "leaving",
        "unpatching", "closing", "signalling", "posting", "exited"}

RunType ==
  [panel : Panels \cup {"none"}, pc : Pcs,
   outcome : {"none", "ok", "failed", "cancelled"},
   savedInput : 0..Unset, savedStdout : 0..Unset]

(* Whose replacement input() or stdout can be.                             *)
Owners == {Real} \cup Started

TypeOK ==
  /\ uiAt \in {"idle", "drain", "check"}
  /\ uiPanel \in Panels \cup {"none"}
  /\ uiAt # "idle" => uiPanel \in Panels
  /\ panel \in [Panels -> PanelType]
  /\ cancelSet \in [Panels -> BOOLEAN]
  /\ finished \in [Panels -> BOOLEAN]
  /\ logQueue \in [Panels -> Seq({"error", "done"})]
  /\ run \in [Runs -> RunType]
  /\ input \in Owners /\ stdout \in Owners
  /\ events \in [Panels -> Nat]
  /\ early \subseteq Runs
  /\ behind \subseteq Panels
  /\ overlapped \in BOOLEAN

(* What a run has saved it can put back.                                   *)
RunsSound ==
  \A r \in Runs :
    /\ run[r].pc = "none" => run[r] = NoRun
    /\ run[r].pc # "none" => run[r].panel \in Panels
    /\ Patching(r) => run[r].savedInput \in Owners
    /\ run[r].pc \in {"command", "blocked", "leaving"} => run[r].savedStdout \in Owners

(* The flags of a panel agree; before its first run it hears of none.      *)
PanelSound(p) ==
  /\ panel[p].busy => ~panel[p].handled
  /\ panel[p].timer => ~panel[p].busy /\ (panel[p].tick \/ panel[p].shown = "phase")
  /\ ~panel[p].busy /\ ~panel[p].handled =>
       logQueue[p] = <<>> /\ \A r \in Started : run[r].panel # p

PanelsSound == \A p \in Panels : PanelSound(p)

StartedInOrder == \A r \in Started, q \in Runs : q < r => q \in Started

(* A run of the panel had its controls restored before it was over.        *)
EarlyAt(p) == \E q \in early : run[q].panel = p

(* A run that works without having been restored early is the latest of    *)
(* its panel, which is busy.                                               *)
WorkingSound ==
  \A r \in Started :
    Working(r) /\ r \notin early =>
      panel[run[r].panel].busy /\ IsLatest(r, run[r].panel)

(* The latest run of a panel, when it was cancelled: it has left that in   *)
(* the panel, which shows it when the controls are back, unless events     *)
(* were waiting then; if none were, none come.                             *)
LatestSound(p, r) ==
  IsLatest(r, p) /\ run[r].outcome = "cancelled" =>
    /\ run[r].pc \in {"signalling", "posting", "exited"} => panel[p].cancelled
    /\ ~panel[p].busy /\ ~EarlyAt(p) =>
         /\ ~panel[p].timer /\ ~panel[p].tick
         /\ \/ panel[p].shown = "cancelled"
            \/ panel[p].shown = "phase" /\ p \in behind
         /\ p \notin behind => events[p] = 0

LatestShown == \A p \in Panels, r \in Started : LatestSound(p, r)

(* What the one run holds that has the globals replaced.                   *)
Holds(r) ==
  /\ run[r].pc # "blocked"
  /\ run[r].savedInput = Real
  /\ input = IF run[r].pc = "saved" THEN Real ELSE r
  /\ stdout = IF run[r].pc \in {"command", "leaving"} THEN r ELSE Real
  /\ run[r].pc \in {"command", "leaving"} => run[r].savedStdout = Real

OneHolder ==
  ~overlapped =>
    /\ \A r, q \in Runs : Patching(r) /\ Patching(q) => r = q
    /\ (\A r \in Runs : ~Patching(r)) => input = Real /\ stdout = Real
    /\ \A r \in Runs : Patching(r) => Holds(r)

-----------------------------------------------------------------------------
(* Steps of the workers                                                    *)

(* Where a worker gets to in one step.                                     *)
Follows(a, b) ==
  \/ a = "spawned" /\ b = "saved"
  \/ a = "saved" /\ b = "patched"
  \/ a = "patched" /\ b = "command"
  \/ a = "command" /\ b \in {"blocked", "command", "leaving"}
  \/ a = "leaving" /\ b = "unpatching"
  \/ a = "unpatching" /\ b = "closing"
  \/ a = "closing" /\ b = "signalling"
  \/ a = "signalling" /\ b = "posting"
  \/ a = "posting" /\ b = "exited"

(* What a step of the worker of run r does to the runs, and what it leaves *)
(* alone: other runs, the panel of the run, and the UI thread's own state. *)
LEMMA WorkerFrame ==
  ASSUME TypeOK, NEW r \in Runs, Worker(r)
  PROVE  /\ Follows(run[r].pc, run'[r].pc)
         /\ run'[r].savedInput = IF run[r].pc = "spawned" THEN input ELSE run[r].savedInput
         /\ run'[r].savedStdout = IF run[r].pc = "patched" THEN stdout ELSE run[r].savedStdout
         /\ run[r].pc # "command" => run'[r].outcome = run[r].outcome
         /\ run' \in [Runs -> RunType]
         /\ \A q \in Runs : q # r => run'[q] = run[q]
         /\ \A q \in Runs : run'[q].panel = run[q].panel
         /\ UNCHANGED <<uiAt, uiPanel, cancelSet, events, early, behind>>
<1>1. /\ run \in [Runs -> RunType] /\ input \in 0..Unset /\ stdout \in 0..Unset
      /\ MaxRuns \in Nat
  BY GuiAssumption DEF TypeOK, Owners, Started, Runs, Real, Unset
<1> USE DEF RunType, Pcs, Step, workerVars, uiVars, Follows
<1>a1. CASE SaveInput(r)
  BY <1>1, <1>a1 DEF SaveInput
<1>a2. CASE PatchInput(r)
  BY <1>1, <1>a2 DEF PatchInput
<1>a3. CASE EnterRedirect(r)
  BY <1>1, <1>a3 DEF EnterRedirect
<1>a4. CASE AskOverwrite(r)
  BY <1>1, <1>a4 DEF AskOverwrite
<1>a5. CASE PrintError(r)
  BY <1>1, <1>a5 DEF PrintError
<1>a6. CASE CancelPoint(r)
  <2> DEFINE to == [run[r] EXCEPT !.pc = "leaving", !.outcome = "cancelled"]
  <2>1. /\ run' = [run EXCEPT ![r] = to] /\ run[r].pc = "command"
        /\ UNCHANGED <<uiAt, uiPanel, cancelSet, events, early, behind>>
    BY <1>a6, <1>1 DEF CancelPoint
  <2>2. /\ to \in RunType /\ to.panel = run[r].panel /\ to.pc = "leaving"
        /\ to.savedInput = run[r].savedInput /\ to.savedStdout = run[r].savedStdout
    BY <1>1
  <2> QED BY <1>1, <2>1, <2>2
<1>a7. CASE EndCommand(r)
  <2> DEFINE to == [run[r] EXCEPT !.pc = "leaving", !.outcome = IF @ = "none" THEN "ok" ELSE @]
  <2>1. /\ run' = [run EXCEPT ![r] = to] /\ run[r].pc = "command"
        /\ UNCHANGED <<uiAt, uiPanel, cancelSet, events, early, behind>>
    BY <1>a7, <1>1 DEF EndCommand
  <2>2. /\ to \in RunType /\ to.panel = run[r].panel /\ to.pc = "leaving"
        /\ to.savedInput = run[r].savedInput /\ to.savedStdout = run[r].savedStdout
    BY <1>1
  <2> QED BY <1>1, <2>1, <2>2
<1>a8. CASE ExitRedirect(r)
  BY <1>1, <1>a8 DEF ExitRedirect
<1>a9. CASE RestoreInput(r)
  BY <1>1, <1>a9 DEF RestoreInput
<1>a10. CASE ReportOutcome(r)
  BY <1>1, <1>a10 DEF ReportOutcome
<1>a11. CASE SetFinished(r)
  BY <1>1, <1>a11 DEF SetFinished
<1>a12. CASE PostDone(r)
  BY <1>1, <1>a12 DEF PostDone
<1> QED BY <1>a1, <1>a2, <1>a3, <1>a4, <1>a5, <1>a6, <1>a7, <1>a8, <1>a9, <1>a10, <1>a11, <1>a12 DEF Worker

(* After a step of a worker the same runs have been started.               *)
LEMMA WorkerStartsNone ==
  ASSUME TypeOK, NEW r \in Runs, Worker(r)
  PROVE  Started' = Started /\ Owners' = Owners
<1> Started' = Started
  BY WorkerFrame DEF Started, Follows
<1> QED BY DEF Owners

-----------------------------------------------------------------------------
(* Steps of the UI thread                                                  *)

(* A click on Run starts the next run.                                     *)
LEMMA OnRunEffect ==
  ASSUME TypeOK, NEW p \in Panels, OnRun(p)
  PROVE  \E r \in Runs :
           /\ run[r].pc = "none" /\ \A q \in Runs : q < r => q \in Started
           /\ run'[r].pc = "spawned" /\ run'[r].panel = p /\ run'[r].outcome = "none"
           /\ \A q \in Runs : q # r => run'[q] = run[q]
           /\ run' \in [Runs -> RunType]
           /\ Started' = Started \cup {r}
<1>1. run \in [Runs -> RunType] /\ Unset \in 0..Unset
  BY GuiAssumption DEF TypeOK, Unset
<1>2. PICK r \in Runs :
        /\ run[r].pc = "none" /\ \A q \in Runs : q < r => run[q].pc # "none"
        /\ run' = [run EXCEPT ![r] = [NoRun EXCEPT !.panel = p, !.pc = "spawned"]]
  BY DEF OnRun
<1> DEFINE new == [NoRun EXCEPT !.panel = p, !.pc = "spawned"]
<1>3. /\ new \in RunType /\ new.pc = "spawned" /\ new.panel = p /\ new.outcome = "none"
  BY <1>1 DEF NoRun, RunType, Pcs
<1> HIDE DEF new
<1>4. run'[r] = new /\ (\A q \in Runs : q # r => run'[q] = run[q])
      /\ run' \in [Runs -> RunType]
  BY <1>1, <1>2, <1>3 DEF new
<1>5. Started' = Started \cup {r}
  BY <1>3, <1>4 DEF Started
<1> QED BY <1>2, <1>3, <1>4, <1>5 DEF Started

(* What _finish_worker makes of a panel.                                   *)
LEMMA FinishWorkerEffect ==
  ASSUME NEW s \in PanelType
  PROVE  /\ FinishWorker(s) \in PanelType
         /\ FinishWorker(s).handled
         /\ s.handled => FinishWorker(s) = s
         /\ ~s.handled => ~FinishWorker(s).busy
         /\ ~s.handled /\ FinishWorker(s).timer => FinishWorker(s).tick
         /\ ~s.handled /\ s.cancelled =>
              /\ FinishWorker(s).shown = "cancelled"
              /\ ~FinishWorker(s).tick /\ ~FinishWorker(s).timer
         /\ FinishWorker(s).cancelled = s.cancelled
<1>1. /\ Verdict(s) \in {"none", "phase", "ok", "cancelling", "cancelled"}
      /\ Succeeded(s) \in BOOLEAN
  BY DEF Verdict, Succeeded, PanelType
<1>2. CASE s.handled
  BY <1>2 DEF FinishWorker
<1>3. CASE ~s.handled
  <2> DEFINE f == [s EXCEPT !.handled = TRUE, !.busy = FALSE, !.shown = Verdict(s),
                            !.tick = Succeeded(s), !.timer = Succeeded(s)]
  <2>1. FinishWorker(s) = f
    BY <1>3 DEF FinishWorker
  <2> HIDE DEF Verdict, Succeeded
  <2>2. f \in PanelType /\ f.handled = TRUE /\ f.busy = FALSE /\ f.shown = Verdict(s)
        /\ f.tick = Succeeded(s) /\ f.timer = Succeeded(s) /\ f.cancelled = s.cancelled
    BY <1>1 DEF PanelType
  <2>3. s.cancelled => Verdict(s) = "cancelled" /\ ~Succeeded(s)
    BY DEF Verdict, Succeeded
  <2> HIDE DEF f
  <2> QED BY <1>3, <2>1, <2>2, <2>3
<1> QED BY <1>2, <1>3

-----------------------------------------------------------------------------
(* Types                                                                   *)

LEMMA InitSound == Init => TypeOK /\ RunsSound
<1> SUFFICES ASSUME Init PROVE TypeOK /\ RunsSound
  OBVIOUS
<1>1. NoRun \in RunType /\ NoRun.pc = "none"
  BY GuiAssumption DEF NoRun, RunType, Pcs, Unset
<1>2. FreshPanel \in PanelType
  BY DEF FreshPanel, PanelType
<1>3. TypeOK
  BY <1>1, <1>2, EmptySeq DEF Init, TypeOK, Owners, Real
<1>4. RunsSound
  BY <1>1 DEF Init, RunsSound, Patching
<1> QED BY <1>3, <1>4

LEMMA WorkerSound ==
  ASSUME TypeOK, RunsSound, NEW r \in Runs, Worker(r)
  PROVE  TypeOK' /\ RunsSound'
<1>1. /\ Follows(run[r].pc, run'[r].pc)
      /\ run'[r].savedInput = IF run[r].pc = "spawned" THEN input ELSE run[r].savedInput
      /\ run'[r].savedStdout = IF run[r].pc = "patched" THEN stdout ELSE run[r].savedStdout
      /\ run' \in [Runs -> RunType]
      /\ \A q \in Runs : q # r => run'[q] = run[q]
      /\ \A q \in Runs : run'[q].panel = run[q].panel
      /\ UNCHANGED <<uiAt, uiPanel, cancelSet, events, early, behind>>
  BY WorkerFrame
<1>2. Owners' = Owners /\ Started' = Started /\ r \in Owners
  BY <1>1, WorkerStartsNone DEF Owners, Started, Follows
<1>3. run[r].panel \in Panels /\ \A q \in Started : run[q].panel \in Panels
  BY <1>1 DEF RunsSound, Started, Follows
<1>4. run \in [Runs -> RunType]
  BY DEF TypeOK
<1> USE DEF Step, uiVars
<1>5. input' \in Owners /\ stdout' \in Owners
  <2>1. Patching(r) => run[r].savedInput \in Owners
    BY DEF RunsSound
  <2>2. run[r].pc = "leaving" => run[r].savedStdout \in Owners
    BY DEF RunsSound
  <2> QED BY <1>2, <2>1, <2>2
        DEF TypeOK, Patching, Worker, SaveInput, PatchInput, EnterRedirect, AskOverwrite,
            PrintError, CancelPoint, EndCommand, ExitRedirect, RestoreInput,
            ReportOutcome, SetFinished, PostDone
<1>6. panel' \in [Panels -> PanelType] /\ finished' \in [Panels -> BOOLEAN]
      /\ overlapped' \in BOOLEAN
  <2>1. overlapped' \in BOOLEAN
    BY Zenon DEF TypeOK, Worker, SaveInput, PatchInput, EnterRedirect, AskOverwrite,
            PrintError, CancelPoint, EndCommand, ExitRedirect, RestoreInput,
            ReportOutcome, SetFinished, PostDone
  <2>2. panel' \in [Panels -> PanelType]
    <3>1. CASE ReportOutcome(r)
      BY <1>3, <3>1 DEF TypeOK, PanelType, ReportOutcome
    <3>2. CASE ~ReportOutcome(r)
      <4> UNCHANGED panel
        BY <3>2 DEF Worker, SaveInput, PatchInput, EnterRedirect, AskOverwrite, PrintError,
              CancelPoint, EndCommand, ExitRedirect, RestoreInput, SetFinished, PostDone
      <4> QED BY DEF TypeOK
    <3> QED BY <3>1, <3>2
  <2>3. finished' \in [Panels -> BOOLEAN]
    BY <1>3 DEF TypeOK, Worker, SaveInput, PatchInput, EnterRedirect, AskOverwrite,
            PrintError, CancelPoint, EndCommand, ExitRedirect, RestoreInput,
            ReportOutcome, SetFinished, PostDone
  <2> QED BY <2>1, <2>2, <2>3
<1>7. logQueue' \in [Panels -> Seq({"error", "done"})]
  <2>1. \A p \in Panels, m \in {"error", "done"} :
          Append(logQueue[p], m) \in Seq({"error", "done"})
    BY AppendProperties DEF TypeOK
  <2>2. stdout # Real => run[stdout].panel \in Panels
    BY <1>3 DEF TypeOK, Owners
  <2> QED BY <1>3, <2>1, <2>2
        DEF TypeOK, Worker, SaveInput, PatchInput, EnterRedirect, AskOverwrite,
            PrintError, CancelPoint, EndCommand, ExitRedirect, RestoreInput,
            ReportOutcome, SetFinished, PostDone
<1>8. TypeOK'
  BY <1>1, <1>2, <1>5, <1>6, <1>7 DEF TypeOK
<1>9. RunsSound'
  <2> SUFFICES ASSUME NEW q \in Runs
               PROVE  /\ run'[q].pc = "none" => run'[q] = NoRun
                      /\ run'[q].pc # "none" => run'[q].panel \in Panels
                      /\ run'[q].pc \in {"saved", "patched", "command", "blocked",
                                         "leaving", "unpatching"}
                           => run'[q].savedInput \in Owners
                      /\ run'[q].pc \in {"command", "blocked", "leaving"}
                           => run'[q].savedStdout \in Owners
    BY <1>2 DEF RunsSound, Patching
  <2>1. CASE q # r
    BY <1>1, <2>1 DEF RunsSound, Patching
  <2>2. CASE q = r
    <3>1. run'[r].panel \in Panels
      BY <1>1, <1>3
    <3>2. run'[r].pc \in {"saved", "patched", "command", "blocked", "leaving", "unpatching"}
            => run'[r].savedInput \in Owners
      BY <1>1 DEF TypeOK, RunsSound, Patching, Follows
    <3>3. run'[r].pc \in {"command", "blocked", "leaving"} => run'[r].savedStdout \in Owners
      BY <1>1 DEF TypeOK, RunsSound, Follows
    <3> QED BY <1>1, <2>2, <3>1, <3>2, <3>3 DEF Follows
  <2> QED BY <2>1, <2>2
<1> QED BY <1>8, <1>9

LEMMA OnRunSound ==
  ASSUME TypeOK, RunsSound, NEW p \in Panels, OnRun(p)
  PROVE  TypeOK' /\ RunsSound'
<1>1. PICK r \in Runs :
        /\ run'[r].pc = "spawned" /\ run'[r].panel = p
        /\ \A q \in Runs : q # r => run'[q] = run[q]
        /\ run' \in [Runs -> RunType]
        /\ Started' = Started \cup {r}
  BY OnRunEffect
<1>2. panel' \in [Panels -> PanelType]
  <2>1. [panel[p] EXCEPT !.busy = TRUE, !.failed = FALSE, !.cancelled = FALSE,
                         !.timer = FALSE, !.handled = FALSE] \in PanelType
    BY DEF TypeOK, PanelType
  <2>2. panel' = [panel EXCEPT ![p] =
          [panel[p] EXCEPT !.busy = TRUE, !.failed = FALSE, !.cancelled = FALSE,
                           !.timer = FALSE, !.handled = FALSE]]
    BY DEF OnRun, TypeOK
  <2> QED BY <2>1, <2>2 DEF TypeOK
<1>3. Owners \subseteq Owners'
  BY <1>1 DEF Owners
<1>4. TypeOK'
  BY <1>1, <1>2, <1>3 DEF TypeOK, OnRun
<1>5. RunsSound'
  BY <1>1, <1>3 DEF RunsSound, Patching
<1> QED BY <1>4, <1>5

(* The other actions of the UI thread, and a progress report, which leave  *)
(* the runs as they are.                                                   *)
UiStep ==
  \/ \E p \in Panels : OnCancel(p) \/ BeginPoll(p) \/ ResetProgress(p)
  \/ TakeMessage \/ DrainEmpty \/ CheckFinished
  \/ \E r \in Runs : ReportProgress(r)

LEMMA UiSound ==
  ASSUME TypeOK, RunsSound, UiStep \/ UNCHANGED vars
  PROVE  TypeOK' /\ RunsSound'
<1>1. UNCHANGED workerVars
  BY DEF UiStep, vars, OnCancel, BeginPoll, ResetProgress, TakeMessage, DrainEmpty,
         CheckFinished, ReportProgress, workerVars
<1>2. RunsSound' /\ Owners' = Owners
  BY <1>1 DEF RunsSound, workerVars, Patching, Owners, Started
<1>3. ASSUME NEW p \in Panels, OnCancel(p)
      PROVE  TypeOK'
  <2>0. panel[p] \in PanelType
    BY DEF TypeOK
  <2>1. [panel[p] EXCEPT !.shown = "cancelling", !.tick = FALSE] \in PanelType
    BY <2>0 DEF PanelType
  <2>2. panel' = [panel EXCEPT ![p] =
                    [panel[p] EXCEPT !.shown = "cancelling", !.tick = FALSE]]
    BY <1>3 DEF OnCancel, TypeOK
  <2> QED BY <1>1, <1>2, <1>3, <2>1, <2>2 DEF OnCancel, TypeOK, workerVars
<1>4. ASSUME NEW p \in Panels, BeginPoll(p)
      PROVE  TypeOK'
  <2>0. panel[p] \in PanelType
    BY DEF TypeOK
  <2>1. [panel[p] EXCEPT !.shown = "phase", !.tick = FALSE] \in PanelType
    BY <2>0 DEF PanelType
  <2>2. panel' = panel
        \/ panel' = [panel EXCEPT ![p] = [panel[p] EXCEPT !.shown = "phase", !.tick = FALSE]]
    BY <1>4 DEF BeginPoll, TypeOK
  <2>3. panel' \in [Panels -> PanelType]
    BY <2>1, <2>2 DEF TypeOK
  <2>4. events' \in [Panels -> Nat]
    BY <1>4, GuiAssumption DEF BeginPoll, TypeOK
  <2> QED BY <1>1, <1>2, <1>4, <2>3, <2>4 DEF BeginPoll, TypeOK, workerVars
<1>5. ASSUME NEW p \in Panels, ResetProgress(p)
      PROVE  TypeOK'
  <2>0. panel[p] \in PanelType
    BY DEF TypeOK
  <2>1. [panel[p] EXCEPT !.timer = FALSE, !.shown = "none", !.tick = FALSE] \in PanelType
    BY <2>0 DEF PanelType
  <2>2. panel' = [panel EXCEPT ![p] =
                    [panel[p] EXCEPT !.timer = FALSE, !.shown = "none", !.tick = FALSE]]
    BY <1>5 DEF ResetProgress, TypeOK
  <2> QED BY <1>1, <1>2, <1>5, <2>1, <2>2 DEF ResetProgress, TypeOK, workerVars
<1>6. ASSUME TakeMessage
      PROVE  TypeOK'
  <2>1. uiPanel \in Panels /\ panel[uiPanel] \in PanelType
    BY <1>6 DEF TakeMessage, TypeOK
  <2>2. Tail(logQueue[uiPanel]) \in Seq({"error", "done"})
    BY <1>6, <2>1, HeadTailProperties DEF TakeMessage, TypeOK
  <2>3. /\ FinishWorker(panel[uiPanel]) \in PanelType
        /\ [panel[uiPanel] EXCEPT !.failed = TRUE] \in PanelType
    BY <2>1, FinishWorkerEffect DEF PanelType
  <2>4. panel' \in [Panels -> PanelType] /\ early' \subseteq Runs
        /\ behind' \subseteq Panels
    BY <1>6, <2>1, <2>3 DEF TakeMessage, TypeOK, RestoredEarly, RestoredBehind, Started
  <2> QED BY <1>1, <1>2, <1>6, <2>1, <2>2, <2>4 DEF TakeMessage, TypeOK, workerVars
<1>7. ASSUME DrainEmpty
      PROVE  TypeOK'
  BY <1>1, <1>2, <1>7 DEF DrainEmpty, TypeOK, workerVars
<1>8. ASSUME CheckFinished
      PROVE  TypeOK'
  <2>1. uiPanel \in Panels /\ panel[uiPanel] \in PanelType
    BY <1>8 DEF CheckFinished, TypeOK
  <2>2. FinishWorker(panel[uiPanel]) \in PanelType
    BY <2>1, FinishWorkerEffect
  <2>3. panel' \in [Panels -> PanelType] /\ early' \subseteq Runs
        /\ behind' \subseteq Panels
    BY <1>8, <2>1, <2>2 DEF CheckFinished, TypeOK, RestoredEarly, RestoredBehind, Started
  <2> QED BY <1>1, <1>2, <1>8, <2>3 DEF CheckFinished, TypeOK, workerVars
<1>9. ASSUME UNCHANGED vars
      PROVE  TypeOK'
  BY <1>1, <1>2, <1>9 DEF vars, TypeOK
<1>10. ASSUME NEW r \in Runs, ReportProgress(r)
      PROVE  TypeOK'
  <2>1. events' = [events EXCEPT ![run[r].panel] = events[run[r].panel] + 1]
    BY <1>10 DEF ReportProgress
  <2>2. events \in [Panels -> Nat] /\ (run[r].panel \in Panels => events[run[r].panel] + 1 \in Nat)
    BY DEF TypeOK
  <2>3. events' \in [Panels -> Nat]
    BY <2>1, <2>2
  <2> QED BY <1>1, <1>2, <1>10, <2>3 DEF ReportProgress, TypeOK, uiVars, workerVars
<1> QED BY <1>2, <1>3, <1>4, <1>5, <1>6, <1>7, <1>8, <1>9, <1>10 DEF UiStep

LEMMA NextSplit ==
  ASSUME [Next]_vars
  PROVE  \/ \E p \in Panels : OnRun(p)
         \/ UiStep \/ UNCHANGED vars
         \/ \E r \in Runs : Worker(r)
BY DEF Next, UiStep

LEMMA StepSound == TypeOK /\ RunsSound /\ [Next]_vars => TypeOK' /\ RunsSound'
BY NextSplit, OnRunSound, UiSound, WorkerSound

(* Every variable of the GUI stays in its range: messages go to panels that*)
(* exist, and what a worker puts back into builtins.input or sys.stdout is *)
(* something it has read from there.                                       *)
THEOREM TypesHold == Spec => [](TypeOK /\ RunsSound)
BY InitSound, StepSound, PTL DEF Spec

-----------------------------------------------------------------------------
(* builtins.input and sys.stdout                                           *)

LEMMA OneHolderWorker ==
  ASSUME TypeOK, OneHolder, NEW r \in Runs, Worker(r)
  PROVE  OneHolder'
<1> SUFFICES ASSUME ~overlapped'
             PROVE  /\ \A s, q \in Runs : Patching(s)' /\ Patching(q)' => s = q
                    /\ (\A s \in Runs : ~Patching(s)') => input' = Real /\ stdout' = Real
                    /\ \A s \in Runs : Patching(s)' => Holds(s)'
  BY DEF OneHolder
<1>0. run \in [Runs -> RunType] /\ \A q \in Runs : run[q] \in RunType
  BY DEF TypeOK
<1>1. /\ Follows(run[r].pc, run'[r].pc)
      /\ run'[r].savedInput = IF run[r].pc = "spawned" THEN input ELSE run[r].savedInput
      /\ run'[r].savedStdout = IF run[r].pc = "patched" THEN stdout ELSE run[r].savedStdout
      /\ \A q \in Runs : q # r => run'[q] = run[q]
  BY WorkerFrame
<1>2. ~overlapped /\ (run[r].pc = "spawned" => \A q \in Runs \ {r} : ~Patching(q))
  <2>1. CASE SaveInput(r)
    BY <2>1 DEF SaveInput
  <2>2. CASE ~SaveInput(r)
    BY <2>2 DEF Worker, PatchInput, EnterRedirect, AskOverwrite, PrintError, CancelPoint,
           EndCommand, ExitRedirect, RestoreInput, ReportOutcome, SetFinished, PostDone, Step
  <2> QED BY <2>1, <2>2
<1>3. /\ \A s, q \in Runs : Patching(s) /\ Patching(q) => s = q
      /\ (\A s \in Runs : ~Patching(s)) => input = Real /\ stdout = Real
      /\ \A s \in Runs : Patching(s) => Holds(s)
  BY <1>2 DEF OneHolder
<1>4. /\ input' = CASE run[r].pc = "saved" -> r
                    [] run[r].pc = "unpatching" -> run[r].savedInput
                    [] OTHER -> input
      /\ stdout' = CASE run[r].pc = "patched" -> r
                     [] run[r].pc = "leaving" -> run[r].savedStdout
                     [] OTHER -> stdout
      /\ run'[r].pc = "blocked" => input = Real
  <2> USE DEF Step
  <2>1. CASE SaveInput(r) \/ PatchInput(r) \/ EnterRedirect(r)
    BY <1>0, <2>1 DEF SaveInput, PatchInput, EnterRedirect, RunType
  <2>2. CASE AskOverwrite(r) \/ PrintError(r) \/ CancelPoint(r) \/ EndCommand(r)
    BY <1>0, <2>2 DEF AskOverwrite, PrintError, CancelPoint, EndCommand, RunType
  <2>3. CASE ExitRedirect(r) \/ RestoreInput(r)
    BY <1>0, <2>3 DEF ExitRedirect, RestoreInput, RunType
  <2>4. CASE ReportOutcome(r) \/ SetFinished(r) \/ PostDone(r)
    BY <1>0, <2>4 DEF ReportOutcome, SetFinished, PostDone, RunType
  <2> QED BY <2>1, <2>2, <2>3, <2>4 DEF Worker
<1>5. \A q \in Runs : q # r => (Patching(q)' <=> Patching(q))
  BY <1>1 DEF Patching
<1>6. CASE run[r].pc \in {"closing", "signalling", "posting"}
  <2>1. ~Patching(r) /\ ~Patching(r)' /\ input' = input /\ stdout' = stdout
    BY <1>1, <1>4, <1>6 DEF Patching, Follows
  <2> QED BY <1>1, <1>3, <1>5, <2>1 DEF Patching, Holds
<1>7. CASE run[r].pc \notin {"closing", "signalling", "posting"}
  <2>1. \A q \in Runs : q # r => ~Patching(q)
    BY <1>1, <1>2, <1>3, <1>7 DEF Follows, Patching
  <2>2. Patching(r)' => Holds(r)'
    BY <1>1, <1>3, <1>4, <1>7, <2>1, GuiAssumption
       DEF Follows, Patching, Holds, Real, Runs
  <2>3. ~Patching(r)' => input' = Real /\ stdout' = Real
    BY <1>1, <1>3, <1>4, <1>7, <2>1 DEF Follows, Patching, Holds
  <2> QED BY <1>5, <2>1, <2>2, <2>3
<1> QED BY <1>6, <1>7

LEMMA OneHolderStep ==
  ASSUME TypeOK, OneHolder, [Next]_vars
  PROVE  OneHolder'
<1>1. ASSUME NEW p \in Panels, OnRun(p)
      PROVE  OneHolder'
  <2>1. PICK r \in Runs :
          /\ run[r].pc = "none" /\ run'[r].pc = "spawned"
          /\ \A q \in Runs : q # r => run'[q] = run[q]
    BY <1>1, OnRunEffect
  <2>2. UNCHANGED <<input, stdout, overlapped>>
    BY <1>1 DEF OnRun
  <2>3. \A q \in Runs : Patching(q)' <=> Patching(q)
    BY <2>1 DEF Patching
  <2>4. \A q \in Runs : Patching(q) => (Holds(q)' <=> Holds(q))
    BY <2>1, <2>2 DEF Patching, Holds
  <2> QED BY <2>2, <2>3, <2>4 DEF OneHolder
<1>2. ASSUME UiStep \/ UNCHANGED vars
      PROVE  OneHolder'
  <2>1. UNCHANGED workerVars
    BY <1>2 DEF UiStep, vars, OnCancel, BeginPoll, ResetProgress, TakeMessage, DrainEmpty,
           CheckFinished, ReportProgress, workerVars
  <2> QED BY <2>1 DEF OneHolder, Patching, Holds, workerVars
<1> QED BY <1>1, <1>2, OneHolderWorker, NextSplit

(* For any number of panels and runs: as long as no two runs were in the   *)
(* patched region at once, a command answers its own prompts and hears its *)
(* own output, and input() and stdout are the interpreter's own again when *)
(* none is, however the commands ended (the try/finally of _run_command).  *)
THEOREM GlobalsAreOwned == Spec => []GlobalsOwned
<1>1. Init => OneHolder
  BY DEF Init, OneHolder, Patching, NoRun
<1>2. OneHolder => GlobalsOwned
  BY DEF OneHolder, GlobalsOwned, Holds, Patching
<1> QED BY <1>1, <1>2, OneHolderStep, TypesHold, PTL DEF Spec

(* And no prompt of such a command waits for the terminal.                 *)
THEOREM PromptsAnswered ==
  Spec => [](~overlapped => \A p \in Panels : ~WaitsOnStdin(p))
<1>1. Init => OneHolder
  BY DEF Init, OneHolder, Patching, NoRun
<1>2. OneHolder => (~overlapped => \A p \in Panels : ~WaitsOnStdin(p))
  BY DEF OneHolder, WaitsOnStdin, Holds, Patching
<1> QED BY <1>1, <1>2, OneHolderStep, TypesHold, PTL DEF Spec

-----------------------------------------------------------------------------
(* What the panels show                                                    *)

(* A worker only writes _cancelled of its own panel, and messages only to  *)
(* panels that have a run.                                                 *)
LEMMA WorkerPanels ==
  ASSUME TypeOK, RunsSound, NEW r \in Runs, Worker(r), NEW p \in Panels
  PROVE  /\ panel'[p].busy = panel[p].busy
         /\ panel'[p].handled = panel[p].handled
         /\ panel'[p].timer = panel[p].timer
         /\ panel'[p].shown = panel[p].shown
         /\ panel'[p].tick = panel[p].tick
         /\ panel[p].cancelled => panel'[p].cancelled
         /\ run[r].pc = "closing" /\ run[r].outcome = "cancelled" /\ run[r].panel = p
              => panel'[p].cancelled
         /\ (\A q \in Started : run[q].panel # p) => logQueue'[p] = logQueue[p]
<1>1. panel \in [Panels -> PanelType] /\ logQueue \in [Panels -> Seq({"error", "done"})]
      /\ run \in [Runs -> RunType]
  BY DEF TypeOK
<1>2. r \in Started
  BY WorkerFrame DEF Follows, Started
<1>3. stdout # Real => stdout \in Started
  BY DEF TypeOK, Owners
<1>4. (\A q \in Started : run[q].panel # p) => logQueue'[p] = logQueue[p]
  BY <1>1, <1>2, <1>3 DEF Worker, SaveInput, PatchInput, EnterRedirect, AskOverwrite, PrintError,
     CancelPoint, EndCommand, ExitRedirect, RestoreInput, ReportOutcome, SetFinished, PostDone
<1>5. CASE ReportOutcome(r)
  <2>1. panel' = IF run[r].outcome = "cancelled"
                 THEN [panel EXCEPT ![run[r].panel].cancelled = TRUE] ELSE panel
    BY <1>5 DEF ReportOutcome
  <2>2. run[r].panel \in Panels
    BY <1>2 DEF RunsSound, Started
  <2>3. \A q \in Panels : panel[q] \in PanelType
    BY <1>1
  <2>4. /\ panel'[p].busy = panel[p].busy
        /\ panel'[p].handled = panel[p].handled
        /\ panel'[p].timer = panel[p].timer
        /\ panel'[p].shown = panel[p].shown
        /\ panel'[p].tick = panel[p].tick
    BY <1>1, <2>1, <2>2, <2>3 DEF PanelType
  <2>5. /\ panel[p].cancelled => panel'[p].cancelled
        /\ run[r].outcome = "cancelled" /\ run[r].panel = p => panel'[p].cancelled
    BY <1>1, <2>1, <2>2, <2>3 DEF PanelType
  <2> QED BY <1>4, <2>4, <2>5
<1>6. CASE ~ReportOutcome(r)
  <2>1. UNCHANGED panel
    BY <1>6 DEF Worker, SaveInput, PatchInput, EnterRedirect, AskOverwrite, PrintError,
          CancelPoint, EndCommand, ExitRedirect, RestoreInput, SetFinished, PostDone, uiVars
  <2>2. run[r].pc # "closing"
    BY <1>6 DEF Worker, SaveInput, PatchInput, EnterRedirect, AskOverwrite, PrintError,
          CancelPoint, EndCommand, ExitRedirect, RestoreInput, SetFinished, PostDone, Step
  <2> QED BY <1>4, <2>1, <2>2
<1> QED BY <1>5, <1>6

LEMMA PanelsSoundStep ==
  ASSUME TypeOK, RunsSound, PanelsSound, [Next]_vars
  PROVE  PanelsSound'
<1>1. ASSUME NEW p \in Panels, OnRun(p)
      PROVE  PanelsSound'
  <2>1. PICK r \in Runs :
          /\ run'[r].panel = p
          /\ \A q \in Runs : q # r => run'[q] = run[q]
          /\ Started' = Started \cup {r}
    BY <1>1, OnRunEffect
  <2>2. /\ panel'[p].busy /\ ~panel'[p].handled /\ ~panel'[p].timer
        /\ \A q \in Panels : q # p => panel'[q] = panel[q]
        /\ logQueue' = logQueue
    BY <1>1 DEF OnRun, TypeOK, PanelType
  <2>3. PanelSound(p)'
    BY <2>2 DEF PanelSound
  <2>4. ASSUME NEW q \in Panels, q # p
        PROVE  PanelSound(q)'
    <3>1. PanelSound(q)
      BY DEF PanelsSound
    <3>2. (\A s \in Started : run[s].panel # q) => \A s \in Started' : run'[s].panel # q
      BY <2>1, <2>4 DEF Started
    <3> QED BY <2>2, <2>4, <3>1, <3>2 DEF PanelSound
  <2> QED BY <2>3, <2>4 DEF PanelsSound
<1>2. ASSUME UiStep \/ UNCHANGED vars
      PROVE  PanelsSound'
  <2>1. Started' = Started /\ run' = run
    BY <1>2 DEF UiStep, vars, OnCancel, BeginPoll, ResetProgress, TakeMessage, DrainEmpty,
           CheckFinished, ReportProgress, workerVars, Started
  <2>2. ASSUME NEW p \in Panels, ResetProgress(p)
        PROVE  PanelsSound'
    <3>1. /\ panel'[p].busy = panel[p].busy /\ panel'[p].handled = panel[p].handled
          /\ ~panel'[p].timer
          /\ \A q \in Panels : q # p => panel'[q] = panel[q]
          /\ logQueue' = logQueue
      BY <2>2 DEF ResetProgress, TypeOK, PanelType
    <3> QED BY <2>1, <3>1 DEF PanelsSound, PanelSound
  <2>6. ASSUME NEW p \in Panels, OnCancel(p)
        PROVE  PanelsSound'
    <3>1. /\ panel'[p].busy = panel[p].busy /\ panel'[p].handled = panel[p].handled
          /\ panel'[p].timer = panel[p].timer /\ panel[p].busy
          /\ \A q \in Panels : q # p => panel'[q] = panel[q]
          /\ logQueue' = logQueue
      BY <2>6 DEF OnCancel, TypeOK, PanelType
    <3> QED BY <2>1, <3>1 DEF PanelsSound, PanelSound
  <2>7. ASSUME NEW p \in Panels, BeginPoll(p), events[p] # 0
        PROVE  PanelsSound'
    <3>1. /\ panel'[p].busy = panel[p].busy /\ panel'[p].handled = panel[p].handled
          /\ panel'[p].timer = panel[p].timer /\ panel'[p].shown = "phase"
          /\ \A q \in Panels : q # p => panel'[q] = panel[q]
          /\ logQueue' = logQueue
      BY <2>7 DEF BeginPoll, TypeOK, PanelType
    <3> QED BY <2>1, <3>1 DEF PanelsSound, PanelSound
  <2>3. ASSUME TakeMessage
        PROVE  PanelsSound'
    <3>1. PICK u \in Panels : u = uiPanel /\ panel[u] \in PanelType /\ logQueue[u] # <<>>
      BY <2>3 DEF TakeMessage, TypeOK
    <3>2. panel[u].busy \/ panel[u].handled
      BY <3>1 DEF PanelsSound, PanelSound
    <3>3. \A q \in Panels : q # u => panel'[q] = panel[q] /\ logQueue'[q] = logQueue[q]
      BY <2>3, <3>1 DEF TakeMessage, TypeOK
    <3>4. CASE panel' = [panel EXCEPT ![uiPanel].failed = TRUE]
      <4>1. /\ panel'[u].busy = panel[u].busy
            /\ panel'[u].handled = panel[u].handled
            /\ panel'[u].timer = panel[u].timer
            /\ panel'[u].shown = panel[u].shown
            /\ panel'[u].tick = panel[u].tick
        BY <3>1, <3>4 DEF TypeOK, PanelType
      <4> QED BY <2>1, <3>1, <3>2, <3>3, <4>1 DEF PanelsSound, PanelSound
    <3>5. CASE panel' = [panel EXCEPT ![uiPanel] = FinishWorker(@)]
      <4>1. panel'[u] = FinishWorker(panel[u])
        BY <3>1, <3>5 DEF TypeOK
      <4>2. PanelSound(u)'
        BY <2>1, <3>1, <3>2, <3>3, <4>1, FinishWorkerEffect DEF PanelsSound, PanelSound
      <4>3. ASSUME NEW q \in Panels, q # u
            PROVE  PanelSound(q)'
        BY <2>1, <3>1, <3>2, <3>3, <4>1, <4>3 DEF PanelsSound, PanelSound
      <4> QED BY <4>2, <4>3 DEF PanelsSound
    <3> QED BY <2>3, <3>4, <3>5 DEF TakeMessage
  <2>4. ASSUME CheckFinished, panel[uiPanel].busy
        PROVE  PanelsSound'
    <3>1. PICK u \in Panels : u = uiPanel /\ panel[u] \in PanelType /\ logQueue' = logQueue
      BY <2>4 DEF CheckFinished, TypeOK
    <3>2. CASE panel' = [panel EXCEPT ![uiPanel] = FinishWorker(@)]
      <4>1. panel'[u] = FinishWorker(panel[u])
            /\ \A q \in Panels : q # u => panel'[q] = panel[q]
        BY <3>1, <3>2 DEF TypeOK
      <4>2. PanelSound(u)'
        BY <2>1, <2>4, <3>1, <4>1, FinishWorkerEffect DEF PanelsSound, PanelSound
      <4>3. ASSUME NEW q \in Panels, q # u
            PROVE  PanelSound(q)'
        BY <2>1, <2>4, <3>1, <4>1, <4>3 DEF PanelsSound, PanelSound
      <4> QED BY <4>2, <4>3 DEF PanelsSound
    <3>3. CASE UNCHANGED panel
      BY <2>1, <3>1, <3>3 DEF PanelsSound, PanelSound
    <3> QED BY <2>4, <3>2, <3>3 DEF CheckFinished
  <2>5. ASSUME UNCHANGED <<panel, logQueue>>
        PROVE  PanelsSound'
    BY <2>1, <2>5 DEF PanelsSound, PanelSound
  <2> QED BY <1>2, <2>2, <2>3, <2>4, <2>5, <2>6, <2>7
        DEF UiStep, vars, BeginPoll, DrainEmpty, CheckFinished, ReportProgress, uiVars
<1>3. ASSUME NEW r \in Runs, Worker(r)
      PROVE  PanelsSound'
  BY <1>3, WorkerFrame, WorkerPanels, WorkerStartsNone DEF PanelsSound, PanelSound, Started
<1> QED BY <1>1, <1>2, <1>3, NextSplit

LEMMA StartedInOrderStep ==
  ASSUME TypeOK, StartedInOrder, [Next]_vars
  PROVE  StartedInOrder'
<1>1. ASSUME NEW p \in Panels, OnRun(p)
      PROVE  StartedInOrder'
  <2>1. PICK r \in Runs : /\ \A q \in Runs : q < r => q \in Started
                          /\ Started' = Started \cup {r}
    BY <1>1, OnRunEffect
  <2> QED BY <2>1 DEF StartedInOrder, Runs
<1>2. ASSUME UiStep \/ UNCHANGED vars
      PROVE  StartedInOrder'
  <2>1. Started' = Started
    BY <1>2 DEF UiStep, vars, OnCancel, BeginPoll, ResetProgress, TakeMessage, DrainEmpty,
           CheckFinished, ReportProgress, workerVars, Started
  <2> QED BY <2>1 DEF StartedInOrder
<1>3. ASSUME NEW r \in Runs, Worker(r)
      PROVE  StartedInOrder'
  BY <1>3, WorkerStartsNone DEF StartedInOrder
<1> QED BY <1>1, <1>2, <1>3, NextSplit

(* A click on Run: the new run is the latest, and no other run of its      *)
(* panel works, unless it was restored early.                              *)
LEMMA LatestShownOnRun ==
  ASSUME TypeOK, RunsSound, StartedInOrder, WorkingSound, LatestShown,
         NEW p \in Panels, OnRun(p)
  PROVE  WorkingSound' /\ LatestShown'
<1>1. PICK r \in Runs :
        /\ run[r].pc = "none" /\ \A q \in Runs : q < r => q \in Started
        /\ run'[r].pc = "spawned" /\ run'[r].panel = p /\ run'[r].outcome = "none"
        /\ \A q \in Runs : q # r => run'[q] = run[q]
        /\ Started' = Started \cup {r}
  BY OnRunEffect
<1>2. /\ panel'[p].busy /\ ~panel[p].busy
      /\ \A q \in Panels : q # p => panel'[q] = panel[q]
      /\ early' = early /\ behind' = behind /\ events' = events
  BY DEF OnRun, TypeOK, PanelType
<1>3. \A q \in Started : q \in Runs /\ q # r /\ q < r
  <2> SUFFICES ASSUME NEW q \in Started, q \in Runs, q # r
               PROVE  ~(r < q)
    BY <1>1 DEF Started, Runs
  <2> SUFFICES ASSUME r < q PROVE FALSE
    OBVIOUS
  <2>1. r \in Started
    BY DEF StartedInOrder
  <2> QED BY <1>1, <2>1 DEF Started
<1>4. ASSUME NEW o \in Panels, NEW s \in Started, o # p
      PROVE  IsLatest(s, o)' <=> IsLatest(s, o)
  BY <1>1, <1>3, <1>4 DEF IsLatest
<1>5. WorkingSound'
  <2> SUFFICES ASSUME NEW s \in Started', Working(s)', s \notin early
               PROVE  /\ panel'[run'[s].panel].busy
                      /\ \A q \in Started' : run'[q].panel = run'[s].panel => q <= s
    BY <1>2 DEF WorkingSound, IsLatest
  <2>1. CASE s = r
    <3>1. \A q \in Started' : q <= r
      BY <1>1, <1>3 DEF Runs
    <3> QED BY <1>1, <1>2, <2>1, <3>1
  <2>2. CASE s # r
    <3>1. s \in Started /\ run'[s] = run[s] /\ Working(s)
      BY <1>1, <1>3, <2>2 DEF Working
    <3>2. panel[run[s].panel].busy /\ IsLatest(s, run[s].panel)
      BY <3>1 DEF WorkingSound
    <3>3. run[s].panel \in Panels /\ run[s].panel # p
      BY <1>2, <3>1, <3>2 DEF RunsSound, Started
    <3>4. \A q \in Started' : run'[q].panel = run[s].panel => q <= s
      BY <1>1, <1>3, <3>2, <3>3 DEF IsLatest
    <3> QED BY <1>2, <3>1, <3>2, <3>3, <3>4
  <2> QED BY <2>1, <2>2
<1>6. LatestShown'
  <2> SUFFICES ASSUME NEW o \in Panels, NEW s \in Started', IsLatest(s, o)',
                      run'[s].outcome = "cancelled"
               PROVE  LatestSound(o, s)'
    BY DEF LatestShown, LatestSound
  <2>1. s # r /\ s \in Started /\ run'[s] = run[s]
    BY <1>1, <1>3
  <2>2. o # p
    <3> SUFFICES ASSUME o = p PROVE FALSE
      OBVIOUS
    <3>1. r <= s
      BY <1>1 DEF IsLatest
    <3> QED BY <1>3, <2>1, <3>1 DEF Runs
  <2>3. IsLatest(s, o) /\ LatestSound(o, s)
    BY <1>4, <2>1, <2>2 DEF LatestShown
  <2>4. EarlyAt(o)' <=> EarlyAt(o)
    <3>0. run[r].panel = "none"
      BY <1>1 DEF RunsSound, NoRun
    <3>1. early \subseteq Runs /\ run[r].panel # o
      BY <3>0, GuiAssumption DEF TypeOK
    <3> QED BY <1>1, <1>2, <2>2, <3>1 DEF EarlyAt
  <2> QED BY <1>2, <2>1, <2>2, <2>3, <2>4 DEF LatestSound
<1> QED BY <1>5, <1>6

(* When the controls come back, the latest run either has left its outcome *)
(* in the panel or is from then on one of those restored early.            *)
LEMMA LatestShownFinish ==
  ASSUME TypeOK, WorkingSound, LatestShown, UNCHANGED <<run, events>>,
         NEW u \in Panels, early' = early \cup RestoredEarly(u),
         behind' = RestoredBehind(u),
         panel' = [panel EXCEPT ![u] = FinishWorker(@)]
  PROVE  WorkingSound' /\ LatestShown'
<1>1. /\ panel'[u] = FinishWorker(panel[u]) /\ panel[u] \in PanelType
      /\ \A q \in Panels : q # u => panel'[q] = panel[q]
      /\ Started' = Started
      /\ \A q \in Panels : q # u => (q \in behind' <=> q \in behind)
  BY DEF TypeOK, Started, RestoredBehind
<1>2. \A r \in Started, o \in Panels :
        (IsLatest(r, o)' <=> IsLatest(r, o)) /\ (Working(r)' <=> Working(r))
  BY <1>1 DEF IsLatest, Working
<1>3. WorkingSound'
  <2> SUFFICES ASSUME NEW r \in Started, Working(r), r \notin early'
               PROVE  panel'[run[r].panel].busy /\ IsLatest(r, run[r].panel)'
    BY <1>1 DEF WorkingSound, Working, IsLatest
  <2>1. panel[run[r].panel].busy /\ IsLatest(r, run[r].panel)
    BY DEF WorkingSound
  <2>2. IsLatest(r, run[r].panel)'
    BY <1>1, <2>1 DEF IsLatest
  <2>3. CASE panel[u].handled
    <3>1. panel' = panel
      BY <1>1, <2>3, FinishWorkerEffect DEF TypeOK
    <3> QED BY <2>1, <2>2, <3>1
  <2>4. CASE ~panel[u].handled
    <3>1. run[r].panel # u
      BY <2>1, <2>4 DEF RestoredEarly
    <3>2. panel'[run[r].panel] = panel[run[r].panel]
      BY <3>1 DEF TypeOK
    <3> QED BY <2>1, <2>2, <3>2
  <2> QED BY <2>3, <2>4
<1>4. LatestShown'
  <2> SUFFICES ASSUME NEW o \in Panels, NEW r \in Started, IsLatest(r, o),
                      run[r].outcome = "cancelled"
               PROVE  LatestSound(o, r)'
    BY <1>1, <1>2 DEF LatestShown, LatestSound
  <2>1. LatestSound(o, r)
    BY DEF LatestShown
  <2>2. EarlyAt(o) => EarlyAt(o)'
    BY DEF EarlyAt
  <2>3. CASE o # u \/ panel[u].handled
    <3>1. panel'[o] = panel[o] /\ (o \in behind' <=> o \in behind)
      BY <1>1, <2>3, FinishWorkerEffect DEF RestoredBehind
    <3> QED BY <2>1, <2>2, <3>1 DEF LatestSound
  <2>4. CASE o = u /\ ~panel[u].handled
    <3>1. panel'[u].cancelled = panel[u].cancelled
      BY <1>1, FinishWorkerEffect
    <3>2. Working(r) => EarlyAt(u)'
      BY <2>4 DEF RestoredEarly, EarlyAt, IsLatest
    <3>3. r \in Runs /\ run[r].pc \in Pcs /\ run[r].pc # "none"
      BY DEF TypeOK, RunType, Started
    <3>4. ~Working(r) => run[r].pc \in {"posting", "exited"}
      BY <3>3 DEF Working
    <3>5. panel[u].cancelled =>
            panel'[u].shown = "cancelled" /\ ~panel'[u].tick /\ ~panel'[u].timer
      BY <1>1, <2>4, FinishWorkerEffect
    <3>6. u \notin behind' => events[u] = 0
      BY <2>4 DEF RestoredBehind
    <3> QED BY <2>1, <2>4, <3>1, <3>2, <3>4, <3>5, <3>6 DEF LatestSound
  <2> QED BY <2>3, <2>4
<1> QED BY <1>3, <1>4

LEMMA LatestShownUi ==
  ASSUME TypeOK, RunsSound, PanelsSound, WorkingSound, LatestShown,
         UiStep \/ UNCHANGED vars
  PROVE  WorkingSound' /\ LatestShown'
<1>1. UNCHANGED run /\ Started' = Started
  BY DEF UiStep, vars, OnCancel, BeginPoll, ResetProgress, TakeMessage, DrainEmpty,
         CheckFinished, ReportProgress, workerVars, Started
<1>2. ASSUME UNCHANGED early,
             \A o \in Panels : panel'[o].busy = panel[o].busy
                               /\ panel'[o].cancelled = panel[o].cancelled
      PROVE  /\ WorkingSound'
             /\ \A o \in Panels, r \in Started :
                  /\ LatestSound(o, r) /\ (IsLatest(r, o)' <=> IsLatest(r, o))
                  /\ EarlyAt(o)' <=> EarlyAt(o)
  <2>1. \A r \in Started : run[r].panel \in Panels
    BY DEF RunsSound, Started
  <2> QED BY <1>1, <1>2, <2>1 DEF WorkingSound, LatestShown, Working, IsLatest, EarlyAt
<1>3. ASSUME UNCHANGED <<panel, early, behind, events>>
      PROVE  WorkingSound' /\ LatestShown'
  BY <1>1, <1>2, <1>3 DEF LatestShown, LatestSound
<1>4. ASSUME NEW p \in Panels, ResetProgress(p)
      PROVE  WorkingSound' /\ LatestShown'
  <2>1. /\ panel'[p].busy = panel[p].busy /\ panel'[p].cancelled = panel[p].cancelled
        /\ \A q \in Panels : q # p => panel'[q] = panel[q]
        /\ UNCHANGED <<early, behind, events>> /\ panel[p].timer
    BY <1>4 DEF ResetProgress, TypeOK, PanelType
  <2> QED BY <1>1, <1>2, <2>1 DEF LatestShown, LatestSound
<1>5. ASSUME NEW p \in Panels, OnCancel(p)
      PROVE  WorkingSound' /\ LatestShown'
  <2>1. /\ panel'[p].busy = panel[p].busy /\ panel'[p].cancelled = panel[p].cancelled
        /\ \A q \in Panels : q # p => panel'[q] = panel[q]
        /\ UNCHANGED <<early, behind, events>> /\ panel[p].busy
    BY <1>5 DEF OnCancel, TypeOK, PanelType
  <2> QED BY <1>1, <1>2, <2>1 DEF LatestShown, LatestSound
<1>6. ASSUME NEW p \in Panels, BeginPoll(p), events[p] # 0
      PROVE  WorkingSound' /\ LatestShown'
  <2>1. /\ panel'[p].busy = panel[p].busy /\ panel'[p].cancelled = panel[p].cancelled
        /\ panel'[p].timer = panel[p].timer
        /\ panel'[p].shown = "phase" /\ ~panel'[p].tick
        /\ \A q \in Panels : q # p => panel'[q] = panel[q] /\ events'[q] = events[q]
        /\ UNCHANGED <<early, behind>>
    BY <1>6 DEF BeginPoll, TypeOK, PanelType
  <2> QED BY <1>1, <1>2, <1>6, <2>1 DEF LatestShown, LatestSound
<1>7. ASSUME NEW p \in Panels, BeginPoll(p), events[p] = 0
      PROVE  WorkingSound' /\ LatestShown'
  <2>1. UNCHANGED <<panel, early, behind, events>>
    BY <1>7, GuiAssumption DEF BeginPoll, TypeOK
  <2> QED BY <1>3, <2>1
<1>8. ASSUME NEW w \in Runs, ReportProgress(w)
      PROVE  WorkingSound' /\ LatestShown'
  <2>1. UNCHANGED <<panel, early, behind>> /\ run[w].pc = "command"
    BY <1>8 DEF ReportProgress, uiVars
  <2>2. w \in Started /\ Working(w)
    BY <2>1 DEF Started, Working
  <2>3. ASSUME NEW o \in Panels, events'[o] # events[o]
        PROVE  panel[o].busy \/ EarlyAt(o)
    <3>1. o = run[w].panel
      BY <1>8, <2>3 DEF ReportProgress, TypeOK
    <3> QED BY <2>2, <3>1 DEF WorkingSound, EarlyAt
  <2> QED BY <1>1, <1>2, <2>1, <2>3 DEF LatestShown, LatestSound
<1>9. ASSUME TakeMessage
      PROVE  WorkingSound' /\ LatestShown'
  <2>1. PICK u \in Panels : u = uiPanel
    BY <1>9 DEF TakeMessage, TypeOK
  <2>2. CASE panel' = [panel EXCEPT ![uiPanel].failed = TRUE] /\ UNCHANGED <<early, behind>>
    <3>1. \A q \in Panels : /\ panel'[q].busy = panel[q].busy
                            /\ panel'[q].cancelled = panel[q].cancelled
                            /\ panel'[q].timer = panel[q].timer
                            /\ panel'[q].shown = panel[q].shown
                            /\ panel'[q].tick = panel[q].tick
      BY <2>1, <2>2 DEF TypeOK, PanelType
    <3>2. UNCHANGED events
      BY <1>9 DEF TakeMessage
    <3> QED BY <1>1, <1>2, <2>2, <3>1, <3>2 DEF LatestShown, LatestSound
  <2>3. CASE /\ panel' = [panel EXCEPT ![uiPanel] = FinishWorker(@)]
             /\ early' = early \cup RestoredEarly(uiPanel)
             /\ behind' = RestoredBehind(uiPanel)
    BY <1>1, <1>9, <2>1, <2>3, LatestShownFinish DEF TakeMessage
  <2> QED BY <1>9, <2>2, <2>3 DEF TakeMessage
<1>10. ASSUME CheckFinished
      PROVE  WorkingSound' /\ LatestShown'
  <2>1. PICK u \in Panels : u = uiPanel
    BY <1>10 DEF CheckFinished, TypeOK
  <2>2. UNCHANGED events
    BY <1>10 DEF CheckFinished
  <2>3. CASE /\ panel' = [panel EXCEPT ![uiPanel] = FinishWorker(@)]
             /\ early' = early \cup RestoredEarly(uiPanel)
             /\ behind' = RestoredBehind(uiPanel)
    BY <1>1, <2>1, <2>2, <2>3, LatestShownFinish
  <2> QED BY <1>3, <1>10, <2>2, <2>3 DEF CheckFinished
<1> QED BY <1>3, <1>4, <1>5, <1>6, <1>7, <1>8, <1>9, <1>10
      DEF UiStep, vars, DrainEmpty

LEMMA LatestShownWorker ==
  ASSUME TypeOK, RunsSound, WorkingSound, LatestShown, NEW w \in Runs, Worker(w)
  PROVE  WorkingSound' /\ LatestShown'
<1>1. /\ Follows(run[w].pc, run'[w].pc)
      /\ run[w].pc # "command" => run'[w].outcome = run[w].outcome
      /\ \A q \in Runs : q # w => run'[q] = run[q]
      /\ \A q \in Runs : run'[q].panel = run[q].panel
      /\ UNCHANGED <<events, early, behind>>
  BY WorkerFrame
<1>2. Started' = Started /\ \A q \in Started : q \in Runs /\ run[q].panel \in Panels
  BY WorkerStartsNone DEF RunsSound, Started
<1>3. ASSUME NEW r \in Started, NEW o \in Panels
      PROVE  IsLatest(r, o)' <=> IsLatest(r, o)
  BY <1>1, <1>2 DEF IsLatest
<1>4. \A r \in Started : Working(r)' => Working(r)
  BY <1>1, <1>2 DEF Working, Follows
<1>5. WorkingSound'
  <2> SUFFICES ASSUME NEW r \in Started, Working(r)', r \notin early
               PROVE  panel'[run[r].panel].busy /\ IsLatest(r, run[r].panel)'
    BY <1>1, <1>2 DEF WorkingSound, IsLatest
  <2>1. PICK o \in Panels : o = run[r].panel
    BY <1>2
  <2>2. panel[o].busy /\ IsLatest(r, o)
    BY <1>4, <2>1 DEF WorkingSound
  <2>3. panel'[o].busy /\ IsLatest(r, o)'
    BY <1>3, <2>2, WorkerPanels
  <2> QED BY <1>1, <1>2, <2>1, <2>3 DEF IsLatest
<1>6. LatestShown'
  <2> SUFFICES ASSUME NEW o \in Panels, NEW r \in Started, IsLatest(r, o)
               PROVE  LatestSound(o, r)'
    BY <1>2, <1>3 DEF LatestShown, LatestSound
  <2>1. /\ panel'[o].busy = panel[o].busy /\ panel'[o].timer = panel[o].timer
        /\ panel'[o].shown = panel[o].shown /\ panel'[o].tick = panel[o].tick
        /\ panel[o].cancelled => panel'[o].cancelled
        /\ run[w].pc = "closing" /\ run[w].outcome = "cancelled" /\ run[w].panel = o
             => panel'[o].cancelled
    BY WorkerPanels
  <2>2. EarlyAt(o)' <=> EarlyAt(o)
    BY <1>1 DEF EarlyAt, TypeOK
  <2>3. LatestSound(o, r)
    BY DEF LatestShown
  <2>4. CASE r # w
    BY <1>1, <1>2, <2>1, <2>2, <2>3, <2>4 DEF LatestSound
  <2>5. CASE r = w /\ run[w].pc = "command"
    <3>1. run'[w].pc \notin {"signalling", "posting", "exited"}
      BY <1>1, <2>5 DEF Follows
    <3>2. ~panel[o].busy => EarlyAt(o)
      BY <2>5 DEF WorkingSound, Working, EarlyAt, IsLatest
    <3> QED BY <2>1, <2>2, <2>5, <3>1, <3>2 DEF LatestSound
  <2>6. CASE r = w /\ run[w].pc # "command"
    BY <1>1, <2>1, <2>2, <2>3, <2>6 DEF LatestSound, Follows, IsLatest
  <2> QED BY <2>4, <2>5, <2>6
<1> QED BY <1>5, <1>6

(* The inductive invariant of the panels.                                  *)
PanelInv ==
  TypeOK /\ RunsSound /\ PanelsSound /\ StartedInOrder /\ WorkingSound /\ LatestShown

LEMMA PanelInvHolds == Spec => []PanelInv
<1>1. Init => PanelInv
  <2> SUFFICES ASSUME Init PROVE PanelInv
    OBVIOUS
  <2>1. Started = {}
    BY DEF Init, Started, NoRun
  <2>2. PanelsSound
    BY <2>1 DEF Init, PanelsSound, PanelSound, FreshPanel
  <2> QED BY <2>1, <2>2, InitSound DEF PanelInv, StartedInOrder, WorkingSound, LatestShown
<1>2. PanelInv /\ [Next]_vars => PanelInv'
  <2> SUFFICES ASSUME PanelInv, [Next]_vars PROVE PanelInv'
    OBVIOUS
  <2>1. WorkingSound' /\ LatestShown'
    BY NextSplit, LatestShownOnRun, LatestShownUi, LatestShownWorker DEF PanelInv
  <2> QED BY <2>1, StepSound, PanelsSoundStep, StartedInOrderStep DEF PanelInv
<1> QED BY <1>1, <1>2, PTL DEF Spec

(* For any number of panels and runs: a cancelled run is shown as          *)
(* cancelled, whichever completion signal the UI thread handles first,     *)
(* unless controls of the panel came back before a run was over; only its  *)
(* own progress can replace that, when it was ahead of the poll.           *)
THEOREM CancelledIsShown == Spec => []CancelShown
<1>1. PanelInv => CancelShown
  BY DEF PanelInv, LatestShown, LatestSound, EarlyAt, CancelShown
<1> QED BY <1>1, PanelInvHolds, PTL

(* A change of what the label of panel p shows.                            *)
ShowsOnce(p) ==
  <<panel'[p].tick, panel'[p].shown>> # <<panel[p].tick, panel[p].shown>> =>
    \/ panel'[p].busy # panel[p].busy
    \/ /\ events'[p] < events[p]
       /\ panel'[p].shown = "phase"
    \/ /\ panel[p].busy /\ ~cancelSet[p]
       /\ panel'[p].shown = "cancelling"
    \/ /\ ~panel[p].busy
       /\ panel[p].tick \/ panel[p].shown = "phase"
       /\ panel'[p].shown = "none"

LEMMA ShownOnceStep ==
  ASSUME PanelInv, [Next]_vars, NEW p \in Panels
  PROVE  ShowsOnce(p)
<1>0. /\ TypeOK /\ RunsSound /\ PanelsSound
      /\ panel[p].busy \in BOOLEAN /\ panel'[p].busy \in BOOLEAN
  <2>1. TypeOK /\ TypeOK' /\ RunsSound /\ PanelsSound
    BY StepSound DEF PanelInv
  <2> QED BY <2>1 DEF TypeOK, PanelType
<1>1. ASSUME panel'[p].tick = panel[p].tick, panel'[p].shown = panel[p].shown
      PROVE  ShowsOnce(p)
  BY <1>1 DEF ShowsOnce
<1>2. ASSUME NEW q \in Panels, OnRun(q)
      PROVE  ShowsOnce(p)
  BY <1>0, <1>1, <1>2 DEF OnRun, TypeOK, PanelType
<1>3. ASSUME NEW q \in Panels, ResetProgress(q)
      PROVE  ShowsOnce(p)
  <2>1. CASE p = q
    <3>1. panel[p].timer /\ panel'[p].shown = "none"
      BY <1>0, <1>3, <2>1 DEF ResetProgress, TypeOK, PanelType
    <3> QED BY <1>0, <3>1 DEF PanelsSound, PanelSound, ShowsOnce
  <2>2. CASE p # q
    BY <1>0, <1>1, <1>3, <2>2 DEF ResetProgress, TypeOK
  <2> QED BY <2>1, <2>2
<1>4. ASSUME NEW q \in Panels, OnCancel(q)
      PROVE  ShowsOnce(p)
  <2>1. CASE p = q
    <3>1. panel[p].busy /\ ~cancelSet[p] /\ panel'[p].shown = "cancelling"
      BY <1>0, <1>4, <2>1 DEF OnCancel, TypeOK, PanelType
    <3> QED BY <3>1 DEF ShowsOnce
  <2>2. CASE p # q
    BY <1>0, <1>1, <1>4, <2>2 DEF OnCancel, TypeOK
  <2> QED BY <2>1, <2>2
<1>5. ASSUME NEW q \in Panels, BeginPoll(q)
      PROVE  ShowsOnce(p)
  <2>1. CASE p = q /\ events[p] # 0
    <3>1. panel'[p].shown = "phase"
      BY <1>0, <1>5, <2>1 DEF BeginPoll, TypeOK, PanelType
    <3>2. events'[p] < events[p]
      BY <1>0, <1>5, <2>1, GuiAssumption DEF BeginPoll, TypeOK
    <3> QED BY <3>1, <3>2 DEF ShowsOnce
  <2>2. CASE ~(p = q /\ events[p] # 0)
    BY <1>0, <1>1, <1>5, <2>2 DEF BeginPoll, TypeOK
  <2> QED BY <2>1, <2>2
<1>6. ASSUME NEW u \in Panels, panel' = [panel EXCEPT ![u] = FinishWorker(@)],
             panel[u].busy \/ panel[u].handled
      PROVE  ShowsOnce(p)
  <2>1. panel[u] \in PanelType
    BY <1>0 DEF TypeOK
  <2>2. panel[u].busy => ~panel[u].handled
    BY <1>0 DEF PanelsSound, PanelSound
  <2>3. CASE p = u
    <3>1. panel'[p] = FinishWorker(panel[u])
      BY <1>0, <1>6, <2>3 DEF TypeOK
    <3> QED BY <1>0, <1>6, <2>1, <2>2, <2>3, <3>1, FinishWorkerEffect DEF ShowsOnce
  <2>4. CASE p # u
    BY <1>0, <1>1, <1>6, <2>4 DEF TypeOK
  <2> QED BY <2>3, <2>4
<1>7. ASSUME TakeMessage
      PROVE  ShowsOnce(p)
  <2>1. PICK u \in Panels : u = uiPanel /\ logQueue[u] # <<>>
    BY <1>0, <1>7 DEF TakeMessage, TypeOK
  <2>2. panel[u].busy \/ panel[u].handled
    BY <1>0, <2>1 DEF PanelsSound, PanelSound
  <2>3. CASE panel' = [panel EXCEPT ![uiPanel].failed = TRUE]
    BY <1>0, <1>1, <2>1, <2>3 DEF TypeOK, PanelType
  <2> QED BY <1>6, <1>7, <2>1, <2>2, <2>3 DEF TakeMessage
<1>8. ASSUME CheckFinished
      PROVE  ShowsOnce(p)
  <2>1. PICK u \in Panels : u = uiPanel
    BY <1>0, <1>8 DEF CheckFinished, TypeOK
  <2> QED BY <1>1, <1>6, <1>8, <2>1 DEF CheckFinished
<1>9. ASSUME NEW r \in Runs, Worker(r)
      PROVE  ShowsOnce(p)
  BY <1>0, <1>1, <1>9, WorkerPanels
<1>10. ASSUME UNCHANGED panel
      PROVE  ShowsOnce(p)
  BY <1>1, <1>10
<1> QED BY <1>2, <1>3, <1>4, <1>5, <1>7, <1>8, <1>9, <1>10, NextSplit
      DEF UiStep, vars, DrainEmpty, ReportProgress, uiVars

(* For any number of panels and runs: the label of a panel changes only    *)
(* when it becomes idle, by progress events that are taken off its queue,  *)
(* by a click on Cancel during a run, or when the timer clears a success;  *)
(* a second completion signal changes nothing.                             *)
THEOREM ResultIsShownOnce == Spec => ResultShownOnce
<1>1. PanelInv /\ [Next]_vars => [\A p \in Panels : ShowsOnce(p)]_vars
  BY ShownOnceStep
<1> QED BY <1>1, PanelInvHolds, PTL DEF Spec, ResultShownOnce, ShowsOnce
=============================================================================
