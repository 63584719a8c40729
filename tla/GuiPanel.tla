------------------------------ MODULE GuiPanel ------------------------------
(***************************************************************************)
(* The panels of the desktop GUI (mkpfs/gui/panels/base.py).  One UI       *)
(* thread handles clicks and polls each panel's log queue; every Run click *)
(* starts a worker thread that executes the command line in-process, with  *)
(* builtins.input and sys.stdout replaced for the whole interpreter.  The  *)
(* panels exist all at once and can be busy at the same time.              *)
(***************************************************************************)
EXTENDS Naturals, Sequences

CONSTANTS
  Panels,
  MaxRuns,           \* bound: Run clicks over all panels
  MaxEvents,         \* bound: progress events waiting in a panel
  MaxEventsPerPoll   \* _max_progress_events_per_poll

ASSUME GuiAssumption ==
  /\ MaxRuns \in Nat /\ Panels # {} /\ "none" \notin Panels
  /\ MaxEvents \in Nat /\ MaxEventsPerPoll \in Nat \ {0}

Runs == 1..MaxRuns

(* What builtins.input and sys.stdout can be: a run's replacement, or the  *)
(* interpreter's own.  Unset is a local variable that is not bound yet.    *)
Real == 0
Unset == MaxRuns + 1

VARIABLES
  uiAt,        \* the UI thread: "idle", or inside _poll_log_queue
  uiPanel,     \* the panel being polled, if any
  panel,       \* the widgets and flags of each panel
  cancelSet,   \* _cancel_event of each panel
  finished,    \* _worker_finished of each panel
  logQueue,    \* _log_queue of each panel; lines without an effect are left out
  events,      \* how many events wait in _progress_queue of each panel
  run,         \* one record per Run click: its worker thread
  input,       \* builtins.input: the run whose lambda is installed, or Real
  stdout,      \* sys.stdout, likewise
  early,       \* history: runs whose controls came back before they finished
  behind,      \* history: panels whose controls last came back with events waiting
  overlapped   \* history: two runs had input or stdout replaced at once

vars == <<uiAt, uiPanel, panel, cancelSet, finished, logQueue, events, run,
          input, stdout, early, behind, overlapped>>

workerVars == <<run, input, stdout, overlapped>>
uiVars == <<uiAt, uiPanel, panel, early, behind>>

NoRun == [panel |-> "none", pc |-> "none", outcome |-> "none",
          savedInput |-> Unset, savedStdout |-> Unset]

(* shown and tick are the text of the phase label: "phase" stands for what *)
(* a progress event has written there, and "ok", for tr("ok").             *)
FreshPanel == [busy |-> FALSE, failed |-> FALSE, cancelled |-> FALSE,
               handled |-> FALSE, timer |-> FALSE,
               shown |-> "none", tick |-> FALSE]

Init ==
  /\ uiAt = "idle"
  /\ uiPanel = "none"
  /\ panel = [p \in Panels |-> FreshPanel]
  /\ cancelSet = [p \in Panels |-> FALSE]
  /\ finished = [p \in Panels |-> FALSE]
  /\ logQueue = [p \in Panels |-> <<>>]
  /\ run = [r \in Runs |-> NoRun]
  /\ input = Real
  /\ stdout = Real
  /\ events = [p \in Panels |-> 0]
  /\ early = {}
  /\ behind = {}
  /\ overlapped = FALSE

Started == {r \in Runs : run[r].pc # "none"}

(* The worker has not yet passed _worker_finished.set().                   *)
Working(r) == run[r].pc \notin {"none", "posting", "exited"}

(* Between reading builtins.input and writing it back.                     *)
Patching(r) == run[r].pc \in {"saved", "patched", "command", "blocked",
                              "leaving", "unpatching"}

IsLatest(r, p) ==
  /\ run[r].panel = p
  /\ \A q \in Started : run[q].panel = p => q <= r

-----------------------------------------------------------------------------
(* The UI thread                                                           *)

(* Mutant: _completion_handled keeps its value from the run before.        *)
OnRunStaleHandled(p) ==
  /\ uiAt = "idle"
  /\ ~panel[p].busy
  /\ \E r \in Runs :
       /\ run[r].pc = "none"
       /\ \A q \in Runs : q < r => run[q].pc # "none"
       /\ run' = [run EXCEPT ![r] = [NoRun EXCEPT !.panel = p, !.pc = "spawned"]]
  /\ panel' = [panel EXCEPT ![p].busy = TRUE, ![p].failed = FALSE,
                            ![p].cancelled = FALSE, ![p].timer = FALSE]
  /\ cancelSet' = [cancelSet EXCEPT ![p] = FALSE]
  /\ finished' = [finished EXCEPT ![p] = FALSE]
  /\ UNCHANGED <<uiAt, uiPanel, logQueue, events, input, stdout, early, behind,
                 overlapped>>

(* _on_run: the next number names the run.  Neither the phase label nor    *)
(* the progress queue is cleared.                                          *)
OnRun(p) ==
  /\ uiAt = "idle"
  /\ ~panel[p].busy
  /\ \E r \in Runs :
       /\ run[r].pc = "none"
       /\ \A q \in Runs : q < r => run[q].pc # "none"
       /\ run' = [run EXCEPT ![r] = [NoRun EXCEPT !.panel = p, !.pc = "spawned"]]
  /\ panel' = [panel EXCEPT ![p].busy = TRUE, ![p].failed = FALSE,
                            ![p].cancelled = FALSE, ![p].timer = FALSE,
                            ![p].handled = FALSE]
  /\ cancelSet' = [cancelSet EXCEPT ![p] = FALSE]
  /\ finished' = [finished EXCEPT ![p] = FALSE]
  /\ UNCHANGED <<uiAt, uiPanel, logQueue, events, input, stdout, early, behind,
                 overlapped>>

OnCancel(p) ==
  /\ uiAt = "idle"
  /\ panel[p].busy
  /\ ~cancelSet[p]
  /\ cancelSet' = [cancelSet EXCEPT ![p] = TRUE]
  /\ panel' = [panel EXCEPT ![p].shown = "cancelling", ![p].tick = FALSE]
  /\ UNCHANGED <<uiAt, uiPanel, finished, logQueue, events, early, behind, workerVars>>

Succeeded(s) == ~s.cancelled /\ ~s.failed

(* What the label says of a run that is over: a success puts its tick in   *)
(* front of whatever stands there.                                         *)
Verdict(s) ==
  IF s.cancelled THEN "cancelled"
  ELSE IF s.failed THEN "none"
  ELSE IF s.shown = "none" THEN "ok" ELSE s.shown

(* Mutant: _finish_worker without its _completion_handled guard.           *)
FinishWorkerAgain(s) ==
  [s EXCEPT !.handled = TRUE, !.busy = FALSE, !.shown = Verdict(s),
            !.tick = Succeeded(s), !.timer = Succeeded(s)]

(* _finish_worker; a success also starts the timer of the progress reset.  *)
FinishWorker(s) ==
  IF s.handled THEN s
  ELSE [s EXCEPT !.handled = TRUE, !.busy = FALSE, !.shown = Verdict(s),
                 !.tick = Succeeded(s), !.timer = Succeeded(s)]

(* What restoring the controls of p adds to the history.                   *)
RestoredEarly(p) ==
  IF panel[p].handled THEN {}
  ELSE {r \in Started : IsLatest(r, p) /\ Working(r)}

RestoredBehind(p) ==
  IF panel[p].handled THEN behind
  ELSE IF events[p] = 0 THEN behind \ {p} ELSE behind \cup {p}

(* _drain_progress_events, first in every poll: the newest of the events   *)
(* taken is written into the label, whether or not a run is going on.      *)
BeginPoll(p) ==
  /\ uiAt = "idle"
  /\ uiAt' = "drain"
  /\ uiPanel' = p
  /\ events' = [events EXCEPT ![p] = IF @ <= MaxEventsPerPoll THEN 0
                                     ELSE @ - MaxEventsPerPoll]
  /\ panel' = IF events[p] = 0 THEN panel
              ELSE [panel EXCEPT ![p].shown = "phase", ![p].tick = FALSE]
  /\ UNCHANGED <<cancelSet, finished, logQueue, early, behind, workerVars>>

(* One turn of the drain loop.                                             *)
TakeMessage ==
  /\ uiAt = "drain"
  /\ logQueue[uiPanel] # <<>>
  /\ logQueue' = [logQueue EXCEPT ![uiPanel] = Tail(@)]
  /\ \/ /\ Head(logQueue[uiPanel]) = "error"
        /\ panel' = [panel EXCEPT ![uiPanel].failed = TRUE]
        /\ UNCHANGED <<early, behind>>
     \/ /\ Head(logQueue[uiPanel]) = "done"
        /\ panel' = [panel EXCEPT ![uiPanel] = FinishWorker(@)]
        /\ early' = early \cup RestoredEarly(uiPanel)
        /\ behind' = RestoredBehind(uiPanel)
  /\ UNCHANGED <<uiAt, uiPanel, cancelSet, finished, events, workerVars>>

DrainEmpty ==
  /\ uiAt = "drain"
  /\ logQueue[uiPanel] = <<>>
  /\ uiAt' = "check"
  /\ UNCHANGED <<uiPanel, panel, cancelSet, finished, logQueue, events, early, behind,
                 workerVars>>

(* if self._busy and self._worker_finished.is_set(): the worker may have   *)
(* put messages since the queue was found empty.                           *)
CheckFinished ==
  /\ uiAt = "check"
  /\ uiAt' = "idle"
  /\ uiPanel' = "none"
  /\ IF panel[uiPanel].busy /\ finished[uiPanel]
     THEN /\ panel' = [panel EXCEPT ![uiPanel] = FinishWorker(@)]
          /\ early' = early \cup RestoredEarly(uiPanel)
          /\ behind' = RestoredBehind(uiPanel)
     ELSE UNCHANGED <<panel, early, behind>>
  /\ UNCHANGED <<cancelSet, finished, logQueue, events, workerVars>>

(* _reset_progress, three seconds after a success.                         *)
ResetProgress(p) ==
  /\ uiAt = "idle"
  /\ panel[p].timer
  /\ panel' = [panel EXCEPT ![p].timer = FALSE, ![p].shown = "none", ![p].tick = FALSE]
  /\ UNCHANGED <<uiAt, uiPanel, cancelSet, finished, logQueue, events, early, behind,
                 workerVars>>

-----------------------------------------------------------------------------
(* The worker threads                                                      *)

Step(r, from, to) ==
  /\ run[r].pc = from
  /\ run' = [run EXCEPT ![r].pc = to]

(* original_input = builtins.input                                         *)
SaveInput(r) ==
  /\ run[r].pc = "spawned"
  /\ run' = [run EXCEPT ![r].pc = "saved", ![r].savedInput = input]
  /\ overlapped' = (overlapped \/ \E q \in Runs \ {r} : Patching(q))
  /\ UNCHANGED <<uiVars, cancelSet, finished, logQueue, events, input, stdout>>

PatchInput(r) ==
  /\ Step(r, "saved", "patched")
  /\ input' = r
  /\ UNCHANGED <<uiVars, cancelSet, finished, logQueue, events, stdout, overlapped>>

EnterRedirect(r) ==
  /\ run[r].pc = "patched"
  /\ run' = [run EXCEPT ![r].pc = "command", ![r].savedStdout = stdout]
  /\ stdout' = r
  /\ UNCHANGED <<uiVars, cancelSet, finished, logQueue, events, input, overlapped>>

(* prompt_overwrite calls whatever builtins.input is at that moment.       *)
AskOverwrite(r) ==
  /\ input = Real
  /\ Step(r, "command", "blocked")
  /\ UNCHANGED <<uiVars, cancelSet, finished, logQueue, events, input, stdout, overlapped>>

(* The command prints an error line: the _Streamer that is installed puts  *)
(* it into the queue of its own panel.                                     *)
PrintError(r) ==
  /\ run[r].pc = "command"
  /\ run[r].outcome = "none"
  /\ run' = [run EXCEPT ![r].outcome = "failed"]
  /\ logQueue' = IF stdout = Real THEN logQueue
                 ELSE [logQueue EXCEPT ![run[stdout].panel] = Append(@, "error")]
  /\ UNCHANGED <<uiVars, cancelSet, finished, events, input, stdout, overlapped>>

(* Progress.step or status hands an event to the listener of its panel.    *)
ReportProgress(r) ==
  /\ run[r].pc = "command"
  /\ ~cancelSet[run[r].panel]
  /\ events[run[r].panel] < MaxEvents
  /\ events' = [events EXCEPT ![run[r].panel] = @ + 1]
  /\ UNCHANGED <<uiVars, cancelSet, finished, logQueue, workerVars>>

(* Progress.step or status finds the panel's cancel event set and raises.  *)
CancelPoint(r) ==
  /\ run[r].pc = "command"
  /\ cancelSet[run[r].panel]
  /\ run' = [run EXCEPT ![r].pc = "leaving", ![r].outcome = "cancelled"]
  /\ UNCHANGED <<uiVars, cancelSet, finished, logQueue, events, input, stdout, overlapped>>

(* cli_mkpfs_main returns.                                                 *)
EndCommand(r) ==
  /\ run[r].pc = "command"
  /\ run' = [run EXCEPT ![r].pc = "leaving",
                        ![r].outcome = IF @ = "none" THEN "ok" ELSE @]
  /\ UNCHANGED <<uiVars, cancelSet, finished, logQueue, events, input, stdout, overlapped>>

ExitRedirect(r) ==
  /\ Step(r, "leaving", "unpatching")
  /\ stdout' = run[r].savedStdout
  /\ UNCHANGED <<uiVars, cancelSet, finished, logQueue, events, input, overlapped>>

(* Mutant: input() is put back after a return but not after a cancel.      *)
RestoreInputOnReturn(r) ==
  /\ Step(r, "unpatching", "closing")
  /\ input' = IF run[r].outcome = "cancelled" THEN input ELSE run[r].savedInput
  /\ UNCHANGED <<uiVars, cancelSet, finished, logQueue, events, stdout, overlapped>>

(* builtins.input = original_input, in the finally clause.                 *)
RestoreInput(r) ==
  /\ Step(r, "unpatching", "closing")
  /\ input' = run[r].savedInput
  /\ UNCHANGED <<uiVars, cancelSet, finished, logQueue, events, stdout, overlapped>>

(* Mutant: a cancellation is only logged, not recorded in the panel.       *)
ReportOutcomeUnflagged(r) ==
  /\ Step(r, "closing", "signalling")
  /\ logQueue' = IF run[r].outcome = "failed"
                 THEN [logQueue EXCEPT ![run[r].panel] = Append(@, "error")]
                 ELSE logQueue
  /\ UNCHANGED <<uiVars, cancelSet, finished, events, input, stdout, overlapped>>

(* The non-zero exit code is queued as an error, a cancellation is written *)
(* straight into the panel.                                                *)
ReportOutcome(r) ==
  LET p == run[r].panel IN
  /\ Step(r, "closing", "signalling")
  /\ panel' = IF run[r].outcome = "cancelled"
              THEN [panel EXCEPT ![p].cancelled = TRUE] ELSE panel
  /\ logQueue' = IF run[r].outcome = "failed"
                 THEN [logQueue EXCEPT ![p] = Append(@, "error")] ELSE logQueue
  /\ UNCHANGED <<uiAt, uiPanel, cancelSet, finished, events, input, stdout, early, behind,
                 overlapped>>

SetFinished(r) ==
  /\ Step(r, "signalling", "posting")
  /\ finished' = [finished EXCEPT ![run[r].panel] = TRUE]
  /\ UNCHANGED <<uiVars, cancelSet, logQueue, events, input, stdout, overlapped>>

PostDone(r) ==
  /\ Step(r, "posting", "exited")
  /\ logQueue' = [logQueue EXCEPT ![run[r].panel] = Append(@, "done")]
  /\ UNCHANGED <<uiVars, cancelSet, finished, events, input, stdout, overlapped>>

Worker(r) ==
  \/ SaveInput(r) \/ PatchInput(r) \/ EnterRedirect(r)
  \/ AskOverwrite(r) \/ PrintError(r) \/ CancelPoint(r) \/ EndCommand(r)
  \/ ExitRedirect(r) \/ RestoreInput(r)
  \/ ReportOutcome(r) \/ SetFinished(r) \/ PostDone(r)

Next ==
  \/ \E p \in Panels : OnRun(p) \/ OnCancel(p) \/ BeginPoll(p) \/ ResetProgress(p)
  \/ TakeMessage \/ DrainEmpty \/ CheckFinished
  \/ \E r \in Runs : Worker(r) \/ ReportProgress(r)

(* Tk reschedules every panel's poll after 80 ms and its event loop gets   *)
(* back to it; a thread that can move moves, and a command ends, however   *)
(* often it reports its progress before.                                   *)
Fairness ==
  /\ \A p \in Panels : SF_vars(BeginPoll(p))
  /\ WF_vars(TakeMessage \/ DrainEmpty \/ CheckFinished)
  /\ \A r \in Runs : WF_vars(Worker(r))

Spec == Init /\ [][Next]_vars /\ Fairness

-----------------------------------------------------------------------------
(* Properties                                                              *)

(* What stands in the label when the controls came back stays there, the   *)
(* second completion signal and late log messages change nothing: only     *)
(* progress events that still wait replace it, and the timer of a success  *)
(* clears it, but never while a run is going on or after one that was      *)
(* cancelled.                                                              *)
ResultShownOnce ==
  [][\A p \in Panels :
       <<panel'[p].tick, panel'[p].shown>> # <<panel[p].tick, panel[p].shown>> =>
         \/ panel'[p].busy # panel[p].busy
         \/ /\ events'[p] < events[p]
            /\ panel'[p].shown = "phase"
         \/ /\ panel[p].busy /\ ~cancelSet[p]
            /\ panel'[p].shown = "cancelling"
         \/ /\ ~panel[p].busy
            /\ panel[p].tick \/ panel[p].shown = "phase"
            /\ panel'[p].shown = "none"]_vars

(* A cancelled run is shown as cancelled, whichever of the two completion  *)
(* signals the UI thread sees first: _cancelled is written before both.    *)
(* What can replace it is the progress of the run itself, if it was ahead  *)
(* of the poll when the controls came back: no event comes after that.     *)
CancelShown ==
  \A p \in Panels, r \in Started :
    /\ IsLatest(r, p)
    /\ \A q \in early : run[q].panel # p
    /\ run[r].outcome = "cancelled" /\ ~panel[p].busy
    => /\ ~panel[p].tick
       /\ \/ panel[p].shown = "cancelled"
          \/ panel[p].shown = "phase" /\ p \in behind

(* As long as no two runs had the interpreter's globals replaced at once,  *)
(* every run answers its own prompts, hears its own output, and leaves     *)
(* input() and stdout as they were, however it ends.                       *)
GlobalsOwned ==
  ~overlapped =>
    /\ \A r \in Runs : run[r].pc = "command" => input = r /\ stdout = r
    /\ (\A r \in Runs : ~Patching(r)) => input = Real /\ stdout = Real

WaitsOnStdin(p) == \E r \in Runs : run[r].panel = p /\ run[r].pc = "blocked"

(* A busy panel becomes usable again, unless its worker waits for an       *)
(* answer on the terminal.                                                 *)
ControlsComeBack ==
  \A p \in Panels : panel[p].busy ~> (~panel[p].busy \/ WaitsOnStdin(p))

=============================================================================
