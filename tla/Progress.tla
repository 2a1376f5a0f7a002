------------------------------ MODULE Progress ------------------------------
(***************************************************************************)
(* progress.Run on a terminal: the caller's goroutine runs the action and  *)
(* then reports the outcome, while a second goroutine redraws a spinner at *)
(* every tick.  Both write to the terminal, a write takes a while, and the *)
(* only synchronisation is the closing of two channels.  One caller runs   *)
(* several actions in a row, up to MaxRuns, on one terminal.               *)
(***************************************************************************)
EXTENDS Naturals, Sequences

CONSTANTS
    MaxRuns    \* bound on the actions run in a row

ASSUME ProgressAssumption == MaxRuns \in Nat \ {0}

VARIABLES
    runs,      \* the runs begun
    caller,    \* where the caller's goroutine is
    outcome,   \* how the action ended
    spinner,   \* where the goroutine of the present run is
    tick,      \* whether a tick waits in the ticker's channel (capacity 1)
    ticking,   \* whether the ticker runs
    stop,      \* the closed channels
    stopped,
    writers,   \* the goroutines in the middle of a write
    lines      \* what the terminal shows of the runs: a frame or an outcome each

progress == <<runs, caller, outcome, spinner, tick, ticking, stop, stopped, writers, lines>>

Outcomes == {"returned", "error", "panic"}

Label(o) == IF o = "returned" THEN "done" ELSE "failed"

ProgressInit ==
    /\ runs = 0
    /\ caller = "idle"
    /\ outcome = "returned"
    /\ spinner = "none"
    /\ tick = FALSE /\ ticking = FALSE
    /\ stop = FALSE /\ stopped = FALSE
    /\ writers = {}
    /\ lines = <<>>

Redraw(text) == lines' = [lines EXCEPT ![runs] = text]

-----------------------------------------------------------------------------
(* The caller. *)

(* The first frame is written and the spinner started, before the action.  *)
Run ==
    /\ caller = "idle"
    /\ runs < MaxRuns
    /\ runs' = runs + 1
    /\ lines' = Append(lines, "frame")
    /\ ticking' = TRUE /\ tick' = FALSE
    /\ stop' = FALSE /\ stopped' = FALSE
    /\ spinner' = "select"
    /\ caller' = "action"
    /\ UNCHANGED <<outcome, writers>>

(* With any outcome, at any time.                                          *)
ActionEnds ==
    /\ caller = "action"
    /\ outcome' \in Outcomes
    /\ caller' = "deferred"
    /\ UNCHANGED <<runs, spinner, tick, ticking, stop, stopped, writers, lines>>

(* Fault: the caller does not wait for the goroutine.                      *)
StopUnwaited ==
    /\ caller = "deferred"
    /\ ticking' = FALSE
    /\ stop' = TRUE
    /\ stopped' = TRUE
    /\ caller' = "waiting"
    /\ UNCHANGED <<runs, outcome, spinner, tick, writers, lines>>

(* The deferred function: stop the ticker, close stop, wait for stopped,   *)
(* write the outcome.                                                      *)
StopSpinner ==
    /\ caller = "deferred"
    /\ ticking' = FALSE
    /\ stop' = TRUE
    /\ caller' = "waiting"
    /\ UNCHANGED <<runs, outcome, spinner, tick, stopped, writers, lines>>

(* Fault: the outcome is written while a frame may be.                     *)
BeginOutcomeAtOnce ==
    /\ caller = "waiting"
    /\ writers' = writers \cup {"caller"}
    /\ caller' = "reporting"
    /\ UNCHANGED <<runs, outcome, spinner, tick, ticking, stop, stopped, lines>>

BeginOutcome ==
    /\ caller = "waiting"
    /\ stopped
    /\ writers' = writers \cup {"caller"}
    /\ caller' = "reporting"
    /\ UNCHANGED <<runs, outcome, spinner, tick, ticking, stop, stopped, lines>>

EndOutcome ==
    /\ caller = "reporting"
    /\ Redraw(Label(outcome))
    /\ writers' = writers \ {"caller"}
    /\ caller' = IF outcome = "panic" THEN "panicking" ELSE "idle"
    /\ UNCHANGED <<runs, outcome, spinner, tick, ticking, stop, stopped>>

-----------------------------------------------------------------------------
(* The ticker and the spinner's goroutine.  When a tick waits and stop is  *)
(* closed, select takes either.                                            *)

Tick ==
    /\ ticking
    /\ tick' = TRUE
    /\ UNCHANGED <<runs, caller, outcome, spinner, ticking, stop, stopped, writers, lines>>

BeginFrame ==
    /\ spinner = "select"
    /\ tick
    /\ tick' = FALSE
    /\ writers' = writers \cup {"spinner"}
    /\ spinner' = "drawing"
    /\ UNCHANGED <<runs, caller, outcome, ticking, stop, stopped, lines>>

EndFrame ==
    /\ spinner = "drawing"
    /\ Redraw("frame")
    /\ writers' = writers \ {"spinner"}
    /\ spinner' = "select"
    /\ UNCHANGED <<runs, caller, outcome, tick, ticking, stop, stopped>>

(* The goroutine returns, and its deferred call closes stopped.            *)
SpinnerReturns ==
    /\ spinner = "select"
    /\ stop
    /\ stopped' = TRUE
    /\ spinner' = "none"
    /\ UNCHANGED <<runs, caller, outcome, tick, ticking, stop, writers, lines>>

Report == StopSpinner \/ BeginOutcome \/ EndOutcome

Spinner == BeginFrame \/ EndFrame \/ SpinnerReturns

-----------------------------------------------------------------------------
(* Properties. *)

(* The goroutines and the terminal have their types.                       *)
ProgressTypeOK ==
    /\ runs \in 0 .. MaxRuns
    /\ caller \in {"idle", "action", "deferred", "waiting", "reporting", "panicking"}
    /\ outcome \in Outcomes
    /\ spinner \in {"none", "select", "drawing"}
    /\ {tick, ticking, stop, stopped} \subseteq BOOLEAN
    /\ writers \subseteq {"caller", "spinner"}
    /\ lines \in Seq({"frame", "done", "failed"})

(* Two goroutines never write to the terminal at one time.                 *)
WritesExclusive == writers # {"caller", "spinner"}
=============================================================================
