----------------------------- MODULE WikiRefresh -----------------------------
(***************************************************************************)
(* devdash wiki refresh as its user sees it: the discovery of the pages    *)
(* and their storing are the action of progress.Run, in the caller's       *)
(* goroutine, while the spinner's goroutine draws.  Refreshes follow each  *)
(* other on one terminal and against one site.                             *)
(***************************************************************************)
EXTENDS Progress, ConfluenceDiscover

VARIABLE
    stored    \* whether the pages of the last refresh are in the registry

refresh == <<runs, caller, outcome, spinner, tick, ticking, stop, stopped, writers, lines,
             site, edits, kept, removed, wrong, client, stored>>

Init == ProgressInit /\ DiscoverInit /\ stored = FALSE

Begin == Run /\ StartDiscovery /\ stored' = FALSE

(* What prepareRemote refuses (workspace, configuration, secret, login)    *)
(* fails before the first request.                                         *)
Discover ==
    /\ caller = "action"
    /\ DiscoveryStep
    /\ UNCHANGED <<progress, stored>>

(* UpsertDiscovered commits the pages.                                     *)
StorePages ==
    /\ caller = "action"
    /\ client.pc = "done" /\ ~stored
    /\ stored' = TRUE
    /\ UNCHANGED <<progress, discover>>

(* Run's action returns the error of the discovery, or of UpsertDiscovered.*)
Return ==
    /\ ActionEnds
    /\ \/ stored /\ outcome' = "returned"
       \/ client.pc \in {"failed", "done"} /\ ~stored /\ outcome' = "error"
    /\ UNCHANGED <<discover, stored>>

(* Run promises to restore the terminal also when its action panics.  Once *)
(* the pages are stored the action only returns.                           *)
Panic ==
    /\ ActionEnds
    /\ ~stored
    /\ outcome' = "panic"
    /\ client' = [client EXCEPT !.pc = "failed"]
    /\ UNCHANGED <<site, edits, kept, removed, wrong, stored>>

Display == (Report \/ Tick \/ Spinner) /\ UNCHANGED <<discover, stored>>

Authors == EditSite /\ UNCHANGED <<progress, stored>>

Next == Begin \/ Discover \/ StorePages \/ Return \/ Panic \/ Display \/ Authors

Spec == Init /\ [][Next]_refresh

(* The caller's goroutine goes on, since every request is answered or      *)
(* fails; so does the spinner's, which also leaves its loop, since nothing *)
(* feeds the ticker once it is stopped.                                    *)
FairSpec ==
    /\ Spec
    /\ WF_refresh(Discover \/ StorePages \/ Return)
    /\ WF_refresh(Report /\ UNCHANGED <<discover, stored>>)
    /\ WF_refresh(Spinner /\ UNCHANGED <<discover, stored>>)

-----------------------------------------------------------------------------
(* Properties. *)

(* The terminal, the goroutines, the site and the client have their types, *)
(* and two goroutines never write to the terminal at one time.             *)
DisplaySound ==
    ProgressTypeOK /\ DiscoverTypeOK /\ stored \in BOOLEAN /\ WritesExclusive

(* The last thing a refresh writes is what became of it, done exactly when *)
(* its pages are in the registry: a frame never covers it, not even when a *)
(* tick was waiting as the action ended, and no goroutine is left behind   *)
(* to draw into a later run.                                               *)
OutcomeStays ==
    /\ \A r \in 1 .. runs - 1 : lines[r] # "frame"
    /\ (caller \in {"idle", "panicking"} /\ runs > 0) =>
          /\ spinner = "none"
          /\ lines[runs] = IF stored THEN "done" ELSE "failed"

(* A refresh returns, or panics on, whatever the ticker does and however   *)
(* often the site promises more pages, as long as it does not go on        *)
(* forever reporting pages that are not there: nothing in the client       *)
(* bounds the number of its requests.                                      *)
RefreshEnds == caller = "action" ~> caller \in {"idle", "panicking"}
=============================================================================
