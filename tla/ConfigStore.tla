---------------------------- MODULE ConfigStore ----------------------------
(***************************************************************************)
(* What the configuration of workspaces promises: every command, the save  *)
(* of an edited file among them, is one step.  An edit that was saved and  *)
(* is not yet applied is pending; when it is applied the user's entries    *)
(* are exactly the saved ones at that moment, and no internal entry moves. *)
(***************************************************************************)
CONSTANTS WorkspaceIds, WorkspaceNames, UserKeys, InternalKeys, Values, Editors, NULL

VARIABLES
    names,     \* the name of each workspace, NULL when it does not exist
    issued,    \* the workspace IDs ever used
    entries,   \* the entries of each workspace
    pending    \* the saved edits: the workspace and its future user entries

Keys == UserKeys \cup InternalKeys

None == [k \in Keys |-> NULL]

Init ==
    /\ names = [w \in WorkspaceIds |-> NULL]
    /\ issued = {}
    /\ entries = [w \in WorkspaceIds |-> None]
    /\ pending = [e \in Editors |-> NULL]

Add(w, name) ==
    /\ w \notin issued
    /\ \A v \in WorkspaceIds : names[v] # name
    /\ names' = [names EXCEPT ![w] = name]
    /\ issued' = issued \cup {w}
    /\ UNCHANGED <<entries, pending>>

Remove(w) ==
    /\ names[w] # NULL
    /\ names' = [names EXCEPT ![w] = NULL]
    /\ entries' = [entries EXCEPT ![w] = None]
    /\ UNCHANGED <<issued, pending>>

Set(w, k, value) ==
    /\ names[w] # NULL
    /\ entries' = [entries EXCEPT ![w][k] = value]
    /\ UNCHANGED <<names, issued, pending>>

(* Only entries of the user are unset.                                     *)
Unset(w, k) ==
    /\ entries[w][k] # NULL
    /\ entries' = [entries EXCEPT ![w][k] = NULL]
    /\ UNCHANGED <<names, issued, pending>>

Save(e, w, desired) ==
    /\ pending[e] = NULL
    /\ names[w] # NULL
    /\ pending' = [pending EXCEPT ![e] = [workspace |-> w, desired |-> desired]]
    /\ UNCHANGED <<names, issued, entries>>

Drop(e) ==
    /\ pending' = [pending EXCEPT ![e] = NULL]
    /\ UNCHANGED <<names, issued, entries>>

(* A workspace that is gone takes no entries.                              *)
Apply(e) ==
    /\ pending[e] # NULL
    /\ LET w == pending[e].workspace
           desired == pending[e].desired
       IN  /\ names[w] # NULL \/ \A k \in UserKeys : desired[k] = NULL
           /\ entries' = [entries EXCEPT ![w] =
                [k \in Keys |-> IF k \in UserKeys THEN desired[k] ELSE @[k]]]
    /\ pending' = [pending EXCEPT ![e] = NULL]
    /\ UNCHANGED <<names, issued>>

Next ==
    \/ \E w \in WorkspaceIds :
        \/ \E name \in WorkspaceNames : Add(w, name)
        \/ Remove(w)
        \/ \E k \in Keys, value \in Values : Set(w, k, value)
        \/ \E k \in UserKeys : Unset(w, k)
        \/ \E e \in Editors, desired \in [UserKeys -> Values \cup {NULL}] : Save(e, w, desired)
    \/ \E e \in Editors : Drop(e) \/ Apply(e)

Spec == Init /\ [][Next]_<<names, issued, entries, pending>>
=============================================================================
