-------------------------- MODULE WorkspaceConfig --------------------------
(***************************************************************************)
(* The configuration of workspaces: single entries are set and unset by    *)
(* one statement each; config edit shows the user's entries in an editor   *)
(* and replaces them by what the user saved, in a transaction that reads   *)
(* the existing keys before it writes.  Such a transaction holds no lock   *)
(* while it only read: SQLite refuses its first write when another command *)
(* committed in between.  Entries of a reserved namespace are internal.    *)
(***************************************************************************)
CONSTANTS
    WorkspaceIds,   \* never generated twice
    WorkspaceNames,
    UserKeys,       \* namespace.key of the entries users edit
    InternalKeys,   \* entries whose namespace begins with "_"
    Values,
    Editors,        \* the config edit commands that may run at one time
    NULL

Keys == UserKeys \cup InternalKeys

ASSUME ConfigAssumption ==
    /\ UserKeys \cap InternalKeys = {}
    /\ WorkspaceIds \cap WorkspaceNames = {}
    /\ NULL \notin WorkspaceIds \cup WorkspaceNames \cup Values

VARIABLES
    names,    \* the name of each workspace, NULL when it does not exist
    issued,   \* the workspace IDs ever used
    config,   \* the entries of each workspace
    editor    \* the running edits

configVars == <<names, issued, config, editor>>

Entries == [Keys -> Values \cup {NULL}]
NoEntries == [k \in Keys |-> NULL]

Edit == [pc : {"editing", "saved", "replacing"},
         identifier : WorkspaceIds \cup WorkspaceNames,
         workspace : WorkspaceIds \cup {NULL},
         desired : [UserKeys -> Values \cup {NULL}],   \* the saved file
         existing : SUBSET Keys,                       \* read by the transaction
         stale : BOOLEAN]                              \* others committed since

ASSUME EditAssumption == NULL \notin Edit

(* NULL is no saved edit either.                                           *)
ASSUME PendingAssumption ==
    NULL \notin [workspace : WorkspaceIds, desired : [UserKeys -> Values \cup {NULL}]]

EditAt(e, pc) == editor[e] # NULL /\ editor[e].pc = pc

Live(w) == names[w] # NULL

(* An identifier is an ID before it is a name.                             *)
Resolve(identifier) ==
    IF identifier \in WorkspaceIds /\ Live(identifier)
    THEN identifier
    ELSE IF \E w \in WorkspaceIds : names[w] = identifier
         THEN CHOOSE w \in WorkspaceIds : names[w] = identifier
         ELSE NULL

ConfigInit ==
    /\ names = [w \in WorkspaceIds |-> NULL]
    /\ issued = {}
    /\ config = [w \in WorkspaceIds |-> NoEntries]
    /\ editor = [e \in Editors |-> NULL]

(* A commit makes every other read snapshot unfit for writing.             *)
InvalidateSnapshots ==
    editor' = [e \in Editors |->
        IF EditAt(e, "replacing") THEN [editor[e] EXCEPT !.stale = TRUE] ELSE editor[e]]

-----------------------------------------------------------------------------
AddWorkspace(w, name) ==
    /\ w \notin issued
    /\ \A v \in WorkspaceIds : names[v] # name
    /\ names' = [names EXCEPT ![w] = name]
    /\ issued' = issued \cup {w}
    /\ InvalidateSnapshots
    /\ UNCHANGED config

RemoveWorkspace(w) ==
    /\ Live(w)
    /\ names' = [names EXCEPT ![w] = NULL]
    /\ config' = [config EXCEPT ![w] = NoEntries]
    /\ InvalidateSnapshots
    /\ UNCHANGED issued

(* Fault: no foreign key.                                                  *)
SetEntryUnchecked(w, k, value) ==
    /\ config' = [config EXCEPT ![w][k] = value]
    /\ InvalidateSnapshots
    /\ UNCHANGED <<names, issued>>

(* The upsert of one entry.  The workspace was resolved before: it may be  *)
(* gone, and the foreign key refuses the row.                              *)
SetEntry(w, k, value) ==
    /\ Live(w)
    /\ config' = [config EXCEPT ![w][k] = value]
    /\ InvalidateSnapshots
    /\ UNCHANGED <<names, issued>>

SetUser(w, k, value) == k \in UserKeys /\ SetEntry(w, k, value)

SetInternal(w, k, value) == k \in InternalKeys /\ SetEntry(w, k, value)

(* Unsetting an entry that is not there is an error.                       *)
UnsetUser(w, k) ==
    /\ k \in UserKeys
    /\ config[w][k] # NULL
    /\ config' = [config EXCEPT ![w][k] = NULL]
    /\ InvalidateSnapshots
    /\ UNCHANGED <<names, issued>>

-----------------------------------------------------------------------------
(* config edit *)

OpenEditor(e, identifier) ==
    /\ editor[e] = NULL
    /\ Resolve(identifier) # NULL
    /\ editor' = [editor EXCEPT ![e] =
         [pc |-> "editing", identifier |-> identifier, workspace |-> NULL,
          desired |-> [k \in UserKeys |-> config[Resolve(identifier)][k]],
          existing |-> {}, stale |-> FALSE]]
    /\ UNCHANGED <<names, issued, config>>

(* The user saves the file, which parses and has no reserved key, and the  *)
(* identifier is resolved again.                                           *)
SaveFile(e, desired) ==
    /\ EditAt(e, "editing")
    /\ Resolve(editor[e].identifier) # NULL
    /\ editor' = [editor EXCEPT ![e].pc = "saved", ![e].desired = desired,
                                ![e].workspace = Resolve(editor[e].identifier)]
    /\ UNCHANGED <<names, issued, config>>

(* The transaction of ReplaceUser lists the user's keys.                   *)
ReadKeys(e) ==
    /\ EditAt(e, "saved")
    /\ editor' = [editor EXCEPT ![e].pc = "replacing",
         ![e].existing = {k \in UserKeys : config[editor[e].workspace][k] # NULL}]
    /\ UNCHANGED <<names, issued, config>>

(* No entry was saved and none is to delete: the transaction has no writes.*)
NothingToWrite(e) ==
    editor[e].existing = {} /\ \A k \in UserKeys : editor[e].desired[k] = NULL

(* Fault: the writes are not tied to the snapshot that was read.           *)
CommitReplaceStale(e) ==
    /\ EditAt(e, "replacing")
    /\ LET w == editor[e].workspace
           desired == editor[e].desired
           saved == {k \in UserKeys : desired[k] # NULL}
       IN  /\ Live(w) \/ saved = {}
           /\ config' = [config EXCEPT ![w] = [k \in Keys |->
                IF k \in saved THEN desired[k]
                ELSE IF k \in editor[e].existing THEN NULL ELSE @[k]]]
    /\ editor' = [editor EXCEPT ![e] = NULL]
    /\ UNCHANGED <<names, issued>>

(* It upserts every saved entry, deletes the others of those keys, and     *)
(* commits; with nothing saved there is no foreign key to break.           *)
CommitReplace(e) ==
    /\ EditAt(e, "replacing")
    /\ ~editor[e].stale /\ ~NothingToWrite(e)
    /\ LET w == editor[e].workspace
           desired == editor[e].desired
           saved == {k \in UserKeys : desired[k] # NULL}
       IN  /\ Live(w) \/ saved = {}
           /\ config' = [config EXCEPT ![w] = [k \in Keys |->
                IF k \in saved THEN desired[k]
                ELSE IF k \in editor[e].existing THEN NULL ELSE @[k]]]
    /\ editor' = [f \in Editors |->
         IF f = e THEN NULL
         ELSE IF EditAt(f, "replacing") THEN [editor[f] EXCEPT !.stale = TRUE] ELSE editor[f]]
    /\ UNCHANGED <<names, issued>>

(* Without a write even a stale transaction commits.                       *)
CommitNothing(e) ==
    /\ EditAt(e, "replacing")
    /\ NothingToWrite(e)
    /\ editor' = [editor EXCEPT ![e] = NULL]
    /\ UNCHANGED <<names, issued, config>>

(* The editor or the parser fails, the workspace is gone, the snapshot is  *)
(* stale, the transaction rolls back, the process dies.                    *)
FailEdit(e) ==
    /\ editor[e] # NULL
    /\ editor' = [editor EXCEPT ![e] = NULL]
    /\ UNCHANGED <<names, issued, config>>

-----------------------------------------------------------------------------
ConfigCommand ==
    \E w \in WorkspaceIds :
        \/ \E name \in WorkspaceNames : AddWorkspace(w, name)
        \/ RemoveWorkspace(w)
        \/ \E k \in Keys, value \in Values : SetUser(w, k, value) \/ SetInternal(w, k, value)
        \/ \E k \in Keys : UnsetUser(w, k)

EditCommand ==
    \E e \in Editors :
        \/ \E identifier \in WorkspaceIds \cup WorkspaceNames : OpenEditor(e, identifier)
        \/ \E desired \in [UserKeys -> Values \cup {NULL}] : SaveFile(e, desired)
        \/ ReadKeys(e) \/ CommitReplace(e) \/ CommitNothing(e) \/ FailEdit(e)

ConfigNext == ConfigCommand \/ EditCommand

ConfigSpec == ConfigInit /\ [][ConfigNext]_configVars

-----------------------------------------------------------------------------
(* Properties. *)

(* The tables and the running edits have their types.                      *)
ConfigTypeOK ==
    /\ names \in [WorkspaceIds -> WorkspaceNames \cup {NULL}]
    /\ issued \subseteq WorkspaceIds
    /\ config \in [WorkspaceIds -> Entries]
    /\ editor \in [Editors -> Edit \cup {NULL}]

(* Entries belong to a workspace that exists, even when it was removed     *)
(* while a command or an editor was about to write them.                   *)
EntriesHaveWorkspace ==
    /\ ConfigTypeOK
    /\ \A w \in WorkspaceIds : config[w] # NoEntries => Live(w)

(* An edit that was saved and neither applied nor given up.  One that      *)
(* writes nothing is applied when it reads that nothing is to be written.  *)
PendingEdits ==
    [e \in Editors |->
        IF EditAt(e, "saved") \/ (EditAt(e, "replacing") /\ ~NothingToWrite(e))
        THEN [workspace |-> editor[e].workspace, desired |-> editor[e].desired]
        ELSE NULL]

(* The configuration is as if every command were one step: an edit that is *)
(* applied leaves exactly the saved entries of the user, whatever other    *)
(* commands stored between the read and the writes of its transaction, and *)
(* no internal entry is ever taken away while its workspace lives.         *)
Store == INSTANCE ConfigStore WITH entries <- config, pending <- PendingEdits

StoreSpec == Store!Spec
=============================================================================
