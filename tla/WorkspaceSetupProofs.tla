------------------------ MODULE WorkspaceSetupProofs ------------------------
(***************************************************************************)
(* The configuration for any number of workspaces, keys and editors: types,*)
(* entries only of workspaces that exist, and edits that are as good as    *)
(* one step.  And guided setup for any number of workspaces, secrets,      *)
(* hosts and owners: what a setup stores and in which order is proved for  *)
(* any number of setups at one time; that the stored configuration is the  *)
(* chosen one when a setup is done, for one setup at a time.               *)
(***************************************************************************)
EXTENDS WorkspaceCheck, SequenceTheorems, TLAPS

-----------------------------------------------------------------------------
(* The configuration. *)

(* A transaction whose snapshot is still the committed state knows the     *)
(* keys it will delete: every commit of another command makes it stale.    *)
SnapshotsCurrent ==
    \A e \in Editors : (EditAt(e, "replacing") /\ ~editor[e].stale) =>
        editor[e].existing = {k \in UserKeys : config[editor[e].workspace][k] # NULL}

(* A saved edit knows its workspace.                                       *)
SavedEditsResolved ==
    \A e \in Editors :
        (EditAt(e, "saved") \/ EditAt(e, "replacing")) => editor[e].workspace \in WorkspaceIds

Inv == EntriesHaveWorkspace /\ SnapshotsCurrent /\ SavedEditsResolved

-----------------------------------------------------------------------------
(* An identifier that resolves leads to a workspace that exists.           *)
LEMMA ResolveLive ==
    ASSUME NEW identifier \in WorkspaceIds \cup WorkspaceNames,
           Resolve(identifier) # NULL
    PROVE  Resolve(identifier) \in WorkspaceIds /\ Live(Resolve(identifier))
<1>1. identifier # NULL
  BY ConfigAssumption DEF ConfigAssumption
<1>2. CASE identifier \in WorkspaceIds /\ Live(identifier)
  BY <1>2 DEF Resolve
<1>3. CASE ~(identifier \in WorkspaceIds /\ Live(identifier))
  <2>1. PICK w \in WorkspaceIds : names[w] = identifier
    BY <1>3 DEF Resolve
  <2>2. Resolve(identifier) = CHOOSE v \in WorkspaceIds : names[v] = identifier
    BY <1>3, <2>1 DEF Resolve
  <2>3. QED
    BY <1>1, <2>1, <2>2 DEF Live
<1>4. QED
  BY <1>2, <1>3

(* Invalidation changes nothing of an edit but the state of its snapshot.  *)
LEMMA Invalidated ==
    ASSUME InvalidateSnapshots, editor \in [Editors -> Edit \cup {NULL}]
    PROVE  /\ editor' \in [Editors -> Edit \cup {NULL}]
           /\ \A e \in Editors :
                /\ (editor'[e] = NULL) <=> (editor[e] = NULL)
                /\ editor'[e] # NULL =>
                     /\ editor'[e].pc = editor[e].pc
                     /\ editor'[e].workspace = editor[e].workspace
                     /\ editor'[e].desired = editor[e].desired
                     /\ editor'[e].existing = editor[e].existing
                     /\ editor'[e].pc = "replacing" => editor'[e].stale
BY ZenonT(60), EditAssumption DEF InvalidateSnapshots, EditAt, Edit

(* A desired file is a function of the user's keys.                        *)
LEMMA EditFields ==
    ASSUME editor \in [Editors -> Edit \cup {NULL}], NEW e \in Editors, editor[e] # NULL
    PROVE  editor[e] \in Edit
OBVIOUS

-----------------------------------------------------------------------------
(* Every command of a single entry or workspace.                           *)
LEMMA CommandPreserves ==
    ASSUME Inv, ConfigCommand
    PROVE  Inv'
<1> USE DEF Inv, EntriesHaveWorkspace, ConfigTypeOK
<1>1. InvalidateSnapshots
  BY DEF ConfigCommand, AddWorkspace, RemoveWorkspace, SetUser, SetInternal, SetEntry, UnsetUser
<1>2. PICK w \in WorkspaceIds :
         \/ \E name \in WorkspaceNames : AddWorkspace(w, name)
         \/ RemoveWorkspace(w)
         \/ \E k \in Keys, value \in Values : SetUser(w, k, value) \/ SetInternal(w, k, value)
         \/ \E k \in Keys : UnsetUser(w, k)
  BY DEF ConfigCommand
<1>3. (SnapshotsCurrent /\ SavedEditsResolved)'
  BY <1>1, Invalidated DEF SnapshotsCurrent, SavedEditsResolved, EditAt
<1>4. editor' \in [Editors -> Edit \cup {NULL}]
  BY <1>1, Invalidated
<1>5. CASE \E name \in WorkspaceNames : AddWorkspace(w, name)
  <2>1. names' \in [WorkspaceIds -> WorkspaceNames \cup {NULL}] /\ issued' \subseteq WorkspaceIds
        /\ config' = config /\ \A v \in WorkspaceIds : Live(v) => Live(v)'
    BY <1>5, ConfigAssumption DEF AddWorkspace, Live, ConfigAssumption
  <2>2. QED
    BY <1>3, <1>4, <2>1
<1>6. CASE RemoveWorkspace(w)
  <2>1. NoEntries \in Entries
    BY DEF NoEntries, Entries
  <2>2. QED
    BY <1>3, <1>4, <1>6, <2>1 DEF RemoveWorkspace, Live
<1>7. CASE \E k \in Keys, value \in Values : SetUser(w, k, value) \/ SetInternal(w, k, value)
  <2>1. PICK k \in Keys, value \in Values : SetEntry(w, k, value)
    BY <1>7 DEF SetUser, SetInternal
  <2>2. config' \in [WorkspaceIds -> Entries]
    BY <2>1 DEF SetEntry, Entries
  <2>3. QED
    BY <1>3, <1>4, <2>1, <2>2 DEF SetEntry, Live
<1>8. CASE \E k \in Keys : UnsetUser(w, k)
  <2>1. PICK k \in Keys : UnsetUser(w, k)
    BY <1>8
  <2>2. config' \in [WorkspaceIds -> Entries]
    BY <2>1 DEF UnsetUser, Entries
  <2>3. config[w] # NoEntries
    BY <2>1 DEF UnsetUser, NoEntries
  <2>4. QED
    BY <1>3, <1>4, <2>1, <2>2, <2>3 DEF UnsetUser, Live
<1>9. QED
  BY <1>2, <1>5, <1>6, <1>7, <1>8

(* What the transaction of an edit leaves of the entries of its workspace. *)
Replaced(e) ==
    [k \in Keys |-> IF k \in UserKeys THEN editor[e].desired[k] ELSE config[editor[e].workspace][k]]

(* A transaction that commits replaces exactly the user's entries.         *)
LEMMA CommitExact ==
    ASSUME Inv, NEW e \in Editors, CommitReplace(e)
    PROVE  /\ editor[e].workspace \in WorkspaceIds
           /\ config' = [config EXCEPT ![editor[e].workspace] = Replaced(e)]
           /\ Replaced(e) \in Entries
           /\ Live(editor[e].workspace) \/ \A k \in UserKeys : editor[e].desired[k] = NULL
<1> DEFINE w == editor[e].workspace
           desired == editor[e].desired
           saved == {k \in UserKeys : desired[k] # NULL}
<1>1. EditAt(e, "replacing") /\ ~editor[e].stale /\ editor[e] \in Edit
  BY EditFields DEF CommitReplace, EditAt, Inv, EntriesHaveWorkspace, ConfigTypeOK
<1>2. w \in WorkspaceIds /\ editor[e].existing = {k \in UserKeys : config[w][k] # NULL}
  BY <1>1 DEF Inv, SnapshotsCurrent, SavedEditsResolved
<1>3. desired \in [UserKeys -> Values \cup {NULL}] /\ config[w] \in Entries
  BY <1>1, <1>2 DEF Edit, Inv, EntriesHaveWorkspace, ConfigTypeOK
<1>4. [k \in Keys |-> IF k \in saved THEN desired[k]
                       ELSE IF k \in editor[e].existing THEN NULL ELSE config[w][k]] = Replaced(e)
  <2>1. ASSUME NEW k \in Keys
        PROVE  (IF k \in saved THEN desired[k]
                ELSE IF k \in editor[e].existing THEN NULL ELSE config[w][k])
                 = (IF k \in UserKeys THEN desired[k] ELSE config[w][k])
    BY <1>2, <1>3
  <2>2. QED
    BY <2>1 DEF Replaced
<1>5. config' = [config EXCEPT ![w] = Replaced(e)]
  <2>1. config' = [config EXCEPT ![w] = [k \in Keys |->
          IF k \in saved THEN desired[k]
          ELSE IF k \in editor[e].existing THEN NULL ELSE config[w][k]]]
    BY <1>2 DEF CommitReplace, Inv, EntriesHaveWorkspace, ConfigTypeOK
  <2>2. QED
    BY <1>4, <2>1
<1>6. Replaced(e) \in Entries
  BY <1>3, ConfigAssumption DEF Replaced, Entries, Keys
<1>7. Live(w) \/ saved = {}
  BY DEF CommitReplace
<1>8. QED
  BY <1>2, <1>5, <1>6, <1>7

(* Every step of an edit.                                                  *)
LEMMA EditPreserves ==
    ASSUME Inv, EditCommand
    PROVE  Inv'
<1> USE DEF Inv, EntriesHaveWorkspace, ConfigTypeOK
<1>1. PICK e \in Editors :
         \/ \E identifier \in WorkspaceIds \cup WorkspaceNames : OpenEditor(e, identifier)
         \/ \E desired \in [UserKeys -> Values \cup {NULL}] : SaveFile(e, desired)
         \/ ReadKeys(e) \/ CommitReplace(e) \/ CommitNothing(e) \/ FailEdit(e)
  BY DEF EditCommand
<1>2. CASE \E identifier \in WorkspaceIds \cup WorkspaceNames : OpenEditor(e, identifier)
  <2>1. PICK identifier \in WorkspaceIds \cup WorkspaceNames : OpenEditor(e, identifier)
    BY <1>2
  <2>2. Resolve(identifier) \in WorkspaceIds
    BY <2>1, ResolveLive DEF OpenEditor
  <2>3. [k \in UserKeys |-> config[Resolve(identifier)][k]] \in [UserKeys -> Values \cup {NULL}]
    BY <2>2 DEF Entries, Keys
  <2>4. editor'[e] \in Edit /\ editor'[e].pc = "editing"
        /\ editor' = [editor EXCEPT ![e] = editor'[e]]
    BY <2>1, <2>3 DEF OpenEditor, Edit
  <2>5. UNCHANGED <<names, issued, config>>
    BY <2>1 DEF OpenEditor
  <2>6. QED
    BY <2>4, <2>5 DEF SnapshotsCurrent, SavedEditsResolved, EditAt, Live
<1>3. CASE \E desired \in [UserKeys -> Values \cup {NULL}] : SaveFile(e, desired)
  <2>1. PICK desired \in [UserKeys -> Values \cup {NULL}] : SaveFile(e, desired)
    BY <1>3
  <2>2. editor[e] \in Edit
    BY <2>1, EditFields DEF SaveFile, EditAt
  <2>3. Resolve(editor[e].identifier) \in WorkspaceIds
    BY <2>1, <2>2, ResolveLive DEF SaveFile, Edit
  <2>4. editor'[e] \in Edit /\ editor'[e].pc = "saved" /\ editor'[e].workspace \in WorkspaceIds
        /\ editor' = [editor EXCEPT ![e] = editor'[e]]
    BY <2>1, <2>2, <2>3 DEF SaveFile, Edit
  <2>5. UNCHANGED <<names, issued, config>>
    BY <2>1 DEF SaveFile
  <2>6. QED
    BY <2>4, <2>5 DEF SnapshotsCurrent, SavedEditsResolved, EditAt, Live
<1>4. CASE ReadKeys(e)
  <2>1. editor[e] \in Edit /\ editor[e].workspace \in WorkspaceIds
    BY <1>4, EditFields DEF ReadKeys, EditAt, SavedEditsResolved
  <2>2. /\ editor'[e] \in Edit /\ editor'[e].workspace = editor[e].workspace
        /\ editor'[e].existing = {k \in UserKeys : config[editor[e].workspace][k] # NULL}
        /\ editor' = [editor EXCEPT ![e] = editor'[e]]
    BY <1>4, <2>1 DEF ReadKeys, Edit, Keys
  <2>3. UNCHANGED <<names, issued, config>>
    BY <1>4 DEF ReadKeys
  <2>4. QED
    BY <2>1, <2>2, <2>3 DEF SnapshotsCurrent, SavedEditsResolved, EditAt, Live
<1>5. CASE CommitReplace(e)
  <2>1. PICK w \in WorkspaceIds : w = editor[e].workspace
    BY <1>5, CommitExact
  <2>2. config' = [config EXCEPT ![w] = Replaced(e)] /\ Replaced(e) \in Entries
    BY <1>5, <2>1, CommitExact
  <2>3. UNCHANGED <<names, issued>>
    BY <1>5 DEF CommitReplace
  <2>4. config'[w] # NoEntries => Live(w)
    <3>1. SUFFICES ASSUME ~Live(w) PROVE config'[w] = NoEntries
      OBVIOUS
    <3>2. config[w] = NoEntries /\ \A k \in UserKeys : editor[e].desired[k] = NULL
      BY <1>5, <2>1, <3>1, CommitExact
    <3>3. Replaced(e) = NoEntries
      BY <2>1, <3>2 DEF Replaced, NoEntries
    <3>4. QED
      BY <2>2, <3>3
  <2>5. /\ editor' \in [Editors -> Edit \cup {NULL}]
        /\ \A f \in Editors :
             /\ editor'[f] # NULL => editor[f] # NULL
             /\ editor'[f] # NULL =>
                  /\ editor'[f].pc = editor[f].pc
                  /\ editor'[f].workspace = editor[f].workspace
                  /\ editor'[f].pc = "replacing" => editor'[f].stale
    <3>1. editor' = [f \in Editors |->
            IF f = e THEN NULL
            ELSE IF EditAt(f, "replacing") THEN [editor[f] EXCEPT !.stale = TRUE] ELSE editor[f]]
      BY <1>5 DEF CommitReplace
    <3>2. ASSUME NEW f \in Editors
          PROVE  /\ editor'[f] \in Edit \cup {NULL}
                 /\ editor'[f] # NULL =>
                      /\ editor[f] # NULL
                      /\ editor'[f].pc = editor[f].pc
                      /\ editor'[f].workspace = editor[f].workspace
                      /\ editor'[f].pc = "replacing" => editor'[f].stale
      <4>1. CASE f # e /\ EditAt(f, "replacing")
        BY <3>1, <4>1, EditAssumption DEF EditAt, Edit
      <4>2. CASE ~(f # e /\ EditAt(f, "replacing"))
        BY <3>1, <4>2 DEF EditAt
      <4>3. QED
        BY <4>1, <4>2
    <3>3. QED
      BY <3>1, <3>2
  <2>6. (SnapshotsCurrent /\ SavedEditsResolved)'
    BY <2>5 DEF SnapshotsCurrent, SavedEditsResolved, EditAt
  <2>7. config' \in [WorkspaceIds -> Entries]
    BY <2>2
  <2>8. \A v \in WorkspaceIds : config'[v] # NoEntries => Live(v)'
    BY <2>2, <2>3, <2>4 DEF Live
  <2>9. QED
    BY <2>3, <2>5, <2>6, <2>7, <2>8
<1>6. CASE CommitNothing(e) \/ FailEdit(e)
  BY <1>6 DEF CommitNothing, FailEdit, SnapshotsCurrent, SavedEditsResolved, EditAt, Live
<1>7. QED
  BY <1>1, <1>2, <1>3, <1>4, <1>5, <1>6

-----------------------------------------------------------------------------
(* The types, the owners of entries and what every open transaction knows  *)
(* hold always, for any number of workspaces, keys and editors.            *)
THEOREM InvInductive == ConfigSpec => []Inv
<1>1. ConfigInit => Inv
  BY EditAssumption DEF ConfigInit, Inv, EntriesHaveWorkspace, ConfigTypeOK, SnapshotsCurrent,
     SavedEditsResolved, EditAt, Entries, NoEntries
<1>2. Inv /\ [ConfigNext]_configVars => Inv'
  <2>1. CASE UNCHANGED configVars
    BY <2>1 DEF configVars, Inv, EntriesHaveWorkspace, ConfigTypeOK, SnapshotsCurrent,
       SavedEditsResolved, EditAt, Live
  <2>2. QED
    BY <2>1, CommandPreserves, EditPreserves DEF ConfigNext
<1>3. QED
  BY <1>1, <1>2, PTL DEF ConfigSpec

(* Whatever is removed while an editor is open or a command about to       *)
(* write, entries belong to workspaces that exist.                         *)
THEOREM EntriesKeepWorkspace == ConfigSpec => []EntriesHaveWorkspace
<1>1. Inv => EntriesHaveWorkspace
  BY DEF Inv
<1>2. QED
  BY <1>1, InvInductive, PTL

-----------------------------------------------------------------------------
(* Commands of other processes leave the pending edits as they are.        *)
LEMMA PendingKept ==
    ASSUME Inv, InvalidateSnapshots
    PROVE  PendingEdits' = PendingEdits
<1>1. ASSUME NEW e \in Editors
      PROVE  PendingEdits'[e] = PendingEdits[e]
  BY Invalidated DEF PendingEdits, NothingToWrite, EditAt, Inv, EntriesHaveWorkspace, ConfigTypeOK
<1>2. QED
  BY <1>1 DEF PendingEdits

(* A command of a single entry or workspace is that command of the store.  *)
LEMMA CommandIsAtomic ==
    ASSUME Inv, ConfigCommand
    PROVE  Store!Next
<1>1. InvalidateSnapshots
  BY DEF ConfigCommand, AddWorkspace, RemoveWorkspace, SetUser, SetInternal, SetEntry, UnsetUser
<1>2. PendingEdits' = PendingEdits
  BY <1>1, PendingKept
<1>3. Store!Keys = Keys /\ Store!None = NoEntries
  BY DEF Store!Keys, Keys, Store!None, NoEntries
<1>4. PICK w \in WorkspaceIds :
         \/ \E name \in WorkspaceNames : AddWorkspace(w, name)
         \/ RemoveWorkspace(w)
         \/ \E k \in Keys, value \in Values : SetUser(w, k, value) \/ SetInternal(w, k, value)
         \/ \E k \in Keys : UnsetUser(w, k)
  BY DEF ConfigCommand
<1>5. CASE \E name \in WorkspaceNames : AddWorkspace(w, name)
  BY <1>2, <1>5 DEF AddWorkspace, Store!Add, Store!Next
<1>6. CASE RemoveWorkspace(w)
  BY <1>2, <1>3, <1>6 DEF RemoveWorkspace, Live, Store!Remove, Store!Next
<1>7. CASE \E k \in Keys, value \in Values : SetUser(w, k, value) \/ SetInternal(w, k, value)
  BY <1>2, <1>3, <1>7 DEF SetUser, SetInternal, SetEntry, Live, Store!Set, Store!Next
<1>8. CASE \E k \in Keys : UnsetUser(w, k)
  BY <1>2, <1>8 DEF UnsetUser, Store!Unset, Store!Next
<1>9. QED
  BY <1>4, <1>5, <1>6, <1>7, <1>8

(* Of an edit, the save, the commit and the failure are steps of the store.*)
LEMMA EditIsAtomic ==
    ASSUME Inv, EditCommand
    PROVE  Store!Next \/ UNCHANGED <<names, issued, config, PendingEdits>>
<1>1. PICK e \in Editors :
         \/ \E identifier \in WorkspaceIds \cup WorkspaceNames : OpenEditor(e, identifier)
         \/ \E desired \in [UserKeys -> Values \cup {NULL}] : SaveFile(e, desired)
         \/ ReadKeys(e) \/ CommitReplace(e) \/ CommitNothing(e) \/ FailEdit(e)
  BY DEF EditCommand
<1>2. editor \in [Editors -> Edit \cup {NULL}]
  BY DEF Inv, EntriesHaveWorkspace, ConfigTypeOK
<1>3. CASE \E identifier \in WorkspaceIds \cup WorkspaceNames : OpenEditor(e, identifier)
  <2>1. PendingEdits' = PendingEdits /\ UNCHANGED <<names, issued, config>>
    BY <1>2, <1>3 DEF OpenEditor, PendingEdits, NothingToWrite, EditAt
  <2>2. QED
    BY <2>1
<1>4. CASE \E desired \in [UserKeys -> Values \cup {NULL}] : SaveFile(e, desired)
  <2>1. PICK desired \in [UserKeys -> Values \cup {NULL}] : SaveFile(e, desired)
    BY <1>4
  <2>2. PICK w \in WorkspaceIds : w = Resolve(editor[e].identifier) /\ Live(w)
    BY <1>2, <2>1, EditFields, ResolveLive DEF SaveFile, EditAt, Edit
  <2>3. /\ editor[e].pc = "editing" /\ editor[e] \in Edit
        /\ editor' = [editor EXCEPT ![e].pc = "saved", ![e].desired = desired, ![e].workspace = w]
    BY <1>2, <2>1, <2>2, EditFields DEF SaveFile, EditAt
  <2>4. editor'[e] # NULL /\ editor'[e].pc = "saved" /\ editor'[e].desired = desired
        /\ editor'[e].workspace = w
    BY ZenonT(60), <1>2, <2>3, EditAssumption DEF Edit
  <2>5. PendingEdits[e] = NULL
    BY <2>3 DEF PendingEdits, EditAt
  <2>6. PendingEdits' = [PendingEdits EXCEPT ![e] = [workspace |-> w, desired |-> desired]]
    BY <1>2, <2>3, <2>4 DEF PendingEdits, NothingToWrite, EditAt
  <2>7. Store!Save(e, w, desired)
    BY <2>1, <2>2, <2>5, <2>6 DEF Store!Save, SaveFile, Live
  <2>8. QED
    BY <2>7 DEF Store!Next
<1>5. CASE ReadKeys(e)
  <2>1. editor[e] \in Edit /\ editor[e].pc = "saved"
    BY <1>2, <1>5, EditFields DEF ReadKeys, EditAt
  <2>2. /\ editor'[e] # NULL /\ editor'[e].pc = "replacing"
        /\ editor'[e].workspace = editor[e].workspace /\ editor'[e].desired = editor[e].desired
        /\ editor'[e].existing = {k \in UserKeys : config[editor[e].workspace][k] # NULL}
        /\ \A f \in Editors \ {e} : editor'[f] = editor[f]
    <3>1. editor'[e] = [editor[e] EXCEPT !.pc = "replacing",
             !.existing = {k \in UserKeys : config[editor[e].workspace][k] # NULL}]
      BY <1>2, <1>5, <2>1 DEF ReadKeys
    <3>2. editor'[e] \in Edit
      BY <2>1, <3>1 DEF Edit, Keys
    <3>3. QED
      BY ZenonT(60), <1>2, <1>5, <2>1, <3>1, <3>2, EditAssumption DEF ReadKeys, Edit
  <2>3. UNCHANGED <<names, issued, config>>
    BY <1>5 DEF ReadKeys
  <2>4. ASSUME NEW f \in Editors, f # e PROVE PendingEdits'[f] = PendingEdits[f]
    BY <2>2, <2>4 DEF PendingEdits, NothingToWrite, EditAt
  <2>5. CASE ~NothingToWrite(e)'
    <3>1. PendingEdits'[e] = PendingEdits[e]
      BY <2>1, <2>2, <2>5, EditAssumption DEF PendingEdits, EditAt
    <3>2. QED
      BY <2>3, <2>4, <3>1 DEF PendingEdits
  (* The edit that will write nothing is applied now. *)
  <2>6. CASE NothingToWrite(e)'
    <3>1. PICK w \in WorkspaceIds : w = editor[e].workspace
      BY <2>1, EditAssumption DEF Inv, SavedEditsResolved, EditAt
    <3>2. \A k \in UserKeys : editor[e].desired[k] = NULL /\ config[w][k] = NULL
      BY <2>2, <2>6, <3>1 DEF NothingToWrite
    <3>3. PendingEdits[e] = [workspace |-> w, desired |-> editor[e].desired]
      BY <2>1, <3>1, EditAssumption DEF PendingEdits, EditAt
    <3>4. PendingEdits[e] # NULL
      BY <2>1, <3>3, PendingAssumption DEF Edit
    <3>5. PendingEdits' = [PendingEdits EXCEPT ![e] = NULL]
      <4>1. PendingEdits'[e] = NULL
        BY <2>2, <2>6 DEF PendingEdits, EditAt
      <4>2. QED
        BY <2>4, <4>1 DEF PendingEdits
    <3>6. config[w] = [k \in Store!Keys |->
            IF k \in UserKeys THEN PendingEdits[e].desired[k] ELSE config[w][k]]
      <4>1. config[w] \in Entries /\ PendingEdits[e].desired = editor[e].desired
        BY <3>3 DEF Inv, EntriesHaveWorkspace, ConfigTypeOK
      <4>2. \A k \in Keys :
              config[w][k] = IF k \in UserKeys THEN PendingEdits[e].desired[k] ELSE config[w][k]
        BY <3>2, <4>1
      <4>3. QED
        BY <4>1, <4>2 DEF Entries, Keys, Store!Keys
    <3>7. config' = [config EXCEPT ![w] = [k \in Store!Keys |->
            IF k \in UserKeys THEN PendingEdits[e].desired[k] ELSE @[k]]]
      BY <2>3, <3>6 DEF Inv, EntriesHaveWorkspace, ConfigTypeOK
    <3>8. Store!Apply(e)
      <4>1. /\ PendingEdits[e].workspace = w
            /\ \A k \in UserKeys : PendingEdits[e].desired[k] = NULL
        BY <3>2, <3>3
      <4>2. QED
        BY <2>3, <3>4, <3>5, <3>7, <4>1 DEF Store!Apply
    <3>9. QED
      BY <3>8 DEF Store!Next
  <2>7. QED
    BY <2>5, <2>6
<1>6. CASE CommitReplace(e)
  <2>1. PICK w \in WorkspaceIds :
           /\ w = editor[e].workspace
           /\ config' = [config EXCEPT ![w] = Replaced(e)]
           /\ Live(w) \/ \A k \in UserKeys : editor[e].desired[k] = NULL
    BY <1>6, CommitExact
  <2>2. PendingEdits[e] = [workspace |-> w, desired |-> editor[e].desired]
    BY <1>6, <2>1 DEF CommitReplace, PendingEdits, EditAt
  <2>3. PendingEdits[e] # NULL
    BY <1>2, <1>6, <2>2, PendingAssumption, EditFields DEF CommitReplace, EditAt, Edit
  <2>4. PendingEdits' = [PendingEdits EXCEPT ![e] = NULL]
    <3>1. ASSUME NEW f \in Editors
          PROVE  PendingEdits'[f] = IF f = e THEN NULL ELSE PendingEdits[f]
      <4>1. CASE f = e
        BY <1>6, <4>1 DEF CommitReplace, PendingEdits, EditAt
      <4>2. CASE f # e /\ EditAt(f, "replacing")
        <5>1. editor[f] \in Edit /\ editor[f].pc = "replacing"
          BY <1>2, <4>2, EditFields DEF EditAt
        <5>2. editor'[f] = [editor[f] EXCEPT !.stale = TRUE]
          BY <1>6, <4>2 DEF CommitReplace
        <5>3. editor'[f] # NULL /\ editor'[f].pc = "replacing"
              /\ editor'[f].workspace = editor[f].workspace
              /\ editor'[f].desired = editor[f].desired
              /\ editor'[f].existing = editor[f].existing
          BY <5>1, <5>2, EditAssumption DEF Edit
        <5>4. QED
          BY <4>2, <5>1, <5>3, EditAssumption DEF PendingEdits, NothingToWrite, EditAt
      <4>3. CASE f # e /\ ~EditAt(f, "replacing")
        BY <1>6, <4>3 DEF CommitReplace, PendingEdits, NothingToWrite, EditAt
      <4>4. QED
        BY <4>1, <4>2, <4>3
    <3>2. QED
      BY <3>1 DEF PendingEdits
  <2>5. Replaced(e) = [k \in Store!Keys |->
          IF k \in UserKeys THEN PendingEdits[e].desired[k] ELSE config[w][k]]
    BY <2>1, <2>2 DEF Replaced, Store!Keys, Keys
  <2>6. config' = [config EXCEPT ![w] = [k \in Store!Keys |->
          IF k \in UserKeys THEN PendingEdits[e].desired[k] ELSE @[k]]]
    BY <2>1, <2>5 DEF Inv, EntriesHaveWorkspace, ConfigTypeOK
  <2>7. UNCHANGED <<names, issued>>
    BY <1>6 DEF CommitReplace
  <2>8. Store!Apply(e)
    <3>1. /\ PendingEdits[e].workspace = w
          /\ Live(w) \/ \A k \in UserKeys : PendingEdits[e].desired[k] = NULL
      BY <2>1, <2>2
    <3>2. QED
      BY <2>3, <2>4, <2>6, <2>7, <3>1 DEF Store!Apply, Live
  <2>9. QED
    BY <2>8 DEF Store!Next
<1>7. CASE FailEdit(e)
  <2>1. PendingEdits' = [PendingEdits EXCEPT ![e] = NULL]
    BY <1>2, <1>7 DEF FailEdit, PendingEdits, NothingToWrite, EditAt
  <2>2. Store!Drop(e)
    BY <1>7, <2>1 DEF FailEdit, Store!Drop
  <2>3. QED
    BY <2>2 DEF Store!Next
<1>8. CASE CommitNothing(e)
  <2>1. PendingEdits' = PendingEdits
    BY <1>2, <1>8 DEF CommitNothing, PendingEdits, NothingToWrite, EditAt
  <2>2. QED
    BY <1>8, <2>1 DEF CommitNothing
<1>9. QED
  BY <1>1, <1>3, <1>4, <1>5, <1>6, <1>7, <1>8

(* The transaction that reads the keys and then writes, refused when its   *)
(* snapshot is stale, implements the edit that is applied in one step.     *)
THEOREM EditsAreAtomic == ConfigSpec => StoreSpec
<1>1. ConfigInit => Store!Init
  BY DEF ConfigInit, Store!Init, PendingEdits, EditAt, NoEntries, Store!None, Keys, Store!Keys
<1>2. Inv /\ [ConfigNext]_configVars => [Store!Next]_<<names, issued, config, PendingEdits>>
  <2>1. CASE UNCHANGED configVars
    BY <2>1 DEF configVars, PendingEdits, NothingToWrite, EditAt
  <2>2. QED
    BY <2>1, CommandIsAtomic, EditIsAtomic DEF ConfigNext
<1>3. QED
  BY <1>1, <1>2, InvInductive, PTL DEF ConfigSpec, StoreSpec, Store!Spec

-----------------------------------------------------------------------------
(* Guided setup. *)

(* The statements a setup still has to run.                                *)
Pending(todo) == {todo[i] : i \in 1 .. Len(todo)}

IsPending(todo, key) == \E write \in Pending(todo) : write.key = key

(* What a setup may store of a candidate.                                  *)
Wanted(candidate) ==
    {[key |-> "pat", value |-> candidate.pat],
     [key |-> BaseURLKey, value |-> candidate.base_url],
     [key |-> SpaceKey, value |-> candidate.space],
     [key |-> SecretKey, value |-> Reference[candidate.secret]],
     [key |-> AuthTypeKey, value |-> NULL],
     [key |-> RootPageKey, value |-> candidate.root_page]}

(* The PAT goes before everything else.                                    *)
PatFirst(todo) == \A i \in 2 .. Len(todo) : todo[i].key # "pat"

(* What a setup knows, whatever others run beside it.                      *)
Knows(s) ==
    /\ s.workspace \in issued
    /\ s.pc # "store" <=> s.todo = <<>>
    /\ s.pc \in {"host", "login", "owner", "refresh", "ask"} => s.candidate = NULL
    /\ s.pc \in {"check", "store"} => s.candidate # NULL
    /\ (s.pc = "done" /\ "confluence" \in s.providers) => s.candidate # NULL
    /\ (s.pc \in {"store", "done"} /\ s.candidate # NULL) => Validates(s.candidate)
    /\ (s.pc = "check" /\ ~s.new_pat) => secrets[s.candidate.secret] # NULL
    /\ s.pc = "store" =>
         /\ IsPending(s.todo, "pat") \/ secrets[s.candidate.secret] # NULL
         /\ PatFirst(s.todo)
         /\ Pending(s.todo) \subseteq Wanted(s.candidate)

SetupInv ==
    /\ Inv
    /\ \A w \in WorkspaceIds : Live(w) => w \in issued
    /\ SetupTypeOK
    /\ \A c \in Procs : setup[c] # NULL => Knows(setup[c])

-----------------------------------------------------------------------------
(* One setup at a time *)

Alone == \A c, d \in Procs : c = d

HostChosen(s) ==
    \/ s.pc \in {"login", "owner", "refresh"}
    \/ s.pc \in {"ask", "check", "store", "done"} /\ "github" \in s.providers

OwnerChosen(s) ==
    \/ s.pc = "refresh"
    \/ s.pc \in {"ask", "check", "store", "done"} /\ "github" \in s.providers

(* Every part of the candidate is stored or about to be.                   *)
Applied(s) ==
    LET entries == config[s.workspace]
        candidate == s.candidate
    IN  /\ IsPending(s.todo, "pat") \/ secrets[candidate.secret] = candidate.pat
        /\ IsPending(s.todo, BaseURLKey) \/ entries[BaseURLKey] = candidate.base_url
        /\ IsPending(s.todo, SpaceKey) \/ entries[SpaceKey] = candidate.space
        /\ IsPending(s.todo, SecretKey) \/ entries[SecretKey] = Reference[candidate.secret]
        /\ IsPending(s.todo, AuthTypeKey) \/ entries[AuthTypeKey] = NULL
        /\ IsPending(s.todo, RootPageKey) \/ entries[RootPageKey] = candidate.root_page

(* What the tables hold of the answers given so far.                       *)
Tracks(s) ==
    LET entries == config[s.workspace]
    IN  /\ s.refreshed # NULL => s.refreshed = <<s.host, s.owner>>
        /\ s.pc \in {"host", "login", "owner", "refresh"} => s.refreshed = NULL
        /\ (HostChosen(s) /\ s.pc # "login") => s.host \in Authenticated
        /\ (s.pc = "check" /\ ~s.new_pat) => secrets[s.candidate.secret] = s.candidate.pat
        /\ Live(s.workspace) =>
             /\ s.pc = "host" => entries = s.values
             /\ HostChosen(s) => EffectiveHost(entries) = s.host
             /\ OwnerChosen(s) => entries[OrganizationKey] = s.owner /\ s.owner # NULL
             /\ s.pc \notin {"store", "done"} =>
                  \A k \in ConfluenceKeys : entries[k] = s.values[k]
             /\ (s.pc \in {"store", "done"} /\ s.candidate # NULL) => Applied(s)

AloneInv ==
    /\ SetupInv
    /\ \A c \in Procs : setup[c] # NULL => Tracks(setup[c])

-----------------------------------------------------------------------------
(* The list of statements. *)

(* Putting two lists one after the other.                                  *)
LEMMA JoinedLists ==
    ASSUME NEW s \in Seq(Write), NEW t \in Seq(Write)
    PROVE  /\ s \o t \in Seq(Write)
           /\ Pending(s \o t) = Pending(s) \cup Pending(t)
           /\ (PatFirst(s) /\ ~IsPending(t, "pat")) => PatFirst(s \o t)
<1>1. s \o t \in Seq(Write) /\ Len(s \o t) = Len(s) + Len(t) /\ Len(s) \in Nat /\ Len(t) \in Nat
      /\ \A i \in 1 .. Len(s) + Len(t) :
            (s \o t)[i] = IF i <= Len(s) THEN s[i] ELSE t[i - Len(s)]
  BY ConcatProperties, LenProperties
<1>2. Pending(s \o t) \subseteq Pending(s) \cup Pending(t)
  BY <1>1 DEF Pending
<1>3. Pending(s) \subseteq Pending(s \o t)
  BY <1>1 DEF Pending
<1>4. ASSUME NEW i \in 1 .. Len(t)
      PROVE  t[i] \in Pending(s \o t)
  <2>1. Len(s) + i \in 1 .. Len(s) + Len(t) /\ (s \o t)[Len(s) + i] = t[i]
    BY <1>1
  <2> QED BY <1>1, <2>1 DEF Pending
<1>5. Pending(t) \subseteq Pending(s \o t)
  BY <1>4 DEF Pending
<1>6. ASSUME PatFirst(s), ~IsPending(t, "pat"), NEW i \in 2 .. Len(s \o t)
      PROVE  (s \o t)[i].key # "pat"
  <2>1. CASE i <= Len(s)
    BY <1>1, <1>6, <2>1 DEF PatFirst
  <2>2. CASE ~(i <= Len(s))
    <3>1. i - Len(s) \in 1 .. Len(t) /\ (s \o t)[i] = t[i - Len(s)]
      BY <1>1, <2>2
    <3> QED BY <1>6, <3>1 DEF IsPending, Pending
  <2> QED BY <2>1, <2>2
<1> QED BY <1>1, <1>2, <1>3, <1>5, <1>6 DEF PatFirst

(* A list of one statement, or of none when it is not needed.              *)
LEMMA ShortLists ==
    ASSUME NEW key, NEW value, [key |-> key, value |-> value] \in Write, NEW needed \in BOOLEAN
    PROVE  LET part == IF needed THEN Put(key, value) ELSE <<>>
           IN  /\ part \in Seq(Write) /\ PatFirst(part)
               /\ Pending(part) = IF needed THEN {[key |-> key, value |-> value]} ELSE {}
<1>1. /\ Put(key, value) \in Seq(Write)
      /\ Len(Put(key, value)) = 1 /\ Put(key, value)[1] = [key |-> key, value |-> value]
  BY DEF Put
<1>2. Pending(Put(key, value)) = {[key |-> key, value |-> value]} /\ PatFirst(Put(key, value))
  BY <1>1 DEF Pending, PatFirst
<1>3. <<>> \in Seq(Write) /\ Pending(<<>>) = {} /\ PatFirst(<<>>)
  BY EmptySeq DEF Pending, PatFirst
<1> QED BY <1>1, <1>2, <1>3

(* The first statement and the others.                                     *)
LEMMA NextStatement ==
    ASSUME NEW todo \in Seq(Write), todo # <<>>
    PROVE  /\ Head(todo) \in Write /\ Tail(todo) \in Seq(Write)
           /\ Pending(todo) = {Head(todo)} \cup Pending(Tail(todo))
           /\ PatFirst(todo) => PatFirst(Tail(todo)) /\ ~IsPending(Tail(todo), "pat")
           /\ Len(todo) = 1 <=> Tail(todo) = <<>>
<1>1. /\ Head(todo) \in Write /\ Tail(todo) \in Seq(Write) /\ Head(todo) = todo[1]
      /\ Len(todo) \in Nat \ {0} /\ Len(Tail(todo)) = Len(todo) - 1
      /\ \A i \in 1 .. Len(Tail(todo)) : Tail(todo)[i] = todo[i + 1]
  BY HeadTailProperties, EmptySeq
<1>2. Pending(todo) \subseteq {Head(todo)} \cup Pending(Tail(todo))
  <2> SUFFICES ASSUME NEW i \in 1 .. Len(todo), i # 1
               PROVE  todo[i] \in Pending(Tail(todo))
    BY <1>1 DEF Pending
  <2>1. i - 1 \in 1 .. Len(Tail(todo)) /\ Tail(todo)[i - 1] = todo[i]
    BY <1>1
  <2> QED BY <2>1 DEF Pending
<1>3. {Head(todo)} \cup Pending(Tail(todo)) \subseteq Pending(todo)
  BY <1>1 DEF Pending
<1>4. PatFirst(todo) => PatFirst(Tail(todo)) /\ ~IsPending(Tail(todo), "pat")
  BY <1>1 DEF PatFirst, IsPending, Pending
<1>5. Len(todo) = 1 <=> Tail(todo) = <<>>
  <2>1. Len(<<>>) = 0 /\ \A seq \in Seq(Write) : seq # <<>> => Len(seq) \in Nat \ {0}
    BY EmptySeq
  <2>2. Tail(todo) # <<>> => Len(Tail(todo)) # 0
    BY <1>1, <2>1
  <2>3. Tail(todo) = <<>> => Len(Tail(todo)) = 0
    BY <2>1
  <2>4. Len(todo) = 1 <=> Len(Tail(todo)) = 0
    BY <1>1
  <2> QED BY <2>2, <2>3, <2>4
<1> QED BY <1>1, <1>2, <1>3, <1>4, <1>5
(* What a checked setup has to store: each part of its candidate once, in  *)
(* an order that starts with the PAT, and nothing else.                    *)
LEMMA WritesOf ==
    ASSUME NEW s \in Setup, s.candidate # NULL
    PROVE  /\ Writes(s) \in Seq(Write) /\ Writes(s) # <<>>
           /\ PatFirst(Writes(s))
           /\ Pending(Writes(s)) \subseteq Wanted(s.candidate)
           /\ s.new_pat => IsPending(Writes(s), "pat")
           /\ IsPending(Writes(s), BaseURLKey) /\ IsPending(Writes(s), SpaceKey)
           /\ IsPending(Writes(s), SecretKey)
           /\ s.values[AuthTypeKey] # NULL => IsPending(Writes(s), AuthTypeKey)
           /\ (s.candidate.root_page # NULL \/ s.values[RootPageKey] # NULL)
                 => IsPending(Writes(s), RootPageKey)
<1> DEFINE candidate == s.candidate
           pat == IF s.new_pat THEN Put("pat", candidate.pat) ELSE <<>>
           base == Put(BaseURLKey, candidate.base_url)
           space == Put(SpaceKey, candidate.space)
           secret == Put(SecretKey, Reference[candidate.secret])
           auth == IF s.values[AuthTypeKey] # NULL THEN Put(AuthTypeKey, NULL) ELSE <<>>
           hasRoot == candidate.root_page # NULL \/ s.values[RootPageKey] # NULL
           root == IF hasRoot THEN Put(RootPageKey, candidate.root_page) ELSE <<>>
           W(key, value) == [key |-> key, value |-> value]
<1>1. /\ candidate.base_url \in Values /\ candidate.space \in Values /\ candidate.pat \in Pats
      /\ Reference[candidate.secret] \in Values /\ candidate.root_page \in Values \cup {NULL}
      /\ s.new_pat \in BOOLEAN
  BY SetupAssumption DEF SetupAssumption, Setup, Candidate
<1>2. /\ W("pat", candidate.pat) \in Write /\ W(BaseURLKey, candidate.base_url) \in Write
      /\ W(SpaceKey, candidate.space) \in Write
      /\ W(SecretKey, Reference[candidate.secret]) \in Write
      /\ W(AuthTypeKey, NULL) \in Write /\ W(RootPageKey, candidate.root_page) \in Write
  BY <1>1, SetupAssumption DEF SetupAssumption, Write
<1>3. /\ pat \in Seq(Write) /\ PatFirst(pat)
      /\ Pending(pat) = IF s.new_pat THEN {W("pat", candidate.pat)} ELSE {}
  BY <1>1, <1>2, ShortLists
<1>4. /\ base \in Seq(Write) /\ Pending(base) = {W(BaseURLKey, candidate.base_url)}
      /\ space \in Seq(Write) /\ Pending(space) = {W(SpaceKey, candidate.space)}
      /\ secret \in Seq(Write) /\ Pending(secret) = {W(SecretKey, Reference[candidate.secret])}
  <2>1. TRUE \in BOOLEAN
    OBVIOUS
  <2> QED BY <1>2, <2>1, ShortLists
<1>5. /\ auth \in Seq(Write)
      /\ Pending(auth) = IF s.values[AuthTypeKey] # NULL THEN {W(AuthTypeKey, NULL)} ELSE {}
  BY <1>2, ShortLists
<1>6. /\ root \in Seq(Write)
      /\ Pending(root) = IF hasRoot THEN {W(RootPageKey, candidate.root_page)} ELSE {}
  BY <1>2, ShortLists
<1>7. /\ "pat" # BaseURLKey /\ "pat" # SpaceKey /\ "pat" # SecretKey /\ "pat" # AuthTypeKey
      /\ "pat" # RootPageKey
  BY DEF BaseURLKey, SpaceKey, SecretKey, AuthTypeKey, RootPageKey
<1>8. /\ ~IsPending(base, "pat") /\ ~IsPending(space, "pat") /\ ~IsPending(secret, "pat")
      /\ ~IsPending(auth, "pat") /\ ~IsPending(root, "pat")
  BY <1>4, <1>5, <1>6, <1>7 DEF IsPending
<1>9. Writes(s) = pat \o base \o space \o secret \o auth \o root
  BY DEF Writes
<1> HIDE DEF pat, base, space, secret, auth, root, hasRoot, W
<1>10. /\ Writes(s) \in Seq(Write) /\ PatFirst(Writes(s))
       /\ Pending(Writes(s)) = Pending(pat) \cup Pending(base) \cup Pending(space)
                                 \cup Pending(secret) \cup Pending(auth) \cup Pending(root)
  <2>1. /\ pat \o base \in Seq(Write) /\ PatFirst(pat \o base)
        /\ Pending(pat \o base) = Pending(pat) \cup Pending(base)
    BY <1>3, <1>4, <1>8, JoinedLists
  <2>2. /\ pat \o base \o space \in Seq(Write) /\ PatFirst(pat \o base \o space)
        /\ Pending(pat \o base \o space) = Pending(pat \o base) \cup Pending(space)
    BY <2>1, <1>4, <1>8, JoinedLists
  <2>3. /\ pat \o base \o space \o secret \in Seq(Write)
        /\ PatFirst(pat \o base \o space \o secret)
        /\ Pending(pat \o base \o space \o secret)
              = Pending(pat \o base \o space) \cup Pending(secret)
    BY <2>2, <1>4, <1>8, JoinedLists
  <2>4. /\ pat \o base \o space \o secret \o auth \in Seq(Write)
        /\ PatFirst(pat \o base \o space \o secret \o auth)
        /\ Pending(pat \o base \o space \o secret \o auth)
              = Pending(pat \o base \o space \o secret) \cup Pending(auth)
    BY <2>3, <1>5, <1>8, JoinedLists
  <2>5. /\ pat \o base \o space \o secret \o auth \o root \in Seq(Write)
        /\ PatFirst(pat \o base \o space \o secret \o auth \o root)
        /\ Pending(pat \o base \o space \o secret \o auth \o root)
              = Pending(pat \o base \o space \o secret \o auth) \cup Pending(root)
    BY <2>4, <1>6, <1>8, JoinedLists
  <2> QED BY <1>9, <2>1, <2>2, <2>3, <2>4, <2>5
<1>11. Writes(s) # <<>>
  <2>1. W(BaseURLKey, candidate.base_url) \in Pending(Writes(s))
    BY <1>4, <1>10
  <2>2. Pending(<<>>) = {}
    BY EmptySeq DEF Pending
  <2> QED BY <2>1, <2>2
<1>12. Pending(Writes(s)) \subseteq Wanted(candidate)
  BY <1>3, <1>4, <1>5, <1>6, <1>10 DEF Wanted, W
<1>13. /\ s.new_pat => W("pat", candidate.pat) \in Pending(Writes(s))
       /\ W(BaseURLKey, candidate.base_url) \in Pending(Writes(s))
       /\ W(SpaceKey, candidate.space) \in Pending(Writes(s))
       /\ W(SecretKey, Reference[candidate.secret]) \in Pending(Writes(s))
       /\ s.values[AuthTypeKey] # NULL => W(AuthTypeKey, NULL) \in Pending(Writes(s))
       /\ hasRoot => W(RootPageKey, candidate.root_page) \in Pending(Writes(s))
  BY <1>3, <1>4, <1>5, <1>6, <1>10
<1>14. \A key, value : W(key, value).key = key
  BY DEF W
<1> QED BY <1>10, <1>11, <1>12, <1>13, <1>14 DEF IsPending, hasRoot
-----------------------------------------------------------------------------
(* Steps that leave the configuration alone. *)
LEMMA ConfigInvKept ==
    ASSUME Inv, UNCHANGED <<names, issued, config>>, InvalidateSnapshots \/ UNCHANGED editor
    PROVE  Inv'
<1> USE DEF Inv, EntriesHaveWorkspace, ConfigTypeOK
<1>1. editor' \in [Editors -> Edit \cup {NULL}]
  BY Invalidated
<1>2. (SnapshotsCurrent /\ SavedEditsResolved)'
  <2>1. CASE InvalidateSnapshots
    BY <2>1, Invalidated DEF SnapshotsCurrent, SavedEditsResolved, EditAt
  <2>2. CASE UNCHANGED editor
    BY <2>2 DEF SnapshotsCurrent, SavedEditsResolved, EditAt
  <2> QED BY <2>1, <2>2
<1> QED BY <1>1, <1>2 DEF Live, NoEntries

(* The workspaces of a step of a setup are those there were.               *)
LEMMA WritingKeepsInv ==
    ASSUME Inv, NEW w \in WorkspaceIds, NEW k,
           UnsetUser(w, k) \/ \E value \in Values : SetUser(w, k, value)
    PROVE  Inv' /\ UNCHANGED <<names, issued>>
<1>1. k \in Keys /\ UNCHANGED <<names, issued>>
  BY DEF UnsetUser, SetUser, SetEntry, Keys
<1> QED BY <1>1, CommandPreserves DEF ConfigCommand

(* A setup that does nothing knows what it knew, as long as no secret is   *)
(* taken away.                                                             *)
LEMMA KnowsKept ==
    ASSUME NEW c \in Procs, setup[c] \in Setup, setup'[c] = setup[c], Knows(setup[c]),
           issued \subseteq issued',
           \A n \in SecretNames : secrets[n] # NULL => secrets'[n] # NULL
    PROVE  Knows(setup[c])'
<1>1. setup[c].candidate # NULL => setup[c].candidate.secret \in SecretNames
  BY DEF Setup, Candidate
<1> QED BY <1>1 DEF Knows

(* A step of one setup.                                                    *)
LEMMA Moved ==
    ASSUME SetupInv, NEW c \in Procs, Inv', UNCHANGED <<names, issued>>,
           secrets' \in [SecretNames -> Pats \cup {NULL}],
           \A n \in SecretNames : secrets[n] # NULL => secrets'[n] # NULL,
           setup' \in [Procs -> Setup \cup {NULL}],
           \A d \in Procs : d # c => setup'[d] = setup[d],
           setup'[c] # NULL => Knows(setup[c])'
    PROVE  SetupInv'
<1>1. ASSUME NEW d \in Procs, setup'[d] # NULL
      PROVE  Knows(setup[d])'
  <2>1. CASE d = c
    BY <1>1, <2>1
  <2>2. CASE d # c
    <3>1. setup'[d] = setup[d] /\ setup[d] \in Setup /\ Knows(setup[d])
      BY <1>1, <2>2 DEF SetupInv, SetupTypeOK
    <3> QED BY <3>1, KnowsKept
  <2> QED BY <2>1, <2>2
<1>2. SetupTypeOK'
  BY DEF SetupTypeOK, Inv, EntriesHaveWorkspace
<1> QED BY <1>1, <1>2 DEF SetupInv, Live

LEMMA SecretNameTyped == \A reference : SecretName(reference) \in SecretNames
BY SetupAssumption DEF SecretName, SetupAssumption

(* The steps up to the check change the setup only, or store one entry.    *)
LEMMA QuestionsKeep ==
    ASSUME SetupInv, NEW c \in Procs,
           \/ \E w \in WorkspaceIds, providers \in SUBSET Providers : Begin(c, w, providers)
           \/ KeepHost(c) \/ \E host \in Hosts : ChooseHost(c, host)
           \/ DiscoverOwners(c) \/ \E owner \in Owners : ChooseOwner(c, owner)
           \/ RefreshRepositories(c)
    PROVE  SetupInv'
<1> USE DEF SetupInv, SetupTypeOK
<1>1. CASE \E w \in WorkspaceIds, providers \in SUBSET Providers : Begin(c, w, providers)
  <2>1. PICK w \in WorkspaceIds, providers \in SUBSET Providers : Begin(c, w, providers)
    BY <1>1
  <2>2. Inv' /\ UNCHANGED <<names, issued, secrets>>
    BY <2>1, ConfigInvKept DEF Begin
  <2>3. config[w] \in Entries /\ <<>> \in Seq(Write)
    BY EmptySeq DEF ConfigTypeOK
  <2>4. setup' \in [Procs -> Setup \cup {NULL}] /\ setup'[c] \in Setup
    BY <2>1, <2>3 DEF Begin, Setup
  <2>5. Knows(setup[c])'
    BY <2>1, <2>2, <2>4 DEF Begin, Knows
  <2> QED BY ZenonT(60), <2>1, <2>2, <2>4, <2>5, Moved DEF Begin
<1>2. CASE KeepHost(c)
  <2>1. Inv' /\ UNCHANGED <<names, issued, secrets>>
    BY <1>2, ConfigInvKept DEF KeepHost
  <2>2. setup[c] \in Setup /\ Knows(setup[c])
    BY <1>2 DEF KeepHost, At
  <2>3. setup' \in [Procs -> Setup \cup {NULL}] /\ setup'[c] \in Setup
    BY ZenonT(60), <1>2, <2>2 DEF KeepHost, Setup
  <2>4. Knows(setup[c])'
    BY <1>2, <2>1, <2>2, <2>3 DEF KeepHost, Knows, At, Setup
  <2> QED BY <1>2, <2>1, <2>3, <2>4, Moved DEF KeepHost
<1>3. CASE \E host \in Hosts : ChooseHost(c, host)
  <2>1. PICK host \in Hosts : ChooseHost(c, host)
    BY <1>3
  <2>2. setup[c] \in Setup /\ Knows(setup[c]) /\ setup[c].workspace \in WorkspaceIds
        /\ host \in Values
    BY <2>1, SetupAssumption DEF ChooseHost, At, Setup, SetupAssumption
  <2>3. Inv' /\ UNCHANGED <<names, issued, secrets>>
    BY <2>1, <2>2, WritingKeepsInv DEF ChooseHost
  <2>4. setup' \in [Procs -> Setup \cup {NULL}] /\ setup'[c] \in Setup
    BY ZenonT(60), <2>1, <2>2 DEF ChooseHost, Setup
  <2>5. Knows(setup[c])'
    BY ZenonT(60), <2>1, <2>2, <2>3, <2>4 DEF ChooseHost, Knows, At, Setup
  <2> QED BY <2>1, <2>3, <2>4, <2>5, Moved DEF ChooseHost
<1>4. CASE DiscoverOwners(c)
  <2>1. Inv' /\ UNCHANGED <<names, issued, secrets>>
    BY <1>4, ConfigInvKept DEF DiscoverOwners
  <2>2. setup[c] \in Setup /\ Knows(setup[c])
    BY <1>4 DEF DiscoverOwners, At
  <2>3. DiscoveredOwners(setup[c].host) \subseteq Owners
    <3>1. setup[c].host \in Hosts
      BY <1>4, <2>2, SetupAssumption DEF DiscoverOwners, SetupAssumption
    <3> DEFINE logins == <<Personal[setup[c].host]>> \o Organizations[setup[c].host]
    <3>2. Personal[setup[c].host] \in Owners /\ Organizations[setup[c].host] \in Seq(Owners)
      BY <3>1, SetupAssumption DEF SetupAssumption
    <3>3. logins \in Seq(Owners)
      BY <3>2
    <3>4. \A i \in DOMAIN logins : logins[i] \in Owners
      BY <3>3
    <3> QED BY <3>4 DEF DiscoveredOwners
  <2>4. setup' \in [Procs -> Setup \cup {NULL}] /\ setup'[c] \in Setup
    <3>1. PICK offered \in SUBSET Owners :
             setup' = [setup EXCEPT ![c].pc = "owner", ![c].offered = offered]
      BY <1>4, <2>3 DEF DiscoverOwners
    <3> QED BY ZenonT(60), <2>2, <3>1 DEF Setup
  <2>5. Knows(setup[c])'
    BY <1>4, <2>1, <2>2, <2>4 DEF DiscoverOwners, Knows, At, Setup
  <2> QED BY <1>4, <2>1, <2>4, <2>5, Moved DEF DiscoverOwners
<1>5. CASE \E owner \in Owners : ChooseOwner(c, owner)
  <2>1. PICK owner \in Owners : ChooseOwner(c, owner)
    BY <1>5
  <2>2. setup[c] \in Setup /\ Knows(setup[c]) /\ setup[c].workspace \in WorkspaceIds
        /\ owner \in Values
    BY <2>1, SetupAssumption DEF ChooseOwner, At, Setup, SetupAssumption
  <2>3. Inv' /\ UNCHANGED <<names, issued, secrets>>
    BY <2>1, <2>2, WritingKeepsInv DEF ChooseOwner
  <2>4. setup' \in [Procs -> Setup \cup {NULL}] /\ setup'[c] \in Setup
    BY ZenonT(60), <2>1, <2>2 DEF ChooseOwner, Setup
  <2>5. Knows(setup[c])'
    BY <2>1, <2>2, <2>3, <2>4 DEF ChooseOwner, Knows, At, Setup
  <2> QED BY ZenonT(60), <2>1, <2>3, <2>4, <2>5, Moved DEF ChooseOwner
<1>6. CASE RefreshRepositories(c)
  <2>1. Inv' /\ UNCHANGED <<names, issued, secrets>>
    BY <1>6, ConfigInvKept DEF RefreshRepositories
  <2>2. setup[c] \in Setup /\ Knows(setup[c]) /\ setup[c].pc = "refresh"
    BY <1>6 DEF RefreshRepositories, At
  <2> DEFINE entries == config[setup[c].workspace]
  <2>3. /\ EffectiveHost(entries) \in Hosts /\ entries[OrganizationKey] # NULL
        /\ setup' = [setup EXCEPT ![c].pc = AfterGitHub(setup[c].providers),
                ![c].refreshed = <<EffectiveHost(entries), entries[OrganizationKey]>>]
    BY <1>6 DEF RefreshRepositories
  <2>4. <<EffectiveHost(entries), entries[OrganizationKey]>> \in Hosts \X Values
    BY <2>2, <2>3, SetupAssumption DEF ConfigTypeOK, Entries, Keys, SetupAssumption, Setup
  <2>5. AfterGitHub(setup[c].providers) = IF "confluence" \in setup[c].providers THEN "ask" ELSE "done"
    BY DEF AfterGitHub
  <2>6. setup' \in [Procs -> Setup \cup {NULL}] /\ setup'[c] \in Setup
    BY ZenonT(60), <2>2, <2>3, <2>4, <2>5 DEF Setup
  <2>7. Knows(setup[c])'
    BY Zenon, <2>1, <2>2, <2>3, <2>5, <2>6 DEF Knows, Setup
  <2> QED BY <2>1, <2>3, <2>6, <2>7, Moved
<1> QED BY <1>1, <1>2, <1>3, <1>4, <1>5, <1>6
(* The answers for Confluence are put together, and checked.               *)
LEMMA AnswersKeep ==
    ASSUME SetupInv, NEW c \in Procs,
           \/ \E base \in BaseURLs, space \in Spaces, root \in RootPages \cup {NULL}, pat \in Pats :
                 AskConfluence(c, base, space, root, pat)
           \/ CheckConfluence(c)
    PROVE  SetupInv'
<1> USE DEF SetupInv, SetupTypeOK
<1>1. CASE \E base \in BaseURLs, space \in Spaces, root \in RootPages \cup {NULL}, pat \in Pats :
              AskConfluence(c, base, space, root, pat)
  <2>1. PICK base \in BaseURLs, space \in Spaces, root \in RootPages \cup {NULL}, pat \in Pats :
           AskConfluence(c, base, space, root, pat)
    BY <1>1
  <2>2. Inv' /\ UNCHANGED <<names, issued, secrets>>
    BY <2>1, ConfigInvKept DEF AskConfluence
  <2>3. setup[c] \in Setup /\ Knows(setup[c]) /\ setup[c].pc = "ask"
    BY <2>1 DEF AskConfluence, At
  <2> DEFINE name == SecretName(setup[c].values[SecretKey])
             candidate == [base_url |-> base, space |-> space, root_page |-> root, pat |-> pat,
                           secret |-> name]
  <2>4. name \in SecretNames
    BY SecretNameTyped
  <2>5. candidate \in Candidate /\ candidate # NULL
        /\ candidate.secret = name /\ candidate.pat = pat
    BY <2>4, AbsenceAssumption DEF Candidate, AbsenceAssumption
  <2>6. PICK new \in BOOLEAN :
           /\ ~new => pat = secrets[name]
           /\ setup' = [setup EXCEPT ![c].pc = "check", ![c].new_pat = new,
                                     ![c].candidate = candidate]
    BY <2>1 DEF AskConfluence
  <2> HIDE DEF name, candidate
  <2>7. setup' \in [Procs -> Setup \cup {NULL}] /\ setup'[c] \in Setup
    BY ZenonT(60), <2>3, <2>5, <2>6 DEF Setup
  <2>8. pat # NULL
    BY SetupAssumption DEF SetupAssumption
  <2>9. /\ setup'[c].workspace = setup[c].workspace /\ setup'[c].todo = setup[c].todo
        /\ setup'[c].pc = "check" /\ setup'[c].candidate = candidate
        /\ setup'[c].new_pat = new
    BY <2>3, <2>6, <2>7 DEF Setup
  <2>10. Knows(setup[c])'
    BY <2>2, <2>3, <2>5, <2>6, <2>8, <2>9 DEF Knows
  <2> QED BY <2>2, <2>6, <2>7, <2>10, Moved
<1>2. CASE CheckConfluence(c)
  <2>1. Inv' /\ UNCHANGED <<names, issued, secrets>>
    BY <1>2, ConfigInvKept DEF CheckConfluence
  <2>2. setup[c] \in Setup /\ Knows(setup[c]) /\ setup[c].pc = "check"
        /\ setup[c].candidate # NULL
    BY <1>2 DEF CheckConfluence, At, Knows
  <2> DEFINE todo == Writes(setup[c])
  <2>3. /\ todo \in Seq(Write) /\ todo # <<>> /\ PatFirst(todo)
        /\ Pending(todo) \subseteq Wanted(setup[c].candidate)
        /\ setup[c].new_pat => IsPending(todo, "pat")
    BY <2>2, WritesOf
  <2>4. setup' = [setup EXCEPT ![c].pc = "store", ![c].todo = todo]
        /\ Validates(setup[c].candidate)
    BY <1>2 DEF CheckConfluence
  <2> HIDE DEF todo
  <2>5. setup' \in [Procs -> Setup \cup {NULL}] /\ setup'[c] \in Setup
    BY ZenonT(60), <2>2, <2>3, <2>4 DEF Setup
  <2>6. /\ setup'[c].workspace = setup[c].workspace /\ setup'[c].todo = todo
        /\ setup'[c].pc = "store" /\ setup'[c].candidate = setup[c].candidate
    BY <2>2, <2>4, <2>5 DEF Setup
  <2>7. IsPending(todo, "pat") \/ secrets[setup[c].candidate.secret] # NULL
    BY <2>2, <2>3 DEF Knows, Setup
  <2>8. Knows(setup[c])'
    BY <2>1, <2>2, <2>3, <2>4, <2>6, <2>7 DEF Knows
  <2> QED BY <2>1, <2>4, <2>5, <2>8, Moved
<1> QED BY <1>1, <1>2

(* The statement that is due, and what is left when it was run.            *)
LEMMA StatementDue ==
    ASSUME SetupInv, NEW c \in Procs, StoreNext(c)
    PROVE  /\ setup[c] \in Setup /\ setup[c] # NULL /\ Knows(setup[c]) /\ setup[c].pc = "store"
           /\ setup[c].candidate \in Candidate /\ setup[c].candidate # NULL
           /\ Head(setup[c].todo) \in Wanted(setup[c].candidate)
           /\ Tail(setup[c].todo) \in Seq(Write)
           /\ Pending(setup[c].todo) = {Head(setup[c].todo)} \cup Pending(Tail(setup[c].todo))
           /\ PatFirst(Tail(setup[c].todo)) /\ ~IsPending(Tail(setup[c].todo), "pat")
           /\ setup' \in [Procs -> Setup \cup {NULL}] /\ setup'[c] \in Setup
           /\ \A d \in Procs : d # c => setup'[d] = setup[d]
           /\ setup'[c] = [setup[c] EXCEPT !.todo = Tail(setup[c].todo), !.pc = setup'[c].pc]
           /\ setup'[c].pc = IF Tail(setup[c].todo) = <<>> THEN "done" ELSE "store"
<1>1. /\ setup[c] \in Setup /\ setup[c] # NULL /\ Knows(setup[c]) /\ setup[c].pc = "store"
      /\ setup[c].candidate \in Candidate /\ setup[c].candidate # NULL
      /\ setup \in [Procs -> Setup \cup {NULL}]
  BY DEF StoreNext, At, SetupInv, SetupTypeOK, Knows, Setup
<1>2. setup[c].todo \in Seq(Write) /\ setup[c].todo # <<>> /\ PatFirst(setup[c].todo)
      /\ Pending(setup[c].todo) \subseteq Wanted(setup[c].candidate)
  BY <1>1 DEF Setup, Knows
<1>3. /\ Tail(setup[c].todo) \in Seq(Write)
      /\ Pending(setup[c].todo) = {Head(setup[c].todo)} \cup Pending(Tail(setup[c].todo))
      /\ PatFirst(Tail(setup[c].todo)) /\ ~IsPending(Tail(setup[c].todo), "pat")
      /\ Len(setup[c].todo) = 1 <=> Tail(setup[c].todo) = <<>>
  BY <1>2, NextStatement
<1> DEFINE rest == Tail(setup[c].todo)
           pc == IF Len(setup[c].todo) = 1 THEN "done" ELSE "store"
<1>4. setup' = [setup EXCEPT ![c].todo = rest, ![c].pc = pc]
  BY DEF StoreNext
<1>5. pc = IF rest = <<>> THEN "done" ELSE "store"
  BY <1>3
<1>6. rest \in Seq(Write)
  BY <1>3
<1> HIDE DEF rest, pc
<1>7. /\ setup' \in [Procs -> Setup \cup {NULL}] /\ setup'[c] \in Setup
      /\ \A d \in Procs : d # c => setup'[d] = setup[d]
      /\ setup'[c] = [setup[c] EXCEPT !.todo = rest, !.pc = pc]
      /\ setup'[c].pc = pc
  BY ZenonT(60), <1>1, <1>4, <1>5, <1>6 DEF Setup
<1> QED BY <1>1, <1>2, <1>3, <1>5, <1>7 DEF rest

(* The PAT that is due is the one of the candidate.                        *)
LEMMA PatStatement ==
    ASSUME SetupInv, NEW c \in Procs, StoreNext(c), Head(setup[c].todo).key = "pat"
    PROVE  LET candidate == setup[c].candidate
           IN  /\ Head(setup[c].todo) = [key |-> "pat", value |-> candidate.pat]
               /\ secrets' = [secrets EXCEPT ![candidate.secret] = candidate.pat]
               /\ InvalidateSnapshots /\ UNCHANGED <<names, issued, config>>
<1> DEFINE write == Head(setup[c].todo)
           candidate == setup[c].candidate
<1>1. write \in Wanted(candidate) /\ candidate \in Candidate
  BY StatementDue
<1>2. /\ "pat" # BaseURLKey /\ "pat" # SpaceKey /\ "pat" # SecretKey /\ "pat" # AuthTypeKey
      /\ "pat" # RootPageKey
  BY DEF BaseURLKey, SpaceKey, SecretKey, AuthTypeKey, RootPageKey
<1>3. write = [key |-> "pat", value |-> candidate.pat]
  BY <1>1, <1>2 DEF Wanted
<1>4. write.value = candidate.pat /\ candidate.pat # NULL
  BY <1>1, <1>3, SetupAssumption DEF SetupAssumption, Candidate
<1>5. /\ secrets' = [secrets EXCEPT ![candidate.secret] = write.value]
      /\ InvalidateSnapshots /\ UNCHANGED <<names, issued, config>>
  BY <1>4 DEF StoreNext
<1> QED BY <1>3, <1>4, <1>5

(* Any other statement sets or unsets the entry it names.                  *)
LEMMA EntryStatement ==
    ASSUME SetupInv, NEW c \in Procs, StoreNext(c), Head(setup[c].todo).key # "pat"
    PROVE  LET write == Head(setup[c].todo)
               w == setup[c].workspace
               candidate == setup[c].candidate
           IN  /\ UNCHANGED secrets
               /\ \/ write.value = NULL /\ UnsetUser(w, write.key)
                  \/ write.value # NULL /\ SetUser(w, write.key, write.value)
               /\ \/ write = [key |-> BaseURLKey, value |-> candidate.base_url]
                  \/ write = [key |-> SpaceKey, value |-> candidate.space]
                  \/ write = [key |-> SecretKey, value |-> Reference[candidate.secret]]
                  \/ write = [key |-> AuthTypeKey, value |-> NULL]
                  \/ write = [key |-> RootPageKey, value |-> candidate.root_page]
<1> DEFINE write == Head(setup[c].todo)
           w == setup[c].workspace
           candidate == setup[c].candidate
<1>1. write \in Wanted(candidate)
  BY StatementDue
<1>2. \/ write.value = NULL /\ UnsetUser(w, write.key) /\ UNCHANGED secrets
      \/ write.value # NULL /\ SetUser(w, write.key, write.value) /\ UNCHANGED secrets
  BY DEF StoreNext
<1>3. \/ write = [key |-> BaseURLKey, value |-> candidate.base_url]
      \/ write = [key |-> SpaceKey, value |-> candidate.space]
      \/ write = [key |-> SecretKey, value |-> Reference[candidate.secret]]
      \/ write = [key |-> AuthTypeKey, value |-> NULL]
      \/ write = [key |-> RootPageKey, value |-> candidate.root_page]
  BY <1>1 DEF Wanted
<1> QED BY SMTT(30), <1>2, <1>3

(* One statement of the list: the PAT, an entry that is set or unset.      *)
LEMMA StatementEffect ==
    ASSUME SetupInv, NEW c \in Procs, StoreNext(c)
    PROVE  LET w == setup[c].workspace
               candidate == setup[c].candidate
           IN  \/ /\ Head(setup[c].todo) = [key |-> "pat", value |-> candidate.pat]
                  /\ secrets' = [secrets EXCEPT ![candidate.secret] = candidate.pat]
                  /\ InvalidateSnapshots /\ UNCHANGED <<names, issued, config>>
               \/ /\ UNCHANGED secrets
                  /\ \/ /\ Head(setup[c].todo) = [key |-> BaseURLKey, value |-> candidate.base_url]
                        /\ SetUser(w, BaseURLKey, candidate.base_url)
                     \/ /\ Head(setup[c].todo) = [key |-> SpaceKey, value |-> candidate.space]
                        /\ SetUser(w, SpaceKey, candidate.space)
                     \/ /\ Head(setup[c].todo)
                             = [key |-> SecretKey, value |-> Reference[candidate.secret]]
                        /\ SetUser(w, SecretKey, Reference[candidate.secret])
                     \/ /\ Head(setup[c].todo) = [key |-> AuthTypeKey, value |-> NULL]
                        /\ UnsetUser(w, AuthTypeKey)
                     \/ /\ Head(setup[c].todo)
                             = [key |-> RootPageKey, value |-> candidate.root_page]
                        /\ candidate.root_page # NULL
                        /\ SetUser(w, RootPageKey, candidate.root_page)
                     \/ /\ Head(setup[c].todo) = [key |-> RootPageKey, value |-> NULL]
                        /\ candidate.root_page = NULL
                        /\ UnsetUser(w, RootPageKey)
<1> DEFINE write == Head(setup[c].todo)
           w == setup[c].workspace
           candidate == setup[c].candidate
<1>1. write \in Wanted(candidate) /\ candidate \in Candidate
  BY StatementDue
<1>2. /\ "pat" # BaseURLKey /\ "pat" # SpaceKey /\ "pat" # SecretKey /\ "pat" # AuthTypeKey
      /\ "pat" # RootPageKey
  BY DEF BaseURLKey, SpaceKey, SecretKey, AuthTypeKey, RootPageKey
<1>3. candidate.base_url # NULL /\ candidate.space # NULL /\ Reference[candidate.secret] # NULL
  BY <1>1, SetupAssumption, ConfigAssumption DEF SetupAssumption, ConfigAssumption, Candidate
<1>4. CASE write.key = "pat"
  BY <1>4, PatStatement
<1>5. CASE write.key # "pat"
  <2>1. \/ write.value = NULL /\ UnsetUser(w, write.key) /\ UNCHANGED secrets
        \/ write.value # NULL /\ SetUser(w, write.key, write.value) /\ UNCHANGED secrets
    BY <1>5, EntryStatement
  <2>2. \/ write = [key |-> BaseURLKey, value |-> candidate.base_url]
        \/ write = [key |-> SpaceKey, value |-> candidate.space]
        \/ write = [key |-> SecretKey, value |-> Reference[candidate.secret]]
        \/ write = [key |-> AuthTypeKey, value |-> NULL]
        \/ write = [key |-> RootPageKey, value |-> candidate.root_page]
    BY <1>5, EntryStatement
  <2> QED BY <1>3, <2>1, <2>2
<1> QED BY SMTT(30), <1>4, <1>5
(* The keys a setup stores are keys of the user, and what it stores values.*)
LEMMA StatementTyped ==
    ASSUME SetupInv, NEW c \in Procs, StoreNext(c)
    PROVE  /\ Inv' /\ UNCHANGED <<names, issued>>
           /\ secrets' \in [SecretNames -> Pats \cup {NULL}]
           /\ \A n \in SecretNames : secrets[n] # NULL => secrets'[n] # NULL
<1> DEFINE w == setup[c].workspace
           candidate == setup[c].candidate
<1>1. candidate \in Candidate /\ w \in WorkspaceIds
  BY StatementDue DEF Setup
<1>2. /\ candidate.base_url \in Values /\ candidate.space \in Values
      /\ Reference[candidate.secret] \in Values /\ candidate.root_page \in Values \cup {NULL}
      /\ candidate.pat \in Pats /\ candidate.pat # NULL /\ candidate.secret \in SecretNames
  BY <1>1, SetupAssumption DEF SetupAssumption, Candidate
<1>3. Inv /\ secrets \in [SecretNames -> Pats \cup {NULL}]
  BY DEF SetupInv, SetupTypeOK
<1>4. CASE /\ secrets' = [secrets EXCEPT ![candidate.secret] = candidate.pat]
           /\ InvalidateSnapshots /\ UNCHANGED <<names, issued, config>>
  <2>1. Inv'
    BY <1>3, <1>4, ConfigInvKept
  <2> QED BY <1>2, <1>3, <1>4, <2>1
<1>5. CASE UNCHANGED secrets /\ \E k : UnsetUser(w, k) \/ \E value \in Values : SetUser(w, k, value)
  <2>1. Inv' /\ UNCHANGED <<names, issued>>
    BY <1>1, <1>3, <1>5, WritingKeepsInv
  <2> QED BY <1>3, <1>5, <2>1
<1> HIDE DEF w, candidate
<1>6. QED
  BY <1>2, <1>4, <1>5, StatementEffect DEF w, candidate

LEMMA StoringKeeps ==
    ASSUME SetupInv, NEW c \in Procs, StoreNext(c)
    PROVE  SetupInv'
<1>1. /\ Knows(setup[c]) /\ setup[c].pc = "store" /\ setup[c] \in Setup
      /\ setup[c].candidate \in Candidate /\ setup[c].candidate # NULL
      /\ Tail(setup[c].todo) \in Seq(Write)
      /\ Pending(setup[c].todo) = {Head(setup[c].todo)} \cup Pending(Tail(setup[c].todo))
      /\ PatFirst(Tail(setup[c].todo)) /\ ~IsPending(Tail(setup[c].todo), "pat")
  BY ZenonT(60), StatementDue
<1>2. /\ setup' \in [Procs -> Setup \cup {NULL}] /\ setup'[c] \in Setup
      /\ \A d \in Procs : d # c => setup'[d] = setup[d]
      /\ setup'[c] = [setup[c] EXCEPT !.todo = Tail(setup[c].todo), !.pc = setup'[c].pc]
      /\ setup'[c].pc = IF Tail(setup[c].todo) = <<>> THEN "done" ELSE "store"
  BY ZenonT(60), StatementDue
<1>3. /\ setup'[c].workspace = setup[c].workspace /\ setup'[c].candidate = setup[c].candidate
      /\ setup'[c].todo = Tail(setup[c].todo)
  BY <1>1, <1>2 DEF Setup
<1>4. /\ Inv' /\ UNCHANGED <<names, issued>>
      /\ secrets' \in [SecretNames -> Pats \cup {NULL}]
      /\ \A n \in SecretNames : secrets[n] # NULL => secrets'[n] # NULL
  BY StatementTyped
<1>5. secrets'[setup[c].candidate.secret] # NULL
  <2>1. setup[c].candidate.secret \in SecretNames /\ setup[c].candidate.pat # NULL
    BY <1>1, SetupAssumption DEF Candidate, SetupAssumption
  <2>2. CASE Head(setup[c].todo).key = "pat"
    <3>1. secrets' = [secrets EXCEPT ![setup[c].candidate.secret] = setup[c].candidate.pat]
      BY <2>2, PatStatement
    <3> QED BY <2>1, <3>1 DEF SetupInv, SetupTypeOK
  <2>3. CASE Head(setup[c].todo).key # "pat"
    <3>1. ~IsPending(setup[c].todo, "pat")
      BY <1>1, <2>3 DEF IsPending
    <3>2. secrets[setup[c].candidate.secret] # NULL
      BY <1>1, <3>1 DEF Knows
    <3> QED BY <1>4, <2>1, <3>2
  <2> QED BY <2>2, <2>3
<1>6. Knows(setup[c])'
  BY <1>1, <1>2, <1>3, <1>4, <1>5 DEF Knows
<1> QED BY SMTT(30), <1>2, <1>4, <1>6, Moved

LEMMA StoppingKeeps ==
    ASSUME SetupInv, NEW c \in Procs, Stop(c)
    PROVE  SetupInv'
<1>1. Inv' /\ UNCHANGED <<names, issued, secrets>>
  BY ConfigInvKept DEF Stop, SetupInv
<1>2. setup' \in [Procs -> Setup \cup {NULL}] /\ setup'[c] = NULL
      /\ \A d \in Procs : d # c => setup'[d] = setup[d]
  BY DEF Stop, SetupInv, SetupTypeOK
<1> QED BY <1>1, <1>2, Moved DEF SetupInv, SetupTypeOK

(* Commands other than setup.                                              *)
LEMMA OthersKeep ==
    ASSUME SetupInv,
           \/ OtherConfigCommands
           \/ \E name \in SecretNames : DeleteSecret(name) \/ \E pat \in Pats : SetSecret(name, pat)
    PROVE  SetupInv' /\ UNCHANGED setup
<1> USE DEF SetupInv, SetupTypeOK
<1>1. CASE OtherConfigCommands
  <2>1. PICK w \in WorkspaceIds :
           \/ \E name \in WorkspaceNames : AddWorkspace(w, name)
           \/ RemoveWorkspace(w)
           \/ \E k \in UserKeys : UnsetUser(w, k) \/ \E value \in Typed[k] : SetUser(w, k, value)
    BY <1>1 DEF OtherConfigCommands
  <2>2. \A k \in UserKeys : k \in Keys /\ Typed[k] \subseteq Values
    BY SetupAssumption DEF SetupAssumption, Keys
  <2>3. ConfigCommand
    BY <2>1, <2>2 DEF ConfigCommand
  <2>4. Inv'
    BY <2>3, CommandPreserves
  <2>5. UNCHANGED <<secrets, setup>>
    BY <1>1 DEF OtherConfigCommands
  <2>6. issued \subseteq issued' /\ (\A v \in WorkspaceIds : Live(v) => v \in issued)'
    <3>1. CASE \E name \in WorkspaceNames : AddWorkspace(w, name)
      BY <3>1 DEF AddWorkspace, Live, ConfigTypeOK
    <3>2. CASE RemoveWorkspace(w)
      BY <3>2 DEF RemoveWorkspace, Live, ConfigTypeOK
    <3>3. CASE \E k \in UserKeys : UnsetUser(w, k) \/ \E value \in Typed[k] : SetUser(w, k, value)
      BY <3>3 DEF UnsetUser, SetUser, SetEntry, Live
    <3> QED BY <2>1, <3>1, <3>2, <3>3
  <2>7. \A c \in Procs : setup'[c] # NULL => Knows(setup[c])'
    BY <2>5, <2>6, KnowsKept
  <2> QED BY <2>4, <2>5, <2>6, <2>7 DEF Inv, EntriesHaveWorkspace
<1>2. CASE \E name \in SecretNames : DeleteSecret(name) \/ \E pat \in Pats : SetSecret(name, pat)
  <2>1. /\ \A c \in Procs : setup[c] = NULL
        /\ InvalidateSnapshots /\ UNCHANGED <<names, issued, config, setup>>
        /\ secrets' \in [SecretNames -> Pats \cup {NULL}]
    BY <1>2 DEF DeleteSecret, SetSecret, Idle
  <2>2. Inv'
    BY <2>1, ConfigInvKept
  <2> QED BY <2>1, <2>2 DEF Inv, EntriesHaveWorkspace, Live
<1> QED BY <1>1, <1>2

LEMMA NextKeeps ==
    ASSUME SetupInv, [Next]_setupVars
    PROVE  SetupInv'
<1>1. ASSUME NEW c \in Procs, SetupStep(c)
      PROVE  SetupInv'
  BY <1>1, QuestionsKeep, AnswersKeep, StoringKeeps, StoppingKeeps DEF SetupStep
<1>2. CASE UNCHANGED setupVars
  BY <1>2 DEF setupVars, SetupInv, SetupTypeOK, Inv, EntriesHaveWorkspace, ConfigTypeOK, Live,
              SnapshotsCurrent, SavedEditsResolved, EditAt, Knows, NoEntries
<1> QED BY <1>1, <1>2, OthersKeep DEF Next

LEMMA InitHolds ==
    ASSUME Init
    PROVE  SetupInv
<1>1. NoEntries \in Entries
  BY DEF NoEntries, Entries
<1>2. Inv
  BY <1>1 DEF Init, ConfigInit, Inv, EntriesHaveWorkspace, ConfigTypeOK, Live,
              SnapshotsCurrent, SavedEditsResolved, EditAt
<1> QED BY <1>2 DEF Init, ConfigInit, SetupInv, SetupTypeOK, Inv, EntriesHaveWorkspace, Live

(* What a setup knows of its answers and of the statements it has to run   *)
(* stays true whatever other setups and commands do meanwhile.             *)
THEOREM SetupInvInductive == Spec => []SetupInv
<1>1. Init => SetupInv
  BY InitHolds
<1> QED BY <1>1, NextKeeps, PTL DEF Spec
-----------------------------------------------------------------------------
(* What a setup may never do, for any number of setups at one time. *)

LEMMA KeysDiffer ==
    /\ BaseURLKey # SpaceKey /\ BaseURLKey # SecretKey /\ BaseURLKey # AuthTypeKey
    /\ BaseURLKey # RootPageKey /\ BaseURLKey # HostKey /\ BaseURLKey # OrganizationKey
    /\ SpaceKey # SecretKey /\ SpaceKey # AuthTypeKey /\ SpaceKey # RootPageKey
    /\ SpaceKey # HostKey /\ SpaceKey # OrganizationKey
    /\ SecretKey # AuthTypeKey /\ SecretKey # RootPageKey /\ SecretKey # HostKey
    /\ SecretKey # OrganizationKey
    /\ AuthTypeKey # RootPageKey /\ AuthTypeKey # HostKey /\ AuthTypeKey # OrganizationKey
    /\ RootPageKey # HostKey /\ RootPageKey # OrganizationKey /\ HostKey # OrganizationKey
BY DEF BaseURLKey, SpaceKey, SecretKey, AuthTypeKey, RootPageKey, HostKey, OrganizationKey

(* An entry and no other is set or unset.                                  *)
LEMMA EntryWritten ==
    ASSUME config \in [WorkspaceIds -> Entries], NEW w \in WorkspaceIds, NEW k, NEW value,
           SetUser(w, k, value) \/ (value = NULL /\ UnsetUser(w, k))
    PROVE  /\ k \in Keys /\ config'[w][k] = value
           /\ \A v \in WorkspaceIds : v # w => config'[v] = config[v]
           /\ \A l \in Keys : l # k => config'[w][l] = config[w][l]
           /\ UNCHANGED names
BY DEF SetUser, SetEntry, UnsetUser, Entries, Keys

(* The steps of a setup, by what they store.                               *)
LEMMA SetupEffect ==
    ASSUME SetupInv, NEW c \in Procs, SetupStep(c)
    PROVE  /\ \A d \in Procs : d # c => setup'[d] = setup[d]
           /\ \/ UNCHANGED <<config, secrets>>
              \/ /\ UNCHANGED secrets /\ setup[c] # NULL
                 /\ \E k \in {HostKey, OrganizationKey}, value \in Values :
                       SetUser(setup[c].workspace, k, value)
              \/ StoreNext(c)
<1>1. \A d \in Procs : d # c => setup'[d] = setup[d]
  BY ZenonT(60), StatementDue DEF SetupStep, Begin, KeepHost, ChooseHost, DiscoverOwners, ChooseOwner,
     RefreshRepositories, AskConfluence, CheckConfluence, Stop, SetupInv, SetupTypeOK
<1>2. ASSUME NEW host \in Hosts, ChooseHost(c, host)
      PROVE  /\ UNCHANGED secrets /\ setup[c] # NULL /\ host \in Values
             /\ SetUser(setup[c].workspace, HostKey, host)
  BY <1>2, SetupAssumption DEF ChooseHost, At, SetupAssumption
<1>3. ASSUME NEW owner \in Owners, ChooseOwner(c, owner)
      PROVE  /\ UNCHANGED secrets /\ setup[c] # NULL /\ owner \in Values
             /\ SetUser(setup[c].workspace, OrganizationKey, owner)
  BY <1>3, SetupAssumption DEF ChooseOwner, At, SetupAssumption
<1>4. CASE \/ \E host \in Hosts : ChooseHost(c, host)
           \/ \E owner \in Owners : ChooseOwner(c, owner)
  BY <1>1, <1>2, <1>3, <1>4
<1>5. CASE ~StoreNext(c) /\ ~(\E host \in Hosts : ChooseHost(c, host))
             /\ ~(\E owner \in Owners : ChooseOwner(c, owner))
  BY <1>1, <1>5 DEF SetupStep, Begin, KeepHost, DiscoverOwners, RefreshRepositories,
     AskConfluence, CheckConfluence, Stop
<1> QED BY SMTT(30), <1>1, <1>4, <1>5

LEMMA OnlySetupsMoveSetups ==
    ASSUME SetupInv, [Next]_setupVars, setup' # setup
    PROVE  \E c \in Procs : SetupStep(c)
BY OthersKeep DEF Next, setupVars

(* A reference that is stored leads to a PAT.                              *)
LEMMA ReferenceStep ==
    ASSUME SetupInv, NEW c \in Procs, SetupStep(c), NEW w \in WorkspaceIds,
           NEW n \in SecretNames, config'[w][SecretKey] = Reference[n], secrets'[n] = NULL
    PROVE  config[w][SecretKey] = Reference[n] /\ secrets[n] = NULL
<1>1. config \in [WorkspaceIds -> Entries] /\ secrets \in [SecretNames -> Pats \cup {NULL}]
      /\ SecretKey \in Keys /\ Reference[n] # NULL
  BY SetupAssumption, ConfigAssumption
     DEF SetupInv, SetupTypeOK, ConfigTypeOK, SetupAssumption, ConfigAssumption, Keys
<1>2. CASE UNCHANGED <<config, secrets>>
  BY <1>2
<1>3. CASE UNCHANGED secrets /\ setup[c] # NULL
           /\ \E k \in {HostKey, OrganizationKey}, value \in Values :
                 SetUser(setup[c].workspace, k, value)
  <2>1. setup[c].workspace \in WorkspaceIds
    BY <1>3 DEF SetupInv, SetupTypeOK, Setup
  <2>2. config'[w][SecretKey] = config[w][SecretKey]
    BY <1>1, <1>3, <2>1, EntryWritten, KeysDiffer
  <2> QED BY <1>3, <2>2
<1>4. CASE StoreNext(c)
  <2> DEFINE v == setup[c].workspace
             candidate == setup[c].candidate
  <2>1. /\ v \in WorkspaceIds /\ candidate \in Candidate /\ candidate.secret \in SecretNames
        /\ candidate.pat # NULL
    BY ZenonT(60), <1>4, StatementDue, SetupAssumption DEF Setup, Candidate, SetupAssumption
  <2>2. CASE Head(setup[c].todo).key = "pat"
    <3>1. secrets' = [secrets EXCEPT ![candidate.secret] = candidate.pat] /\ UNCHANGED config
      BY <1>4, <2>2, PatStatement
    <3> QED BY <1>1, <2>1, <3>1
  <2>3. CASE Head(setup[c].todo).key # "pat"
    <3> DEFINE k == Head(setup[c].todo).key
               value == Head(setup[c].todo).value
    <3>1. UNCHANGED secrets /\ (SetUser(v, k, value) \/ (value = NULL /\ UnsetUser(v, k)))
      BY <1>4, <2>3, EntryStatement
    <3>2. secrets[candidate.secret] # NULL
      BY ZenonT(60), <1>4, <2>3, StatementDue DEF Knows, IsPending
    <3>3. k = SecretKey => value = Reference[candidate.secret]
      <4>1. \/ Head(setup[c].todo) = [key |-> BaseURLKey, value |-> candidate.base_url]
            \/ Head(setup[c].todo) = [key |-> SpaceKey, value |-> candidate.space]
            \/ Head(setup[c].todo) = [key |-> SecretKey, value |-> Reference[candidate.secret]]
            \/ Head(setup[c].todo) = [key |-> AuthTypeKey, value |-> NULL]
            \/ Head(setup[c].todo) = [key |-> RootPageKey, value |-> candidate.root_page]
        BY <1>4, <2>3, EntryStatement
      <4> QED BY <4>1, KeysDiffer
    <3>4. CASE k = SecretKey /\ w = v
      <4>1. config'[w][SecretKey] = Reference[candidate.secret]
        BY SMTT(30), <1>1, <2>1, <3>1, <3>3, <3>4, EntryWritten
      <4>2. n = candidate.secret
        BY <2>1, <4>1, SetupAssumption DEF SetupAssumption
      <4> QED BY <3>1, <3>2, <4>2
    <3>5. CASE k # SecretKey \/ w # v
      <4>1. config'[w][SecretKey] = config[w][SecretKey]
        <5>1. /\ \A u \in WorkspaceIds : u # v => config'[u] = config[u]
              /\ \A l \in Keys : l # k => config'[v][l] = config[v][l]
          BY <1>1, <2>1, <3>1, EntryWritten
        <5> HIDE DEF v, k
        <5> QED BY <1>1, <3>5, <5>1
      <4> QED BY <3>1, <4>1
    <3> QED BY <3>4, <3>5
  <2> QED BY <2>2, <2>3
<1> QED BY <1>2, <1>3, <1>4, SetupEffect

(* No step of any setup makes a stored reference dangle.                   *)
THEOREM NoReferenceDangles == Spec => ReferencesResolve
<1>1. SetupInv /\ [Next]_setupVars =>
        (setup' # setup =>
          \A w \in WorkspaceIds, n \in SecretNames :
             (config'[w][SecretKey] = Reference[n] /\ secrets'[n] = NULL) =>
                (config[w][SecretKey] = Reference[n] /\ secrets[n] = NULL))
  BY OnlySetupsMoveSetups, ReferenceStep
<1> QED BY <1>1, SetupInvInductive, PTL DEF Spec, ReferencesResolve
(* Nothing of a candidate is stored before Confluence accepted all of it.  *)
THEOREM AcceptedBeforeStored == Spec => OnlyAcceptedStored
<1> DEFINE stores == \/ secrets' # secrets
                     \/ \E w \in WorkspaceIds :
                          \E k \in {BaseURLKey, SpaceKey, SecretKey, RootPageKey} :
                             config'[w][k] # config[w][k]
<1>1. ASSUME SetupInv, [Next]_setupVars, NEW c \in Procs, setup'[c] # setup[c], stores
      PROVE  Validates(setup[c].candidate)
  <2>1. SetupStep(c)
    BY <1>1, OnlySetupsMoveSetups, SetupEffect
  <2>2. config \in [WorkspaceIds -> Entries]
        /\ {BaseURLKey, SpaceKey, SecretKey, RootPageKey} \subseteq Keys
    BY <1>1, SetupAssumption DEF SetupInv, SetupTypeOK, ConfigTypeOK, SetupAssumption, Keys
  <2>3. CASE UNCHANGED <<config, secrets>>
    BY <1>1, <2>3
  <2>4. CASE UNCHANGED secrets /\ setup[c] # NULL
             /\ \E k \in {HostKey, OrganizationKey}, value \in Values :
                   SetUser(setup[c].workspace, k, value)
    <3>1. PICK k \in {HostKey, OrganizationKey}, value \in Values :
             SetUser(setup[c].workspace, k, value)
      BY <2>4
    <3>2. setup[c].workspace \in WorkspaceIds
      BY <1>1, <2>4 DEF SetupInv, SetupTypeOK, Setup
    <3>3. /\ \A u \in WorkspaceIds : u # setup[c].workspace => config'[u] = config[u]
          /\ \A l \in Keys : l # k => config'[setup[c].workspace][l] = config[setup[c].workspace][l]
      BY <2>2, <3>1, <3>2, EntryWritten
    <3>4. k \notin {BaseURLKey, SpaceKey, SecretKey, RootPageKey}
      BY SMTT(30), KeysDiffer
    <3> QED BY <1>1, <2>2, <2>4, <3>3, <3>4
  <2>5. CASE StoreNext(c)
    BY Zenon, <1>1, <2>5, StatementDue DEF Knows
  <2> QED BY <1>1, <2>1, <2>3, <2>4, <2>5, SetupEffect
<1>2. SetupInv /\ [Next]_setupVars =>
        \A c \in Procs :
          (setup'[c] # setup[c] /\ (secrets' # secrets \/ \E w \in WorkspaceIds :
              \E k \in {BaseURLKey, SpaceKey, SecretKey, RootPageKey} : config'[w][k] # config[w][k]))
          => Validates(setup[c].candidate)
  BY <1>1
<1> HIDE DEF stores
<1> QED BY <1>2, SetupInvInductive, PTL DEF Spec, OnlyAcceptedStored

(* A configuration is complete when nothing required is missing.           *)
LEMMA CompleteStatus ==
    ASSUME NEW entries
    PROVE  ConfluenceStatus(entries) \in {"ready", "degraded"}
             <=> \A k \in {BaseURLKey, SpaceKey, SecretKey} : entries[k] # NULL
<1>1. CASE NamespaceEmpty(entries, ConfluenceKeys)
  BY <1>1 DEF ConfluenceStatus, NamespaceEmpty, ConfluenceKeys
<1>2. CASE ~NamespaceEmpty(entries, ConfluenceKeys)
           /\ \E k \in {BaseURLKey, SpaceKey, SecretKey} : entries[k] = NULL
  BY <1>2 DEF ConfluenceStatus
<1>3. CASE ~NamespaceEmpty(entries, ConfluenceKeys)
           /\ ~\E k \in {BaseURLKey, SpaceKey, SecretKey} : entries[k] = NULL
  BY <1>3 DEF ConfluenceStatus
<1> QED BY <1>1, <1>2, <1>3

(* No step of a setup takes a required entry away.                         *)
LEMMA RequiredStays ==
    ASSUME SetupInv, NEW c \in Procs, SetupStep(c), NEW w \in WorkspaceIds,
           NEW k \in {BaseURLKey, SpaceKey, SecretKey}, config[w][k] # NULL
    PROVE  config'[w][k] # NULL
<1>1. config \in [WorkspaceIds -> Entries] /\ k \in Keys
  BY SetupAssumption DEF SetupInv, SetupTypeOK, ConfigTypeOK, SetupAssumption, Keys
<1>2. CASE UNCHANGED <<config, secrets>>
  BY <1>2
<1>3. CASE UNCHANGED secrets /\ setup[c] # NULL
           /\ \E l \in {HostKey, OrganizationKey}, value \in Values :
                 SetUser(setup[c].workspace, l, value)
  <2>1. setup[c].workspace \in WorkspaceIds
    BY <1>3 DEF SetupInv, SetupTypeOK, Setup
  <2>2. config'[w][k] = config[w][k]
    BY <1>1, <1>3, <2>1, EntryWritten, KeysDiffer
  <2> QED BY <2>2
<1>4. CASE StoreNext(c)
  <2> DEFINE v == setup[c].workspace
             candidate == setup[c].candidate
             key == Head(setup[c].todo).key
             value == Head(setup[c].todo).value
  <2>1. CASE key = "pat"
    BY <1>4, <2>1, PatStatement
  <2>2. CASE key # "pat"
    <3>1. SetUser(v, key, value) \/ (value = NULL /\ UnsetUser(v, key))
      BY <1>4, <2>2, EntryStatement
    <3>2. \/ Head(setup[c].todo) = [key |-> BaseURLKey, value |-> candidate.base_url]
          \/ Head(setup[c].todo) = [key |-> SpaceKey, value |-> candidate.space]
          \/ Head(setup[c].todo) = [key |-> SecretKey, value |-> Reference[candidate.secret]]
          \/ Head(setup[c].todo) = [key |-> AuthTypeKey, value |-> NULL]
          \/ Head(setup[c].todo) = [key |-> RootPageKey, value |-> candidate.root_page]
      BY SMTT(30), <1>4, <2>2, EntryStatement
    <3>3. v \in WorkspaceIds /\ candidate.base_url # NULL /\ candidate.space # NULL
          /\ Reference[candidate.secret] # NULL
      <4>1. setup[c] \in Setup /\ candidate \in Candidate
        BY <1>4, StatementDue
      <4> QED BY <4>1, SetupAssumption, ConfigAssumption
              DEF Setup, Candidate, SetupAssumption, ConfigAssumption
    <3>4. key = k => value # NULL
      BY <3>2, <3>3, KeysDiffer
    <3>5. /\ config'[v][key] = value
          /\ \A u \in WorkspaceIds : u # v => config'[u] = config[u]
          /\ \A l \in Keys : l # key => config'[v][l] = config[v][l]
      <4> HIDE DEF v, key, value
      <4> QED BY <1>1, <3>1, <3>3, EntryWritten
    <3> HIDE DEF v, key, value
    <3> QED BY <1>1, <3>4, <3>5
  <2> QED BY <2>1, <2>2
<1> QED BY <1>2, <1>3, <1>4, SetupEffect

(* A setup that stops half way leaves a complete configuration complete.   *)
THEOREM CompleteStays == Spec => SetupKeepsComplete
<1>1. ASSUME SetupInv, [Next]_setupVars, setup' # setup, NEW w \in WorkspaceIds,
             ConfluenceStatus(config[w]) \in {"ready", "degraded"}
      PROVE  ConfluenceStatus(config'[w]) \in {"ready", "degraded"}
  <2>1. \A k \in {BaseURLKey, SpaceKey, SecretKey} : config[w][k] # NULL
    BY <1>1, CompleteStatus
  <2>2. \A k \in {BaseURLKey, SpaceKey, SecretKey} : config'[w][k] # NULL
    BY <1>1, <2>1, OnlySetupsMoveSetups, RequiredStays
  <2> DEFINE entries == config'[w]
  <2>3. ConfluenceStatus(entries) \in {"ready", "degraded"}
    <3> HIDE DEF entries
    <3>1. \A e : (\A k \in {BaseURLKey, SpaceKey, SecretKey} : e[k] # NULL)
                    => ConfluenceStatus(e) \in {"ready", "degraded"}
      BY CompleteStatus
    <3> QED BY <2>2, <3>1 DEF entries
  <2> QED BY <2>3
<1>2. SetupInv /\ [Next]_setupVars =>
        \A w \in WorkspaceIds :
          (setup' # setup /\ ConfluenceStatus(config[w]) \in {"ready", "degraded"})
             => ConfluenceStatus(config'[w]) \in {"ready", "degraded"}
  BY <1>1
<1> QED BY <1>2, SetupInvInductive, PTL DEF Spec, SetupKeepsComplete
-----------------------------------------------------------------------------
(* One setup at a time: what the tables hold of its answers. *)

(* A running setup has the tables to itself but for commands that add or   *)
(* remove workspaces.                                                      *)
LEMMA TracksBeside ==
    ASSUME AloneInv, NEW c \in Procs, setup[c] # NULL,
           \/ OtherConfigCommands
           \/ \E name \in SecretNames : DeleteSecret(name) \/ \E pat \in Pats : SetSecret(name, pat)
    PROVE  Tracks(setup[c])'
<1>1. ~Idle
  BY DEF Idle
<1>2. UNCHANGED <<secrets, setup>>
  BY <1>1 DEF OtherConfigCommands, DeleteSecret, SetSecret
<1>3. PICK w \in WorkspaceIds :
         \/ \E name \in WorkspaceNames : AddWorkspace(w, name)
         \/ RemoveWorkspace(w)
  BY <1>1 DEF OtherConfigCommands, DeleteSecret, SetSecret
<1>4. /\ names \in [WorkspaceIds -> WorkspaceNames \cup {NULL}]
      /\ config \in [WorkspaceIds -> Entries]
      /\ setup[c].workspace \in WorkspaceIds /\ setup[c].workspace \in issued
      /\ Tracks(setup[c])
  BY DEF AloneInv, SetupInv, SetupTypeOK, ConfigTypeOK, Setup, Knows
<1>5. Live(setup[c].workspace)' =>
         Live(setup[c].workspace) /\ config'[setup[c].workspace] = config[setup[c].workspace]
  <2>1. CASE \E name \in WorkspaceNames : AddWorkspace(w, name)
    <3>1. w # setup[c].workspace
      BY <1>4, <2>1 DEF AddWorkspace
    <3> QED BY <1>2, <1>4, <2>1, <3>1 DEF AddWorkspace, Live
  <2>2. CASE RemoveWorkspace(w)
    BY <1>2, <1>4, <2>2 DEF RemoveWorkspace, Live
  <2> QED BY <1>3, <2>1, <2>2
<1>6. HostChosen(setup[c])' = HostChosen(setup[c]) /\ OwnerChosen(setup[c])' = OwnerChosen(setup[c])
  BY <1>2
<1> QED BY <1>2, <1>4, <1>5, <1>6 DEF Tracks, Applied

(* The questions about GitHub: the host and the owner are stored as they   *)
(* are answered, and nothing of Confluence is.                             *)
LEMMA TracksGitHub ==
    ASSUME AloneInv, NEW c \in Procs,
           \/ \E w \in WorkspaceIds, providers \in SUBSET Providers : Begin(c, w, providers)
           \/ KeepHost(c) \/ \E host \in Hosts : ChooseHost(c, host)
           \/ DiscoverOwners(c) \/ \E owner \in Owners : ChooseOwner(c, owner)
           \/ RefreshRepositories(c)
    PROVE  Tracks(setup[c])'
<1> USE DEF HostChosen, OwnerChosen
<1>1. CASE \E w \in WorkspaceIds, providers \in SUBSET Providers : Begin(c, w, providers)
  BY <1>1 DEF Begin, Tracks, AloneInv, SetupInv, SetupTypeOK, ConfluenceKeys
<1>2. ASSUME setup[c] # NULL
      PROVE  /\ setup[c] \in Setup /\ Tracks(setup[c]) /\ Knows(setup[c])
             /\ setup[c].workspace \in WorkspaceIds
             /\ config \in [WorkspaceIds -> Entries]
             /\ {HostKey, OrganizationKey} \cup ConfluenceKeys \subseteq Keys
  <2>1. {HostKey, OrganizationKey} \cup ConfluenceKeys \subseteq Keys
    BY SetupAssumption DEF SetupAssumption, Keys, ConfluenceKeys
  <2> QED BY <1>2, <2>1 DEF AloneInv, SetupInv, SetupTypeOK, ConfigTypeOK, Setup
<1>3. CASE KeepHost(c)
  <2>1. setup[c] # NULL /\ setup[c].pc = "host" /\ UNCHANGED <<names, config, secrets>>
    BY <1>3 DEF KeepHost, At
  <2>2. /\ setup'[c].pc = "login" /\ setup'[c].host = EffectiveHost(setup[c].values)
        /\ setup'[c].workspace = setup[c].workspace /\ setup'[c].values = setup[c].values
        /\ setup'[c].candidate = setup[c].candidate /\ setup'[c].refreshed = setup[c].refreshed
    BY <1>2, <1>3, <2>1 DEF KeepHost, Setup, AloneInv, SetupInv, SetupTypeOK
  <2> QED BY <1>2, <2>1, <2>2 DEF Tracks, Knows, Live
<1>4. CASE \E host \in Hosts : ChooseHost(c, host)
  <2>1. PICK host \in Hosts : ChooseHost(c, host)
    BY <1>4
  <2>2. setup[c] # NULL /\ setup[c].pc = "host" /\ UNCHANGED secrets
    BY <2>1 DEF ChooseHost, At
  <2>3. /\ setup'[c].pc = "login" /\ setup'[c].host = host
        /\ setup'[c].workspace = setup[c].workspace /\ setup'[c].values = setup[c].values
        /\ setup'[c].candidate = setup[c].candidate /\ setup'[c].refreshed = setup[c].refreshed
    BY <1>2, <2>1, <2>2 DEF ChooseHost, Setup, AloneInv, SetupInv, SetupTypeOK
  <2> DEFINE w == setup[c].workspace
  <2>4. /\ config'[w][HostKey] = host /\ UNCHANGED names
        /\ \A l \in Keys : l # HostKey => config'[w][l] = config[w][l]
    BY <1>2, <2>1, <2>2, EntryWritten DEF ChooseHost
  <2>5. \A k \in ConfluenceKeys : config'[w][k] = config[w][k]
    BY <1>2, <2>2, <2>4, KeysDiffer DEF ConfluenceKeys
  <2>6. host # NULL
    BY SetupAssumption, ConfigAssumption DEF SetupAssumption, ConfigAssumption
  <2> QED BY <1>2, <2>2, <2>3, <2>4, <2>5, <2>6 DEF Tracks, Knows, Live, EffectiveHost
<1>5. CASE DiscoverOwners(c)
  <2>1. setup[c] # NULL /\ setup[c].pc = "login" /\ UNCHANGED <<names, config, secrets>>
        /\ setup[c].host \in Authenticated
    BY <1>5 DEF DiscoverOwners, At
  <2>2. /\ setup'[c].pc = "owner" /\ setup'[c].host = setup[c].host
        /\ setup'[c].workspace = setup[c].workspace /\ setup'[c].values = setup[c].values
        /\ setup'[c].candidate = setup[c].candidate /\ setup'[c].refreshed = setup[c].refreshed
    BY <1>2, <1>5, <2>1 DEF DiscoverOwners, Setup, AloneInv, SetupInv, SetupTypeOK
  <2> QED BY <1>2, <2>1, <2>2 DEF Tracks, Knows, Live
<1>6. CASE \E owner \in Owners : ChooseOwner(c, owner)
  <2>1. PICK owner \in Owners : ChooseOwner(c, owner)
    BY <1>6
  <2>2. setup[c] # NULL /\ setup[c].pc = "owner" /\ UNCHANGED secrets
    BY <2>1 DEF ChooseOwner, At
  <2>3. /\ setup'[c].pc = "refresh" /\ setup'[c].host = setup[c].host /\ setup'[c].owner = owner
        /\ setup'[c].workspace = setup[c].workspace /\ setup'[c].values = setup[c].values
        /\ setup'[c].candidate = setup[c].candidate /\ setup'[c].refreshed = setup[c].refreshed
    BY <1>2, <2>1, <2>2 DEF ChooseOwner, Setup, AloneInv, SetupInv, SetupTypeOK
  <2> DEFINE w == setup[c].workspace
  <2>4. /\ config'[w][OrganizationKey] = owner /\ UNCHANGED names
        /\ \A l \in Keys : l # OrganizationKey => config'[w][l] = config[w][l]
    BY <1>2, <2>1, <2>2, EntryWritten DEF ChooseOwner
  <2>5. /\ \A k \in ConfluenceKeys : config'[w][k] = config[w][k]
        /\ config'[w][HostKey] = config[w][HostKey]
    BY <1>2, <2>2, <2>4, KeysDiffer DEF ConfluenceKeys
  <2>6. owner # NULL
    BY SetupAssumption, ConfigAssumption DEF SetupAssumption, ConfigAssumption
  <2> QED BY <1>2, <2>2, <2>3, <2>4, <2>5, <2>6 DEF Tracks, Knows, Live, EffectiveHost
<1>7. CASE RefreshRepositories(c)
  <2> DEFINE w == setup[c].workspace
  <2>1. setup[c] # NULL /\ setup[c].pc = "refresh" /\ UNCHANGED <<names, config, secrets>>
        /\ config[w][OrganizationKey] # NULL
    BY <1>7 DEF RefreshRepositories, At
  <2>2. Live(w)
    <3>1. config[w] # NoEntries
      BY <1>2, <2>1 DEF NoEntries
    <3> QED BY <1>2, <2>1, <3>1 DEF AloneInv, SetupInv, Inv, EntriesHaveWorkspace
  <2>3. /\ setup'[c].pc = AfterGitHub(setup[c].providers) /\ setup'[c].host = setup[c].host
        /\ setup'[c].owner = setup[c].owner /\ setup'[c].providers = setup[c].providers
        /\ setup'[c].workspace = w /\ setup'[c].values = setup[c].values
        /\ setup'[c].candidate = setup[c].candidate
        /\ setup'[c].refreshed = <<EffectiveHost(config[w]), config[w][OrganizationKey]>>
    BY <1>2, <1>7, <2>1 DEF RefreshRepositories, Setup, AloneInv, SetupInv, SetupTypeOK
  <2>4. setup'[c].refreshed = <<setup[c].host, setup[c].owner>>
    BY <1>2, <2>1, <2>2, <2>3 DEF Tracks
  <2>5. setup'[c].pc \in {"ask", "done"}
    BY <2>3 DEF AfterGitHub
  <2> QED BY <1>2, <2>1, <2>3, <2>4, <2>5 DEF Tracks, Knows, Live
<1> QED BY <1>1, <1>3, <1>4, <1>5, <1>6, <1>7
(* An entry that is due is stored as it should be, and one that was stored *)
(* stays.                                                                  *)
LEMMA EntryApplied ==
    ASSUME SetupInv, NEW c \in Procs, StoreNext(c), NEW k \in Keys, k # "pat", NEW expected,
           Head(setup[c].todo).key = k => Head(setup[c].todo).value = expected,
           IsPending(setup[c].todo, k) \/ config[setup[c].workspace][k] = expected
    PROVE  IsPending(Tail(setup[c].todo), k) \/ config'[setup[c].workspace][k] = expected
<1> DEFINE w == setup[c].workspace
           write == Head(setup[c].todo)
<1>1. /\ config \in [WorkspaceIds -> Entries] /\ w \in WorkspaceIds
      /\ IsPending(setup[c].todo, k) => write.key = k \/ IsPending(Tail(setup[c].todo), k)
  <2>1. w \in WorkspaceIds
    BY ZenonT(60), StatementDue DEF Setup
  <2>2. Pending(setup[c].todo) = {write} \cup Pending(Tail(setup[c].todo))
    BY Zenon, StatementDue
  <2> QED BY <2>1, <2>2 DEF SetupInv, SetupTypeOK, ConfigTypeOK, IsPending
<1>2. CASE write.key = "pat"
  <2>1. UNCHANGED config
    BY <1>2, PatStatement
  <2> QED BY <1>1, <1>2, <2>1
<1>3. CASE write.key # "pat"
  <2>1. SetUser(w, write.key, write.value) \/ (write.value = NULL /\ UnsetUser(w, write.key))
    BY <1>3, EntryStatement
  <2>2. /\ config'[w][write.key] = write.value
        /\ \A l \in Keys : l # write.key => config'[w][l] = config[w][l]
    <3> DEFINE key == write.key
               value == write.value
    <3>1. SetUser(w, key, value) \/ (value = NULL /\ UnsetUser(w, key))
      BY <2>1
    <3> HIDE DEF w, write, key, value
    <3>2. config'[w][key] = value /\ \A l \in Keys : l # key => config'[w][l] = config[w][l]
      <4>1. config \in [WorkspaceIds -> Entries] /\ w \in WorkspaceIds
        BY <1>1
      <4>2. CASE SetUser(w, key, value)
        BY <4>1, <4>2, EntryWritten
      <4>3. CASE value = NULL /\ UnsetUser(w, key)
        BY <4>1, <4>3 DEF UnsetUser, Entries, Keys
      <4> QED BY <3>1, <4>2, <4>3
    <3> QED BY <3>2 DEF key, value
  <2> QED BY <1>1, <2>2
<1> QED BY <1>2, <1>3

(* Keys of GitHub stay as they are.                                        *)
LEMMA GitHubKept ==
    ASSUME SetupInv, NEW c \in Procs, StoreNext(c)
    PROVE  \A k \in {HostKey, OrganizationKey} :
              config'[setup[c].workspace][k] = config[setup[c].workspace][k]
<1> DEFINE w == setup[c].workspace
           write == Head(setup[c].todo)
           candidate == setup[c].candidate
<1>1. config \in [WorkspaceIds -> Entries] /\ w \in WorkspaceIds
      /\ {HostKey, OrganizationKey} \subseteq Keys
  <2>1. w \in WorkspaceIds
    BY StatementDue DEF Setup
  <2> QED BY <2>1, SetupAssumption DEF SetupInv, SetupTypeOK, ConfigTypeOK, SetupAssumption, Keys
<1>2. CASE write.key = "pat"
  BY <1>2, PatStatement
<1>3. CASE write.key # "pat"
  <2>1. SetUser(w, write.key, write.value) \/ (write.value = NULL /\ UnsetUser(w, write.key))
    BY <1>3, EntryStatement
  <2>2. \A l \in Keys : l # write.key => config'[w][l] = config[w][l]
    <3> HIDE DEF w, write
    <3> QED BY <1>1, <2>1, EntryWritten
  <2>3. \/ write = [key |-> BaseURLKey, value |-> candidate.base_url]
        \/ write = [key |-> SpaceKey, value |-> candidate.space]
        \/ write = [key |-> SecretKey, value |-> Reference[candidate.secret]]
        \/ write = [key |-> AuthTypeKey, value |-> NULL]
        \/ write = [key |-> RootPageKey, value |-> candidate.root_page]
    BY <1>3, EntryStatement
  <2>4. write.key \notin {HostKey, OrganizationKey}
    BY <2>3, KeysDiffer
  <2> QED BY <1>1, <2>2, <2>4
<1> QED BY <1>2, <1>3

(* A statement of the list brings the tables nearer to the candidate.      *)
LEMMA TracksStoring ==
    ASSUME AloneInv, NEW c \in Procs, StoreNext(c)
    PROVE  Tracks(setup[c])'
<1> DEFINE w == setup[c].workspace
           candidate == setup[c].candidate
           write == Head(setup[c].todo)
<1>1. /\ setup[c] \in Setup /\ setup[c] # NULL /\ setup[c].pc = "store" /\ SetupInv
      /\ candidate \in Candidate /\ candidate # NULL /\ Tracks(setup[c])
  BY StatementDue DEF AloneInv
<1>2. /\ setup'[c].workspace = w /\ setup'[c].candidate = candidate
      /\ setup'[c].providers = setup[c].providers /\ setup'[c].host = setup[c].host
      /\ setup'[c].owner = setup[c].owner /\ setup'[c].refreshed = setup[c].refreshed
      /\ setup'[c].todo = Tail(setup[c].todo)
  <2>1. setup'[c] = [setup[c] EXCEPT !.todo = Tail(setup[c].todo), !.pc = setup'[c].pc]
    BY <1>1, StatementDue
  <2> QED BY <1>1, <2>1 DEF Setup
<1>3. setup'[c].pc \in {"store", "done"}
  BY <1>1, StatementDue
<1>4. UNCHANGED names
  BY <1>1, StatementTyped
<1>5. {BaseURLKey, SpaceKey, SecretKey, AuthTypeKey, RootPageKey} \subseteq Keys
      /\ BaseURLKey # "pat" /\ SpaceKey # "pat" /\ SecretKey # "pat" /\ AuthTypeKey # "pat"
      /\ RootPageKey # "pat"
  BY SetupAssumption DEF SetupAssumption, Keys, BaseURLKey, SpaceKey, SecretKey, AuthTypeKey,
                         RootPageKey
<1>6. /\ write.key = BaseURLKey => write.value = candidate.base_url
      /\ write.key = SpaceKey => write.value = candidate.space
      /\ write.key = SecretKey => write.value = Reference[candidate.secret]
      /\ write.key = AuthTypeKey => write.value = NULL
      /\ write.key = RootPageKey => write.value = candidate.root_page
  <2>1. write \in Wanted(candidate)
    BY <1>1, StatementDue
  <2> HIDE DEF write, candidate
  <2> QED BY SMTT(30), <1>5, <2>1, KeysDiffer DEF Wanted
<1>7. ASSUME Live(w), Applied(setup[c])
      PROVE  Applied(setup[c])'
  <2>1. IsPending(Tail(setup[c].todo), "pat") \/ secrets'[candidate.secret] = candidate.pat
    <3>1. CASE write.key = "pat"
      <4>1. secrets' = [secrets EXCEPT ![candidate.secret] = candidate.pat]
        BY <1>1, <3>1, PatStatement
      <4>2. candidate.secret \in SecretNames /\ secrets \in [SecretNames -> Pats \cup {NULL}]
        BY <1>1 DEF Candidate, SetupInv, SetupTypeOK
      <4> QED BY <4>1, <4>2
    <3>2. CASE write.key # "pat"
      <4>1. UNCHANGED secrets
        BY <1>1, <3>2, EntryStatement
      <4>2. Pending(setup[c].todo) = {write} \cup Pending(Tail(setup[c].todo))
        BY <1>1, StatementDue
      <4> QED BY <1>7, <3>2, <4>1, <4>2 DEF Applied, IsPending
    <3> QED BY <3>1, <3>2
  <2>2. IsPending(Tail(setup[c].todo), BaseURLKey) \/ config'[w][BaseURLKey] = candidate.base_url
    BY ZenonT(60), <1>1, <1>5, <1>6, <1>7, EntryApplied DEF Applied
  <2>3. IsPending(Tail(setup[c].todo), SpaceKey) \/ config'[w][SpaceKey] = candidate.space
    BY SMTT(30), <1>1, <1>5, <1>6, <1>7, EntryApplied DEF Applied
  <2>4. IsPending(Tail(setup[c].todo), SecretKey)
           \/ config'[w][SecretKey] = Reference[candidate.secret]
    BY SMTT(30), <1>1, <1>5, <1>6, <1>7, EntryApplied DEF Applied
  <2>5. IsPending(Tail(setup[c].todo), AuthTypeKey) \/ config'[w][AuthTypeKey] = NULL
    BY <1>1, <1>5, <1>6, <1>7, EntryApplied DEF Applied
  <2>6. IsPending(Tail(setup[c].todo), RootPageKey)
           \/ config'[w][RootPageKey] = candidate.root_page
    BY <1>1, <1>5, <1>6, <1>7, EntryApplied DEF Applied
  <2> QED BY <1>2, <2>1, <2>2, <2>3, <2>4, <2>5, <2>6 DEF Applied
<1>8. \A k \in {HostKey, OrganizationKey} : config'[w][k] = config[w][k]
  BY <1>1, GitHubKept
<1>9. Live(setup[c].workspace)' = Live(w)
  BY <1>2, <1>4 DEF Live
<1>10. /\ HostChosen(setup[c])' = HostChosen(setup[c])
       /\ OwnerChosen(setup[c])' = OwnerChosen(setup[c])
  BY <1>1, <1>2, <1>3 DEF HostChosen, OwnerChosen
<1> QED BY SMTT(30), <1>1, <1>2, <1>3, <1>7, <1>8, <1>9, <1>10 DEF Tracks, EffectiveHost
(* The answers for Confluence change no table; what a checked setup stores *)
(* covers all that is not as the candidate has it.                         *)
LEMMA TracksAnswers ==
    ASSUME AloneInv, NEW c \in Procs,
           \/ \E base \in BaseURLs, space \in Spaces, root \in RootPages \cup {NULL}, pat \in Pats :
                 AskConfluence(c, base, space, root, pat)
           \/ CheckConfluence(c)
    PROVE  Tracks(setup[c])'
<1> USE DEF HostChosen, OwnerChosen
<1>1. /\ setup[c] \in Setup /\ Tracks(setup[c]) /\ Knows(setup[c]) /\ setup[c] # NULL
      /\ UNCHANGED <<names, config, secrets>> /\ setup \in [Procs -> Setup \cup {NULL}]
  BY DEF AloneInv, SetupInv, SetupTypeOK, AskConfluence, CheckConfluence, At
<1>2. CASE \E base \in BaseURLs, space \in Spaces, root \in RootPages \cup {NULL}, pat \in Pats :
              AskConfluence(c, base, space, root, pat)
  <2>1. PICK base \in BaseURLs, space \in Spaces, root \in RootPages \cup {NULL}, pat \in Pats :
           AskConfluence(c, base, space, root, pat)
    BY <1>2
  <2> DEFINE name == SecretName(setup[c].values[SecretKey])
             candidate == [base_url |-> base, space |-> space, root_page |-> root, pat |-> pat,
                           secret |-> name]
  <2>2. candidate.secret = name /\ candidate.pat = pat /\ setup[c].pc = "ask"
    BY <2>1 DEF AskConfluence, At
  <2>3. PICK new \in BOOLEAN :
           /\ ~new => pat = secrets[name]
           /\ setup' = [setup EXCEPT ![c].pc = "check", ![c].new_pat = new,
                                     ![c].candidate = candidate]
    BY <2>1 DEF AskConfluence
  <2> HIDE DEF name, candidate
  <2>4. /\ setup'[c].workspace = setup[c].workspace /\ setup'[c].host = setup[c].host
        /\ setup'[c].owner = setup[c].owner /\ setup'[c].refreshed = setup[c].refreshed
        /\ setup'[c].values = setup[c].values /\ setup'[c].providers = setup[c].providers
        /\ setup'[c].pc = "check" /\ setup'[c].candidate = candidate /\ setup'[c].new_pat = new
    BY <1>1, <2>3 DEF Setup
  <2> QED BY <1>1, <2>2, <2>3, <2>4 DEF Tracks, Live
<1>3. CASE CheckConfluence(c)
  <2> DEFINE todo == Writes(setup[c])
             candidate == setup[c].candidate
             w == setup[c].workspace
  <2>1. setup[c].pc = "check" /\ candidate # NULL /\ candidate \in Candidate
        /\ setup' = [setup EXCEPT ![c].pc = "store", ![c].todo = todo]
    BY <1>1, <1>3 DEF CheckConfluence, At, Knows, Setup
  <2>2. /\ setup[c].new_pat => IsPending(todo, "pat")
        /\ IsPending(todo, BaseURLKey) /\ IsPending(todo, SpaceKey) /\ IsPending(todo, SecretKey)
        /\ setup[c].values[AuthTypeKey] # NULL => IsPending(todo, AuthTypeKey)
        /\ (candidate.root_page # NULL \/ setup[c].values[RootPageKey] # NULL)
              => IsPending(todo, RootPageKey)
    BY <1>1, <2>1, WritesOf
  <2> HIDE DEF todo
  <2>3. /\ setup'[c].workspace = setup[c].workspace /\ setup'[c].host = setup[c].host
        /\ setup'[c].owner = setup[c].owner /\ setup'[c].refreshed = setup[c].refreshed
        /\ setup'[c].providers = setup[c].providers /\ setup'[c].candidate = setup[c].candidate
        /\ setup'[c].pc = "store" /\ setup'[c].todo = todo
    BY <1>1, <2>1 DEF Setup
  <2>4. ASSUME Live(w)
        PROVE  Applied(setup[c])'
    <3>1. /\ config[w][AuthTypeKey] = setup[c].values[AuthTypeKey]
          /\ config[w][RootPageKey] = setup[c].values[RootPageKey]
      BY <1>1, <2>1, <2>4 DEF Tracks, ConfluenceKeys
    <3>2. ~setup[c].new_pat => secrets[candidate.secret] = candidate.pat
      BY <1>1, <2>1 DEF Tracks
    <3> QED BY <1>1, <2>2, <2>3, <3>1, <3>2 DEF Applied
  <2>5. Live(setup[c].workspace)' = Live(w)
    BY <1>1, <2>3 DEF Live
  <2> QED BY <1>1, <2>1, <2>3, <2>4, <2>5 DEF Tracks
<1> QED BY <1>2, <1>3

(* With one setup at a time, the tables hold the answers given so far, or  *)
(* the statements that will make them do so are still to come.             *)
THEOREM AloneInvInductive == ASSUME Alone PROVE Spec => []AloneInv
<1>1. Init => AloneInv
  <2>1. Init => SetupInv
    BY InitHolds
  <2> QED BY <2>1 DEF Init, AloneInv
<1>2. ASSUME AloneInv, [Next]_setupVars
      PROVE  AloneInv'
  <2>1. SetupInv'
    BY <1>2, NextKeeps DEF AloneInv
  <2>2. ASSUME NEW c \in Procs, setup'[c] # NULL
        PROVE  Tracks(setup[c])'
    <3>1. CASE UNCHANGED setupVars
      <4>1. UNCHANGED <<names, config, secrets, setup>> /\ setup[c] # NULL
        BY <2>2, <3>1 DEF setupVars, configVars
      <4> QED BY <1>2, <4>1 DEF AloneInv, Tracks, Applied, Live, HostChosen, OwnerChosen
    <3>2. ASSUME NEW d \in Procs, SetupStep(d)
          PROVE  Tracks(setup[c])'
      <4>1. d = c
        BY Alone DEF Alone
      <4>2. ~Stop(c)
        BY <1>2, <2>2 DEF Stop, AloneInv, SetupInv, SetupTypeOK
      <4> QED BY <1>2, <3>2, <4>1, <4>2, TracksGitHub, TracksAnswers, TracksStoring DEF SetupStep
    <3>3. CASE \/ OtherConfigCommands
               \/ \E name \in SecretNames :
                     DeleteSecret(name) \/ \E pat \in Pats : SetSecret(name, pat)
      <4>1. setup[c] # NULL
        BY <1>2, <2>2, <3>3, OthersKeep DEF AloneInv
      <4> QED BY <1>2, <3>3, <4>1, TracksBeside
    <3> QED BY <1>2, <3>1, <3>2, <3>3 DEF Next
  <2> QED BY <2>1, <2>2 DEF AloneInv
<1> QED BY <1>1, <1>2, PTL DEF Spec

(* The stored configuration of a setup that is done is its candidate.      *)
LEMMA DoneIsEffective ==
    ASSUME AloneInv, NEW c \in Procs, At(c, "done"), Live(setup[c].workspace),
           setup[c].candidate # NULL
    PROVE  /\ EffectiveConfluence(config[setup[c].workspace]) = setup[c].candidate
           /\ \A k \in {BaseURLKey, SpaceKey, SecretKey} :
                 config[setup[c].workspace][k] # NULL
<1> DEFINE entries == config[setup[c].workspace]
           candidate == setup[c].candidate
<1>1. candidate \in Candidate /\ Applied(setup[c]) /\ setup[c].todo = <<>>
  BY DEF AloneInv, SetupInv, SetupTypeOK, At, Tracks, Knows, Setup
<1>2. \A k : ~IsPending(setup[c].todo, k)
  BY <1>1, EmptySeq DEF IsPending, Pending
<1>3. /\ secrets[candidate.secret] = candidate.pat
      /\ entries[BaseURLKey] = candidate.base_url /\ entries[SpaceKey] = candidate.space
      /\ entries[SecretKey] = Reference[candidate.secret] /\ entries[AuthTypeKey] = NULL
      /\ entries[RootPageKey] = candidate.root_page
  BY <1>1, <1>2 DEF Applied
<1>4. /\ candidate.base_url \in BaseURLs /\ candidate.space \in Spaces
      /\ candidate.root_page \in RootPages \cup {NULL} /\ candidate.secret \in SecretNames
      /\ candidate.pat \in Pats /\ candidate.pat # NULL
      /\ candidate.base_url # NULL /\ candidate.space # NULL
      /\ Reference[candidate.secret] # NULL
  BY <1>1, SetupAssumption, ConfigAssumption DEF Candidate, SetupAssumption, ConfigAssumption
<1>5. \A n \in SecretNames : entries[SecretKey] = Reference[n] <=> n = candidate.secret
  BY <1>3, <1>4, SetupAssumption DEF SetupAssumption
<1>6. (CHOOSE n \in SecretNames : entries[SecretKey] = Reference[n]) = candidate.secret
  BY <1>4, <1>5
<1>7. EffectiveConfluence(entries) =
        [base_url |-> candidate.base_url, space |-> candidate.space, secret |-> candidate.secret,
         root_page |-> candidate.root_page, pat |-> candidate.pat]
  <2> HIDE DEF entries, candidate
  <2> QED BY <1>3, <1>4, <1>5, <1>6 DEF EffectiveConfluence
<1>8. candidate =
        [base_url |-> candidate.base_url, space |-> candidate.space, secret |-> candidate.secret,
         root_page |-> candidate.root_page, pat |-> candidate.pat]
  BY <1>1 DEF Candidate
<1> QED BY <1>3, <1>4, <1>7, <1>8

(* When a setup prints that it is ready, it is.                            *)
THEOREM ReadyHolds == ASSUME Alone PROVE Spec => []ReadyIsEffective
<1>1. AloneInv => ReadyIsEffective
  <2> SUFFICES ASSUME AloneInv PROVE ReadyIsEffective
    OBVIOUS
  <2>1. ASSUME NEW c \in Procs, At(c, "done"), Live(setup[c].workspace),
               "confluence" \in setup[c].providers
        PROVE  EffectiveConfluence(config[setup[c].workspace]) = setup[c].candidate
    <3>1. setup[c].candidate # NULL
      BY <2>1 DEF AloneInv, SetupInv, Knows, At
    <3> QED BY <2>1, <3>1, DoneIsEffective
  <2> QED BY <2>1 DEF AloneInv, SetupInv, Tracks, ReadyIsEffective
<1> QED BY <1>1, AloneInvInductive, PTL

(* Workspace check agrees with a setup that is done.                       *)
THEOREM CheckAgrees == ASSUME Alone PROVE Spec => []SetupLeavesReady
<1>1. ASSUME AloneInv, NEW c \in Procs, At(c, "done"), Live(setup[c].workspace)
      PROVE  LET entries == config[setup[c].workspace]
             IN  /\ "github" \in setup[c].providers => GitHubStatus(entries) = "ready"
                 /\ "confluence" \in setup[c].providers => ConfluenceStatus(entries) = "ready"
                 /\ {"github", "confluence"} \subseteq setup[c].providers
                      => WorkspaceStatus(entries, TRUE) = "ready"
  <2> DEFINE s == setup[c]
             entries == config[s.workspace]
  <2>1. s.pc = "done" /\ Tracks(s) /\ Knows(s)
    BY <1>1 DEF AloneInv, SetupInv, At
  <2>2. ASSUME "github" \in s.providers
        PROVE  GitHubStatus(entries) = "ready"
    <3>1. HostChosen(s) /\ OwnerChosen(s)
      BY <2>1, <2>2 DEF HostChosen, OwnerChosen
    <3>2. EffectiveHost(entries) \in Authenticated /\ entries[OrganizationKey] # NULL
      BY <1>1, <2>1, <3>1 DEF Tracks
    <3> QED BY <3>2 DEF GitHubStatus, NamespaceEmpty, GitHubKeys
  <2>3. ASSUME "confluence" \in s.providers
        PROVE  ConfluenceStatus(entries) = "ready"
    <3>1. s.candidate # NULL /\ Validates(s.candidate)
      BY <2>1, <2>3 DEF Knows
    <3>2. EffectiveConfluence(entries) = s.candidate
          /\ \A k \in {BaseURLKey, SpaceKey, SecretKey} : entries[k] # NULL
      BY <1>1, <3>1, DoneIsEffective
    <3>3. ~NamespaceEmpty(entries, ConfluenceKeys)
      BY <3>2 DEF NamespaceEmpty, ConfluenceKeys
    <3> HIDE DEF s, entries
    <3> QED BY <3>1, <3>2, <3>3 DEF ConfluenceStatus
  <2> HIDE DEF s, entries
  <2>4. (GitHubStatus(entries) = "ready" /\ ConfluenceStatus(entries) = "ready")
           => WorkspaceStatus(entries, TRUE) = "ready"
    BY DEF WorkspaceStatus
  <2> QED BY <2>2, <2>3, <2>4 DEF s, entries
<1>2. AloneInv => SetupLeavesReady
  BY <1>1 DEF SetupLeavesReady
<1> QED BY <1>2, AloneInvInductive, PTL
=============================================================================
