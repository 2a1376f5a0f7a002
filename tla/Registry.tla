------------------------------ MODULE Registry ------------------------------
(***************************************************************************)
(* What the registry promises to the commands that share it: every command *)
(* is one atomic step on the tables, a refresh included.  A command is one *)
(* short process; what it read before its writing statement may be stale,  *)
(* so the guards are what the statement itself and the schema enforce.     *)
(***************************************************************************)
EXTENDS RegistryTables

CONSTANTS
    TypeOf,          \* the resource type a provider instance discovers
    ItemSets         \* the sets of items discovery may report

ASSUME RegistryAssumption ==
    /\ TypeOf \in [Sources -> SeededTypes]
    /\ ItemSets \subseteq SUBSET Item

VARIABLES
    db,       \* the committed tables
    issued    \* the IDs that were ever visible in the tables

registry == <<db, issued>>

LiveIds(d) == {w \in WorkspaceIds : HasWorkspace(d, w)}
                \cup {r \in ResourceIds : HasResource(d, r)}

RegistryInit ==
    /\ db = EmptyDatabase
    /\ issued = {}

Commit(d) ==
    /\ db' = d
    /\ issued' = issued \cup LiveIds(d)

-----------------------------------------------------------------------------
(* workspace add / workspace remove *)

AddWorkspace(w, name, dir) ==
    /\ w \notin issued
    /\ NameFree(db, name)
    /\ Commit(InsertWorkspace(db, w, name, dir))

RemoveWorkspace(w) ==
    /\ HasWorkspace(db, w)
    /\ Commit(DeleteWorkspace(db, w))

(* resource type register, resource add / update / remove *)

RegisterType(t) ==
    /\ t \notin db.types
    /\ Commit(InsertType(db, t))

AddResource(r, t, name) ==
    /\ r \notin issued
    /\ t \in db.types
    /\ Commit(InsertResource(db, r, t, name))

UpdateResource(r, t, name) ==
    /\ HasResource(db, r)
    /\ t \in db.types
    /\ IdentityFree(db, r, UpdatedRow(db, r, t, name))
    /\ Commit(UpdateResourceRow(db, r, t, name))

RemoveResource(r) ==
    /\ HasResource(db, r)
    /\ Commit(DeleteResource(db, r))

(* workspace resource add / remove *)

AddMembership(w, r) ==
    /\ HasWorkspace(db, w)
    /\ HasResource(db, r)
    /\ Member(w, r) \notin db.memberships
    /\ Commit(InsertMembership(db, w, r))

RemoveMembership(w, r) ==
    /\ Member(w, r) \in db.memberships
    /\ Commit(DeleteMembership(db, w, r))

(* The registration at the end of a fetch or clone.  Workspace and         *)
(* resource were read earlier and may be gone by now.                      *)
RegisterLocation(w, r, lt, p) ==
    /\ LocationAccepted(db, w, r, lt, p)
    /\ Commit(SetLocation(db, w, r, lt, p))

(* wiki refresh, repo refresh: everything discovered becomes a resource of *)
(* the workspace.  The workspace was resolved before the remote calls: if  *)
(* it is gone, only a refresh without items succeeds.  A blank provider ID *)
(* fails the whole refresh.                                                *)
Refresh(w, s, items, stored) ==
    /\ w \in issued
    /\ HasWorkspace(db, w) \/ items = {}
    /\ \A item \in items : item.provider # NULL
    /\ StoresItems(db, issued, s, TypeOf[s], items, stored)
    /\ Commit(StoreAll(db, w, s, TypeOf[s], stored))

-----------------------------------------------------------------------------
WorkspaceCommand ==
    \E w \in WorkspaceIds :
        \/ \E name \in WorkspaceNames, dir \in Directories : AddWorkspace(w, name, dir)
        \/ RemoveWorkspace(w)

ResourceCommand ==
    \/ \E t \in Types : RegisterType(t)
    \/ \E r \in ResourceIds :
        \/ \E t \in Types, name \in Names : AddResource(r, t, name) \/ UpdateResource(r, t, name)
        \/ RemoveResource(r)

LinkCommand ==
    \E w \in WorkspaceIds, r \in ResourceIds :
        \/ AddMembership(w, r)
        \/ RemoveMembership(w, r)
        \/ \E lt \in LocationTypes, p \in Paths : RegisterLocation(w, r, lt, p)

RefreshCommand ==
    \E w \in WorkspaceIds, s \in Sources, items \in ItemSets, rs \in SUBSET ResourceIds :
        \E stored \in [rs -> items] : Refresh(w, s, items, stored)

RegistryNext == WorkspaceCommand \/ ResourceCommand \/ LinkCommand \/ RefreshCommand

RegistrySpec == RegistryInit /\ [][RegistryNext]_registry

-----------------------------------------------------------------------------
(* Properties. *)

(* The tables and the issued IDs have their types.                         *)
RegistryTypeOK ==
    /\ db \in Database
    /\ issued \subseteq WorkspaceIds \cup ResourceIds

(* The tables are consistent whatever commands ran: no dangling membership *)
(* or location, no two workspaces of one name, no two resources for one    *)
(* provider identity and type, no two locations for one path or for one    *)
(* resource in a workspace.                                                *)
TablesConsistent == Consistent(db)

(* While a resource lives, no command moves it to another provider         *)
(* instance or provider ID; only its type, key and name may change.        *)
IdentityIsStable ==
    [][ \A r \in ResourceIds : (HasResource(db, r) /\ HasResource(db', r)) =>
          /\ db'.resources[r].source = db.resources[r].source
          /\ db'.resources[r].provider = db.resources[r].provider ]_registry

WorkspaceRows(d, w) ==
    <<{m \in d.memberships : m.workspace = w}, {l \in d.locations : l.workspace = w}>>

(* Workspaces are isolated: one command changes the memberships and        *)
(* locations of one workspace only, unless it removed a resource they      *)
(* share.                                                                  *)
WorkspacesIsolated ==
    [][ (\A r \in ResourceIds : HasResource(db, r) => HasResource(db', r)) =>
          \A v, w \in WorkspaceIds :
             \/ v = w
             \/ WorkspaceRows(db', v) = WorkspaceRows(db, v)
             \/ WorkspaceRows(db', w) = WorkspaceRows(db, w) ]_registry
=============================================================================
