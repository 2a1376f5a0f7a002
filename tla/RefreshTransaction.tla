------------------------- MODULE RefreshTransaction -------------------------
(***************************************************************************)
(* The registry as SQLite runs it.  SQLite admits one writer at a time, so *)
(* a command made of one statement is still one atomic step; a refresh is  *)
(* a transaction of many statements (one per discovered item): its effects *)
(* stay private in tx until it commits, other writers wait for it, and it  *)
(* may fail or be killed after any statement.                              *)
(***************************************************************************)
EXTENDS Registry, Naturals, Sequences

CONSTANT Batches     \* the results of discovery, in the order reported

VARIABLE tx          \* the open refresh transaction, NULL when there is none

vars == <<db, issued, tx>>

ASSUME BatchesAssumption ==
    /\ Batches \subseteq Seq(Item)
    /\ \A batch \in Batches : {batch[i] : i \in DOMAIN batch} \in ItemSets

Transaction == [db : Database, workspace : WorkspaceIds, source : Sources,
                batch : Batches, next : Nat \ {0}]

ASSUME TransactionAssumption == NULL \notin Transaction

Init == RegistryInit /\ tx = NULL

(* Any other command: it needs the write lock.                             *)
Command ==
    /\ tx = NULL
    /\ WorkspaceCommand \/ ResourceCommand \/ LinkCommand
    /\ UNCHANGED tx

-----------------------------------------------------------------------------
(* UpsertDiscovered.  The workspace was resolved before the remote calls   *)
(* and may be gone; a batch with a blank provider ID is refused up front.  *)
BeginRefresh(w, s, batch) ==
    /\ tx = NULL
    /\ w \in issued
    /\ \A i \in DOMAIN batch : batch[i].provider # NULL
    /\ tx' = [db |-> InsertIntegration(db, s), workspace |-> w, source |-> s,
              batch |-> batch, next |-> 1]
    /\ UNCHANGED <<db, issued>>

(* Fault: the ID of a new resource may have been used before.              *)
StoreUnderAnyId(r) ==
    /\ tx # NULL
    /\ tx.next <= Len(tx.batch)
    /\ HasWorkspace(tx.db, tx.workspace)
    /\ LET item == tx.batch[tx.next]
           found == Matching(tx.db, tx.source, TypeOf[tx.source], item)
       IN  /\ IF found # {} THEN r \in found ELSE ~HasResource(tx.db, r)
           /\ tx' = [tx EXCEPT
                !.db = StoreItem(tx.db, tx.workspace, r, tx.source,
                                 TypeOf[tx.source], item),
                !.next = @ + 1]
    /\ UNCHANGED <<db, issued>>

(* One item of the batch: update the row it matches or insert a new one    *)
(* under a fresh ID, then associate it with the workspace (which fails     *)
(* when the workspace is gone: only AbortRefresh is left).                 *)
StoreDiscovered(r) ==
    /\ tx # NULL
    /\ tx.next <= Len(tx.batch)
    /\ HasWorkspace(tx.db, tx.workspace)
    /\ LET item == tx.batch[tx.next]
           found == Matching(tx.db, tx.source, TypeOf[tx.source], item)
       IN  /\ IF found # {} THEN r \in found
                            ELSE r \notin issued /\ ~HasResource(tx.db, r)
           /\ tx' = [tx EXCEPT
                !.db = StoreItem(tx.db, tx.workspace, r, tx.source,
                                 TypeOf[tx.source], item),
                !.next = @ + 1]
    /\ UNCHANGED <<db, issued>>

(* Fault: the last item is left out.                                       *)
CommitRefreshEarly ==
    /\ tx # NULL
    /\ tx.next >= Len(tx.batch)
    /\ Commit(tx.db)
    /\ tx' = NULL

CommitRefresh ==
    /\ tx # NULL
    /\ tx.next > Len(tx.batch)
    /\ Commit(tx.db)
    /\ tx' = NULL

(* A failed statement or commit rolls back, and so does the death of the   *)
(* process.                                                                *)
AbortRefresh ==
    /\ tx # NULL
    /\ tx' = NULL
    /\ UNCHANGED <<db, issued>>

Transact ==
    \/ \E w \in WorkspaceIds, s \in Sources, batch \in Batches : BeginRefresh(w, s, batch)
    \/ \E r \in ResourceIds : StoreDiscovered(r)
    \/ CommitRefresh
    \/ AbortRefresh

Next == Command \/ Transact

Spec == Init /\ [][Next]_vars

-----------------------------------------------------------------------------
(* Properties. *)

(* The tables and the open transaction have their types.                   *)
TypeOK ==
    /\ RegistryTypeOK
    /\ tx \in Transaction \cup {NULL}

(* Database e has what d has, and new memberships of workspace w only.     *)
Extends(d, e, w) ==
    /\ e.types = d.types
    /\ e.workspaces = d.workspaces
    /\ e.locations = d.locations
    /\ d.memberships \subseteq e.memberships
    /\ \A m \in e.memberships \ d.memberships : m.workspace = w
    /\ \A r \in ResourceIds : HasResource(d, r) =>
          /\ HasResource(e, r)
          /\ e.resources[r].type = d.resources[r].type
          /\ e.resources[r].source = d.resources[r].source
          /\ e.resources[r].provider = d.resources[r].provider

(* Item i of the batch is a resource of the workspace in database d.       *)
Stored(d, i) ==
    \E r \in ResourceIds :
        /\ Member(tx.workspace, r) \in d.memberships
        /\ HasResource(d, r)
        /\ d.resources[r].source = tx.source
        /\ d.resources[r].type = TypeOf[tx.source]
        /\ d.resources[r].provider = tx.batch[i].provider

(* What the open transaction would commit is consistent too, extends the   *)
(* committed tables (no other writer got in between), and holds every item *)
(* processed so far.                                                       *)
TransactionSound ==
    tx # NULL =>
        /\ Consistent(tx.db)
        /\ Extends(db, tx.db, tx.workspace)
        /\ \A i \in 1 .. tx.next - 1 : Stored(tx.db, i)

(* A refresh that commits has associated its whole batch with the          *)
(* workspace: no reader sees some of the discovered items.                 *)
RefreshIsAllOrNothing ==
    [][ (tx # NULL /\ db' # db) => \A i \in DOMAIN tx.batch : Stored(db', i) ]_vars

(* A refresh is additive: it never drops or retypes a resource, drops a    *)
(* membership, changes another workspace or touches a location.            *)
RefreshIsAdditive ==
    [][ tx # NULL => Extends(db, db', tx.workspace) ]_vars
=============================================================================
