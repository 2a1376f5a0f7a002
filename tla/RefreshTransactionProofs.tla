---------------------- MODULE RefreshTransactionProofs ----------------------
(***************************************************************************)
(* The refresh transaction, for every number of items and every point at   *)
(* which it may be cut off: what it holds privately is consistent, and     *)
(* committing it is the one atomic step the registry promises.             *)
(* So the registry with this transaction implements the registry in which  *)
(* a refresh is one step: every statement but the commit leaves the        *)
(* committed tables alone, and the commit does to them what StoreAll says  *)
(* for some choice of resources.                                           *)
(***************************************************************************)
EXTENDS RefreshTransaction, RegistryProofs

Inv ==
    /\ TypeOK
    /\ RegistryInv
    /\ TransactionSound
    /\ tx # NULL => /\ tx.source \in tx.db.integrations
                    /\ tx.workspace \in issued
                    /\ \A i \in DOMAIN tx.batch : tx.batch[i].provider # NULL

LEMMA RegistryUnchanged ==
    ASSUME RegistryInv, db' = db, issued' = issued
    PROVE  RegistryInv'
  BY DEF RegistryInv, RegistryTypeOK, TablesConsistent, LiveIds

(* Every command but the refresh waits for the transaction to end.         *)
LEMMA CommandKeepsInv ==
    ASSUME Inv, Command
    PROVE  Inv'
  <1>1. RegistryInv' /\ tx' = NULL
    BY CommandPreserves DEF Command, Inv
  <1> QED BY <1>1 DEF Inv, TypeOK, RegistryInv, TransactionSound

(* What StoreDiscovered does to the private database.                      *)
LEMMA StoreStep ==
    ASSUME Inv, NEW r \in ResourceIds, StoreDiscovered(r)
    PROVE  /\ tx' \in Transaction
           /\ tx'.workspace = tx.workspace /\ tx'.source = tx.source
           /\ tx'.batch = tx.batch /\ tx'.next = tx.next + 1
           /\ Consistent(tx'.db)
           /\ tx'.db.integrations = tx.db.integrations
           /\ Extends(tx.db, tx'.db, tx.workspace)
           /\ Member(tx.workspace, r) \in tx'.db.memberships
           /\ HasResource(tx'.db, r)
           /\ tx'.db.resources[r].source = tx.source
           /\ tx'.db.resources[r].type = TypeOf[tx.source]
           /\ tx'.db.resources[r].provider = tx.batch[tx.next].provider
  <1> DEFINE d == tx.db
             s == tx.source
             t == TypeOf[s]
             item == tx.batch[tx.next]
             x == DiscoveredRow(s, t, item)
             e == StoreItem(d, tx.workspace, r, s, t, item)
  <1> USE TablesAssumption, RegistryAssumption
  <1>1. /\ tx \in Transaction /\ d \in Database /\ Consistent(d) /\ s \in Sources
        /\ tx.workspace \in WorkspaceIds /\ tx.batch \in Batches /\ tx.next \in Nat \ {0}
    BY DEF StoreDiscovered, Inv, TypeOK, Transaction, TransactionSound
  <1>2. s \in d.integrations /\ t \in d.types /\ s # NULL
    BY <1>1 DEF StoreDiscovered, Inv, RegistryInv, TransactionSound, Extends
  <1>3. tx.batch \in Seq(Item) /\ tx.next \in DOMAIN tx.batch
    BY <1>1, BatchesAssumption DEF StoreDiscovered
  <1>4. item \in Item /\ item.provider # NULL
    BY <1>3 DEF StoreDiscovered, Inv
  <1>5. \/ r \in Matching(d, s, t, item)
        \/ Matching(d, s, t, item) = {} /\ ~HasResource(d, r)
    BY DEF StoreDiscovered
  <1>6. HasWorkspace(d, tx.workspace)
    BY DEF StoreDiscovered
  <1>7. e \in Database /\ Consistent(e)
    BY <1>1, <1>2, <1>4, <1>5, <1>6, StoreItemConsistent
  <1>8. tx' = [tx EXCEPT !.db = e, !.next = tx.next + 1]
    BY DEF StoreDiscovered
  <1>10. /\ e.types = d.types /\ e.integrations = d.integrations
         /\ e.workspaces = d.workspaces /\ e.locations = d.locations
         /\ e.memberships = d.memberships \cup {Member(tx.workspace, r)}
         /\ e.resources[r] = x
         /\ \A q \in ResourceIds \ {r} : e.resources[q] = d.resources[q]
    BY <1>1 DEF StoreItem, Database
  <1>11. x # NULL /\ x.type = t /\ x.source = s /\ x.provider = item.provider
    BY <1>2, <1>1, <1>4 DEF ResourceRow, Item, DiscoveredRow
  <1>12. HasResource(d, r) =>
           /\ d.resources[r].source = s /\ d.resources[r].type = t
           /\ d.resources[r].provider = item.provider
    BY <1>1, <1>2, <1>5 DEF Matching, Consistent, IdentityComplete
  <1> HIDE DEF e, x
  <1>9. /\ tx'.db = e /\ tx'.next = tx.next + 1
        /\ tx'.workspace = tx.workspace /\ tx'.source = s /\ tx'.batch = tx.batch
        /\ tx' \in Transaction
    <2>1. tx.next + 1 \in Nat \ {0}
      BY <1>1
    <2> QED BY <1>1, <1>7, <1>8, <2>1 DEF Transaction
  <1>13. Extends(d, e, tx.workspace)
    <2>1. Member(tx.workspace, r).workspace = tx.workspace
      BY DEF Member
    <2>2. ASSUME NEW q \in ResourceIds, HasResource(d, q)
          PROVE  /\ HasResource(e, q)
                 /\ e.resources[q].type = d.resources[q].type
                 /\ e.resources[q].source = d.resources[q].source
                 /\ e.resources[q].provider = d.resources[q].provider
      BY <1>10, <1>11, <1>12, <2>2 DEF HasResource
    <2> QED BY <1>10, <2>1, <2>2 DEF Extends
  <1>14. HasResource(e, r)
    BY <1>10, <1>11 DEF HasResource
  <1> QED BY <1>7, <1>9, <1>10, <1>11, <1>13, <1>14

LEMMA ExtendsTransitive ==
    ASSUME NEW d, NEW e, NEW f, NEW w, Extends(d, e, w), Extends(e, f, w)
    PROVE  Extends(d, f, w)
  BY DEF Extends

LEMMA TransactPreserves ==
    ASSUME Inv, Transact
    PROVE  Inv'
  <1> USE TransactionAssumption
  <1>1. ASSUME NEW w \in WorkspaceIds, NEW s \in Sources, NEW batch \in Batches,
               BeginRefresh(w, s, batch)
        PROVE  Inv'
    <2> DEFINE d == InsertIntegration(db, s)
    <2>0. db \in Database /\ Consistent(db)
      BY DEF Inv, RegistryInv, RegistryTypeOK, TablesConsistent
    <2>1. d \in Database /\ Consistent(d)
      BY <2>0, RegisterConsistent
    <2>2. /\ d.types = db.types /\ d.workspaces = db.workspaces /\ d.resources = db.resources
          /\ d.memberships = db.memberships /\ d.locations = db.locations
          /\ s \in d.integrations
      BY <2>0 DEF InsertIntegration, Database
    <2> HIDE DEF d
    <2>3. /\ tx' \in Transaction /\ tx'.db = d /\ tx'.source = s /\ tx'.batch = batch
          /\ tx'.next = 1 /\ tx'.workspace = w /\ db' = db /\ issued' = issued
      BY <1>1, <2>1 DEF BeginRefresh, Transaction, d
    <2>4. Extends(db, d, w)
      BY <2>2 DEF Extends, HasResource
    <2>5. TransactionSound'
      BY <2>1, <2>3, <2>4 DEF TransactionSound
    <2>6. \A i \in DOMAIN tx'.batch : tx'.batch[i].provider # NULL
      BY <1>1, <2>3 DEF BeginRefresh
    <2>7. TypeOK' /\ RegistryInv'
      BY <2>3, RegistryUnchanged DEF Inv, TypeOK, RegistryInv
    <2>8. tx'.workspace \in issued'
      BY <1>1, <2>3 DEF BeginRefresh
    <2> QED BY <2>2, <2>3, <2>5, <2>6, <2>7, <2>8 DEF Inv
  <1>2. ASSUME NEW r \in ResourceIds, StoreDiscovered(r)
        PROVE  Inv'
    <2>1. db' = db /\ issued' = issued /\ tx # NULL
      BY <1>2 DEF StoreDiscovered
    <2>2. tx \in Transaction /\ Extends(db, tx.db, tx.workspace)
      BY <2>1 DEF Inv, TypeOK, TransactionSound
    <2>3. Extends(db, tx'.db, tx.workspace)
      BY <1>2, <2>2, StoreStep, ExtendsTransitive
    <2>4. ASSUME NEW i \in 1 .. tx.next
          PROVE  \E q \in ResourceIds :
                   /\ Member(tx.workspace, q) \in tx'.db.memberships
                   /\ HasResource(tx'.db, q)
                   /\ tx'.db.resources[q].source = tx.source
                   /\ tx'.db.resources[q].type = TypeOf[tx.source]
                   /\ tx'.db.resources[q].provider = tx.batch[i].provider
      <3>1. CASE i = tx.next
        BY <1>2, <3>1, StoreStep
      <3>2. CASE i # tx.next
        <4>1. i \in 1 .. tx.next - 1
          BY <3>2, <2>2 DEF Transaction
        <4>2. PICK q \in ResourceIds :
                   /\ Member(tx.workspace, q) \in tx.db.memberships
                   /\ HasResource(tx.db, q)
                   /\ tx.db.resources[q].source = tx.source
                   /\ tx.db.resources[q].type = TypeOf[tx.source]
                   /\ tx.db.resources[q].provider = tx.batch[i].provider
          BY <4>1, <2>1 DEF Inv, TransactionSound, Stored
        <4>3. Extends(tx.db, tx'.db, tx.workspace)
          BY <1>2, StoreStep
        <4> QED BY <4>2, <4>3 DEF Extends
      <3> QED BY <3>1, <3>2
    <2>5. TransactionSound'
      <3>1. tx'.next - 1 = tx.next
        BY <1>2, <2>2, StoreStep DEF Transaction
      <3> QED BY <1>2, <2>1, <2>3, <2>4, <3>1, StoreStep DEF TransactionSound, Stored
    <2>6. TypeOK' /\ RegistryInv'
      BY <1>2, <2>1, StoreStep, RegistryUnchanged DEF Inv, TypeOK, RegistryInv
    <2>7. /\ tx'.source \in tx'.db.integrations
          /\ tx'.workspace \in issued'
          /\ \A i \in DOMAIN tx'.batch : tx'.batch[i].provider # NULL
      BY <1>2, <2>1, StoreStep DEF Inv
    <2> QED BY <2>5, <2>6, <2>7 DEF Inv
  <1>3. ASSUME CommitRefresh
        PROVE  Inv'
    <2>1. Commit(tx.db) /\ tx' = NULL /\ tx # NULL
      BY <1>3 DEF CommitRefresh
    <2>2. tx.db \in Database /\ Consistent(tx.db) /\ tx.db.types = db.types
      BY <2>1 DEF Inv, TypeOK, Transaction, TransactionSound, Extends
    <2>3. RegistryInv'
      BY <2>1, <2>2, CommitPreserves DEF Inv, RegistryInv
    <2> QED BY <2>1, <2>3 DEF Inv, TypeOK, RegistryInv, TransactionSound
  <1>4. ASSUME AbortRefresh
        PROVE  Inv'
    <2>1. RegistryInv' /\ tx' = NULL
      BY <1>4, RegistryUnchanged DEF AbortRefresh, Inv
    <2> QED BY <2>1 DEF Inv, TypeOK, RegistryInv, TransactionSound
  <1> QED BY <1>1, <1>2, <1>3, <1>4 DEF Transact

(* The types, the registry's invariant and what the open transaction       *)
(* holds survive every statement, commit, rollback and crash.              *)
THEOREM InvInductive == Spec => []Inv
  <1>1. Init => Inv
    <2> SUFFICES ASSUME Init PROVE Inv
      OBVIOUS
    <2>1. RegistryInv
      BY InitRegistryInv DEF Init
    <2> QED BY <2>1 DEF Init, Inv, TypeOK, RegistryInv, TransactionSound
  <1>2. Inv /\ [Next]_vars => Inv'
    <2> SUFFICES ASSUME Inv, [Next]_vars PROVE Inv'
      OBVIOUS
    <2>1. CASE UNCHANGED vars
      BY <2>1, RegistryUnchanged DEF vars, Inv, TypeOK, RegistryInv, TransactionSound, Stored
    <2> QED BY <2>1, CommandKeepsInv, TransactPreserves DEF Next
  <1> QED BY <1>1, <1>2, PTL DEF Spec

(* Every reachable state has the declared types.                           *)
THEOREM TypeCorrect == Spec => []TypeOK
  <1>1. Inv => TypeOK
    BY DEF Inv
  <1> QED BY <1>1, InvInductive, PTL

(* The open refresh transaction extends the committed tables, consistently.*)
THEOREM TransactionStaysSound == Spec => []TransactionSound
  <1>1. Inv => TransactionSound
    BY DEF Inv
  <1> QED BY <1>1, InvInductive, PTL

(* A step that changes the tables while a refresh is open is its commit.   *)
LEMMA OnlyCommitWrites ==
    ASSUME tx # NULL, [Next]_vars
    PROVE  UNCHANGED db \/ CommitRefresh
  BY DEF Next, Command, Transact, vars, BeginRefresh, StoreDiscovered, AbortRefresh

(* A committed refresh shows its whole batch in the workspace.             *)
THEOREM RefreshAtomic == Spec => RefreshIsAllOrNothing
  <1>1. ASSUME Inv, [Next]_vars, tx # NULL, db' # db, NEW i \in DOMAIN tx.batch
        PROVE  Stored(db', i)
    <2>1. CommitRefresh
      BY <1>1, OnlyCommitWrites
    <2>2. db' = tx.db /\ tx.next > Len(tx.batch)
      BY <2>1 DEF CommitRefresh, Commit
    <2>3. tx.batch \in Seq(Item) /\ tx.next \in Nat \ {0}
      BY <1>1, BatchesAssumption DEF Inv, TypeOK, Transaction
    <2>4. i \in 1 .. tx.next - 1
      BY <1>1, <2>2, <2>3
    <2> QED BY <1>1, <2>2, <2>4 DEF Inv, TransactionSound
  <1>2. Inv /\ [Next]_vars =>
          [(tx # NULL /\ db' # db) => \A i \in DOMAIN tx.batch : Stored(db', i)]_vars
    BY <1>1
  <1> QED BY <1>2, InvInductive, PTL DEF Spec, RefreshIsAllOrNothing

(* A refresh only adds.                                                    *)
THEOREM RefreshAdditive == Spec => RefreshIsAdditive
  <1>1. Inv /\ [Next]_vars /\ tx # NULL => Extends(db, db', tx.workspace)
    <2> SUFFICES ASSUME Inv, [Next]_vars, tx # NULL PROVE Extends(db, db', tx.workspace)
      OBVIOUS
    <2>1. CASE UNCHANGED db
      BY <2>1 DEF Extends
    <2>2. CASE CommitRefresh
      BY <2>2 DEF CommitRefresh, Commit, Inv, TransactionSound
    <2> QED BY <2>1, <2>2, OnlyCommitWrites
  <1> QED BY <1>1, InvInductive, PTL DEF Spec, RefreshIsAdditive

-----------------------------------------------------------------------------
(* The refinement of the registry with its atomic refresh. *)

Type == TypeOf[tx.source]

Processed == {tx.batch[i] : i \in 1 .. tx.next - 1}

(* What the open transaction has done so far is what a refresh of the      *)
(* items processed so far does to the committed tables at once.            *)
Summarised ==
    tx # NULL =>
        /\ tx.next <= Len(tx.batch) + 1
        /\ tx.next = 1 \/ HasWorkspace(db, tx.workspace)
        /\ \E rs \in SUBSET ResourceIds : \E stored \in [rs -> Processed] :
             /\ StoresItems(db, issued, tx.source, Type, Processed, stored)
             /\ tx.db = StoreAll(db, tx.workspace, tx.source, Type, stored)

(* With a provider ID a discovered item matches by identity only: no row   *)
(* of an integration lacks its provider ID.                                *)
LEMMA MatchingIsIdentity ==
    ASSUME NEW d \in Database, Consistent(d), NEW s, s # NULL, NEW t, NEW item,
           item.provider # NULL
    PROVE  Matching(d, s, t, item) =
             {r \in ResourceIds : /\ HasResource(d, r)
                                  /\ d.resources[r].source = s
                                  /\ d.resources[r].type = t
                                  /\ d.resources[r].provider = item.provider}
  <1>1. \A r \in ResourceIds : (HasResource(d, r) /\ d.resources[r].source = s)
                                  => d.resources[r].provider # NULL
    BY DEF Consistent, IdentityComplete
  <1> QED BY <1>1 DEF Matching

(* The tables after a whole refresh, one by one.                           *)
LEMMA StoreAllTables ==
    ASSUME NEW d \in Database, NEW w, NEW s, NEW t, NEW stored, NEW e,
           e = StoreAll(d, w, s, t, stored)
    PROVE  /\ e.types = d.types /\ e.workspaces = d.workspaces /\ e.locations = d.locations
           /\ e.integrations = d.integrations \cup {s}
           /\ e.memberships = d.memberships \cup {Member(w, r) : r \in DOMAIN stored}
           /\ e.resources = [r \in ResourceIds |->
                  IF r \in DOMAIN stored THEN DiscoveredRow(s, t, stored[r]) ELSE d.resources[r]]
  BY DEF StoreAll, Database

(* A transaction that has only its integration row is a refresh of nothing.*)
LEMMA BeginSummarised ==
    ASSUME Inv, NEW w \in WorkspaceIds, NEW s \in Sources, NEW batch \in Batches,
           BeginRefresh(w, s, batch)
    PROVE  Summarised'
  <1> DEFINE none == [r \in {} |-> NULL]
  <1>1. /\ tx'.db = InsertIntegration(db, s) /\ tx'.workspace = w /\ tx'.source = s
        /\ tx'.next = 1 /\ tx'.batch = batch /\ db' = db /\ issued' = issued
    BY DEF BeginRefresh
  <1>2. db \in Database
    BY DEF Inv, RegistryInv, RegistryTypeOK
  <1>3. Processed' = {}
    BY <1>1 DEF Processed
  <1>4. none \in [{} -> Processed'] /\ DOMAIN none = {}
    OBVIOUS
  <1>5. StoresItems(db, issued, s, TypeOf[s], {}, none)
    BY <1>4 DEF StoresItems
  <1>6. StoreAll(db, w, s, TypeOf[s], none) = InsertIntegration(db, s)
    <2>1. [r \in ResourceIds |-> IF r \in DOMAIN none
                                 THEN DiscoveredRow(s, TypeOf[s], none[r])
                                 ELSE db.resources[r]] = db.resources
      BY <1>2, <1>4 DEF Database
    <2>2. db.memberships \cup {Member(w, r) : r \in DOMAIN none} = db.memberships
      BY <1>4
    <2> QED BY <2>1, <2>2, <1>2 DEF StoreAll, InsertIntegration, Database
  <1>7. 1 <= Len(batch) + 1
    BY BatchesAssumption
  <1> QED BY <1>1, <1>3, <1>4, <1>5, <1>6, <1>7 DEF Summarised, Type

(* One more statement is one more resource in the summary, or the same     *)
(* resource with a later item.                                             *)
LEMMA StoreSummarised ==
    ASSUME Inv, Summarised, NEW r \in ResourceIds, StoreDiscovered(r)
    PROVE  Summarised'
  <1> DEFINE d == tx.db
             w == tx.workspace
             s == tx.source
             t == TypeOf[s]
             item == tx.batch[tx.next]
  <1> USE TablesAssumption, RegistryAssumption
  <1>1. /\ tx # NULL /\ db' = db /\ issued' = issued /\ HasWorkspace(d, w)
        /\ tx.next <= Len(tx.batch)
        /\ IF Matching(d, s, t, item) # {} THEN r \in Matching(d, s, t, item)
                                           ELSE r \notin issued /\ ~HasResource(d, r)
        /\ tx' = [tx EXCEPT !.db = StoreItem(d, w, r, s, t, item), !.next = tx.next + 1]
    BY DEF StoreDiscovered
  <1>2. /\ tx \in Transaction /\ d \in Database /\ Consistent(d) /\ s \in Sources
        /\ w \in WorkspaceIds /\ tx.batch \in Seq(Item) /\ tx.next \in Nat \ {0}
        /\ db \in Database /\ Consistent(db) /\ Extends(db, d, w) /\ s # NULL /\ t \in Types
    BY <1>1, BatchesAssumption
       DEF Inv, TypeOK, Transaction, TransactionSound, RegistryInv, RegistryTypeOK, TablesConsistent
  <1>3. tx.next \in DOMAIN tx.batch /\ item \in Item /\ item.provider # NULL
    BY <1>1, <1>2 DEF Inv
  <1>4. /\ tx'.db = StoreItem(d, w, r, s, t, item) /\ tx'.next = tx.next + 1
        /\ tx'.workspace = w /\ tx'.source = s /\ tx'.batch = tx.batch
    BY <1>1, <1>2 DEF Transaction
  <1>5. Processed' = Processed \cup {item}
    <2>1. 1 .. tx'.next - 1 = (1 .. tx.next - 1) \cup {tx.next}
      BY <1>2, <1>4
    <2> QED BY <2>1, <1>4 DEF Processed
  <1>6. PICK rs \in SUBSET ResourceIds : \E f \in [rs -> Processed] :
             /\ StoresItems(db, issued, s, t, Processed, f)
             /\ d = StoreAll(db, w, s, t, f)
    BY <1>1 DEF Summarised, Type
  <1>7. PICK stored \in [rs -> Processed] :
             /\ StoresItems(db, issued, s, t, Processed, stored)
             /\ d = StoreAll(db, w, s, t, stored)
    BY <1>6
  <1> DEFINE more == [q \in rs \cup {r} |-> IF q = r THEN item ELSE stored[q]]
  <1> HIDE DEF d, w, s, t, item
  <1>8. Processed \subseteq Item /\ \A i \in Processed : i.provider # NULL
    <2>1. 1 .. tx.next - 1 \subseteq DOMAIN tx.batch
      BY <1>1, <1>2
    <2> QED BY <2>1, <1>1, <1>2 DEF Processed, Inv
  <1>9. /\ DOMAIN stored = rs /\ DOMAIN more = rs \cup {r}
        /\ more \in [rs \cup {r} -> Processed']
        /\ more[r] = item /\ \A q \in rs \ {r} : more[q] = stored[q]
    BY <1>5
  <1> HIDE DEF more
  (* The private tables. *)
  <1>tables.
         /\ d.types = db.types /\ d.workspaces = db.workspaces /\ d.locations = db.locations
         /\ d.integrations = db.integrations \cup {s}
         /\ d.memberships = db.memberships \cup {Member(w, q) : q \in rs}
         /\ d.resources = [q \in ResourceIds |->
                IF q \in rs THEN DiscoveredRow(s, t, stored[q]) ELSE db.resources[q]]
    <2>1. DOMAIN stored = rs /\ db \in Database /\ d = StoreAll(db, w, s, t, stored)
      BY <1>2, <1>7
    <2> QED BY <2>1, StoreAllTables
  <1>10. \A q \in ResourceIds :
            d.resources[q] = IF q \in rs THEN DiscoveredRow(s, t, stored[q]) ELSE db.resources[q]
    BY <1>tables
  <1>11. \A q \in rs : /\ HasResource(d, q) /\ d.resources[q].source = s
                       /\ d.resources[q].type = t
                       /\ d.resources[q].provider = stored[q].provider
    <2>1. TAKE q \in rs
    <2>2. DiscoveredRow(s, t, stored[q]) \in ResourceRow
      <3>1. stored[q] \in Item
        BY <1>8, <2>1
      <3> QED BY <3>1, <1>2 DEF DiscoveredRow, ResourceRow, Item
    <2> QED BY <2>1, <2>2, <1>10 DEF DiscoveredRow, HasResource
  <1>12. \A i \in Processed' :
            /\ Matching(d, s, t, i) = {q \in ResourceIds :
                  /\ HasResource(d, q) /\ d.resources[q].source = s
                  /\ d.resources[q].type = t /\ d.resources[q].provider = i.provider}
            /\ Matching(db, s, t, i) = {q \in ResourceIds :
                  /\ HasResource(db, q) /\ db.resources[q].source = s
                  /\ db.resources[q].type = t /\ db.resources[q].provider = i.provider}
    BY <1>2, <1>3, <1>5, <1>8, MatchingIsIdentity
  <1>13. Matching(db, s, t, item) \subseteq Matching(d, s, t, item)
    BY <1>2, <1>5, <1>12 DEF Extends
  (* A resource that has the item's identity is the one that is written. *)
  <1>14. \A q \in Matching(d, s, t, item) : q = r
    <2>1. TAKE q \in Matching(d, s, t, item)
    <2>2. r \in Matching(d, s, t, item)
      BY <1>1, <2>1
    <2> QED BY <2>1, <2>2, <1>2, <1>3, <1>5, <1>12 DEF Consistent, IdentityUnique, IdentityFree
  <1>15. StoresItems(db, issued, s, t, Processed', more)
    <2>1. ASSUME NEW i \in Processed'
          PROVE  \E q \in DOMAIN more : more[q].provider = i.provider
      <3>1. CASE i = item
        BY <3>1, <1>9
      <3>2. CASE i \in Processed
        <4>1. PICK q \in rs : stored[q].provider = i.provider
          BY <3>2, <1>7, <1>9 DEF StoresItems
        <4>2. CASE q # r
          BY <4>1, <4>2, <1>9
        <4>3. CASE q = r
          <5>1. r \in Matching(d, s, t, item)
            BY <4>1, <4>3, <1>1, <1>11
          <5>2. d.resources[r].provider = item.provider
            BY <5>1, <1>5, <1>12
          <5> QED BY <4>1, <4>3, <5>2, <1>9, <1>11
        <4> QED BY <4>2, <4>3
      <3> QED BY <3>1, <3>2, <1>5
    <2>2. ASSUME NEW q \in DOMAIN more
          PROVE  IF Matching(db, s, t, more[q]) # {} THEN q \in Matching(db, s, t, more[q])
                                                     ELSE q \notin issued
      <3>1. CASE q # r
        BY <2>2, <3>1, <1>7, <1>9 DEF StoresItems
      <3>2. CASE q = r /\ r \in rs
        <4>1. r \in Matching(d, s, t, item)
          BY <3>2, <1>1, <1>11
        <4>2. stored[r].provider = item.provider
          BY <4>1, <3>2, <1>5, <1>11, <1>12
        <4>3. stored[r] \in Processed'
          BY <3>2, <1>5
        <4>4. Matching(db, s, t, item) = Matching(db, s, t, stored[r])
          <5>1. item \in Processed'
            BY <1>5
          <5>2. Matching(db, s, t, item) = {a \in ResourceIds :
                  /\ HasResource(db, a) /\ db.resources[a].source = s
                  /\ db.resources[a].type = t /\ db.resources[a].provider = item.provider}
            BY <5>1, <1>12, Zenon
          <5>3. Matching(db, s, t, stored[r]) = {a \in ResourceIds :
                  /\ HasResource(db, a) /\ db.resources[a].source = s
                  /\ db.resources[a].type = t /\ db.resources[a].provider = stored[r].provider}
            BY <4>3, <1>12, Zenon
          <5> QED BY <4>2, <5>2, <5>3
        <4> QED BY <3>2, <4>4, <1>7, <1>9 DEF StoresItems
      <3>3. CASE q = r /\ r \notin rs
        <4>1. CASE Matching(d, s, t, item) = {}
          BY <3>3, <4>1, <1>1, <1>9, <1>13
        <4>2. CASE r \in Matching(d, s, t, item)
          <5>1. d.resources[r] = db.resources[r]
            BY <3>3, <1>10
          <5>2. r \in Matching(db, s, t, item)
            BY <4>2, <5>1, <1>5, <1>12 DEF HasResource
          <5> QED BY <3>3, <5>2, <1>9
        <4> QED BY <4>1, <4>2, <1>1
      <3> QED BY <2>2, <3>1, <3>2, <3>3, <1>9
    <2>3. ASSUME NEW q \in DOMAIN more, NEW p \in DOMAIN more, more[q].provider = more[p].provider
          PROVE  q = p
      <3>1. ASSUME NEW a \in rs \ {r}, stored[a].provider = item.provider
            PROVE  FALSE
        <4>1. a \in Matching(d, s, t, item)
          BY <3>1, <1>5, <1>11, <1>12
        <4> QED BY <3>1, <4>1, <1>14
      <3>2. CASE q # r /\ p # r
        BY <2>3, <3>2, <1>7, <1>9 DEF StoresItems
      <3>3. CASE q = r /\ p # r
        BY <2>3, <3>1, <3>3, <1>9
      <3>4. CASE q # r /\ p = r
        BY <2>3, <3>1, <3>4, <1>9
      <3> QED BY <3>2, <3>3, <3>4
    <2> QED BY <2>1, <2>2, <2>3 DEF StoresItems
  <1>16. StoreItem(d, w, r, s, t, item) = StoreAll(db, w, s, t, more)
    <2>1. [d.resources EXCEPT ![r] = DiscoveredRow(s, t, item)]
            = [q \in ResourceIds |-> IF q \in DOMAIN more THEN DiscoveredRow(s, t, more[q])
                                                          ELSE db.resources[q]]
      BY <1>2, <1>9, <1>10 DEF Database
    <2>2. d.memberships \cup {Member(w, r)}
            = db.memberships \cup {Member(w, q) : q \in DOMAIN more}
      BY <1>9, <1>tables
    <2> QED BY <2>1, <2>2, <1>2, <1>tables DEF StoreItem, StoreAll, Database
  <1>17. HasWorkspace(db, w)
    BY <1>1, <1>2 DEF Extends, HasWorkspace
  <1>bound. tx'.next <= Len(tx'.batch) + 1
    BY <1>1, <1>2, <1>4
  <1> QED BY <1>1, <1>4, <1>bound, <1>9, <1>15, <1>16, <1>17 DEF Summarised, Type, w, s, t, item

(* The committed tables and the open transaction change together or not at *)
(* all, so the summary stays true until the commit.                        *)
LEMMA SummaryInductive ==
    ASSUME Inv, Summarised, [Next]_vars
    PROVE  Summarised'
  <1>1. CASE tx' = NULL
    BY <1>1 DEF Summarised
  <1>2. CASE UNCHANGED vars
    BY <1>2 DEF vars, Summarised, Type, Processed
  <1>3. CASE Command
    BY <1>3 DEF Command, Summarised
  <1>4. CASE Transact
    BY <1>1, <1>4, BeginSummarised, StoreSummarised DEF Transact, CommitRefresh, AbortRefresh
  <1> QED BY <1>2, <1>3, <1>4 DEF Next

(* The commit is a refresh of the whole batch at once.                     *)
LEMMA CommitIsRefresh ==
    ASSUME Inv, Summarised, CommitRefresh
    PROVE  RefreshCommand
  <1>1. /\ tx # NULL /\ tx.next > Len(tx.batch) /\ Commit(tx.db)
    BY DEF CommitRefresh
  <1>2. /\ tx \in Transaction /\ tx.workspace \in WorkspaceIds /\ tx.source \in Sources
        /\ tx.batch \in Batches /\ tx.batch \in Seq(Item) /\ tx.next \in Nat \ {0}
    BY <1>1, BatchesAssumption DEF Inv, TypeOK, Transaction
  <1>3. tx.workspace \in issued
    BY <1>1 DEF Inv
  <1>4. 1 .. tx.next - 1 = DOMAIN tx.batch
    BY <1>1, <1>2 DEF Summarised
  <1>5. Processed \in ItemSets /\ \A item \in Processed : item.provider # NULL
    BY <1>1, <1>2, <1>4, BatchesAssumption DEF Processed, Inv
  <1>6. HasWorkspace(db, tx.workspace) \/ Processed = {}
    <2>1. CASE tx.next = 1
      BY <2>1 DEF Processed
    <2> QED BY <2>1, <1>1 DEF Summarised
  <1>7. PICK rs \in SUBSET ResourceIds : \E f \in [rs -> Processed] :
             /\ StoresItems(db, issued, tx.source, Type, Processed, f)
             /\ tx.db = StoreAll(db, tx.workspace, tx.source, Type, f)
    BY <1>1 DEF Summarised
  <1>8. PICK stored \in [rs -> Processed] :
             /\ StoresItems(db, issued, tx.source, Type, Processed, stored)
             /\ tx.db = StoreAll(db, tx.workspace, tx.source, Type, stored)
    BY <1>7
  <1>9. Refresh(tx.workspace, tx.source, Processed, stored)
    BY <1>1, <1>3, <1>5, <1>6, <1>8 DEF Refresh, Type
  <1> QED BY <1>2, <1>5, <1>9 DEF RefreshCommand

(* The transaction of many statements, cut off at any of them, implements  *)
(* the registry in which a refresh is one atomic step.                     *)
THEOREM RefinesRegistry == Spec => RegistrySpec
  <1>1. Init => RegistryInit /\ Inv /\ Summarised
    <2> SUFFICES ASSUME Init PROVE RegistryInit /\ Inv /\ Summarised
      OBVIOUS
    <2>1. RegistryInv
      BY InitRegistryInv DEF Init
    <2> QED BY <2>1 DEF Init, Inv, TypeOK, RegistryInv, TransactionSound, Summarised
  <1>2. Inv /\ Summarised /\ [Next]_vars => Summarised' /\ [RegistryNext]_registry
    <2> SUFFICES ASSUME Inv, Summarised, [Next]_vars
                 PROVE  Summarised' /\ [RegistryNext]_registry
      OBVIOUS
    <2>1. Summarised'
      BY SummaryInductive
    <2>2. CASE Command
      BY <2>1, <2>2 DEF Command, RegistryNext
    <2>3. CASE CommitRefresh
      BY <2>1, <2>3, CommitIsRefresh DEF RegistryNext
    <2>4. CASE Transact /\ ~CommitRefresh
      BY <2>1, <2>4 DEF Transact, BeginRefresh, StoreDiscovered, AbortRefresh, registry
    <2>5. CASE UNCHANGED vars
      BY <2>1, <2>5 DEF vars, registry
    <2> QED BY <2>1, <2>2, <2>3, <2>4, <2>5 DEF Next
  <1> QED BY <1>1, <1>2, InvInductive, PTL DEF Spec, RegistrySpec
=============================================================================
