--------------------------- MODULE RegistryProofs ---------------------------
(***************************************************************************)
(* The registry's invariants and step properties, for every number of      *)
(* workspaces, resources, sources and commands.  The inductive invariant   *)
(* adds to the checked ones what the statements rely on: every ID in the   *)
(* tables was issued, so a fresh one is free, and the seeded types stay.   *)
(* Each statement has a lemma: under the constraint that guards it, it     *)
(* keeps a consistent database consistent.                                 *)
(***************************************************************************)
EXTENDS Registry, TLAPS

-----------------------------------------------------------------------------
(* The statements. *)

(* The database the migrations leave is consistent.                        *)
LEMMA EmptyConsistent ==
    EmptyDatabase \in Database /\ Consistent(EmptyDatabase)
  <1> USE TablesAssumption
  <1>1. EmptyDatabase \in Database
    BY DEF EmptyDatabase, Database
  <1>2. Consistent(EmptyDatabase)
    BY DEF EmptyDatabase, Consistent, References, NamesUnique, IdentityUnique,
           LocationsUnique, IdentityComplete, HasWorkspace, HasResource
  <1> QED BY <1>1, <1>2

(* workspace add: the name check keeps names unique.                       *)
LEMMA InsertWorkspaceConsistent ==
    ASSUME NEW d \in Database, Consistent(d),
           NEW w \in WorkspaceIds, NEW name \in WorkspaceNames, NEW dir \in Directories,
           ~HasWorkspace(d, w), NameFree(d, name)
    PROVE  /\ InsertWorkspace(d, w, name, dir) \in Database
           /\ Consistent(InsertWorkspace(d, w, name, dir))
  <1> DEFINE e == InsertWorkspace(d, w, name, dir)
  <1> USE TablesAssumption
  <1>1. [name |-> name, dir |-> dir] \in WorkspaceRow /\ [name |-> name, dir |-> dir] # NULL
    BY DEF WorkspaceRow
  <1>2. e \in Database
    BY <1>1 DEF InsertWorkspace, Database
  <1>3. /\ e.types = d.types /\ e.integrations = d.integrations /\ e.resources = d.resources
        /\ e.memberships = d.memberships /\ e.locations = d.locations
        /\ \A v \in WorkspaceIds : HasWorkspace(d, v) \/ v = w <=> HasWorkspace(e, v)
    BY <1>1 DEF InsertWorkspace, Database, HasWorkspace
  <1>4. NamesUnique(e)
    <2> SUFFICES ASSUME NEW v \in WorkspaceIds, NEW u \in WorkspaceIds,
                        HasWorkspace(e, v), HasWorkspace(e, u),
                        e.workspaces[v].name = e.workspaces[u].name
                 PROVE  v = u
      BY DEF NamesUnique
    <2> QED BY DEF Consistent, NamesUnique, NameFree, InsertWorkspace, Database, HasWorkspace
  <1>5. References(e) /\ IdentityUnique(e) /\ LocationsUnique(e) /\ IdentityComplete(e)
    BY <1>3, <1>2 DEF Consistent, References, IdentityUnique, IdentityFree, LocationsUnique,
                IdentityComplete, HasResource, Database, MembershipRow, LocationRow
  <1> QED BY <1>2, <1>4, <1>5 DEF Consistent

(* workspace remove: the cascades leave no dangling row.                   *)
LEMMA DeleteWorkspaceConsistent ==
    ASSUME NEW d \in Database, Consistent(d), NEW w \in WorkspaceIds
    PROVE  DeleteWorkspace(d, w) \in Database /\ Consistent(DeleteWorkspace(d, w))
  <1> DEFINE e == DeleteWorkspace(d, w)
  <1>1. e \in Database
    BY DEF DeleteWorkspace, Database
  <1>2. /\ e.types = d.types /\ e.integrations = d.integrations /\ e.resources = d.resources
        /\ e.memberships = {m \in d.memberships : m.workspace # w}
        /\ e.locations = {l \in d.locations : l.workspace # w}
        /\ \A v \in WorkspaceIds \ {w} : e.workspaces[v] = d.workspaces[v]
        /\ ~HasWorkspace(e, w)
    BY DEF DeleteWorkspace, Database, HasWorkspace
  <1>3. References(e)
    BY <1>1, <1>2 DEF Consistent, References, HasWorkspace, HasResource, Database,
                      MembershipRow, LocationRow
  <1>4. NamesUnique(e) /\ LocationsUnique(e)
    BY <1>1, <1>2 DEF Consistent, NamesUnique, LocationsUnique, HasWorkspace, Database
  <1>5. IdentityUnique(e) /\ IdentityComplete(e)
    BY <1>2 DEF Consistent, IdentityUnique, IdentityFree, IdentityComplete, HasResource
  <1> QED BY SMTT(30), <1>1, <1>3, <1>4, <1>5 DEF Consistent

(* A database with more types or integrations is no less consistent.       *)
LEMMA RegisterConsistent ==
    ASSUME NEW d \in Database, Consistent(d)
    PROVE  /\ \A t \in Types : InsertType(d, t) \in Database /\ Consistent(InsertType(d, t))
           /\ \A s \in Sources : /\ InsertIntegration(d, s) \in Database
                                 /\ Consistent(InsertIntegration(d, s))
  BY DEF InsertType, InsertIntegration, Database, Consistent, References, NamesUnique,
         IdentityUnique, IdentityFree, LocationsUnique, IdentityComplete,
         HasWorkspace, HasResource

(* Writing row x as resource r, new or not, is consistent when the type    *)
(* and the integration exist and the identity index admits it.             *)
LEMMA WriteResourceConsistent ==
    ASSUME NEW d \in Database, Consistent(d), NEW r \in ResourceIds, NEW x \in ResourceRow,
           x.type \in d.types, x.source \in d.integrations \cup {NULL},
           x.source = NULL <=> x.provider = NULL, IdentityFree(d, r, x)
    PROVE  /\ [d EXCEPT !.resources[r] = x] \in Database
           /\ Consistent([d EXCEPT !.resources[r] = x])
  <1> DEFINE e == [d EXCEPT !.resources[r] = x]
  <1> USE TablesAssumption
  <1>1. e \in Database
    BY DEF Database
  <1>2. /\ e.types = d.types /\ e.integrations = d.integrations
        /\ e.workspaces = d.workspaces
        /\ e.memberships = d.memberships /\ e.locations = d.locations
        /\ \A s \in ResourceIds : e.resources[s] = IF s = r THEN x ELSE d.resources[s]
        /\ x # NULL
    BY DEF Database
  <1>3. \A s \in ResourceIds : HasResource(e, s) <=> HasResource(d, s) \/ s = r
    BY <1>2 DEF HasResource
  <1>4. References(e)
    <2>1. \A m \in d.memberships : m.workspace \in WorkspaceIds /\ m.resource \in ResourceIds
      BY DEF Database, MembershipRow
    <2>2. \A l \in d.locations : l.workspace \in WorkspaceIds /\ l.resource \in ResourceIds
      BY DEF Database, LocationRow
    <2> QED BY <1>2, <1>3, <2>1, <2>2 DEF Consistent, References, HasWorkspace, HasResource
  <1>5. NamesUnique(e) /\ LocationsUnique(e)
    BY <1>2 DEF Consistent, NamesUnique, LocationsUnique, HasWorkspace
  <1>6. IdentityComplete(e)
    BY <1>2 DEF Consistent, IdentityComplete, HasResource
  <1>7. IdentityUnique(e)
    <2> SUFFICES ASSUME NEW s \in ResourceIds, HasResource(e, s),
                        e.resources[s].source # NULL, e.resources[s].provider # NULL,
                        NEW q \in ResourceIds \ {s}, HasResource(e, q)
                 PROVE  <<e.resources[q].source, e.resources[q].type, e.resources[q].provider>>
                          # <<e.resources[s].source, e.resources[s].type, e.resources[s].provider>>
      BY DEF IdentityUnique, IdentityFree
    <2>1. CASE s = r
      BY <2>1, <1>2, <1>3 DEF IdentityFree, HasResource
    <2>2. CASE q = r
      BY <2>2, <1>2, <1>3 DEF IdentityFree, HasResource
    <2>3. CASE s # r /\ q # r
      BY SMTT(30), <2>3, <1>2, <1>3 DEF Consistent, IdentityUnique, IdentityFree, HasResource
    <2> QED BY <2>1, <2>2, <2>3
  <1> QED BY <1>1, <1>4, <1>5, <1>6, <1>7 DEF Consistent

(* resource remove: the cascades leave no dangling row.                    *)
LEMMA DeleteResourceConsistent ==
    ASSUME NEW d \in Database, Consistent(d), NEW r \in ResourceIds
    PROVE  DeleteResource(d, r) \in Database /\ Consistent(DeleteResource(d, r))
  <1> DEFINE e == DeleteResource(d, r)
  <1>1. e \in Database
    BY DEF DeleteResource, Database
  <1>2. /\ e.types = d.types /\ e.integrations = d.integrations /\ e.workspaces = d.workspaces
        /\ e.memberships = {m \in d.memberships : m.resource # r}
        /\ e.locations = {l \in d.locations : l.resource # r}
        /\ \A s \in ResourceIds \ {r} : e.resources[s] = d.resources[s]
        /\ ~HasResource(e, r)
    BY DEF DeleteResource, Database, HasResource
  <1>3. References(e)
    BY <1>1, <1>2 DEF Consistent, References, HasWorkspace, HasResource, Database,
                      MembershipRow, LocationRow
  <1>4. NamesUnique(e) /\ LocationsUnique(e)
    BY <1>2 DEF Consistent, NamesUnique, LocationsUnique, HasWorkspace
  <1>5. IdentityComplete(e)
    BY <1>2 DEF Consistent, IdentityComplete, HasResource
  <1>6. IdentityUnique(e)
    <2>1. \A s \in ResourceIds : HasResource(e, s) =>
            s # r /\ e.resources[s] = d.resources[s] /\ HasResource(d, s)
      BY <1>2 DEF HasResource
    <2>2. IdentityUnique(d)
      BY DEF Consistent
    <2> QED BY <2>1, <2>2 DEF IdentityUnique, IdentityFree
  <1> QED BY <1>1, <1>3, <1>4, <1>5, <1>6 DEF Consistent

(* Memberships between existing rows may come and go.                      *)
LEMMA MembershipConsistent ==
    ASSUME NEW d \in Database, Consistent(d), NEW w \in WorkspaceIds, NEW r \in ResourceIds
    PROVE  /\ HasWorkspace(d, w) /\ HasResource(d, r) =>
                /\ InsertMembership(d, w, r) \in Database
                /\ Consistent(InsertMembership(d, w, r))
           /\ DeleteMembership(d, w, r) \in Database
           /\ Consistent(DeleteMembership(d, w, r))
  <1>1. Member(w, r) \in MembershipRow
    BY DEF Member, MembershipRow
  <1>2. InsertMembership(d, w, r) \in Database /\ DeleteMembership(d, w, r) \in Database
    BY <1>1 DEF InsertMembership, DeleteMembership, Database
  <1>3. ASSUME NEW e \in {InsertMembership(d, w, r), DeleteMembership(d, w, r)},
               \A m \in e.memberships : HasWorkspace(d, m.workspace) /\ HasResource(d, m.resource)
        PROVE  Consistent(e)
    <2>1. /\ e.types = d.types /\ e.integrations = d.integrations
          /\ e.workspaces = d.workspaces /\ e.resources = d.resources
          /\ e.locations = d.locations
      BY DEF InsertMembership, DeleteMembership, Database
    <2> QED
      BY <1>3, <2>1 DEF Consistent, References, NamesUnique, IdentityUnique, IdentityFree,
         LocationsUnique, IdentityComplete, HasWorkspace, HasResource
  <1>4. \A m \in d.memberships : HasWorkspace(d, m.workspace) /\ HasResource(d, m.resource)
    BY DEF Consistent, References
  <1>5. /\ InsertMembership(d, w, r).memberships = d.memberships \cup {Member(w, r)}
        /\ DeleteMembership(d, w, r).memberships \subseteq d.memberships
    BY DEF InsertMembership, DeleteMembership, Database
  <1>6. HasWorkspace(d, w) /\ HasResource(d, r) => Consistent(InsertMembership(d, w, r))
    BY <1>3, <1>4, <1>5 DEF Member
  <1>7. Consistent(DeleteMembership(d, w, r))
    BY <1>3, <1>4, <1>5
  <1> QED BY <1>2, <1>6, <1>7

(* SetLocation leaves one location per path and one per resource in a      *)
(* workspace, when the foreign keys and the unique path accept the row.    *)
LEMMA SetLocationConsistent ==
    ASSUME NEW d \in Database, Consistent(d), NEW w \in WorkspaceIds, NEW r \in ResourceIds,
           NEW lt \in LocationTypes, NEW p \in Paths, LocationAccepted(d, w, r, lt, p)
    PROVE  /\ SetLocation(d, w, r, lt, p) \in Database
           /\ Consistent(SetLocation(d, w, r, lt, p))
  <1> DEFINE e == SetLocation(d, w, r, lt, p)
             row == [workspace |-> w, resource |-> r, type |-> lt, path |-> p]
  <1>1. row \in LocationRow /\ OtherLocations(d, w, r, lt) \subseteq d.locations
    BY DEF LocationRow, OtherLocations
  <1>2. e \in Database
    BY <1>1 DEF SetLocation, Database
  <1>3. /\ e.types = d.types /\ e.integrations = d.integrations /\ e.workspaces = d.workspaces
        /\ e.resources = d.resources /\ e.memberships = d.memberships
        /\ e.locations = OtherLocations(d, w, r, lt) \cup {row}
    BY DEF SetLocation, Database
  <1>4. References(e)
    <2>1. \A l \in e.locations : HasWorkspace(d, l.workspace) /\ HasResource(d, l.resource)
      BY <1>1, <1>3 DEF Consistent, References, LocationAccepted
    <2> QED BY <1>3, <2>1 DEF Consistent, References, HasWorkspace, HasResource
  <1>5. LocationsUnique(e)
    <2>1. \A l \in OtherLocations(d, w, r, lt) :
            \/ l.type # lt
            \/ l.path # p /\ <<l.workspace, l.resource>> # <<w, r>>
      BY DEF OtherLocations, LocationAccepted
    <2> QED BY <1>1, <1>3, <2>1 DEF Consistent, LocationsUnique
  <1>6. NamesUnique(e) /\ IdentityUnique(e) /\ IdentityComplete(e)
    BY <1>3 DEF Consistent, NamesUnique, IdentityUnique, IdentityFree, IdentityComplete,
                HasWorkspace, HasResource
  <1> QED BY <1>2, <1>4, <1>5, <1>6 DEF Consistent

(* Storing a discovered item is consistent: updating the row it matches    *)
(* or inserting one when none matches never breaks the identity index.     *)
LEMMA StoreItemConsistent ==
    ASSUME NEW d \in Database, Consistent(d), NEW w \in WorkspaceIds, NEW r \in ResourceIds,
           NEW s \in d.integrations, NEW t \in d.types, NEW item \in Item,
           item.provider # NULL, HasWorkspace(d, w),
           \/ r \in Matching(d, s, t, item)
           \/ Matching(d, s, t, item) = {} /\ ~HasResource(d, r)
    PROVE  /\ StoreItem(d, w, r, s, t, item) \in Database
           /\ Consistent(StoreItem(d, w, r, s, t, item))
  <1> DEFINE x == DiscoveredRow(s, t, item)
             e == [d EXCEPT !.resources[r] = x]
  <1> USE TablesAssumption
  <1>1. s \in Sources /\ t \in Types /\ s # NULL
    BY DEF Database
  <1>2. /\ x \in ResourceRow /\ x # NULL
        /\ x.type = t /\ x.source = s /\ x.provider = item.provider
    BY <1>1 DEF ResourceRow, Item, DiscoveredRow
  <1>3. IdentityFree(d, r, x)
    <2> SUFFICES ASSUME NEW q \in ResourceIds \ {r}, HasResource(d, q),
                        d.resources[q].source = s, d.resources[q].type = t,
                        d.resources[q].provider = item.provider
                 PROVE  FALSE
      BY <1>2 DEF IdentityFree
    <2>1. q \in Matching(d, s, t, item)
      BY DEF Matching
    <2>2. /\ HasResource(d, r)
          /\ d.resources[r].source = s /\ d.resources[r].type = t
          /\ d.resources[r].provider = item.provider
      BY <2>1 DEF Matching
    <2> QED BY <2>2, <1>1 DEF Consistent, IdentityUnique, IdentityFree
  <1>4. e \in Database /\ Consistent(e)
    BY <1>1, <1>2, <1>3, WriteResourceConsistent
  <1>5. HasWorkspace(e, w) /\ HasResource(e, r)
    BY <1>2 DEF HasWorkspace, HasResource, Database
  <1>6. StoreItem(d, w, r, s, t, item) = InsertMembership(e, w, r)
    BY DEF StoreItem, InsertMembership, Database
  <1> QED BY <1>4, <1>5, <1>6, MembershipConsistent

(* A whole refresh is consistent: each discovered identity goes to the     *)
(* resource that has it or to one new resource.                            *)
LEMMA StoreAllConsistent ==
    ASSUME NEW d \in Database, Consistent(d), NEW w \in WorkspaceIds,
           NEW s \in Sources, NEW t \in d.types, NEW ids, NEW items \in SUBSET Item,
           NEW rs \in SUBSET ResourceIds, NEW stored \in [rs -> items],
           {r \in ResourceIds : HasResource(d, r)} \subseteq ids,
           \A item \in items : item.provider # NULL,
           HasWorkspace(d, w) \/ items = {},
           StoresItems(d, ids, s, t, items, stored)
    PROVE  /\ StoreAll(d, w, s, t, stored) \in Database
           /\ Consistent(StoreAll(d, w, s, t, stored))
  <1> DEFINE row(r) == DiscoveredRow(s, t, stored[r])
             e == StoreAll(d, w, s, t, stored)
  <1> USE TablesAssumption
  <1>1. t \in Types /\ s # NULL /\ DOMAIN stored = rs
    BY DEF Database
  <1>2. \A r \in rs : /\ row(r) \in ResourceRow /\ row(r) # NULL
                       /\ row(r).type = t /\ row(r).source = s
                       /\ row(r).provider = stored[r].provider /\ stored[r].provider # NULL
    BY <1>1 DEF DiscoveredRow, ResourceRow, Item
  <1> HIDE DEF row
  <1>3. /\ e.types = d.types /\ e.integrations = d.integrations \cup {s}
        /\ e.workspaces = d.workspaces /\ e.locations = d.locations
        /\ e.memberships = d.memberships \cup {Member(w, r) : r \in rs}
        /\ e.resources = [r \in ResourceIds |-> IF r \in rs THEN row(r) ELSE d.resources[r]]
    BY <1>1 DEF StoreAll, Database, row
  <1>4. e \in Database
    <2>1. e.resources \in [ResourceIds -> ResourceRow \cup {NULL}]
      BY <1>2, <1>3 DEF Database
    <2>2. e.memberships \subseteq MembershipRow
      BY <1>3 DEF Database, Member, MembershipRow
    <2>3. e.integrations \subseteq Sources
      BY <1>3 DEF Database
    <2>4. ASSUME NEW I \in SUBSET Sources, NEW R \in [ResourceIds -> ResourceRow \cup {NULL}],
                 NEW M \in SUBSET MembershipRow
          PROVE  [d EXCEPT !.integrations = I, !.resources = R, !.memberships = M] \in Database
      BY DEF Database
    <2>5. e = [d EXCEPT !.integrations = e.integrations, !.resources = e.resources,
                        !.memberships = e.memberships]
      <3>1. ASSUME NEW I, NEW R, NEW M
            PROVE  LET f == [d EXCEPT !.integrations = I, !.resources = R, !.memberships = M]
                   IN  f = [d EXCEPT !.integrations = f.integrations, !.resources = f.resources,
                                     !.memberships = f.memberships]
        BY DEF Database
      <3> QED BY <3>1 DEF StoreAll
    <2> HIDE DEF e
    <2>6. [d EXCEPT !.integrations = e.integrations, !.resources = e.resources,
                    !.memberships = e.memberships] \in Database
      BY <2>1, <2>2, <2>3, <2>4
    <2> QED BY <2>5, <2>6, Zenon
  <1> HIDE DEF e
  <1>5. \A r \in ResourceIds : /\ HasResource(e, r) <=> HasResource(d, r) \/ r \in rs
                               /\ r \in rs => e.resources[r] = row(r)
                               /\ r \notin rs => e.resources[r] = d.resources[r]
    BY <1>2, <1>3 DEF HasResource
  <1>6. References(e)
    <2>1. \A m \in d.memberships : HasWorkspace(d, m.workspace) /\ HasResource(d, m.resource)
      BY DEF Consistent, References
    <2>2. \A l \in d.locations : HasWorkspace(d, l.workspace) /\ HasResource(d, l.resource)
      BY DEF Consistent, References
    <2>3. ASSUME NEW m \in e.memberships
          PROVE  HasWorkspace(e, m.workspace) /\ HasResource(e, m.resource)
      <3>1. CASE m \in d.memberships
        BY <2>1, <3>1, <1>3, <1>5 DEF HasWorkspace, Database, MembershipRow
      <3>2. ASSUME NEW r \in rs, m = Member(w, r)
            PROVE  HasWorkspace(e, m.workspace) /\ HasResource(e, m.resource)
        <4>1. items # {}
          BY <3>2
        <4> QED BY <4>1, <3>2, <1>3, <1>5 DEF Member, HasWorkspace
      <3> QED BY <3>1, <3>2, <1>3
    <2>4. ASSUME NEW l \in e.locations
          PROVE  HasWorkspace(e, l.workspace) /\ HasResource(e, l.resource)
      BY <2>2, <1>3, <1>5 DEF HasWorkspace, Database, LocationRow
    <2>5. ASSUME NEW r \in ResourceIds, HasResource(e, r)
          PROVE  /\ e.resources[r].type \in e.types
                 /\ e.resources[r].source \in e.integrations \cup {NULL}
      <3>1. CASE r \in rs
        BY <3>1, <1>2, <1>3, <1>5
      <3>2. CASE r \notin rs
        BY <3>2, <2>5, <1>3, <1>5 DEF Consistent, References
      <3> QED BY <3>1, <3>2
    <2> QED BY <2>3, <2>4, <2>5 DEF References
  <1>7. NamesUnique(e) /\ LocationsUnique(e)
    BY <1>3 DEF Consistent, NamesUnique, LocationsUnique, HasWorkspace
  <1>8. IdentityComplete(e)
    <2> SUFFICES ASSUME NEW r \in ResourceIds, HasResource(e, r)
                 PROVE  e.resources[r].source = NULL <=> e.resources[r].provider = NULL
      BY DEF IdentityComplete
    <2>1. CASE r \in rs
      BY <2>1, <1>1, <1>2, <1>5
    <2>2. CASE r \notin rs
      BY <2>2, <1>5 DEF Consistent, IdentityComplete
    <2> QED BY <2>1, <2>2
  <1>9. IdentityUnique(e)
    <2> SUFFICES ASSUME NEW q \in ResourceIds, NEW r \in ResourceIds \ {q},
                        HasResource(e, q), HasResource(e, r),
                        e.resources[q].source # NULL, e.resources[q].provider # NULL,
                        e.resources[q].source = e.resources[r].source,
                        e.resources[q].type = e.resources[r].type,
                        e.resources[q].provider = e.resources[r].provider
                 PROVE  FALSE
      BY DEF IdentityUnique, IdentityFree
    <2>1. CASE q \in rs /\ r \in rs
      BY <2>1, <1>1, <1>2, <1>5 DEF StoresItems
    <2>2. ASSUME NEW a \in rs, NEW b \in ResourceIds \ rs, HasResource(e, b),
                 e.resources[b].source = s, e.resources[b].type = t,
                 e.resources[b].provider = stored[a].provider
          PROVE  FALSE
      <3>1. HasResource(d, b) /\ d.resources[b] = e.resources[b]
        BY <2>2, <1>5
      <3>2. b \in Matching(d, s, t, stored[a])
        BY <2>2, <3>1 DEF Matching
      <3>3. a \in Matching(d, s, t, stored[a])
        BY <3>2, <1>1 DEF StoresItems
      <3>4. /\ HasResource(d, a) /\ d.resources[a].source = s /\ d.resources[a].type = t
            /\ d.resources[a].provider = stored[a].provider
        BY <2>2, <3>1, <3>3 DEF Matching
      <3> QED BY <2>2, <3>1, <3>4, <1>1, <1>2 DEF Consistent, IdentityUnique, IdentityFree
    <2>3. CASE q \in rs /\ r \notin rs
      BY <2>2, <2>3, <1>2, <1>5
    <2>4. CASE r \in rs /\ q \notin rs
      BY <2>2, <2>4, <1>2, <1>5
    <2>5. CASE q \notin rs /\ r \notin rs
      BY <2>5, <1>5 DEF Consistent, IdentityUnique, IdentityFree
    <2> QED BY <2>1, <2>3, <2>4, <2>5
  <1> QED BY <1>4, <1>6, <1>7, <1>8, <1>9 DEF Consistent, e

-----------------------------------------------------------------------------
(* The commands. *)

RegistryInv ==
    /\ RegistryTypeOK
    /\ TablesConsistent
    /\ SeededTypes \subseteq db.types
    /\ LiveIds(db) \subseteq issued

(* A committed statement that keeps the database consistent and the seeded *)
(* types registered preserves the invariant.                               *)
LEMMA CommitPreserves ==
    ASSUME RegistryInv, NEW d \in Database, Consistent(d), SeededTypes \subseteq d.types, Commit(d)
    PROVE  RegistryInv'
  <1>1. db' = d /\ issued' = issued \cup LiveIds(d)
    BY DEF Commit
  <1>2. LiveIds(d) \subseteq WorkspaceIds \cup ResourceIds
    BY DEF LiveIds
  <1>3. RegistryTypeOK'
    BY <1>1, <1>2 DEF RegistryInv, RegistryTypeOK
  <1>4. LiveIds(db)' = LiveIds(d)
    BY <1>1 DEF LiveIds
  <1> QED BY <1>1, <1>3, <1>4 DEF RegistryInv, TablesConsistent

LEMMA CommandPreserves ==
    ASSUME RegistryInv, WorkspaceCommand \/ ResourceCommand \/ LinkCommand
    PROVE  RegistryInv'
  <1>0. db \in Database /\ Consistent(db) /\ SeededTypes \subseteq db.types
        /\ LiveIds(db) \subseteq issued
    BY DEF RegistryInv, RegistryTypeOK, TablesConsistent
  <1>1. ASSUME NEW w \in WorkspaceIds, NEW name \in WorkspaceNames, NEW dir \in Directories,
               AddWorkspace(w, name, dir)
        PROVE  RegistryInv'
    <2>1. ~HasWorkspace(db, w)
      BY <1>0, <1>1 DEF AddWorkspace, LiveIds
    <2>2. InsertWorkspace(db, w, name, dir).types = db.types
      BY <1>0 DEF InsertWorkspace, Database
    <2> QED BY <1>0, <1>1, <2>1, <2>2, InsertWorkspaceConsistent, CommitPreserves DEF AddWorkspace
  <1>2. ASSUME NEW w \in WorkspaceIds, RemoveWorkspace(w)
        PROVE  RegistryInv'
    <2>1. DeleteWorkspace(db, w).types = db.types
      BY <1>0 DEF DeleteWorkspace, Database
    <2> QED BY <1>0, <1>2, <2>1, DeleteWorkspaceConsistent, CommitPreserves DEF RemoveWorkspace
  <1>3. ASSUME NEW t \in Types, RegisterType(t)
        PROVE  RegistryInv'
    <2>1. InsertType(db, t).types = db.types \cup {t}
      BY <1>0 DEF InsertType, Database
    <2> QED BY <1>0, <1>3, <2>1, RegisterConsistent, CommitPreserves DEF RegisterType
  <1>4. ASSUME NEW r \in ResourceIds, NEW t \in Types, NEW name \in Names,
               AddResource(r, t, name)
        PROVE  RegistryInv'
    <2> DEFINE x == [type |-> t, source |-> NULL, provider |-> NULL, key |-> NULL, name |-> name]
    <2>1. x \in ResourceRow /\ IdentityFree(db, r, x)
      BY DEF ResourceRow, IdentityFree
    <2>2. InsertResource(db, r, t, name) = [db EXCEPT !.resources[r] = x]
      BY DEF InsertResource
    <2>3. InsertResource(db, r, t, name).types = db.types
      BY <1>0 DEF InsertResource, Database
    <2> QED
      BY <1>0, <1>4, <2>1, <2>2, <2>3, WriteResourceConsistent, CommitPreserves DEF AddResource
  <1>5. ASSUME NEW r \in ResourceIds, NEW t \in Types, NEW name \in Names,
               UpdateResource(r, t, name)
        PROVE  RegistryInv'
    <2> DEFINE x == UpdatedRow(db, r, t, name)
    <2>1. db.resources[r] \in ResourceRow
      BY <1>0, <1>5 DEF UpdateResource, HasResource, Database
    <2>2. /\ x \in ResourceRow /\ x.type = t
          /\ x.source = db.resources[r].source /\ x.provider = db.resources[r].provider
      BY <2>1 DEF ResourceRow, UpdatedRow
    <2>3. /\ x.source \in db.integrations \cup {NULL}
          /\ x.source = NULL <=> x.provider = NULL
      BY <1>0, <1>5, <2>2 DEF UpdateResource, Consistent, References, IdentityComplete
    <2>4. UpdateResourceRow(db, r, t, name) = [db EXCEPT !.resources[r] = x]
      BY <1>0 DEF UpdateResourceRow, Database
    <2>5. UpdateResourceRow(db, r, t, name).types = db.types
      BY <1>0 DEF UpdateResourceRow, Database
    <2> HIDE DEF x
    <2>6. Consistent([db EXCEPT !.resources[r] = x]) /\ [db EXCEPT !.resources[r] = x] \in Database
      BY <1>0, <1>5, <2>2, <2>3, WriteResourceConsistent DEF UpdateResource, x
    <2> QED BY <1>0, <1>5, <2>4, <2>5, <2>6, CommitPreserves DEF UpdateResource
  <1>6. ASSUME NEW r \in ResourceIds, RemoveResource(r)
        PROVE  RegistryInv'
    <2>1. DeleteResource(db, r).types = db.types
      BY <1>0 DEF DeleteResource, Database
    <2> QED BY <1>0, <1>6, <2>1, DeleteResourceConsistent, CommitPreserves DEF RemoveResource
  <1>7. ASSUME NEW w \in WorkspaceIds, NEW r \in ResourceIds,
               AddMembership(w, r) \/ RemoveMembership(w, r)
        PROVE  RegistryInv'
    <2>1. /\ InsertMembership(db, w, r).types = db.types
          /\ DeleteMembership(db, w, r).types = db.types
      BY <1>0 DEF InsertMembership, DeleteMembership, Database
    <2> QED
      BY <1>0, <1>7, <2>1, MembershipConsistent, CommitPreserves
         DEF AddMembership, RemoveMembership
  <1>8. ASSUME NEW w \in WorkspaceIds, NEW r \in ResourceIds, NEW lt \in LocationTypes,
               NEW p \in Paths, RegisterLocation(w, r, lt, p)
        PROVE  RegistryInv'
    <2>1. SetLocation(db, w, r, lt, p).types = db.types
      BY <1>0 DEF SetLocation, Database
    <2> QED BY <1>0, <1>8, <2>1, SetLocationConsistent, CommitPreserves DEF RegisterLocation
  <1> QED
    BY <1>1, <1>2, <1>3, <1>4, <1>5, <1>6, <1>7, <1>8
       DEF WorkspaceCommand, ResourceCommand, LinkCommand

(* Any refresh, whatever its discovery reported.                           *)
LEMMA AnyRefreshPreserves ==
    ASSUME RegistryInv, NEW w \in WorkspaceIds, NEW s \in Sources, NEW items \in SUBSET Item,
           NEW rs \in SUBSET ResourceIds, NEW stored \in [rs -> items],
           Refresh(w, s, items, stored)
    PROVE  RegistryInv'
  <1>1. /\ db \in Database /\ Consistent(db)
        /\ TypeOf[s] \in db.types /\ SeededTypes \subseteq db.types
        /\ {r \in ResourceIds : HasResource(db, r)} \subseteq issued
    BY RegistryAssumption DEF RegistryInv, RegistryTypeOK, TablesConsistent, LiveIds
  <1>2. StoreAll(db, w, s, TypeOf[s], stored).types = db.types
    BY <1>1 DEF StoreAll, Database
  <1>3. /\ StoreAll(db, w, s, TypeOf[s], stored) \in Database
        /\ Consistent(StoreAll(db, w, s, TypeOf[s], stored))
    BY <1>1, StoreAllConsistent DEF Refresh
  <1> QED BY <1>1, <1>2, <1>3, CommitPreserves DEF Refresh

LEMMA RefreshPreserves ==
    ASSUME RegistryInv, RefreshCommand
    PROVE  RegistryInv'
  <1>1. PICK w \in WorkspaceIds, s \in Sources, items \in ItemSets, rs \in SUBSET ResourceIds :
          \E stored \in [rs -> items] : Refresh(w, s, items, stored)
    BY DEF RefreshCommand
  <1>2. PICK stored \in [rs -> items] : Refresh(w, s, items, stored)
    BY <1>1
  <1>3. items \in SUBSET Item
    BY RegistryAssumption
  <1> QED BY <1>2, <1>3, AnyRefreshPreserves

LEMMA InitRegistryInv == RegistryInit => RegistryInv
  <1> SUFFICES ASSUME RegistryInit PROVE RegistryInv
    OBVIOUS
  <1>1. db \in Database /\ Consistent(db)
    BY EmptyConsistent DEF RegistryInit
  <1>2. LiveIds(db) = {} /\ SeededTypes \subseteq db.types
    BY DEF RegistryInit, EmptyDatabase, LiveIds, HasWorkspace, HasResource
  <1> QED BY <1>1, <1>2 DEF RegistryInit, RegistryInv, RegistryTypeOK, TablesConsistent

(* The tables are consistent, the IDs in them were issued and the seeded   *)
(* types are there, after every command.                                   *)
THEOREM RegistryInvInductive == RegistrySpec => []RegistryInv
  <1>2. RegistryInv /\ [RegistryNext]_registry => RegistryInv'
    <2> SUFFICES ASSUME RegistryInv, [RegistryNext]_registry PROVE RegistryInv'
      OBVIOUS
    <2>1. CASE UNCHANGED registry
      BY <2>1 DEF registry, RegistryInv, RegistryTypeOK, TablesConsistent, LiveIds
    <2> QED BY <2>1, CommandPreserves, RefreshPreserves DEF RegistryNext
  <1> QED BY InitRegistryInv, <1>2, PTL DEF RegistrySpec

(* Every reachable state has the declared types.                           *)
THEOREM RegistryTypeCorrect == RegistrySpec => []RegistryTypeOK
  <1>1. RegistryInv => RegistryTypeOK
    BY DEF RegistryInv
  <1> QED BY <1>1, RegistryInvInductive, PTL

(* Whatever commands run, the committed tables have no dangling row, no    *)
(* duplicate name, identity or path.                                       *)
THEOREM TablesStayConsistent == RegistrySpec => []TablesConsistent
  <1>1. RegistryInv => TablesConsistent
    BY DEF RegistryInv
  <1> QED BY <1>1, RegistryInvInductive, PTL

(* A command leaves the provider identity of every surviving resource.     *)
LEMMA CommandKeepsIdentity ==
    ASSUME RegistryInv, WorkspaceCommand \/ ResourceCommand \/ LinkCommand,
           NEW r \in ResourceIds, HasResource(db, r), HasResource(db', r)
    PROVE  /\ db'.resources[r].source = db.resources[r].source
           /\ db'.resources[r].provider = db.resources[r].provider
  <1>0. db \in Database /\ r \in issued
    BY DEF RegistryInv, RegistryTypeOK, LiveIds
  <1>1. CASE WorkspaceCommand
    BY <1>0, <1>1 DEF WorkspaceCommand, AddWorkspace, RemoveWorkspace, Commit, InsertWorkspace,
                      DeleteWorkspace, Database
  <1>2. CASE LinkCommand
    BY ZenonT(60), <1>0, <1>2 DEF LinkCommand, AddMembership, RemoveMembership, RegisterLocation, Commit,
                      InsertMembership, DeleteMembership, SetLocation, Database
  <1>3. ASSUME NEW t \in Types, RegisterType(t)
        PROVE  db'.resources = db.resources
    BY <1>0, <1>3 DEF RegisterType, Commit, InsertType, Database
  <1>4. ASSUME NEW s \in ResourceIds, NEW t \in Types, NEW name \in Names,
               AddResource(s, t, name)
        PROVE  db'.resources[r] = db.resources[r]
    BY <1>0, <1>4 DEF AddResource, Commit, InsertResource, Database
  <1>5. ASSUME NEW s \in ResourceIds, NEW t \in Types, NEW name \in Names,
               UpdateResource(s, t, name)
        PROVE  /\ db'.resources[r].source = db.resources[r].source
               /\ db'.resources[r].provider = db.resources[r].provider
    <2>1. db.resources[r] \in ResourceRow
      BY <1>0 DEF Database, HasResource
    <2>2. db'.resources[r] = IF r = s THEN [db.resources[r] EXCEPT !.type = t, !.name = name]
                                      ELSE db.resources[r]
      BY <1>0, <1>5 DEF UpdateResource, Commit, UpdateResourceRow, UpdatedRow, Database
    <2> QED BY <2>1, <2>2 DEF ResourceRow
  <1>6. ASSUME NEW s \in ResourceIds, RemoveResource(s)
        PROVE  db'.resources[r] = db.resources[r]
    BY <1>0, <1>6 DEF RemoveResource, Commit, DeleteResource, Database, HasResource
  <1> QED BY <1>1, <1>2, <1>3, <1>4, <1>5, <1>6 DEF ResourceCommand

(* A refresh updates a resource only with the item of its own identity.    *)
LEMMA RefreshKeepsIdentity ==
    ASSUME RegistryInv, NEW w \in WorkspaceIds, NEW s \in Sources, NEW items \in SUBSET Item,
           NEW rs \in SUBSET ResourceIds, NEW stored \in [rs -> items],
           Refresh(w, s, items, stored), NEW r \in ResourceIds, HasResource(db, r)
    PROVE  /\ db'.resources[r].source = db.resources[r].source
           /\ db'.resources[r].provider = db.resources[r].provider
  <1>1. db \in Database /\ DOMAIN stored = rs /\ r \in issued /\ s # NULL
        /\ \A item \in items : item.provider # NULL
    BY TablesAssumption DEF RegistryInv, RegistryTypeOK, LiveIds, Refresh
  <1>2. db'.resources[r] = IF r \in rs THEN DiscoveredRow(s, TypeOf[s], stored[r])
                                      ELSE db.resources[r]
    BY <1>1 DEF Refresh, Commit, StoreAll, Database
  <1>3. CASE r \notin rs
    BY <1>2, <1>3
  <1>4. CASE r \in rs
    <2>1. r \in Matching(db, s, TypeOf[s], stored[r])
      BY <1>1, <1>4 DEF Refresh, StoresItems
    <2>2. db.resources[r].source = s /\ db.resources[r].provider = stored[r].provider
      BY <2>1, <1>1 DEF Matching, RegistryInv, TablesConsistent, Consistent, IdentityComplete
    <2> QED BY <2>2, <1>2, <1>4 DEF DiscoveredRow
  <1> QED BY <1>3, <1>4

(* A resource never changes its provider instance or provider ID.          *)
THEOREM IdentityStable == RegistrySpec => IdentityIsStable
  <1>1. ASSUME RegistryInv, [RegistryNext]_registry, NEW r \in ResourceIds, HasResource(db, r), HasResource(db', r)
        PROVE  /\ db'.resources[r].source = db.resources[r].source
               /\ db'.resources[r].provider = db.resources[r].provider
    <2>1. CASE UNCHANGED db
      BY <2>1
    <2>2. CASE WorkspaceCommand \/ ResourceCommand \/ LinkCommand
      BY <1>1, <2>2, CommandKeepsIdentity
    <2>3. CASE RefreshCommand
      <3>1. PICK w \in WorkspaceIds, s \in Sources, items \in ItemSets, rs \in SUBSET ResourceIds :
              \E stored \in [rs -> items] : Refresh(w, s, items, stored)
        BY <2>3 DEF RefreshCommand
      <3>2. PICK stored \in [rs -> items] : Refresh(w, s, items, stored)
        BY <3>1
      <3> QED BY <1>1, <3>2, RegistryAssumption, RefreshKeepsIdentity
    <2>4. \/ UNCHANGED db \/ WorkspaceCommand \/ ResourceCommand \/ LinkCommand
          \/ RefreshCommand
      BY <1>1 DEF RegistryNext, registry
    <2> QED BY <2>1, <2>2, <2>3, <2>4
  <1>2. RegistryInv /\ [RegistryNext]_registry =>
          [ \A r \in ResourceIds : (HasResource(db, r) /\ HasResource(db', r)) =>
              /\ db'.resources[r].source = db.resources[r].source
              /\ db'.resources[r].provider = db.resources[r].provider ]_registry
    BY <1>1
  <1> QED BY <1>2, RegistryInvInductive, PTL DEF RegistrySpec, IdentityIsStable

(* A statement touches the memberships and locations of one workspace w.   *)
Touches(w) ==
    /\ \A m \in db.memberships \cup db'.memberships :
          m.workspace # w => (m \in db.memberships <=> m \in db'.memberships)
    /\ \A l \in db.locations \cup db'.locations :
          l.workspace # w => (l \in db.locations <=> l \in db'.locations)

LEMMA CommandTouchesOne ==
    ASSUME RegistryInv, WorkspaceCommand \/ LinkCommand
    PROVE  \E w \in WorkspaceIds : Touches(w)
  <1>0. db \in Database
    BY DEF RegistryInv, RegistryTypeOK
  <1>1. CASE WorkspaceCommand
    <2>1. ASSUME NEW w \in WorkspaceIds, NEW name \in WorkspaceNames, NEW dir \in Directories,
                 AddWorkspace(w, name, dir)
          PROVE  Touches(w)
      BY <1>0, <2>1 DEF AddWorkspace, Commit, InsertWorkspace, Database, Touches
    <2>2. ASSUME NEW w \in WorkspaceIds, RemoveWorkspace(w)
          PROVE  Touches(w)
      BY <1>0, <2>2 DEF RemoveWorkspace, Commit, DeleteWorkspace, Database, Touches
    <2> QED BY <1>1, <2>1, <2>2 DEF WorkspaceCommand
  <1>2. ASSUME NEW w \in WorkspaceIds, NEW r \in ResourceIds,
               AddMembership(w, r) \/ RemoveMembership(w, r)
        PROVE  Touches(w)
    BY <1>0, <1>2 DEF AddMembership, RemoveMembership, Commit, InsertMembership,
                      DeleteMembership, Member, Database, Touches
  <1>3. ASSUME NEW w \in WorkspaceIds, NEW r \in ResourceIds, NEW lt \in LocationTypes,
               NEW p \in Paths, RegisterLocation(w, r, lt, p)
        PROVE  Touches(w)
    BY <1>0, <1>3 DEF RegisterLocation, Commit, SetLocation, OtherLocations, Database, Touches
  <1> QED BY <1>1, <1>2, <1>3 DEF LinkCommand

(* One command changes one workspace, unless it removes a shared resource. *)
THEOREM WorkspacesStayIsolated == RegistrySpec => WorkspacesIsolated
  <1>1. ASSUME RegistryInv, [RegistryNext]_registry, \A r \in ResourceIds : HasResource(db, r) => HasResource(db', r),
               NEW v \in WorkspaceIds, NEW w \in WorkspaceIds, v # w
        PROVE  \/ WorkspaceRows(db', v) = WorkspaceRows(db, v)
               \/ WorkspaceRows(db', w) = WorkspaceRows(db, w)
    <2>1. ASSUME NEW x \in WorkspaceIds, Touches(x), NEW u \in WorkspaceIds \ {x}
          PROVE  WorkspaceRows(db', u) = WorkspaceRows(db, u)
      <3>1. {m \in db'.memberships : m.workspace = u} = {m \in db.memberships : m.workspace = u}
        BY <2>1 DEF Touches
      <3>2. {l \in db'.locations : l.workspace = u} = {l \in db.locations : l.workspace = u}
        BY <2>1 DEF Touches
      <3> QED BY <3>1, <3>2 DEF WorkspaceRows
    <2>2. CASE WorkspaceCommand \/ LinkCommand
      BY <1>1, <2>1, <2>2, CommandTouchesOne
    <2>3. CASE ResourceCommand
      <3>1. db \in Database
        BY <1>1 DEF RegistryInv, RegistryTypeOK
      <3>2. ASSUME NEW r \in ResourceIds, RemoveResource(r)
            PROVE  FALSE
        BY <1>1, <3>1, <3>2 DEF RemoveResource, Commit, DeleteResource, HasResource, Database
      <3>3. db'.memberships = db.memberships /\ db'.locations = db.locations
        BY <2>3, <3>1, <3>2 DEF ResourceCommand, RegisterType, AddResource, UpdateResource, Commit,
                InsertType, InsertResource, UpdateResourceRow, Database
      <3> QED BY <3>3 DEF WorkspaceRows
    <2>4. ASSUME NEW x \in WorkspaceIds, NEW s \in Sources, NEW items \in ItemSets,
                 NEW rs \in SUBSET ResourceIds, NEW stored \in [rs -> items],
                 Refresh(x, s, items, stored)
          PROVE  Touches(x)
      <3>1. db \in Database
        BY <1>1 DEF RegistryInv, RegistryTypeOK
      <3>2. /\ db'.memberships = db.memberships \cup {Member(x, r) : r \in DOMAIN stored}
            /\ db'.locations = db.locations
        BY <2>4, <3>1 DEF Refresh, Commit, StoreAll, Database
      <3> QED BY <3>2 DEF Touches, Member
    <2>5. CASE UNCHANGED db
      BY <2>5 DEF WorkspaceRows
    <2>6. CASE RefreshCommand
      BY <2>1, <2>4, <2>6, <1>1 DEF RefreshCommand
    <2> QED BY <1>1, <2>2, <2>3, <2>5, <2>6 DEF RegistryNext, registry
  <1>2. RegistryInv /\ [RegistryNext]_registry =>
          [ (\A r \in ResourceIds : HasResource(db, r) => HasResource(db', r)) =>
              \A v, w \in WorkspaceIds :
                 \/ v = w
                 \/ WorkspaceRows(db', v) = WorkspaceRows(db, v)
                 \/ WorkspaceRows(db', w) = WorkspaceRows(db, w) ]_registry
    BY <1>1
  <1> QED BY <1>2, RegistryInvInductive, PTL DEF RegistrySpec, WorkspacesIsolated
=============================================================================
