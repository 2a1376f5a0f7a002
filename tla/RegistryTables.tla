--------------------------- MODULE RegistryTables ---------------------------
(***************************************************************************)
(* The SQLite tables in which devdash keeps workspaces and resources, and  *)
(* the statements the storage layer runs on them, as operators from one    *)
(* database value to the next.  A table with an opaque primary key is a    *)
(* function from the keys to the row or NULL; the two association tables   *)
(* are sets of rows.  The constraints of the schema are the guards of the  *)
(* statements: a statement that would break one fails and changes nothing. *)
(***************************************************************************)
CONSTANTS
    WorkspaceIds,    \* opaque workspace IDs (UUIDs, never generated twice)
    WorkspaceNames,  \* user-chosen unique names
    Directories,     \* workspace root directories
    ResourceIds,     \* opaque resource IDs
    Types,           \* resource type names
    SeededTypes,     \* the types the migrations register
    Sources,         \* provider instances: (provider, name) of integrations
    ProviderIds,     \* provider-native immutable IDs
    ExternalKeys,    \* provider-native human-readable keys
    Names,           \* resource names: page titles, repository names
    LocationTypes,   \* local_checkout, materialized_file
    Paths,           \* absolute paths of checkouts and generated files
    NULL

WorkspaceRow == [name : WorkspaceNames, dir : Directories]

ResourceRow == [type : Types, source : Sources \cup {NULL},
                provider : ProviderIds \cup {NULL},
                key : ExternalKeys \cup {NULL}, name : Names]

MembershipRow == [workspace : WorkspaceIds, resource : ResourceIds]

LocationRow == [workspace : WorkspaceIds, resource : ResourceIds,
                type : LocationTypes, path : Paths]

Database == [types        : SUBSET Types,
             workspaces   : [WorkspaceIds -> WorkspaceRow \cup {NULL}],
             integrations : SUBSET Sources,
             resources    : [ResourceIds -> ResourceRow \cup {NULL}],
             memberships  : SUBSET MembershipRow,
             locations    : SUBSET LocationRow]

(* What discovery hands to the store.  A blank provider ID is NULL. *)
Item == [provider : ProviderIds \cup {NULL}, key : ExternalKeys, name : Names]

ASSUME TablesAssumption ==
    /\ SeededTypes \subseteq Types
    /\ NULL \notin WorkspaceRow \cup ResourceRow
    /\ NULL \notin Sources \cup ProviderIds \cup ExternalKeys

(* The database after the migrations. *)
EmptyDatabase ==
    [types        |-> SeededTypes,
     workspaces   |-> [w \in WorkspaceIds |-> NULL],
     integrations |-> {},
     resources    |-> [r \in ResourceIds |-> NULL],
     memberships  |-> {},
     locations    |-> {}]

HasWorkspace(d, w) == d.workspaces[w] # NULL
HasResource(d, r)  == d.resources[r] # NULL

-----------------------------------------------------------------------------
(* Workspaces. *)

NameFree(d, name) ==
    \A w \in WorkspaceIds : HasWorkspace(d, w) => d.workspaces[w].name # name

InsertWorkspace(d, w, name, dir) ==
    [d EXCEPT !.workspaces[w] = [name |-> name, dir |-> dir]]

(* Fault: no cascade to the locations.                                     *)
DeleteWorkspaceOnly(d, w) ==
    [d EXCEPT !.workspaces[w] = NULL, !.memberships = {m \in @ : m.workspace # w}]

(* DELETE FROM workspaces, with the cascades of the referencing tables. *)
DeleteWorkspace(d, w) ==
    [d EXCEPT !.workspaces[w] = NULL,
              !.memberships = {m \in @ : m.workspace # w},
              !.locations = {l \in @ : l.workspace # w}]

-----------------------------------------------------------------------------
(* Resource types and resources. *)

InsertType(d, t) == [d EXCEPT !.types = @ \cup {t}]

(* The row a user adds by hand belongs to no provider. *)
InsertResource(d, r, t, name) ==
    [d EXCEPT !.resources[r] =
        [type |-> t, source |-> NULL, provider |-> NULL, key |-> NULL, name |-> name]]

(* The partial unique index idx_resource_provider_id admits row x as row r. *)
IdentityFree(d, r, x) ==
    x.source # NULL /\ x.provider # NULL =>
        \A s \in ResourceIds \ {r} :
            HasResource(d, s) =>
                <<d.resources[s].source, d.resources[s].type, d.resources[s].provider>>
                    # <<x.source, x.type, x.provider>>

(* Fault: the row is written anew, without its provider.                   *)
RewrittenRow(d, r, t, name) ==
    [type |-> t, source |-> NULL, provider |-> NULL, key |-> NULL, name |-> name]

UpdatedRow(d, r, t, name) == [d.resources[r] EXCEPT !.type = t, !.name = name]

UpdateResourceRow(d, r, t, name) == [d EXCEPT !.resources[r] = UpdatedRow(d, r, t, name)]

DeleteResource(d, r) ==
    [d EXCEPT !.resources[r] = NULL,
              !.memberships = {m \in @ : m.resource # r},
              !.locations = {l \in @ : l.resource # r}]

-----------------------------------------------------------------------------
(* Memberships. *)

Member(w, r) == [workspace |-> w, resource |-> r]

InsertMembership(d, w, r) ==
    [d EXCEPT !.memberships = @ \cup {Member(w, r)}]

DeleteMembership(d, w, r) ==
    [d EXCEPT !.memberships = @ \ {Member(w, r)}]

-----------------------------------------------------------------------------
(* Fault: the DELETE forgets the workspace.                                *)
OtherResourcesLocations(d, w, r, lt) ==
    {l \in d.locations : ~(l.resource = r /\ l.type = lt)}

(* Locations: the transaction of SetLocation deletes the rows of this      *)
(* resource, workspace and type and inserts one.                           *)
OtherLocations(d, w, r, lt) ==
    {l \in d.locations : ~(l.workspace = w /\ l.resource = r /\ l.type = lt)}

(* The foreign keys and UNIQUE(location_type, path) admit the new row. *)
LocationAccepted(d, w, r, lt, p) ==
    /\ HasWorkspace(d, w)
    /\ HasResource(d, r)
    /\ \A l \in OtherLocations(d, w, r, lt) : ~(l.type = lt /\ l.path = p)

SetLocation(d, w, r, lt, p) ==
    [d EXCEPT !.locations = OtherLocations(d, w, r, lt) \cup
        {[workspace |-> w, resource |-> r, type |-> lt, path |-> p]}]

(* The path ListByWorkspace reports, NULL when none is registered. *)
LocationPath(d, w, r, lt) ==
    LET own == {l \in d.locations : l.workspace = w /\ l.resource = r /\ l.type = lt}
    IN  IF own = {} THEN NULL ELSE (CHOOSE l \in own : TRUE).path

(* The resources ListByWorkspace reports: the members of one type, of any  *)
(* provider instance.                                                      *)
WorkspaceResources(d, w, t) ==
    {r \in ResourceIds : /\ Member(w, r) \in d.memberships
                         /\ HasResource(d, r)
                         /\ d.resources[r].type = t}

-----------------------------------------------------------------------------
(* The statements of UpsertDiscovered. *)

InsertIntegration(d, s) == [d EXCEPT !.integrations = @ \cup {s}]

(* Fault: only the key is looked up.                                       *)
MatchingKeyOnly(d, s, t, item) ==
    {r \in ResourceIds : /\ HasResource(d, r)
                         /\ d.resources[r].source = s
                         /\ d.resources[r].type = t
                         /\ d.resources[r].provider = NULL
                         /\ d.resources[r].key = item.key}

(* The rows findDiscoveredResource may return for an item: the row with    *)
(* its provider ID first, else a row without one that has its key.         *)
Matching(d, s, t, item) ==
    LET candidates == {r \in ResourceIds : /\ HasResource(d, r)
                                           /\ d.resources[r].source = s
                                           /\ d.resources[r].type = t}
        exact == {r \in candidates : d.resources[r].provider = item.provider}
        byKey == {r \in candidates : /\ d.resources[r].provider = NULL
                                     /\ d.resources[r].key = item.key}
    IN  IF exact # {} THEN exact ELSE byKey

(* Fault: provider ID and key swapped.                                     *)
DiscoveredRowSwapped(s, t, item) ==
    [type |-> t, source |-> s, provider |-> item.key, key |-> item.provider,
     name |-> item.name]

DiscoveredRow(s, t, item) ==
    [type |-> t, source |-> s, provider |-> item.provider, key |-> item.key,
     name |-> item.name]

StoreItem(d, w, r, s, t, item) ==
    [d EXCEPT !.resources[r] = DiscoveredRow(s, t, item),
              !.memberships = @ \cup {Member(w, r)}]

(* The effect of a whole refresh.  stored maps the resources it writes to  *)
(* the item written last to each.                                          *)
StoreAll(d, w, s, t, stored) ==
    [d EXCEPT !.integrations = @ \cup {s},
              !.resources = [r \in ResourceIds |->
                  IF r \in DOMAIN stored THEN DiscoveredRow(s, t, stored[r]) ELSE @[r]],
              !.memberships = @ \cup {Member(w, r) : r \in DOMAIN stored}]

(* stored is what a refresh may do with a set of items: every provider ID  *)
(* gets one resource, the one that has it already or one under a fresh ID. *)
StoresItems(d, issued, s, t, items, stored) ==
    /\ \A item \in items : \E r \in DOMAIN stored : stored[r].provider = item.provider
    /\ \A q, r \in DOMAIN stored : stored[q].provider = stored[r].provider => q = r
    /\ \A r \in DOMAIN stored :
        LET found == Matching(d, s, t, stored[r])
        IN  IF found # {} THEN r \in found ELSE r \notin issued

-----------------------------------------------------------------------------
(* The parts of a consistent database. *)

(* Every row refers to rows that exist (the foreign keys of the schema).   *)
References(d) ==
    /\ \A r \in ResourceIds : HasResource(d, r) =>
        /\ d.resources[r].type \in d.types
        /\ d.resources[r].source \in d.integrations \cup {NULL}
    /\ \A m \in d.memberships : HasWorkspace(d, m.workspace) /\ HasResource(d, m.resource)
    /\ \A l \in d.locations : HasWorkspace(d, l.workspace) /\ HasResource(d, l.resource)

NamesUnique(d) ==
    \A v, w \in WorkspaceIds :
        HasWorkspace(d, v) /\ HasWorkspace(d, w)
            /\ d.workspaces[v].name = d.workspaces[w].name => v = w

IdentityUnique(d) ==
    \A r \in ResourceIds : HasResource(d, r) => IdentityFree(d, r, d.resources[r])

(* A path belongs to one resource of one workspace, and a resource has at  *)
(* most one location of a type in a workspace (no constraint of the schema *)
(* says so: SetLocation's DELETE does it).                                 *)
LocationsUnique(d) ==
    \A l, k \in d.locations :
        \/ l = k
        \/ l.type # k.type
        \/ /\ l.path # k.path
           /\ <<l.workspace, l.resource>> # <<k.workspace, k.resource>>

(* A resource has a provider ID exactly when it belongs to an integration. *)
IdentityComplete(d) ==
    \A r \in ResourceIds : HasResource(d, r) =>
        (d.resources[r].source = NULL <=> d.resources[r].provider = NULL)

Consistent(d) ==
    /\ References(d)
    /\ NamesUnique(d)
    /\ IdentityUnique(d)
    /\ LocationsUnique(d)
    /\ IdentityComplete(d)
=============================================================================
