-------------------------- MODULE WikiFetchProofs --------------------------
(***************************************************************************)
(* What wiki fetch guarantees for every number of commands, workspaces,    *)
(* pages, sites and paths.  What holds whatever happens is BaseInv.  While *)
(* no other workspace has a command's directory, ConcurrentInv says that   *)
(* every registered file is the one of its page.  One command at a time    *)
(* keeps AloneInv, which also speaks of switched sites, failing statements *)
(* and edited files, and implements the page library.                      *)
(***************************************************************************)
EXTENDS WikiFetch, RegistryProofs, SelectionProofs

InHand(c) == proc[c].pc \in {"inspected", "staged", "replaced", "rollback"}

(* Only refreshes write resources, only fetches register locations.        *)
TablesOfPages ==
    /\ \A r \in ResourceIds : HasResource(db, r) =>
          db.resources[r].provider # NULL /\ db.resources[r].type = PageType
    /\ \A l \in db.locations : l.type = FileType

(* What a command read of a page still holds: a resource stays what it is, *)
(* and a member as long as the workspace stays.                            *)
PageKnown(c, page) ==
    /\ HasResource(db, page.resource)
    /\ page.key = db.resources[page.resource].provider
    /\ HasWorkspace(db, proc[c].workspace) =>
          Member(proc[c].workspace, page.resource) \in db.memberships

CommandSound(c) ==
    /\ proc[c].workspace \in issued
    /\ HasWorkspace(db, proc[c].workspace) =>
          db.workspaces[proc[c].workspace].dir = proc[c].dir
    /\ \A page \in proc[c].todo : PageKnown(c, page)
    /\ InHand(c) =>
          /\ proc[c].page \in proc[c].todo
          /\ proc[c].path \in Paths
          /\ proc[c].path = IF IsFirstFetch(proc[c].page)
                            THEN Filename[<<proc[c].dir, proc[c].page.key, proc[c].page.name>>]
                            ELSE proc[c].page.path

BaseInv ==
    /\ TypeOK
    /\ RegistryInv
    /\ TablesOfPages
    /\ \A c \in Procs : proc[c] # NULL => CommandSound(c)

-----------------------------------------------------------------------------
(* What an action does to the commands: c goes on, the others stay.        *)

Goes(c, pc, todo, page, path, fetched) ==
    /\ \A d \in Procs \ {c} : proc'[d] = proc[d]
    /\ proc' \in [Procs -> Command \cup {NULL}]
    /\ proc'[c] \in Command
    /\ proc'[c].pc = pc
    /\ proc'[c].workspace = proc[c].workspace
    /\ proc'[c].dir = proc[c].dir
    /\ proc'[c].source = proc[c].source
    /\ proc'[c].todo = todo
    /\ proc'[c].page = page
    /\ proc'[c].path = path
    /\ proc'[c].fetched = fetched

LEMMA Going ==
    ASSUME TypeOK, NEW c \in Procs, proc[c] # NULL, NEW x \in Command,
           proc' = [proc EXCEPT ![c] = x],
           x.workspace = proc[c].workspace, x.dir = proc[c].dir, x.source = proc[c].source
    PROVE  Goes(c, x.pc, x.todo, x.page, x.path, x.fetched)
  BY DEF TypeOK, Goes

LEMMA NextPageGoes ==
    ASSUME TypeOK, NEW c \in Procs, proc[c] # NULL, NEW done \in SUBSET ResourceIds,
           NextPage(c, done)
    PROVE  Goes(c, "listed", proc[c].todo \ {proc[c].page}, NULL, NULL, proc[c].fetched \cup done)
  <1> DEFINE x == [proc[c] EXCEPT !.pc = "listed", !.todo = @ \ {proc[c].page}, !.page = NULL,
                                  !.path = NULL, !.fetched = @ \cup done]
  <1>1. proc \in [Procs -> Command \cup {NULL}] /\ proc[c] \in Command
    BY DEF TypeOK
  <1>2. proc' = [proc EXCEPT ![c] = x]
    BY <1>1 DEF NextPage
  <1>3. /\ x \in Command /\ x.workspace = proc[c].workspace /\ x.dir = proc[c].dir
        /\ x.source = proc[c].source
    BY <1>1 DEF Command
  <1>4. /\ x.pc = "listed" /\ x.todo = proc[c].todo \ {proc[c].page} /\ x.page = NULL
        /\ x.path = NULL /\ x.fetched = proc[c].fetched \cup done
    BY <1>1 DEF Command
  <1> HIDE DEF x
  <1>5. Goes(c, x.pc, x.todo, x.page, x.path, x.fetched)
    BY <1>2, <1>3, Going
  <1> QED BY <1>4, <1>5

(* Discovery and its storage: items is what a refresh stores.              *)
LEMMA ItemsGoes ==
    ASSUME TypeOK, NEW c \in Procs, proc[c] # NULL, NEW items \in SUBSET Item,
           NEW pc \in {"discovered", "stored"},
           proc' = [proc EXCEPT ![c].pc = pc, ![c].items = items]
    PROVE  Goes(c, pc, proc[c].todo, proc[c].page, proc[c].path, proc[c].fetched)
  <1> DEFINE x == [proc[c] EXCEPT !.pc = pc, !.items = items]
  <1>1. proc \in [Procs -> Command \cup {NULL}] /\ proc[c] \in Command
    BY DEF TypeOK
  <1>2. proc' = [proc EXCEPT ![c] = x]
    BY <1>1
  <1>3. /\ x \in Command /\ x.workspace = proc[c].workspace /\ x.dir = proc[c].dir
        /\ x.source = proc[c].source
    BY <1>1 DEF Command
  <1>4. /\ x.pc = pc /\ x.todo = proc[c].todo /\ x.page = proc[c].page
        /\ x.path = proc[c].path /\ x.fetched = proc[c].fetched
    BY <1>1 DEF Command
  <1> HIDE DEF x
  <1>5. Goes(c, x.pc, x.todo, x.page, x.path, x.fetched)
    BY <1>2, <1>3, Going
  <1> QED BY <1>4, <1>5

LEMMA CounterGoes ==
    ASSUME TypeOK, NEW c \in Procs, proc[c] # NULL, NEW pc \in {"staged", "replaced", "rollback"},
           proc' = [proc EXCEPT ![c].pc = pc]
    PROVE  Goes(c, pc, proc[c].todo, proc[c].page, proc[c].path, proc[c].fetched)
  <1> DEFINE x == [proc[c] EXCEPT !.pc = pc]
  <1>1. proc \in [Procs -> Command \cup {NULL}] /\ proc[c] \in Command
    BY DEF TypeOK
  <1>2. proc' = [proc EXCEPT ![c] = x]
    BY <1>1
  <1>3. /\ x \in Command /\ x.workspace = proc[c].workspace /\ x.dir = proc[c].dir
        /\ x.source = proc[c].source
    BY <1>1 DEF Command
  <1>4. /\ x.pc = pc /\ x.todo = proc[c].todo /\ x.page = proc[c].page
        /\ x.path = proc[c].path /\ x.fetched = proc[c].fetched
    BY <1>1 DEF Command
  <1> HIDE DEF x
  <1>5. Goes(c, x.pc, x.todo, x.page, x.path, x.fetched)
    BY <1>2, <1>3, Going
  <1> QED BY <1>4, <1>5

LEMMA TodoGoes ==
    ASSUME TypeOK, NEW c \in Procs, proc[c] # NULL, NEW pages \in SUBSET Page,
           proc' = [proc EXCEPT ![c].pc = "listed", ![c].todo = pages]
    PROVE  Goes(c, "listed", pages, proc[c].page, proc[c].path, proc[c].fetched)
  <1> DEFINE x == [proc[c] EXCEPT !.pc = "listed", !.todo = pages]
  <1>1. proc \in [Procs -> Command \cup {NULL}] /\ proc[c] \in Command
    BY DEF TypeOK
  <1>2. proc' = [proc EXCEPT ![c] = x]
    BY <1>1
  <1>3. /\ x \in Command /\ x.workspace = proc[c].workspace /\ x.dir = proc[c].dir
        /\ x.source = proc[c].source
    BY <1>1 DEF Command
  <1>4. /\ x.pc = "listed" /\ x.todo = pages /\ x.page = proc[c].page
        /\ x.path = proc[c].path /\ x.fetched = proc[c].fetched
    BY <1>1 DEF Command
  <1> HIDE DEF x
  <1>5. Goes(c, x.pc, x.todo, x.page, x.path, x.fetched)
    BY <1>2, <1>3, Going
  <1> QED BY <1>4, <1>5

LEMMA RefuseGoes ==
    ASSUME TypeOK, NEW c \in Procs, NEW page \in Page, RefusePage(c, page)
    PROVE  Goes(c, "listed", proc[c].todo \ {page}, proc[c].page, proc[c].path, proc[c].fetched)
  <1> DEFINE x == [proc[c] EXCEPT !.todo = @ \ {page}]
  <1>1. /\ proc \in [Procs -> Command \cup {NULL}] /\ proc[c] \in Command
        /\ proc[c] # NULL /\ proc[c].pc = "listed"
    BY DEF TypeOK, RefusePage, At
  <1>2. proc' = [proc EXCEPT ![c] = x]
    BY <1>1 DEF RefusePage
  <1>3. /\ x \in Command /\ x.workspace = proc[c].workspace /\ x.dir = proc[c].dir
        /\ x.source = proc[c].source
    BY <1>1 DEF Command
  <1>4. /\ x.pc = proc[c].pc /\ x.todo = proc[c].todo \ {page} /\ x.page = proc[c].page
        /\ x.path = proc[c].path /\ x.fetched = proc[c].fetched
    BY <1>1 DEF Command
  <1> HIDE DEF x
  <1>5. Goes(c, x.pc, x.todo, x.page, x.path, x.fetched)
    BY <1>1, <1>2, <1>3, Going
  <1> QED BY <1>1, <1>4, <1>5

LEMMA InspectGoes ==
    ASSUME TypeOK, NEW c \in Procs, proc[c] # NULL, NEW page \in Page, NEW path \in Paths,
           proc' = [proc EXCEPT ![c].pc = "inspected", ![c].page = page, ![c].path = path]
    PROVE  Goes(c, "inspected", proc[c].todo, page, path, proc[c].fetched)
  <1> DEFINE x == [proc[c] EXCEPT !.pc = "inspected", !.page = page, !.path = path]
  <1>1. proc \in [Procs -> Command \cup {NULL}] /\ proc[c] \in Command
    BY DEF TypeOK
  <1>2. proc' = [proc EXCEPT ![c] = x]
    BY <1>1
  <1>3. /\ x \in Command /\ x.workspace = proc[c].workspace /\ x.dir = proc[c].dir
        /\ x.source = proc[c].source
    BY <1>1 DEF Command
  <1>4. /\ x.pc = "inspected" /\ x.todo = proc[c].todo /\ x.page = page
        /\ x.path = path /\ x.fetched = proc[c].fetched
    BY <1>1 DEF Command
  <1> HIDE DEF x
  <1>5. Goes(c, x.pc, x.todo, x.page, x.path, x.fetched)
    BY <1>2, <1>3, Going
  <1> QED BY <1>4, <1>5

-----------------------------------------------------------------------------
(* What an action does to the tables. *)

(* What every step leaves: resources, and what belongs to a workspace that *)
(* stays.                                                                  *)
Kept ==
    /\ \A r \in ResourceIds : HasResource(db, r) =>
          /\ HasResource(db', r)
          /\ db'.resources[r].source = db.resources[r].source
          /\ db'.resources[r].provider = db.resources[r].provider
    /\ issued \subseteq issued'
    /\ \A w \in issued \cap WorkspaceIds : HasWorkspace(db', w) =>
          HasWorkspace(db, w) /\ db'.workspaces[w] = db.workspaces[w]
    /\ \A m \in db.memberships : HasWorkspace(db', m.workspace) => m \in db'.memberships

LEMMA KeptWhenUnchanged ==
    ASSUME BaseInv, UNCHANGED <<db, issued>>
    PROVE  Kept /\ RegistryInv' /\ TablesOfPages'
  BY DEF Kept, BaseInv, RegistryInv, RegistryTypeOK, TablesConsistent, LiveIds, TablesOfPages,
         HasResource, HasWorkspace

LEMMA RefreshTables ==
    ASSUME BaseInv, NEW c \in Procs, StorePages(c)
    PROVE  /\ Kept /\ RegistryInv' /\ TablesOfPages'
           /\ db'.locations = db.locations /\ db'.workspaces = db.workspaces
           /\ \A m \in db'.memberships \ db.memberships :
                 /\ m.workspace = proc[c].workspace
                 /\ db'.resources[m.resource].source = proc[c].source
  <1>1. /\ proc[c] \in Command /\ db \in Database
    BY DEF BaseInv, TypeOK, RegistryTypeOK, StorePages, At
  <1> DEFINE w == proc[c].workspace
             s == proc[c].source
             items == proc[c].items
  <1>2. w \in WorkspaceIds /\ s \in Sources /\ items \in SUBSET Item
    BY <1>1 DEF Command
  <1>3. PICK rs \in SUBSET ResourceIds : \E stored \in [rs -> items] : Refresh(w, s, items, stored)
    BY DEF StorePages
  <1>4. PICK stored \in [rs -> items] : Refresh(w, s, items, stored)
    BY <1>3
  <1> HIDE DEF w, s, items
  <1>5. RegistryInv'
    BY <1>2, <1>4, AnyRefreshPreserves DEF BaseInv
  <1>6. /\ db' = StoreAll(db, w, s, TypeOf[s], stored)
        /\ issued' = issued \cup LiveIds(db')
    BY <1>4 DEF Refresh, Commit
  <1>7. /\ db'.locations = db.locations /\ db'.workspaces = db.workspaces
        /\ db'.memberships = db.memberships \cup {Member(w, r) : r \in rs}
        /\ \A r \in ResourceIds : db'.resources[r] =
              IF r \in rs THEN DiscoveredRow(s, TypeOf[s], stored[r]) ELSE db.resources[r]
    BY <1>1, <1>4, <1>6 DEF StoreAll, Database
  <1>8. \A r \in rs : /\ db'.resources[r].source = s /\ db'.resources[r].type = PageType
                      /\ db'.resources[r].provider # NULL
    <2> TAKE r \in rs
    <2>1. stored[r].provider # NULL /\ TypeOf[s] = PageType
      BY <1>2, <1>4, WikiAssumption DEF Refresh
    <2>2. db'.resources[r] = DiscoveredRow(s, TypeOf[s], stored[r])
      BY <1>3, <1>7
    <2> QED BY <2>1, <2>2 DEF DiscoveredRow
  <1>9. \A r \in rs : HasResource(db', r)
    <2> TAKE r \in rs
    <2>1. stored[r] \in Item /\ stored[r].provider # NULL
      BY <1>2, <1>4 DEF Refresh
    <2>2. TypeOf[s] \in Types /\ s \in Sources
      BY <1>2, RegistryAssumption, TablesAssumption
    <2>3. DiscoveredRow(s, TypeOf[s], stored[r]) \in ResourceRow
      BY <2>1, <2>2 DEF Item, DiscoveredRow, ResourceRow
    <2> QED BY <1>7, <2>3, TablesAssumption DEF HasResource
  <1>10. \A r \in ResourceIds : HasResource(db, r) =>
           /\ db'.resources[r].source = db.resources[r].source
           /\ db'.resources[r].provider = db.resources[r].provider
    BY <1>2, <1>4, RefreshKeepsIdentity DEF BaseInv
  <1>11. Kept
    BY <1>6, <1>7, <1>9, <1>10 DEF Kept, HasResource, HasWorkspace
  <1>12. TablesOfPages'
    BY <1>7, <1>8 DEF TablesOfPages, BaseInv, HasResource
  <1>13. \A m \in db'.memberships \ db.memberships : m.workspace = w /\ db'.resources[m.resource].source = s
    BY <1>7, <1>8 DEF Member
  <1> QED BY <1>5, <1>7, <1>11, <1>12, <1>13 DEF w, s

LEMMA RegisterTables ==
    ASSUME BaseInv, NEW c \in Procs, Register(c)
    PROVE  /\ Kept /\ RegistryInv' /\ TablesOfPages'
           /\ db'.resources = db.resources /\ db'.memberships = db.memberships
           /\ db'.workspaces = db.workspaces
           /\ proc[c] \in Command /\ proc[c].page \in Page /\ proc[c].path \in Paths
           /\ LocationAccepted(db, proc[c].workspace, proc[c].page.resource, FileType, proc[c].path)
           /\ db'.locations =
                 OtherLocations(db, proc[c].workspace, proc[c].page.resource, FileType) \cup
                   {[workspace |-> proc[c].workspace, resource |-> proc[c].page.resource,
                     type |-> FileType, path |-> proc[c].path]}
  <1>1. proc[c] \in Command /\ db \in Database /\ At(c, "replaced") /\ CommandSound(c)
    BY DEF BaseInv, TypeOK, RegistryTypeOK, Register, At
  <1>2. /\ proc[c].page \in Page /\ proc[c].path \in Paths /\ proc[c].workspace \in WorkspaceIds
    BY <1>1 DEF CommandSound, InHand, At, Command
  <1> DEFINE w == proc[c].workspace
             r == proc[c].page.resource
             p == proc[c].path
  <1>3. w \in WorkspaceIds /\ r \in ResourceIds /\ p \in Paths /\ FileType \in LocationTypes
    BY <1>2, WikiAssumption DEF Page
  <1>4. RegisterLocation(w, r, FileType, p)
    BY DEF Register
  <1> HIDE DEF w, r, p
  <1>5. RegistryInv'
    BY <1>3, <1>4, CommandPreserves DEF BaseInv, LinkCommand
  <1>6. /\ LocationAccepted(db, w, r, FileType, p)
        /\ db' = SetLocation(db, w, r, FileType, p) /\ issued' = issued \cup LiveIds(db')
    BY <1>4 DEF RegisterLocation, Commit
  <1>7. /\ db'.resources = db.resources /\ db'.memberships = db.memberships
        /\ db'.workspaces = db.workspaces
        /\ db'.locations = OtherLocations(db, w, r, FileType) \cup
              {[workspace |-> w, resource |-> r, type |-> FileType, path |-> p]}
    BY <1>1, <1>6 DEF SetLocation, Database
  <1>8. Kept /\ TablesOfPages'
    BY <1>6, <1>7 DEF Kept, TablesOfPages, BaseInv, HasResource, HasWorkspace, OtherLocations
  <1> QED BY <1>1, <1>2, <1>5, <1>6, <1>7, <1>8 DEF w, r, p

LEMMA WorkspaceTables ==
    ASSUME BaseInv, OtherCommands
    PROVE  /\ Kept /\ RegistryInv' /\ TablesOfPages'
           /\ db'.resources = db.resources
           /\ \A w \in issued \cap WorkspaceIds :
                 db'.workspaces[w] = db.workspaces[w] \/ ~HasWorkspace(db', w)
           /\ db'.memberships \subseteq db.memberships
           /\ db'.locations \subseteq db.locations
           /\ \A l \in db.locations : HasWorkspace(db', l.workspace) => l \in db'.locations
           /\ "removals" \notin Events =>
                 /\ \A w \in WorkspaceIds : HasWorkspace(db, w) => HasWorkspace(db', w)
                 /\ db'.locations = db.locations
  <1>1. db \in Database
    BY DEF BaseInv, TypeOK, RegistryTypeOK
  <1>2. PICK w \in WorkspaceIds :
          \/ \E name \in WorkspaceNames, dir \in Directories : AddWorkspace(w, name, dir)
          \/ "removals" \in Events /\ RemoveWorkspace(w)
    BY DEF OtherCommands
  <1>3. RegistryInv'
    BY <1>2, CommandPreserves DEF BaseInv, WorkspaceCommand
  <1>4. ASSUME NEW name \in WorkspaceNames, NEW dir \in Directories, AddWorkspace(w, name, dir)
        PROVE  /\ issued \subseteq issued' /\ w \notin issued
               /\ db'.resources = db.resources /\ db'.memberships = db.memberships
               /\ db'.locations = db.locations
               /\ \A v \in WorkspaceIds \ {w} : db'.workspaces[v] = db.workspaces[v]
    BY <1>1, <1>4 DEF AddWorkspace, Commit, InsertWorkspace, Database
  <1>5. ASSUME RemoveWorkspace(w)
        PROVE  /\ issued \subseteq issued' /\ ~HasWorkspace(db', w)
               /\ db'.resources = db.resources
               /\ db'.memberships = {m \in db.memberships : m.workspace # w}
               /\ db'.locations = {l \in db.locations : l.workspace # w}
               /\ \A v \in WorkspaceIds \ {w} : db'.workspaces[v] = db.workspaces[v]
    BY <1>1, <1>5 DEF RemoveWorkspace, Commit, DeleteWorkspace, Database, HasWorkspace
  <1>6. CASE \E name \in WorkspaceNames, dir \in Directories : AddWorkspace(w, name, dir)
    <2>1. w \notin issued /\ ~HasWorkspace(db, w)
      BY <1>4, <1>6 DEF BaseInv, RegistryInv, LiveIds
    <2>2. Kept
      BY <1>4, <1>6, <2>1 DEF Kept, HasResource, HasWorkspace
    <2>3. TablesOfPages'
      BY <1>4, <1>6 DEF TablesOfPages, BaseInv, HasResource
    <2>4. \A v \in WorkspaceIds : HasWorkspace(db, v) => HasWorkspace(db', v)
      BY <1>4, <1>6, <2>1 DEF HasWorkspace
    <2> QED BY <1>3, <1>4, <1>6, <2>1, <2>2, <2>3, <2>4
  <1>7. CASE "removals" \in Events /\ RemoveWorkspace(w)
    <2>1. Kept
      BY <1>5, <1>7 DEF Kept, HasResource, HasWorkspace
    <2>2. TablesOfPages'
      BY <1>5, <1>7 DEF TablesOfPages, BaseInv, HasResource
    <2> QED BY <1>3, <1>5, <1>7, <2>1, <2>2
  <1> QED BY <1>2, <1>6, <1>7

-----------------------------------------------------------------------------
(* The types, the tables, and what a command knows of its list. *)

LEMMA SoundStays ==
    ASSUME BaseInv, Kept, NEW d \in Procs, proc[d] # NULL, proc'[d] = proc[d]
    PROVE  CommandSound(d)'
  <1>1. proc[d] \in Command /\ CommandSound(d)
    BY DEF BaseInv, TypeOK
  <1>2. \A page \in proc[d].todo : page.resource \in ResourceIds
    BY <1>1 DEF Command, Page
  <1>3. proc[d].workspace \in issued \cap WorkspaceIds
    BY <1>1 DEF CommandSound, Command
  <1>4. \A page \in proc[d].todo : PageKnown(d, page)'
    BY <1>1, <1>2, <1>3 DEF CommandSound, PageKnown, Kept, Member
  <1> QED BY <1>1, <1>3, <1>4 DEF CommandSound, Kept, InHand

(* A command that lists pages, drops some, or takes one of them in hand.   *)
LEMMA SoundGoes ==
    ASSUME BaseInv, Kept, NEW c \in Procs, proc[c] # NULL,
           NEW pc, NEW todo, NEW page, NEW path, NEW fetched, Goes(c, pc, todo, page, path, fetched),
           todo \subseteq Page, \A q \in todo : PageKnown(c, q),
           pc \in {"inspected", "staged", "replaced", "rollback"} =>
              /\ page \in todo /\ path \in Paths
              /\ path = IF IsFirstFetch(page)
                        THEN Filename[<<proc[c].dir, page.key, page.name>>] ELSE page.path
    PROVE  CommandSound(c)'
  <1>1. proc[c] \in Command /\ CommandSound(c)
    BY DEF BaseInv, TypeOK
  <1>2. \A q \in todo : q.resource \in ResourceIds
    BY DEF Page
  <1>3. proc[c].workspace \in issued \cap WorkspaceIds
    BY <1>1 DEF CommandSound, Command
  <1>4. \A q \in todo : PageKnown(c, q)'
    BY <1>1, <1>2, <1>3 DEF CommandSound, PageKnown, Kept, Member, Goes
  <1>5. InHand(c)' =>
          /\ proc'[c].page \in proc'[c].todo /\ proc'[c].path \in Paths
          /\ proc'[c].path = IF IsFirstFetch(proc'[c].page)
                             THEN Filename[<<proc'[c].dir, proc'[c].page.key, proc'[c].page.name>>]
                             ELSE proc'[c].page.path
    BY DEF Goes, InHand
  <1>6. /\ proc'[c].workspace \in issued'
        /\ HasWorkspace(db', proc'[c].workspace) =>
              db'.workspaces[proc'[c].workspace].dir = proc'[c].dir
    BY <1>1, <1>3 DEF CommandSound, Kept, Goes
  <1>7. \A q \in proc'[c].todo : PageKnown(c, q)'
    BY <1>4 DEF Goes
  <1> QED BY <1>5, <1>6, <1>7 DEF CommandSound, IsFirstFetch

LEMMA BaseGoes ==
    ASSUME BaseInv, Kept, RegistryInv', TablesOfPages',
           files' \in [Paths -> Files], UNCHANGED <<remote, site>>,
           NEW c \in Procs, proc[c] # NULL,
           NEW pc, NEW todo, NEW page, NEW path, NEW fetched, Goes(c, pc, todo, page, path, fetched),
           todo \subseteq Page, \A q \in todo : PageKnown(c, q),
           pc \in {"inspected", "staged", "replaced", "rollback"} =>
              /\ page \in todo /\ path \in Paths
              /\ path = IF IsFirstFetch(page)
                        THEN Filename[<<proc[c].dir, page.key, page.name>>] ELSE page.path
    PROVE  BaseInv'
  <1>1. TypeOK'
    BY DEF BaseInv, TypeOK, RegistryInv, Goes
  <1>2. ASSUME NEW d \in Procs, proc'[d] # NULL
        PROVE  CommandSound(d)'
    <2>1. CASE d = c
      BY <2>1, SoundGoes
    <2>2. CASE d # c
      BY <1>2, <2>2, SoundStays DEF Goes
    <2> QED BY <2>1, <2>2
  <1> QED BY <1>1, <1>2 DEF BaseInv

(* No command goes on: one may end.                                        *)
LEMMA BaseRests ==
    ASSUME BaseInv, Kept, RegistryInv', TablesOfPages',
           files' \in [Paths -> Files], site' \in [WorkspaceIds -> Sources],
           remote' \in [Sources -> [ProviderIds -> Names \cup {NULL}]],
           proc' \in [Procs -> Command \cup {NULL}],
           \A d \in Procs : proc'[d] = proc[d] \/ proc'[d] = NULL
    PROVE  BaseInv'
  <1>1. TypeOK'
    BY DEF BaseInv, TypeOK, RegistryInv
  <1>2. ASSUME NEW d \in Procs, proc'[d] # NULL
        PROVE  CommandSound(d)'
    BY <1>2, SoundStays
  <1> QED BY <1>1, <1>2 DEF BaseInv

LEMMA ListedPages ==
    ASSUME BaseInv, NEW w \in WorkspaceIds
    PROVE  /\ Listed(w) \in SUBSET Page
           /\ \A page \in Listed(w) :
                 /\ page.resource \in WorkspaceResources(db, w, PageType)
                 /\ page.key = db.resources[page.resource].provider
                 /\ page.path = LocationPath(db, w, page.resource, FileType)
  <1>1. db \in Database
    BY DEF BaseInv, TypeOK, RegistryTypeOK
  <1>2. ASSUME NEW r \in WorkspaceResources(db, w, PageType)
        PROVE  /\ r \in ResourceIds /\ db.resources[r].provider \in ProviderIds \cup {NULL}
               /\ db.resources[r].name \in Names
    BY <1>1 DEF WorkspaceResources, HasResource, Database, ResourceRow
  <1>3. ASSUME NEW r \in ResourceIds
        PROVE  LocationPath(db, w, r, FileType) \in Paths \cup {NULL}
    BY <1>1 DEF LocationPath, Database, LocationRow
  <1> QED BY <1>2, <1>3 DEF Listed, Page

LEMMA StartsSound ==
    ASSUME BaseInv, NEW c \in Procs, NEW w \in WorkspaceIds, Resolve(c, w)
    PROVE  /\ \A d \in Procs \ {c} : proc'[d] = proc[d]
           /\ proc' \in [Procs -> Command \cup {NULL}] /\ proc'[c] \in Command
           /\ proc'[c].pc = "resolved" /\ proc'[c].workspace = w /\ HasWorkspace(db, w)
           /\ proc'[c].dir = db.workspaces[w].dir /\ proc'[c].source = site[w]
           /\ proc'[c].todo = {} /\ proc'[c].page = NULL /\ proc'[c].fetched = {}
           /\ BaseInv'
  <1> DEFINE x == [pc |-> "resolved", workspace |-> w, dir |-> db.workspaces[w].dir,
                   source |-> site[w], items |-> {}, todo |-> {}, page |-> NULL, path |-> NULL,
                   fetched |-> {}]
  <1>1. /\ proc \in [Procs -> Command \cup {NULL}] /\ db \in Database /\ HasWorkspace(db, w)
        /\ site \in [WorkspaceIds -> Sources] /\ proc' = [proc EXCEPT ![c] = x]
    BY DEF BaseInv, TypeOK, RegistryTypeOK, Resolve
  <1>2. db.workspaces[w].dir \in Directories /\ site[w] \in Sources
    BY <1>1 DEF Database, HasWorkspace, WorkspaceRow
  <1>3. x \in Command
    BY <1>2 DEF Command
  <1>4. /\ x.pc = "resolved" /\ x.workspace = w /\ x.dir = db.workspaces[w].dir
        /\ x.source = site[w] /\ x.todo = {} /\ x.page = NULL /\ x.fetched = {}
    OBVIOUS
  <1> HIDE DEF x
  <1>5. /\ proc'[c] = x /\ \A d \in Procs \ {c} : proc'[d] = proc[d]
        /\ proc' \in [Procs -> Command \cup {NULL}]
    BY <1>1, <1>3
  <1>6. Kept /\ RegistryInv' /\ TablesOfPages'
    BY KeptWhenUnchanged DEF Resolve
  <1>7. TypeOK'
    BY <1>5, <1>6 DEF BaseInv, TypeOK, RegistryInv, Resolve
  <1>8. ASSUME NEW d \in Procs, proc'[d] # NULL
        PROVE  CommandSound(d)'
    <2>1. CASE d = c
      <3>1. w \in issued /\ UNCHANGED <<db, issued>>
        BY <1>1 DEF BaseInv, RegistryInv, LiveIds, Resolve
      <3> QED BY <1>4, <1>5, <2>1, <3>1 DEF CommandSound, InHand
    <2>2. CASE d # c
      BY <1>5, <1>6, <1>8, <2>2, SoundStays
    <2> QED BY <2>1, <2>2
  <1> QED BY <1>1, <1>3, <1>4, <1>5, <1>6, <1>7, <1>8 DEF BaseInv

(* Where each step of a command takes it.                                  *)
LEMMA CommandGoes ==
    ASSUME BaseInv, NEW c \in Procs, proc[c] # NULL
    PROVE  /\ Discover(c) =>
                 Goes(c, "discovered", proc[c].todo, proc[c].page, proc[c].path, proc[c].fetched)
           /\ StorePages(c) =>
                 Goes(c, "stored", proc[c].todo, proc[c].page, proc[c].path, proc[c].fetched)
           /\ \A pages \in SUBSET Listed(proc[c].workspace) : SelectPages(c, pages) =>
                 Goes(c, "listed", pages, proc[c].page, proc[c].path, proc[c].fetched)
           /\ \A page \in proc[c].todo :
                 /\ Inspect(c, page) => \E path \in Paths :
                       /\ Goes(c, "inspected", proc[c].todo, page, path, proc[c].fetched)
                       /\ path = IF IsFirstFetch(page)
                                 THEN Filename[<<proc[c].dir, page.key, page.name>>]
                                 ELSE page.path
                       /\ IsFirstFetch(page) => files[path] = NULL
                 /\ RefusePage(c, page) =>
                       Goes(c, "listed", proc[c].todo \ {page}, proc[c].page, proc[c].path,
                            proc[c].fetched)
           /\ Stage(c) => Goes(c, "staged", proc[c].todo, proc[c].page, proc[c].path,
                               proc[c].fetched)
           /\ Replace(c) => Goes(c, "replaced", proc[c].todo, proc[c].page, proc[c].path,
                                 proc[c].fetched)
           /\ (FailPage(c) \/ Rollback(c)) =>
                 Goes(c, "listed", proc[c].todo \ {proc[c].page}, NULL, NULL, proc[c].fetched)
           /\ Register(c) =>
                 Goes(c, "listed", proc[c].todo \ {proc[c].page}, NULL, NULL,
                      proc[c].fetched \cup {proc[c].page.resource})
           /\ RegisterFails(c) =>
                 IF IsFirstFetch(proc[c].page)
                 THEN Goes(c, "rollback", proc[c].todo, proc[c].page, proc[c].path,
                           proc[c].fetched)
                 ELSE Goes(c, "listed", proc[c].todo \ {proc[c].page}, NULL, NULL,
                           proc[c].fetched)
  <1>1. /\ TypeOK /\ proc[c] \in Command
        /\ proc[c].fetched \cup {} = proc[c].fetched /\ {} \in SUBSET ResourceIds
    BY DEF BaseInv, TypeOK
  <1>2. ASSUME Discover(c)
        PROVE  Goes(c, "discovered", proc[c].todo, proc[c].page, proc[c].path, proc[c].fetched)
    <2>1. remote \in [Sources -> [ProviderIds -> Names \cup {NULL}]] /\ proc[c].source \in Sources
      BY <1>1 DEF TypeOK, Command
    <2>2. PublishedPages(proc[c].source) \in SUBSET Item
      BY <2>1 DEF PublishedPages, Item
    <2> QED BY <1>1, <1>2, <2>2, ItemsGoes DEF Discover
  <1>3. ASSUME StorePages(c)
        PROVE  Goes(c, "stored", proc[c].todo, proc[c].page, proc[c].path, proc[c].fetched)
    <2>1. {} \in SUBSET Item
      OBVIOUS
    <2> QED BY <1>1, <1>3, <2>1, ItemsGoes DEF StorePages
  <1>4. ASSUME NEW pages \in SUBSET Listed(proc[c].workspace), SelectPages(c, pages)
        PROVE  Goes(c, "listed", pages, proc[c].page, proc[c].path, proc[c].fetched)
    <2>1. proc[c].workspace \in WorkspaceIds
      BY <1>1 DEF Command
    <2>2. pages \in SUBSET Page
      BY <2>1, ListedPages
    <2> QED BY <1>1, <1>4, <2>2, TodoGoes DEF SelectPages
  <1>5. ASSUME NEW page \in proc[c].todo, Inspect(c, page)
        PROVE  \E path \in Paths :
                  /\ Goes(c, "inspected", proc[c].todo, page, path, proc[c].fetched)
                  /\ path = IF IsFirstFetch(page)
                            THEN Filename[<<proc[c].dir, page.key, page.name>>] ELSE page.path
                  /\ IsFirstFetch(page) => files[path] = NULL
    <2>1. page \in Page
      BY <1>1 DEF Command
    <2>2. PICK path \in Paths :
            /\ IF IsFirstFetch(page)
               THEN /\ path = Filename[<<proc[c].dir, page.key, page.name>>] /\ files[path] = NULL
               ELSE /\ path = page.path /\ files[path] # OtherFile
            /\ proc' = [proc EXCEPT ![c].pc = "inspected", ![c].page = page, ![c].path = path]
      BY <1>5 DEF Inspect
    <2>3. Goes(c, "inspected", proc[c].todo, page, path, proc[c].fetched)
      BY <1>1, <2>1, <2>2, InspectGoes
    <2> QED BY <2>1, <2>2, <2>3
  <1>6. ASSUME NEW page \in proc[c].todo, RefusePage(c, page)
        PROVE  Goes(c, "listed", proc[c].todo \ {page}, proc[c].page, proc[c].path,
                    proc[c].fetched)
    <2>1. page \in Page
      BY <1>1 DEF Command
    <2> QED BY <1>1, <1>6, <2>1, RefuseGoes
  <1>7. ASSUME Stage(c)
        PROVE  Goes(c, "staged", proc[c].todo, proc[c].page, proc[c].path, proc[c].fetched)
    BY <1>1, <1>7, CounterGoes DEF Stage
  <1>8. ASSUME Replace(c)
        PROVE  Goes(c, "replaced", proc[c].todo, proc[c].page, proc[c].path, proc[c].fetched)
    BY <1>1, <1>8, CounterGoes DEF Replace
  <1>9. ASSUME NextPage(c, {})
        PROVE  Goes(c, "listed", proc[c].todo \ {proc[c].page}, NULL, NULL, proc[c].fetched)
    BY <1>1, <1>9, NextPageGoes
  <1>10. ASSUME Register(c)
         PROVE  Goes(c, "listed", proc[c].todo \ {proc[c].page}, NULL, NULL,
                     proc[c].fetched \cup {proc[c].page.resource})
    <2>1. {proc[c].page.resource} \in SUBSET ResourceIds
      BY <1>10, RegisterTables DEF Page
    <2> QED BY <1>1, <1>10, <2>1, NextPageGoes DEF Register
  <1>11. ASSUME RegisterFails(c)
         PROVE  IF IsFirstFetch(proc[c].page)
                THEN Goes(c, "rollback", proc[c].todo, proc[c].page, proc[c].path, proc[c].fetched)
                ELSE Goes(c, "listed", proc[c].todo \ {proc[c].page}, NULL, NULL, proc[c].fetched)
    <2>1. CASE IsFirstFetch(proc[c].page)
      BY <1>1, <1>11, <2>1, CounterGoes DEF RegisterFails
    <2>2. CASE ~IsFirstFetch(proc[c].page)
      BY <1>9, <1>11, <2>2 DEF RegisterFails
    <2> QED BY <2>1, <2>2
  <1>12. (FailPage(c) \/ Rollback(c)) => NextPage(c, {})
    BY SMTT(30) DEF FailPage, Rollback
  <1> QED BY <1>2, <1>3, <1>4, <1>5, <1>6, <1>7, <1>8, <1>9, <1>10, <1>11, <1>12

(* What a command does to the files: it writes its page or removes it.     *)
LEMMA CommandFiles ==
    ASSUME BaseInv, NEW c \in Procs, proc[c] # NULL, Step(c)
    PROVE  /\ UNCHANGED <<remote, site>>
           /\ files' \in [Paths -> Files]
           /\ ~Replace(c) /\ ~Rollback(c) => files' = files
  <1>1. /\ files \in [Paths -> Files] /\ proc[c] \in Command
        /\ CommandSound(c)
    BY DEF BaseInv, TypeOK
  <1>2. ASSUME Replace(c)
        PROVE  UNCHANGED <<remote, site>> /\ files' \in [Paths -> Files]
    <2>1. InHand(c) /\ proc[c].page \in Page /\ proc[c].source \in Sources
      BY <1>1, <1>2 DEF Replace, At, InHand, CommandSound, Command
    <2>2. proc[c].page.key \in ProviderIds
      BY <1>1, <2>1 DEF CommandSound, PageKnown, BaseInv, TablesOfPages, Page
    <2>3. [resource |-> proc[c].page.resource, source |-> proc[c].source,
           provider |-> proc[c].page.key] \in Files
      BY <2>1, <2>2 DEF Page, Files, Generated
    <2> QED BY <1>1, <1>2, <2>3 DEF Replace
  <1>3. ASSUME Rollback(c)
        PROVE  UNCHANGED <<remote, site>> /\ files' \in [Paths -> Files]
    BY <1>1, <1>3 DEF Rollback, Files
  <1> QED
    BY <1>1, <1>2, <1>3 DEF Step, PageStep, Discover, StorePages, SelectPages, GiveUp, Finish,
         Inspect, RefusePage, Stage, FailPage, Register, RegisterFails

(* The other commands rest, and only a registration reports a page.        *)
LEMMA CommandMoves ==
    ASSUME BaseInv, NEW c \in Procs, proc[c] # NULL, Step(c)
    PROVE  /\ \A d \in Procs \ {c} : proc'[d] = proc[d]
           /\ proc'[c] # NULL =>
                 /\ proc'[c].workspace = proc[c].workspace /\ proc'[c].dir = proc[c].dir
                 /\ proc'[c].source = proc[c].source
                 /\ \/ proc'[c].fetched = proc[c].fetched
                    \/ /\ Register(c)
                       /\ proc'[c].fetched = proc[c].fetched \cup {proc[c].page.resource}
  <1>1. CASE proc' = [proc EXCEPT ![c] = NULL]
    BY <1>1 DEF BaseInv, TypeOK
  <1>2. CASE Register(c)
    BY <1>2, CommandGoes DEF Goes
  <1>3. CASE \E pc, todo, page, path : Goes(c, pc, todo, page, path, proc[c].fetched)
    BY <1>3 DEF Goes
  <1> QED BY <1>1, <1>2, <1>3, CommandGoes DEF Step, PageStep, GiveUp, Finish

LEMMA BaseInit == Init => BaseInv
  <1> SUFFICES ASSUME Init PROVE BaseInv
    OBVIOUS
  <1>1. RegistryInv
    BY InitRegistryInv DEF Init
  <1>2. TypeOK
    BY <1>1 DEF Init, TypeOK, RegistryInv, Files
  <1>3. TablesOfPages
    BY DEF Init, RegistryInit, EmptyDatabase, TablesOfPages, HasResource
  <1> QED BY <1>1, <1>2, <1>3 DEF BaseInv, Init

(* The tables after a step of a command.                                   *)
LEMMA CommandTables ==
    ASSUME BaseInv, NEW c \in Procs, proc[c] # NULL, Step(c)
    PROVE  /\ Kept /\ RegistryInv' /\ TablesOfPages'
           /\ db'.workspaces = db.workspaces
           /\ ~StorePages(c) => db'.resources = db.resources /\ db'.memberships = db.memberships
           /\ ~Register(c) => db'.locations = db.locations
  <1>1. CASE UNCHANGED <<db, issued>>
    BY <1>1, KeptWhenUnchanged
  <1>2. CASE StorePages(c)
    BY <1>2, RefreshTables DEF StorePages, Register, At
  <1>3. CASE Register(c)
    BY <1>3, RegisterTables DEF StorePages, Register, At
  <1>4. UNCHANGED <<db, issued>> \/ StorePages(c) \/ Register(c)
    BY DEF Step, PageStep, Discover, SelectPages, GiveUp, Finish, Inspect, RefusePage, Stage,
           FailPage, Replace, RegisterFails, Rollback
  <1> QED BY <1>1, <1>2, <1>3, <1>4

LEMMA BaseCommand ==
    ASSUME BaseInv, NEW c \in Procs, proc[c] # NULL, Step(c)
    PROVE  BaseInv'
  <1>1. /\ Kept /\ RegistryInv' /\ TablesOfPages'
        /\ files' \in [Paths -> Files] /\ UNCHANGED <<remote, site>>
    BY CommandTables, CommandFiles
  <1>2. /\ TypeOK /\ proc[c] \in Command /\ CommandSound(c)
    BY DEF BaseInv, TypeOK
  <1>3. proc[c].todo \subseteq Page /\ \A q \in proc[c].todo : PageKnown(c, q)
    BY <1>2 DEF CommandSound, Command
  (* The steps that keep the list, or drop a page.                         *)
  <1>4. ASSUME NEW pc, NEW todo \in SUBSET proc[c].todo, NEW page, NEW path, NEW fetched,
               Goes(c, pc, todo, page, path, fetched),
               pc \in {"inspected", "staged", "replaced", "rollback"} =>
                  /\ page \in todo /\ path \in Paths
                  /\ path = IF IsFirstFetch(page)
                            THEN Filename[<<proc[c].dir, page.key, page.name>>] ELSE page.path
        PROVE  BaseInv'
    <2>1. todo \subseteq Page /\ \A q \in todo : PageKnown(c, q)
      BY <1>3
    <2> QED BY <1>1, <1>4, <2>1, BaseGoes
  <1>5. ASSUME NEW pc \in {"staged", "replaced", "rollback"}, InHand(c),
               Goes(c, pc, proc[c].todo, proc[c].page, proc[c].path, proc[c].fetched)
        PROVE  BaseInv'
    BY <1>2, <1>4, <1>5 DEF CommandSound
  <1>6. ASSUME NEW todo \in SUBSET proc[c].todo, NEW page, NEW path, NEW fetched,
               NEW pc \in {"discovered", "stored", "listed"}, Goes(c, pc, todo, page, path, fetched)
        PROVE  BaseInv'
    BY <1>4, <1>6
  <1>7. CASE Discover(c) \/ StorePages(c)
    BY <1>6, <1>7, CommandGoes
  <1>8. ASSUME NEW pages \in SUBSET Listed(proc[c].workspace), SelectPages(c, pages)
        PROVE  BaseInv'
    <2>1. proc[c].workspace \in WorkspaceIds
      BY <1>2 DEF Command
    <2>2. pages \subseteq Page
      BY <2>1, ListedPages
    <2>3. \A q \in pages : PageKnown(c, q)
      BY <2>1, ListedPages DEF WorkspaceResources, PageKnown
    <2>4. Goes(c, "listed", pages, proc[c].page, proc[c].path, proc[c].fetched)
      BY <1>8, CommandGoes
    <2> QED BY <1>1, <2>2, <2>3, <2>4, BaseGoes
  <1>9. ASSUME proc' = [proc EXCEPT ![c] = NULL]
        PROVE  BaseInv'
    <2>1. /\ proc' \in [Procs -> Command \cup {NULL}]
          /\ \A d \in Procs : proc'[d] = proc[d] \/ proc'[d] = NULL
      BY <1>2, <1>9 DEF TypeOK
    <2> QED BY <1>1, <1>2, <2>1, BaseRests DEF TypeOK
  <1>10. ASSUME NEW page \in proc[c].todo, Inspect(c, page)
         PROVE  BaseInv'
    BY <1>4, <1>10, CommandGoes
  <1>11. ASSUME NEW page \in proc[c].todo, RefusePage(c, page)
         PROVE  BaseInv'
    BY <1>6, <1>11, CommandGoes
  <1>12. CASE Stage(c)
    <2>1. InHand(c)
      BY <1>12 DEF Stage, At, InHand
    <2> QED BY <1>5, <1>12, <2>1, CommandGoes
  <1>13. CASE Replace(c)
    <2>1. InHand(c)
      BY <1>13 DEF Replace, At, InHand
    <2> QED BY <1>5, <1>13, <2>1, CommandGoes
  <1>14. CASE FailPage(c) \/ Register(c) \/ Rollback(c)
    BY <1>6, <1>14, CommandGoes
  <1>15. CASE RegisterFails(c)
    <2>1. InHand(c)
      BY <1>15 DEF RegisterFails, At, InHand
    <2>2. \/ Goes(c, "rollback", proc[c].todo, proc[c].page, proc[c].path, proc[c].fetched)
          \/ Goes(c, "listed", proc[c].todo \ {proc[c].page}, NULL, NULL, proc[c].fetched)
      BY <1>15, CommandGoes
    <2> QED BY <1>5, <1>6, <2>1, <2>2
  <1> QED
    BY <1>7, <1>8, <1>9, <1>10, <1>11, <1>12, <1>13, <1>14, <1>15
       DEF Step, PageStep, GiveUp, Finish

LEMMA BaseEnvironment ==
    ASSUME BaseInv, Environment
    PROVE  BaseInv'
  <1>1. TypeOK
    BY DEF BaseInv
  <1>2. ASSUME NEW c \in Procs, Crash(c)
        PROVE  BaseInv'
    <2>1. /\ proc' \in [Procs -> Command \cup {NULL}]
          /\ \A d \in Procs : proc'[d] = proc[d] \/ proc'[d] = NULL
      BY <1>1, <1>2 DEF TypeOK, Crash
    <2>2. Kept /\ RegistryInv' /\ TablesOfPages'
      BY <1>2, KeptWhenUnchanged DEF Crash
    <2> QED BY <1>1, <1>2, <2>1, <2>2, BaseRests DEF TypeOK, Crash
  <1>3. CASE OtherCommands
    BY <1>1, <1>3, WorkspaceTables, BaseRests DEF TypeOK, OtherCommands
  <1>4. CASE SwitchSite \/ EditSite \/ EditFiles
    <2>1. Kept /\ RegistryInv' /\ TablesOfPages' /\ proc' = proc
      BY <1>4, KeptWhenUnchanged DEF SwitchSite, EditSite, EditFiles
    <2>2. CASE SwitchSite
      BY <1>1, <2>1, <2>2, BaseRests DEF TypeOK, SwitchSite
    <2>3. CASE EditSite
      <3>1. remote' \in [Sources -> [ProviderIds -> Names \cup {NULL}]]
        BY <1>1, <2>3 DEF TypeOK, EditSite
      <3> QED BY <1>1, <2>1, <2>3, <3>1, BaseRests DEF TypeOK, EditSite
    <2>4. CASE EditFiles
      <3>1. files' \in [Paths -> Files]
        BY <1>1, <2>4 DEF TypeOK, EditFiles, Files
      <3> QED BY <1>1, <2>1, <2>4, <3>1, BaseRests DEF TypeOK, EditFiles
    <2> QED BY <1>4, <2>2, <2>3, <2>4
  <1> QED BY <1>2, <1>3, <1>4 DEF Environment

LEMMA BaseStep == BaseInv /\ [Next]_wiki => BaseInv'
  <1> SUFFICES ASSUME BaseInv, [Next]_wiki PROVE BaseInv'
    OBVIOUS
  <1>1. CASE UNCHANGED wiki
    <2>1. Kept /\ RegistryInv' /\ TablesOfPages'
      BY <1>1, KeptWhenUnchanged DEF wiki
    <2> QED BY <1>1, <2>1, BaseRests DEF wiki, BaseInv, TypeOK
  <1>2. CASE Next
    BY <1>2, BaseCommand, BaseEnvironment, StartsSound DEF Next
  <1> QED BY <1>1, <1>2

(* In every state of any number of commands: the tables are consistent,    *)
(* and a command works in the directory of its workspace, on resources     *)
(* that are still what it read, until the workspace is removed.            *)
THEOREM BaseInvInductive == Spec => []BaseInv
  <1> QED BY BaseInit, BaseStep, PTL DEF Spec

-----------------------------------------------------------------------------
(* Concurrent commands, each in a directory of its own. *)

(* The file that belongs to resource r.                                    *)
Content(d, r) == [resource |-> r, source |-> d.resources[r].source,
                  provider |-> d.resources[r].provider]

IsFileOf(path, dir, key) == \E n \in Names : path = Filename[<<dir, key, n>>]

(* No workspace has the directory in which a command of another one works. *)
OwnDirectory ==
    \A c \in Procs, w \in WorkspaceIds :
        (proc[c] # NULL /\ HasWorkspace(db, w) /\ w # proc[c].workspace) =>
            db.workspaces[w].dir # proc[c].dir

SitesStay ==
    /\ \A c \in Procs : proc[c] # NULL => proc[c].source = site[proc[c].workspace]
    /\ \A m \in db.memberships : db.resources[m.resource].source = site[m.workspace]

LocationSound(l) ==
    /\ Member(l.workspace, l.resource) \in db.memberships
    /\ IsFileOf(l.path, db.workspaces[l.workspace].dir, db.resources[l.resource].provider)
    /\ files[l.path] = Content(db, l.resource)

FetchSound(c) ==
    /\ \A page \in proc[c].todo :
          page.path # NULL => IsFileOf(page.path, proc[c].dir, page.key)
    /\ (proc[c].pc = "replaced" /\ HasWorkspace(db, proc[c].workspace)) =>
          files[proc[c].path] = Content(db, proc[c].page.resource)
    /\ proc[c].pc = "rollback" => ~HasWorkspace(db, proc[c].workspace)

ConcurrentInv ==
    /\ BaseInv
    /\ SitesStay
    /\ \A l \in db.locations : LocationSound(l)
    /\ \A c \in Procs : proc[c] # NULL => FetchSound(c)

(* The run's environment: commands may die and workspaces be removed at    *)
(* any time, and the pages of the sites change.                            *)
Undisturbed == Events \cap {"sites", "db_error", "user_files"} = {}

LEMMA SamePlace ==
    ASSUME NEW p, NEW d \in Directories, NEW e \in Directories,
           NEW j \in ProviderIds, NEW k \in ProviderIds, IsFileOf(p, d, j), IsFileOf(p, e, k)
    PROVE  d = e /\ j = k
  <1>1. PICK m \in Names : p = Filename[<<d, j, m>>]
    BY DEF IsFileOf
  <1>2. PICK n \in Names : p = Filename[<<e, k, n>>]
    BY DEF IsFileOf
  <1>3. <<d, j, m>> \in DOMAIN Filename /\ <<e, k, n>> \in DOMAIN Filename
    BY FilenameAssumption
  <1> QED BY <1>1, <1>2, <1>3, FilenameAssumption

LEMMA SameResource ==
    ASSUME BaseInv, NEW q \in ResourceIds, NEW r \in ResourceIds,
           HasResource(db, q), HasResource(db, r),
           db.resources[q].source = db.resources[r].source,
           db.resources[q].provider = db.resources[r].provider
    PROVE  q = r
  <1>1. Consistent(db) /\ TablesOfPages
    BY DEF BaseInv, RegistryInv, TablesConsistent
  <1>2. /\ db.resources[r].source # NULL /\ db.resources[r].provider # NULL
        /\ db.resources[q].type = db.resources[r].type
    BY <1>1 DEF TablesOfPages, Consistent, IdentityComplete
  <1> QED BY <1>1, <1>2 DEF Consistent, IdentityUnique, IdentityFree

(* The page in the hand of a command.                                      *)
LEMMA PageInHand ==
    ASSUME BaseInv, NEW c \in Procs, proc[c] # NULL, InHand(c)
    PROVE  /\ proc[c].workspace \in WorkspaceIds /\ proc[c].dir \in Directories
           /\ proc[c].page \in Page /\ proc[c].page \in proc[c].todo /\ proc[c].path \in Paths
           /\ proc[c].page.resource \in ResourceIds /\ HasResource(db, proc[c].page.resource)
           /\ proc[c].page.key \in ProviderIds
           /\ proc[c].page.key = db.resources[proc[c].page.resource].provider
           /\ HasWorkspace(db, proc[c].workspace) =>
                 Member(proc[c].workspace, proc[c].page.resource) \in db.memberships
  <1>1. proc[c] \in Command /\ CommandSound(c) /\ TablesOfPages
    BY DEF BaseInv, TypeOK
  <1>2. proc[c].page \in proc[c].todo /\ proc[c].page \in Page /\ PageKnown(c, proc[c].page)
    BY <1>1 DEF CommandSound, Command
  <1>3. proc[c].page.resource \in ResourceIds /\ proc[c].page.key \in ProviderIds \cup {NULL}
    BY <1>2 DEF Page
  <1>4. proc[c].page.key # NULL
    BY <1>1, <1>2, <1>3 DEF PageKnown, TablesOfPages
  <1>5. proc[c].workspace \in WorkspaceIds /\ proc[c].dir \in Directories /\ proc[c].path \in Paths
    BY <1>1 DEF Command, CommandSound
  <1> QED BY <1>2, <1>3, <1>4, <1>5 DEF PageKnown

LEMMA PathInHand ==
    ASSUME ConcurrentInv, NEW c \in Procs, proc[c] # NULL, InHand(c)
    PROVE  IsFileOf(proc[c].path, proc[c].dir, proc[c].page.key)
  <1>1. BaseInv /\ CommandSound(c) /\ FetchSound(c)
    BY DEF ConcurrentInv, BaseInv
  <1>2. proc[c].page \in Page /\ proc[c].page \in proc[c].todo
    BY <1>1, PageInHand
  <1>3. CASE IsFirstFetch(proc[c].page)
    BY <1>1, <1>2, <1>3 DEF CommandSound, IsFileOf, Page
  <1>4. CASE ~IsFirstFetch(proc[c].page)
    BY SMTT(30), <1>1, <1>2, <1>4 DEF CommandSound, FetchSound, IsFirstFetch
  <1> QED BY <1>3, <1>4

(* The file in the hand of a command is registered for none but its page.  *)
LEMMA LocationInHand ==
    ASSUME ConcurrentInv, OwnDirectory, NEW c \in Procs, proc[c] # NULL, InHand(c),
           NEW l \in db.locations, l.path = proc[c].path
    PROVE  /\ l.workspace = proc[c].workspace /\ l.resource = proc[c].page.resource
           /\ HasWorkspace(db, l.workspace)
  <1>1. /\ BaseInv /\ db \in Database /\ Consistent(db) /\ LocationSound(l) /\ SitesStay
    BY DEF ConcurrentInv, BaseInv, RegistryInv, RegistryTypeOK, TablesConsistent
  <1>2. /\ l.workspace \in WorkspaceIds /\ l.resource \in ResourceIds
        /\ HasWorkspace(db, l.workspace) /\ HasResource(db, l.resource)
    BY <1>1 DEF Database, LocationRow, Consistent, References
  <1>3. db.workspaces[l.workspace].dir \in Directories
    BY <1>1, <1>2 DEF Database, HasWorkspace, WorkspaceRow
  <1>4. db.resources[l.resource].provider \in ProviderIds
    BY <1>1, <1>2 DEF Database, HasResource, ResourceRow, BaseInv, TablesOfPages
  <1>5. /\ proc[c].dir = db.workspaces[l.workspace].dir
        /\ proc[c].page.key = db.resources[l.resource].provider
    BY <1>1, <1>3, <1>4, PageInHand, PathInHand, SamePlace DEF LocationSound
  <1>6. l.workspace = proc[c].workspace
    BY <1>2, <1>5 DEF OwnDirectory
  <1>7. Member(proc[c].workspace, proc[c].page.resource) \in db.memberships
    BY <1>1, <1>2, <1>6, PageInHand
  <1>8. db.resources[proc[c].page.resource].source = db.resources[l.resource].source
    BY SMTT(30), <1>1, <1>6, <1>7 DEF LocationSound, SitesStay, Member
  <1> QED BY <1>1, <1>2, <1>5, <1>6, <1>8, PageInHand, SameResource

(* Two commands have the same file in hand only for the same page of the   *)
(* same workspace.                                                         *)
LEMMA CommandsInHand ==
    ASSUME ConcurrentInv, OwnDirectory, NEW c \in Procs, NEW d \in Procs,
           proc[c] # NULL, proc[d] # NULL, InHand(c), InHand(d), proc[c].path = proc[d].path,
           HasWorkspace(db, proc[d].workspace)
    PROVE  proc[c].workspace = proc[d].workspace /\ proc[c].page.resource = proc[d].page.resource
  <1>1. BaseInv /\ SitesStay /\ CommandSound(d)
    BY DEF ConcurrentInv, BaseInv
  <1>2. proc[c].dir = proc[d].dir /\ proc[c].page.key = proc[d].page.key
    BY <1>1, PageInHand, PathInHand, SamePlace
  <1>3. proc[c].workspace = proc[d].workspace
    BY <1>1, <1>2, PageInHand DEF OwnDirectory, CommandSound
  <1>4. db.resources[proc[c].page.resource].source = db.resources[proc[d].page.resource].source
    BY <1>1, <1>3, PageInHand DEF SitesStay, Member
  <1> QED BY <1>1, <1>2, <1>3, <1>4, PageInHand, SameResource

(* What a step leaves of a resource that a command or a location names.    *)
LEMMA ContentKept ==
    ASSUME Kept, NEW r \in ResourceIds, HasResource(db, r)
    PROVE  Content(db', r) = Content(db, r)
  BY DEF Kept, Content

(* What a command writes is the content of the page in its hand.           *)
LEMMA ReplaceWrites ==
    ASSUME ConcurrentInv, NEW c \in Procs, Replace(c), HasWorkspace(db, proc[c].workspace)
    PROVE  /\ proc[c] # NULL /\ InHand(c)
           /\ files' = [files EXCEPT ![proc[c].path] = Content(db, proc[c].page.resource)]
  <1>1. proc[c] # NULL /\ InHand(c) /\ BaseInv /\ SitesStay
    BY DEF Replace, At, InHand, ConcurrentInv
  <1>2. proc[c].source = db.resources[proc[c].page.resource].source
    BY <1>1, PageInHand DEF SitesStay, Member
  <1> QED BY <1>1, <1>2, PageInHand DEF Replace, Content

LEMMA LocationsKeepFiles ==
    ASSUME ConcurrentInv, OwnDirectory, NEW c \in Procs, proc[c] # NULL, Step(c),
           NEW l \in db.locations
    PROVE  files'[l.path] = files[l.path]
  <1>1. /\ files \in [Paths -> Files] /\ BaseInv /\ db \in Database /\ FetchSound(c)
        /\ LocationSound(l)
    BY DEF ConcurrentInv, BaseInv, TypeOK, RegistryTypeOK
  <1>2. l.path \in Paths
    BY <1>1 DEF Database, LocationRow
  <1>3. CASE Replace(c)
    <2>1. InHand(c) /\ proc[c].path \in Paths
      BY <1>1, <1>3, PageInHand DEF Replace, At, InHand
    <2>2. CASE l.path = proc[c].path
      <3>1. /\ HasWorkspace(db, proc[c].workspace) /\ l.resource = proc[c].page.resource
        BY <2>1, <2>2, LocationInHand
      <3> QED BY <1>1, <1>3, <2>1, <2>2, <3>1, ReplaceWrites DEF LocationSound
    <2>3. CASE l.path # proc[c].path
      BY <1>1, <1>2, <1>3, <2>1, <2>3 DEF Replace
    <2> QED BY <2>2, <2>3
  <1>4. CASE Rollback(c)
    <2>1. InHand(c) /\ ~HasWorkspace(db, proc[c].workspace)
      BY <1>1, <1>4 DEF Rollback, At, InHand, FetchSound
    <2>2. l.path # proc[c].path
      BY <2>1, LocationInHand
    <2> QED BY <1>1, <1>2, <1>4, <2>2 DEF Rollback
  <1>5. CASE ~Replace(c) /\ ~Rollback(c)
    BY <1>1, <1>5, CommandFiles
  <1> QED BY <1>3, <1>4, <1>5

LEMMA FetchesKeepFiles ==
    ASSUME ConcurrentInv, OwnDirectory, NEW c \in Procs, proc[c] # NULL, Step(c),
           NEW d \in Procs \ {c}, proc[d] # NULL, proc[d].pc = "replaced",
           HasWorkspace(db, proc[d].workspace)
    PROVE  files'[proc[d].path] = files[proc[d].path]
  <1>1. /\ files \in [Paths -> Files] /\ BaseInv /\ FetchSound(c) /\ FetchSound(d) /\ InHand(d)
    BY DEF ConcurrentInv, BaseInv, TypeOK, InHand
  <1>2. proc[d].path \in Paths
    BY <1>1, PageInHand
  <1>3. CASE Replace(c)
    <2>1. InHand(c) /\ proc[c].path \in Paths
      BY <1>1, <1>3, PageInHand DEF Replace, At, InHand
    <2>2. CASE proc[d].path = proc[c].path
      <3>1. /\ HasWorkspace(db, proc[c].workspace)
            /\ proc[d].page.resource = proc[c].page.resource
        BY <1>1, <2>1, <2>2, CommandsInHand
      <3> QED BY <1>1, <1>3, <2>1, <2>2, <3>1, ReplaceWrites DEF FetchSound
    <2>3. CASE proc[d].path # proc[c].path
      BY <1>1, <1>2, <1>3, <2>1, <2>3 DEF Replace
    <2> QED BY <2>2, <2>3
  <1>4. CASE Rollback(c)
    <2>1. InHand(c) /\ ~HasWorkspace(db, proc[c].workspace)
      BY <1>1, <1>4 DEF Rollback, At, InHand, FetchSound
    <2>2. proc[d].path # proc[c].path
      BY <1>1, <2>1, CommandsInHand
    <2> QED BY <1>1, <1>2, <1>4, <2>2 DEF Rollback
  <1>5. CASE ~Replace(c) /\ ~Rollback(c)
    BY <1>1, <1>5, CommandFiles
  <1> QED BY <1>3, <1>4, <1>5

(* A location that stays is sound when its file is.                        *)
LEMMA LocationStaysSound ==
    ASSUME ConcurrentInv, Kept, RegistryInv', NEW l \in db.locations, l \in db'.locations,
           files'[l.path] = files[l.path]
    PROVE  LocationSound(l)'
  <1>1. /\ LocationSound(l) /\ db \in Database /\ Consistent(db) /\ Consistent(db') /\ RegistryInv
    BY DEF ConcurrentInv, BaseInv, RegistryInv, RegistryTypeOK, TablesConsistent
  <1>2. /\ l.workspace \in WorkspaceIds /\ l.resource \in ResourceIds
        /\ HasWorkspace(db, l.workspace) /\ HasResource(db, l.resource)
        /\ HasWorkspace(db', l.workspace)
    BY <1>1 DEF Database, LocationRow, Consistent, References
  <1>3. l.workspace \in issued
    BY <1>1, <1>2 DEF RegistryInv, LiveIds
  <1>4. /\ db'.workspaces[l.workspace] = db.workspaces[l.workspace]
        /\ Member(l.workspace, l.resource) \in db'.memberships
        /\ db'.resources[l.resource].provider = db.resources[l.resource].provider
    BY <1>1, <1>2, <1>3 DEF Kept, LocationSound, Member
  <1> QED BY <1>1, <1>2, <1>4, ContentKept DEF LocationSound

(* So is a fetch of a command that rests.                                  *)
LEMMA FetchStaysSound ==
    ASSUME ConcurrentInv, Kept, NEW d \in Procs, proc[d] # NULL, proc'[d] = proc[d],
           (proc[d].pc = "replaced" /\ HasWorkspace(db, proc[d].workspace)) =>
              files'[proc[d].path] = files[proc[d].path]
    PROVE  FetchSound(d)'
  <1>1. FetchSound(d) /\ BaseInv /\ CommandSound(d) /\ proc[d] \in Command
    BY DEF ConcurrentInv, BaseInv, TypeOK
  <1>2. proc[d].workspace \in issued \cap WorkspaceIds
    BY <1>1 DEF CommandSound, Command
  <1>3. HasWorkspace(db', proc[d].workspace) => HasWorkspace(db, proc[d].workspace)
    BY <1>2 DEF Kept
  <1>4. proc[d].pc = "replaced" =>
          Content(db', proc[d].page.resource) = Content(db, proc[d].page.resource)
    BY <1>1, PageInHand, ContentKept DEF InHand
  <1> QED BY <1>1, <1>3, <1>4 DEF FetchSound

(* The path that a listing reports is that of a location, if there is one. *)
LEMMA LocationPathFacts ==
    ASSUME NEW d \in Database, NEW w, NEW r, NEW t
    PROVE  /\ LocationPath(d, w, r, t) # NULL =>
                 \E l \in d.locations : /\ l.workspace = w /\ l.resource = r /\ l.type = t
                                        /\ l.path = LocationPath(d, w, r, t)
           /\ LocationPath(d, w, r, t) = NULL =>
                 ~ \E l \in d.locations : l.workspace = w /\ l.resource = r /\ l.type = t
  <1> DEFINE own == {l \in d.locations : l.workspace = w /\ l.resource = r /\ l.type = t}
  <1>1. LocationPath(d, w, r, t) = IF own = {} THEN NULL ELSE (CHOOSE l \in own : TRUE).path
    BY DEF LocationPath
  <1>2. own # {} => (CHOOSE l \in own : TRUE) \in own
    OBVIOUS
  <1>3. \A l \in own : l.path # NULL
    BY AbsenceAssumption DEF Database, LocationRow
  <1> HIDE DEF own
  <1>4. own = {} => LocationPath(d, w, r, t) = NULL
    BY <1>1
  <1>5. own # {} => \E l \in own : l.path = LocationPath(d, w, r, t) /\ l.path # NULL
    BY <1>1, <1>2, <1>3
  <1> QED BY <1>4, <1>5 DEF own

LEMMA ConcurrentInit == Init => ConcurrentInv
  <1> SUFFICES ASSUME Init PROVE ConcurrentInv
    OBVIOUS
  <1>1. db.memberships = {} /\ db.locations = {} /\ \A c \in Procs : proc[c] = NULL
    BY DEF Init, RegistryInit, EmptyDatabase
  <1> QED BY <1>1, BaseInit DEF ConcurrentInv, SitesStay

(* The pages of a listing have their files in the workspace's directory.   *)
LEMMA ListedFiles ==
    ASSUME ConcurrentInv, NEW c \in Procs, proc[c] # NULL, NEW page \in Listed(proc[c].workspace),
           page.path # NULL
    PROVE  IsFileOf(page.path, proc[c].dir, page.key)
  <1>1. /\ BaseInv /\ proc[c] \in Command /\ db \in Database /\ Consistent(db) /\ CommandSound(c)
    BY DEF ConcurrentInv, BaseInv, TypeOK, RegistryTypeOK, RegistryInv, TablesConsistent
  <1>2. proc[c].workspace \in WorkspaceIds
    BY <1>1 DEF Command
  <1>3. /\ page.key = db.resources[page.resource].provider
        /\ page.path = LocationPath(db, proc[c].workspace, page.resource, FileType)
    BY <1>1, <1>2, ListedPages
  <1>4. PICK l \in db.locations : /\ l.workspace = proc[c].workspace
                                  /\ l.resource = page.resource /\ l.path = page.path
    BY <1>1, <1>3, LocationPathFacts
  <1>5. LocationSound(l) /\ HasWorkspace(db, l.workspace)
    BY <1>1, <1>4 DEF ConcurrentInv, Consistent, References
  <1> QED BY <1>1, <1>3, <1>4, <1>5 DEF LocationSound, CommandSound

(* Only a removed workspace makes the registration of a fetch fail.        *)
LEMMA RegistrationAccepted ==
    ASSUME ConcurrentInv, OwnDirectory, NEW c \in Procs, At(c, "replaced"),
           HasWorkspace(db, proc[c].workspace)
    PROVE  LocationAccepted(db, proc[c].workspace, proc[c].page.resource, FileType, proc[c].path)
  <1>1. BaseInv /\ proc[c] # NULL /\ InHand(c)
    BY DEF ConcurrentInv, At, InHand
  <1>2. HasResource(db, proc[c].page.resource)
    BY <1>1, PageInHand
  <1>3. ASSUME NEW l \in OtherLocations(db, proc[c].workspace, proc[c].page.resource, FileType),
               l.type = FileType, l.path = proc[c].path
        PROVE  FALSE
    <2>1. l \in db.locations /\ ~(l.workspace = proc[c].workspace /\ l.resource = proc[c].page.resource)
      BY <1>3 DEF OtherLocations
    <2> QED BY <1>1, <1>3, <2>1, LocationInHand
  <1> QED BY <1>2, <1>3 DEF LocationAccepted

LEMMA CommandKeepsSites ==
    ASSUME ConcurrentInv, NEW c \in Procs, proc[c] # NULL, Step(c)
    PROVE  SitesStay'
  <1>1. /\ BaseInv /\ db \in Database /\ Consistent(db) /\ SitesStay /\ site' = site /\ Kept
    BY CommandTables, CommandFiles
       DEF ConcurrentInv, BaseInv, RegistryInv, RegistryTypeOK, TablesConsistent
  <1>2. ASSUME NEW d \in Procs, proc'[d] # NULL
        PROVE  proc'[d].source = site'[proc'[d].workspace]
    <2>1. proc[d] # NULL /\ proc'[d].source = proc[d].source /\ proc'[d].workspace = proc[d].workspace
      BY <1>1, <1>2, CommandMoves
    <2> QED BY <1>1, <2>1 DEF SitesStay
  <1>3. ASSUME NEW m \in db'.memberships
        PROVE  db'.resources[m.resource].source = site'[m.workspace]
    <2>1. CASE m \in db.memberships
      <3>1. m.resource \in ResourceIds /\ HasResource(db, m.resource)
        BY <1>1, <2>1 DEF Database, MembershipRow, Consistent, References
      <3> QED BY <1>1, <2>1, <3>1 DEF SitesStay, Kept
    <2>2. CASE m \notin db.memberships
      BY <1>1, <1>3, <2>2, CommandTables, RefreshTables DEF SitesStay
    <2> QED BY <2>1, <2>2
  <1> QED BY <1>2, <1>3 DEF SitesStay

LEMMA CommandKeepsLocations ==
    ASSUME ConcurrentInv, OwnDirectory, NEW c \in Procs, proc[c] # NULL, Step(c),
           NEW l \in db'.locations
    PROVE  LocationSound(l)'
  <1>1. Kept /\ RegistryInv' /\ BaseInv /\ FetchSound(c) /\ CommandSound(c)
    BY CommandTables DEF ConcurrentInv, BaseInv
  <1>2. CASE l \in db.locations
    BY SMTT(30), <1>1, <1>2, LocationsKeepFiles, LocationStaysSound
  <1>3. CASE l \notin db.locations
    <2>1. Register(c)
      BY <1>1, <1>3, CommandTables
    <2>2. /\ db'.resources = db.resources /\ db'.memberships = db.memberships
          /\ db'.workspaces = db.workspaces /\ files' = files
          /\ HasWorkspace(db, proc[c].workspace)
          /\ l = [workspace |-> proc[c].workspace, resource |-> proc[c].page.resource,
                  type |-> FileType, path |-> proc[c].path]
      BY <1>1, <1>3, <2>1, RegisterTables DEF OtherLocations, LocationAccepted, Register
    <2>3. proc[c].pc = "replaced" /\ InHand(c)
      BY <2>1 DEF Register, At, InHand
    <2>4. files[proc[c].path] = Content(db, proc[c].page.resource)
      BY <1>1, <2>2, <2>3 DEF FetchSound
    <2>5. /\ Member(proc[c].workspace, proc[c].page.resource) \in db.memberships
          /\ IsFileOf(proc[c].path, db.workspaces[proc[c].workspace].dir,
                      db.resources[proc[c].page.resource].provider)
      BY <1>1, <2>2, <2>3, PageInHand, PathInHand DEF CommandSound
    <2> QED BY <2>2, <2>4, <2>5 DEF LocationSound, Content
  <1> QED BY <1>2, <1>3

LEMMA CommandKeepsFetch ==
    ASSUME ConcurrentInv, OwnDirectory, Undisturbed, NEW c \in Procs, proc[c] # NULL, Step(c),
           proc'[c] # NULL
    PROVE  FetchSound(c)'
  <1>1. Kept /\ BaseInv /\ FetchSound(c) /\ CommandSound(c) /\ proc[c] \in Command
    BY CommandTables DEF ConcurrentInv, BaseInv, TypeOK
  <1>2. proc[c].workspace \in issued \cap WorkspaceIds
    BY <1>1 DEF CommandSound, Command
  (* The steps after which no file is in place yet.                        *)
  <1>3. ASSUME NEW pc \in {"discovered", "stored", "listed", "inspected", "staged"},
               NEW todo, NEW page, NEW path, NEW fetched, Goes(c, pc, todo, page, path, fetched),
               \A q \in todo : q.path # NULL => IsFileOf(q.path, proc[c].dir, q.key)
        PROVE  FetchSound(c)'
    BY <1>3 DEF FetchSound, Goes
  <1>4. ASSUME NEW pc \in {"discovered", "stored", "listed", "inspected", "staged"},
               NEW todo \in SUBSET proc[c].todo, NEW page, NEW path, NEW fetched,
               Goes(c, pc, todo, page, path, fetched)
        PROVE  FetchSound(c)'
    BY <1>1, <1>3, <1>4 DEF FetchSound
  <1>5. CASE Discover(c) \/ StorePages(c) \/ Stage(c) \/ FailPage(c) \/ Register(c) \/ Rollback(c)
    BY <1>1, <1>4, <1>5, CommandGoes
  <1>6. ASSUME NEW pages \in SUBSET Listed(proc[c].workspace), SelectPages(c, pages)
        PROVE  FetchSound(c)'
    <2>1. \A q \in pages : q.path # NULL => IsFileOf(q.path, proc[c].dir, q.key)
      BY ListedFiles
    <2>2. Goes(c, "listed", pages, proc[c].page, proc[c].path, proc[c].fetched)
      BY <1>1, <1>6, CommandGoes
    <2> QED BY <1>3, <2>1, <2>2
  <1>7. ASSUME NEW page \in proc[c].todo, Inspect(c, page) \/ RefusePage(c, page)
        PROVE  FetchSound(c)'
    BY <1>1, <1>4, <1>7, CommandGoes
  <1>8. CASE Replace(c)
    <2>1. Goes(c, "replaced", proc[c].todo, proc[c].page, proc[c].path, proc[c].fetched)
      BY <1>1, <1>8, CommandGoes
    <2>2. InHand(c)
      BY <1>8 DEF Replace, At, InHand
    <2>3. HasWorkspace(db', proc[c].workspace) =>
            files'[proc[c].path] = Content(db', proc[c].page.resource)
      BY <1>1, <1>2, <1>8, <2>2, PageInHand, ReplaceWrites, ContentKept DEF Kept, BaseInv, TypeOK
    <2> QED BY <1>1, <2>1, <2>3 DEF FetchSound, Goes
  <1>9. CASE RegisterFails(c)
    <2>1. At(c, "replaced") /\ UNCHANGED <<db, issued, files>>
      BY <1>9 DEF RegisterFails
    <2>2. ~HasWorkspace(db, proc[c].workspace)
      BY <1>9, RegistrationAccepted DEF RegisterFails, Undisturbed
    <2>3. \/ Goes(c, "rollback", proc[c].todo, proc[c].page, proc[c].path, proc[c].fetched)
          \/ Goes(c, "listed", proc[c].todo \ {proc[c].page}, NULL, NULL, proc[c].fetched)
      BY <1>1, <1>9, CommandGoes
    <2> QED BY <1>1, <1>4, <2>1, <2>2, <2>3 DEF FetchSound, Goes
  <1>10. ~GiveUp(c) /\ ~Finish(c)
    BY <1>1 DEF GiveUp, Finish, BaseInv, TypeOK
  <1> QED BY <1>5, <1>6, <1>7, <1>8, <1>9, <1>10 DEF Step, PageStep

LEMMA ConcurrentCommand ==
    ASSUME ConcurrentInv, OwnDirectory, Undisturbed, NEW c \in Procs, proc[c] # NULL, Step(c)
    PROVE  ConcurrentInv'
  <1>1. BaseInv' /\ SitesStay' /\ \A l \in db'.locations : LocationSound(l)'
    BY BaseCommand, CommandKeepsSites, CommandKeepsLocations DEF ConcurrentInv
  <1>2. ASSUME NEW d \in Procs, proc'[d] # NULL
        PROVE  FetchSound(d)'
    <2>1. CASE d = c
      BY <1>2, <2>1, CommandKeepsFetch
    <2>2. CASE d # c
      <3>1. Kept /\ BaseInv
        BY CommandTables DEF ConcurrentInv
      <3>2. proc'[d] = proc[d]
        BY <2>2, <3>1, CommandMoves
      <3> QED BY <1>2, <2>2, <3>1, <3>2, FetchesKeepFiles, FetchStaysSound
    <2> QED BY <2>1, <2>2
  <1> QED BY <1>1, <1>2 DEF ConcurrentInv

(* Nothing but commands that end, and workspaces that come and go.         *)
LEMMA ConcurrentRests ==
    ASSUME ConcurrentInv, BaseInv', Kept, UNCHANGED <<files, site>>,
           db'.memberships \subseteq db.memberships, db'.locations \subseteq db.locations,
           \A d \in Procs : proc'[d] = proc[d] \/ proc'[d] = NULL
    PROVE  ConcurrentInv'
  <1>1. /\ BaseInv /\ db \in Database /\ Consistent(db) /\ SitesStay /\ RegistryInv'
    BY DEF ConcurrentInv, BaseInv, RegistryInv, RegistryTypeOK, TablesConsistent
  <1>2. SitesStay'
    <2>1. \A m \in db'.memberships : m.resource \in ResourceIds /\ HasResource(db, m.resource)
      BY <1>1 DEF Database, MembershipRow, Consistent, References
    <2> QED BY <1>1, <2>1 DEF SitesStay, Kept
  <1>3. ASSUME NEW l \in db'.locations
        PROVE  LocationSound(l)'
    BY <1>1, LocationStaysSound
  <1>4. ASSUME NEW d \in Procs, proc'[d] # NULL
        PROVE  FetchSound(d)'
    BY <1>4, FetchStaysSound
  <1> QED BY <1>2, <1>3, <1>4 DEF ConcurrentInv

LEMMA ConcurrentEnvironment ==
    ASSUME ConcurrentInv, Undisturbed, Environment
    PROVE  ConcurrentInv'
  <1>1. BaseInv /\ BaseInv'
    BY BaseEnvironment DEF ConcurrentInv
  <1>2. ASSUME NEW c \in Procs, Crash(c)
        PROVE  ConcurrentInv'
    <2>1. \A d \in Procs : proc'[d] = proc[d] \/ proc'[d] = NULL
      BY <1>1, <1>2 DEF BaseInv, TypeOK, Crash
    <2> QED BY <1>1, <1>2, <2>1, KeptWhenUnchanged, ConcurrentRests DEF Crash
  <1>3. CASE OtherCommands
    BY <1>1, <1>3, WorkspaceTables, ConcurrentRests DEF OtherCommands
  <1>4. CASE EditSite
    BY <1>1, <1>4, KeptWhenUnchanged, ConcurrentRests DEF EditSite
  <1> QED BY <1>2, <1>3, <1>4 DEF Environment, SwitchSite, EditFiles, Undisturbed

LEMMA ConcurrentStarts ==
    ASSUME ConcurrentInv, NEW c \in Procs, NEW w \in WorkspaceIds, Resolve(c, w)
    PROVE  ConcurrentInv'
  <1>1. BaseInv /\ BaseInv' /\ Kept
    BY StartsSound, KeptWhenUnchanged DEF ConcurrentInv, Resolve
  <1>2. UNCHANGED <<db, files, site>>
    BY DEF Resolve
  <1>3. SitesStay'
    BY <1>1, <1>2, StartsSound DEF ConcurrentInv, SitesStay
  <1>4. ASSUME NEW l \in db'.locations
        PROVE  LocationSound(l)'
    BY <1>1, <1>2, LocationStaysSound DEF BaseInv
  <1>5. ASSUME NEW d \in Procs, proc'[d] # NULL
        PROVE  FetchSound(d)'
    <2>1. CASE d = c
      BY <1>1, <2>1, StartsSound DEF FetchSound
    <2>2. CASE d # c
      BY <1>1, <1>2, <1>5, <2>2, StartsSound, FetchStaysSound
    <2> QED BY <2>1, <2>2
  <1> QED BY <1>1, <1>3, <1>4, <1>5 DEF ConcurrentInv

LEMMA ConcurrentStep ==
    ASSUME ConcurrentInv, OwnDirectory, Undisturbed, [Next]_wiki
    PROVE  ConcurrentInv'
  <1>1. CASE UNCHANGED wiki
    <2>1. BaseInv /\ BaseInv'
      BY BaseStep DEF ConcurrentInv
    <2> QED BY <1>1, <2>1, KeptWhenUnchanged, ConcurrentRests DEF wiki
  <1>2. CASE Next
    BY <1>2, ConcurrentCommand, ConcurrentStarts, ConcurrentEnvironment DEF Next
  <1> QED BY <1>1, <1>2

(* Every location names a file that holds its page, and what a command     *)
(* has in hand fits, while others fetch, die or lose their workspace.      *)
THEOREM ConcurrentInvInductive ==
    ASSUME Undisturbed
    PROVE  (Spec /\ []OwnDirectory) => []ConcurrentInv
  <1>1. ConcurrentInv /\ OwnDirectory /\ [Next]_wiki => ConcurrentInv'
    BY ConcurrentStep
  <1> QED BY ConcurrentInit, <1>1, PTL DEF Spec

(* However many commands run at a time, die or find their workspace        *)
(* removed: while no other workspace has the directory in which a command  *)
(* works, the file of every registered location stays in place and holds   *)
(* the page that the location names.                                       *)
THEOREM RegisteredFilesStay ==
    ASSUME Undisturbed
    PROVE  (Spec /\ []OwnDirectory) => []RegisteredFilesIntact
  <1>1. ConcurrentInv => RegisteredFilesIntact
    <2> SUFFICES ASSUME ConcurrentInv PROVE RegisteredFilesIntact
      OBVIOUS
    <2>1. TypeOK /\ db \in Database /\ Consistent(db) /\ TablesOfPages
      BY DEF ConcurrentInv, BaseInv, RegistryInv, RegistryTypeOK, TablesConsistent
    <2>2. ASSUME NEW l \in db.locations
          PROVE  Holds(l)
      <3>1. /\ files[l.path] = Content(db, l.resource)
            /\ l.resource \in ResourceIds /\ HasResource(db, l.resource)
        BY <2>1 DEF ConcurrentInv, LocationSound, Database, LocationRow, Consistent, References
      <3>2. Content(db, l.resource) \in Generated
        <4>1. db.resources[l.resource] \in ResourceRow /\ db.resources[l.resource].provider # NULL
              /\ db.resources[l.resource].source # NULL
          BY <2>1, <3>1 DEF Database, HasResource, TablesOfPages, Consistent, IdentityComplete
        <4> QED BY <3>1, <4>1 DEF Content, Generated, ResourceRow
      <3> QED BY <3>1, <3>2, AbsenceAssumption DEF Holds, IsGenerated, Content
    <2> QED BY <2>1, <2>2 DEF RegisteredFilesIntact
  <1> QED BY <1>1, ConcurrentInvInductive, PTL

(* So does the content: it comes from the site of the resource, as long as *)
(* the configuration names one site.                                       *)
THEOREM ContentStaysOnSite ==
    ASSUME Undisturbed
    PROVE  (Spec /\ []OwnDirectory) => []ContentFromOwnSite
  <1>1. ConcurrentInv => ContentFromOwnSite
    <2> SUFFICES ASSUME ConcurrentInv, NEW l \in db.locations
                 PROVE  files[l.path].source = db.resources[l.resource].source
      BY DEF ContentFromOwnSite
    <2>1. files[l.path] = Content(db, l.resource)
      BY DEF ConcurrentInv, LocationSound
    <2> QED BY <2>1 DEF Content
  <1> QED BY <1>1, ConcurrentInvInductive, PTL

(* A rollback removes only a file that no location names, however many     *)
(* commands fetch the same page.                                           *)
THEOREM RollbackSpares ==
    ASSUME Undisturbed
    PROVE  (Spec /\ []OwnDirectory) => RollbackSparesRegistered
  <1>1. ASSUME ConcurrentInv, OwnDirectory, [Next]_wiki, NEW p \in Paths,
               IsGenerated(p), files'[p] = NULL, proc' # proc
        PROVE  ~Registered(p)
    <2>1. ASSUME NEW c \in Procs, proc[c] # NULL, Step(c), Registered(p)
          PROVE  FALSE
      <3>1. PICK l \in db.locations : l.path = p
        BY <2>1 DEF Registered
      <3>2. files'[p] = files[p]
        BY <1>1, <2>1, <3>1, LocationsKeepFiles
      <3> QED BY <1>1, <3>2 DEF IsGenerated
    <2>2. files'[p] # files[p]
      BY <1>1 DEF IsGenerated
    <2> QED BY <1>1, <2>1, <2>2 DEF Next, wiki, Environment, Resolve, Crash, OtherCommands,
                                  SwitchSite, EditSite, EditFiles
  <1>2. ConcurrentInv /\ OwnDirectory /\ [Next]_wiki =>
          [ \A p \in Paths :
              (IsGenerated(p) /\ files'[p] = NULL /\ proc' # proc) => ~Registered(p) ]_wiki
    BY <1>1
  <1> QED BY <1>2, ConcurrentInvInductive, PTL DEF Spec, RollbackSparesRegistered

-----------------------------------------------------------------------------
(* What is reported. *)

(* A page is reported only by the step that registers it.                  *)
LEMMA OnlyRegisterReports ==
    ASSUME BaseInv, Next, NEW c \in Procs, proc[c] # NULL, proc'[c] # NULL,
           NEW r \in proc'[c].fetched \ proc[c].fetched
    PROVE  Register(c) /\ r = proc[c].page.resource
  <1>1. ASSUME NEW d \in Procs, NEW w \in WorkspaceIds, Resolve(d, w)
        PROVE  FALSE
    BY <1>1, StartsSound DEF Resolve
  <1>2. ASSUME NEW d \in Procs, proc[d] # NULL, Step(d)
        PROVE  Register(c) /\ r = proc[c].page.resource
    BY <1>2, CommandMoves
  <1>3. CASE Environment
    BY <1>3 DEF Environment, Crash, OtherCommands, SwitchSite, EditSite, EditFiles, BaseInv, TypeOK
  <1> QED BY <1>1, <1>2, <1>3 DEF Next

(* A registration makes the list show the page as fetched, when the file   *)
(* it registers holds the page.                                            *)
LEMMA RegisterShows ==
    ASSUME BaseInv, NEW c \in Procs, Register(c), NEW s \in Sources,
           NEW r, r = proc[c].page.resource,
           files[proc[c].path] = [resource |-> r, source |-> s, provider |-> proc[c].page.key]
    PROVE  \E page \in Listed(proc[c].workspace)' :
              /\ page.resource = r /\ PageState(page)' = "fetched"
              /\ Holds([resource |-> r, path |-> page.path])'
  <1> DEFINE w == proc[c].workspace
             p == proc[c].path
  <1>1. /\ proc[c] # NULL /\ InHand(c) /\ proc[c] \in Command
        /\ files' = files /\ db' \in Database
    BY RegisterTables DEF Register, At, InHand, RegistryInv, RegistryTypeOK
  <1>2. /\ db'.resources = db.resources /\ db'.memberships = db.memberships
        /\ db'.workspaces = db.workspaces
        /\ HasWorkspace(db, w) /\ HasResource(db, r)
        /\ db'.locations = OtherLocations(db, w, r, FileType) \cup
              {[workspace |-> w, resource |-> r, type |-> FileType, path |-> p]}
    BY RegisterTables DEF LocationAccepted
  <1>3. /\ r \in ResourceIds /\ p \in Paths /\ proc[c].page.key \in ProviderIds
        /\ proc[c].page.key = db.resources[r].provider
        /\ Member(w, r) \in db.memberships
    BY <1>1, <1>2, PageInHand
  <1>4. proc'[c].workspace = w
    BY <1>1, CommandGoes DEF Goes
  <1>5. LocationPath(db', w, r, FileType) = p
    <2> DEFINE new == [workspace |-> w, resource |-> r, type |-> FileType, path |-> p]
    <2>1. /\ new \in db'.locations /\ new.workspace = w /\ new.resource = r
          /\ new.type = FileType /\ new.path = p
      BY <1>2
    <2>2. \A l \in db'.locations :
            (l.workspace = w /\ l.resource = r /\ l.type = FileType) => l.path = p
      BY <1>2 DEF OtherLocations
    <2> HIDE DEF new
    <2> QED BY <1>1, <2>1, <2>2, LocationPathFacts
  <1>6. r \in WorkspaceResources(db', w, PageType)
    BY <1>2, <1>3 DEF WorkspaceResources, HasResource, BaseInv, TablesOfPages
  <1>7. PICK page \in Listed(proc[c].workspace)' : page.resource = r /\ page.path = p
    <2> DEFINE q == [resource |-> r, key |-> db'.resources[r].provider,
                     name |-> db'.resources[r].name, path |-> LocationPath(db', w, r, FileType)]
    <2>1. q \in Listed(proc[c].workspace)'
      BY <1>4, <1>6 DEF Listed
    <2> QED BY <1>5, <2>1
  <1>8. files[p] \in Generated /\ files[p].resource = r /\ files[p].provider = db.resources[r].provider
    BY <1>3 DEF Generated
  <1>9. files[p] \notin {NULL, UserFile, OtherFile} /\ p # NULL
    BY <1>3, <1>8, AbsenceAssumption
  <1>10. PageState(page)' = "fetched"
    BY <1>1, <1>7, <1>9 DEF PageState
  <1>11. Holds([resource |-> r, path |-> page.path])'
    BY <1>1, <1>2, <1>7, <1>8, <1>9 DEF Holds, IsGenerated
  <1> QED BY <1>7, <1>10, <1>11

(* So however many commands run: what one of them reports as fetched is    *)
(* listed as fetched and holds the page, in the state that reports it.     *)
THEOREM ReportsHold ==
    ASSUME Undisturbed
    PROVE  (Spec /\ []OwnDirectory) => ReportedPagesRegistered
  <1>1. ASSUME ConcurrentInv, Next, NEW c \in Procs, proc[c] # NULL, proc'[c] # NULL,
               NEW r \in proc'[c].fetched \ proc[c].fetched
        PROVE  \E page \in Listed(proc[c].workspace)' :
                  /\ page.resource = r /\ PageState(page)' = "fetched"
                  /\ Holds([resource |-> r, path |-> page.path])'
    <2>1. BaseInv /\ FetchSound(c) /\ db \in Database /\ Consistent(db)
      BY <1>1 DEF ConcurrentInv, BaseInv, RegistryInv, RegistryTypeOK, TablesConsistent
    <2>2. Register(c) /\ r = proc[c].page.resource
      BY <1>1, <2>1, OnlyRegisterReports
    <2>3. proc[c].pc = "replaced" /\ InHand(c) /\ HasWorkspace(db, proc[c].workspace)
      BY <2>1, <2>2, RegisterTables DEF Register, At, InHand, LocationAccepted
    <2>4. /\ r \in ResourceIds /\ HasResource(db, r)
          /\ proc[c].page.key = db.resources[r].provider
          /\ files[proc[c].path] = Content(db, r)
      BY <1>1, <2>1, <2>2, <2>3, PageInHand DEF FetchSound
    <2>5. db.resources[r].source \in Sources
      BY <2>1, <2>4 DEF Database, HasResource, ResourceRow, BaseInv, TablesOfPages, Consistent,
                        IdentityComplete
    <2>6. files[proc[c].path] = [resource |-> r, source |-> db.resources[r].source,
                                 provider |-> proc[c].page.key]
      BY <2>4 DEF Content
    <2> QED BY <2>1, <2>2, <2>5, <2>6, RegisterShows
  <1>2. ConcurrentInv /\ [Next]_wiki =>
          [ \A c \in Procs : (proc[c] # NULL /\ proc'[c] # NULL) =>
              \A r \in proc'[c].fetched \ proc[c].fetched :
                 \E page \in Listed(proc[c].workspace)' :
                    /\ page.resource = r /\ PageState(page)' = "fetched"
                    /\ Holds([resource |-> r, path |-> page.path])' ]_wiki
    BY <1>1
  <1> QED BY <1>2, ConcurrentInvInductive, PTL DEF Spec, ReportedPagesRegistered

-----------------------------------------------------------------------------
(* One command at a time. *)

(* The command knows where a page of its list is.                          *)
PlaceKnown(c, page) ==
    /\ \A l \in db.locations :
          (l.workspace = proc[c].workspace /\ l.resource = page.resource) => l.path = page.path
    /\ (page.path # NULL /\ HasWorkspace(db, proc[c].workspace)) =>
          \E l \in db.locations : /\ l.workspace = proc[c].workspace
                                  /\ l.resource = page.resource /\ l.path = page.path

AloneSound(c) ==
    /\ \A page \in proc[c].todo : PlaceKnown(c, page)
    /\ \A page, other \in proc[c].todo : page.resource = other.resource => page = other
    /\ (proc[c].pc \in {"inspected", "staged"} /\ IsFirstFetch(proc[c].page)) =>
          files[proc[c].path] = NULL
    /\ proc[c].pc = "staged" => files[proc[c].path] # OtherFile
    /\ proc[c].pc \in {"replaced", "rollback"} =>
          files[proc[c].path] = [resource |-> proc[c].page.resource, source |-> proc[c].source,
                                 provider |-> proc[c].page.key]
    /\ proc[c].pc = "rollback" => IsFirstFetch(proc[c].page)

AloneInv ==
    /\ BaseInv
    /\ \A c \in Procs : proc[c] # NULL => AloneSound(c)

Alone == \A c, d \in Procs : c = d

(* Of the locations, only those of a removed workspace go.                 *)
LocationsStay ==
    /\ db'.locations \subseteq db.locations
    /\ \A l \in db.locations : HasWorkspace(db', l.workspace) => l \in db'.locations

LEMMA PlaceStays ==
    ASSUME BaseInv, Kept, LocationsStay, NEW c \in Procs, proc[c] # NULL, proc'[c] # NULL,
           proc'[c].workspace = proc[c].workspace, NEW page, PlaceKnown(c, page)
    PROVE  PlaceKnown(c, page)'
  <1>1. proc[c].workspace \in issued \cap WorkspaceIds
    BY DEF BaseInv, TypeOK, CommandSound, Command
  <1>2. HasWorkspace(db', proc[c].workspace) => HasWorkspace(db, proc[c].workspace)
    BY <1>1 DEF Kept
  <1> QED BY <1>2 DEF PlaceKnown, LocationsStay

LEMMA AloneInit == Init => AloneInv
  BY BaseInit DEF Init, AloneInv

(* Nothing happens to the files or to the command, but that it may end.    *)
LEMMA AloneRests ==
    ASSUME AloneInv, BaseInv', Kept, LocationsStay, files' = files,
           \A d \in Procs : proc'[d] = proc[d] \/ proc'[d] = NULL
    PROVE  AloneInv'
  <1>1. ASSUME NEW d \in Procs, proc'[d] # NULL
        PROVE  AloneSound(d)'
    <2>1. proc[d] # NULL /\ proc'[d] = proc[d] /\ AloneSound(d) /\ BaseInv
      BY <1>1 DEF AloneInv
    <2>2. \A page \in proc'[d].todo : PlaceKnown(d, page)'
      BY <2>1, PlaceStays DEF AloneSound
    <2> QED BY <2>1, <2>2 DEF AloneSound, IsFirstFetch
  <1> QED BY <1>1 DEF AloneInv

LEMMA AloneEnvironment ==
    ASSUME AloneInv, Environment
    PROVE  AloneInv'
  <1>1. BaseInv /\ BaseInv'
    BY BaseEnvironment DEF AloneInv
  <1>2. ASSUME NEW c \in Procs, Crash(c)
        PROVE  AloneInv'
    <2>1. \A d \in Procs : proc'[d] = proc[d] \/ proc'[d] = NULL
      BY <1>1, <1>2 DEF BaseInv, TypeOK, Crash
    <2> QED BY <1>1, <1>2, <2>1, KeptWhenUnchanged, AloneRests DEF Crash, LocationsStay
  <1>3. CASE OtherCommands
    BY <1>1, <1>3, WorkspaceTables, AloneRests DEF OtherCommands, LocationsStay
  <1>4. CASE SwitchSite \/ EditSite
    BY <1>1, <1>4, KeptWhenUnchanged, AloneRests DEF SwitchSite, EditSite, LocationsStay
  <1>5. CASE EditFiles
    BY <1>1, <1>5 DEF EditFiles, AloneInv
  <1> QED BY <1>2, <1>3, <1>4, <1>5 DEF Environment

(* A listing knows where its pages are, and has each page once.            *)
LEMMA ListedPlaces ==
    ASSUME BaseInv, NEW c \in Procs, proc[c] # NULL, NEW page \in Listed(proc[c].workspace)
    PROVE  /\ PlaceKnown(c, page)
           /\ \A other \in Listed(proc[c].workspace) :
                 page.resource = other.resource => page = other
  <1>1. /\ db \in Database /\ Consistent(db) /\ TablesOfPages
        /\ proc[c].workspace \in WorkspaceIds
    BY DEF BaseInv, RegistryInv, RegistryTypeOK, TablesConsistent, TypeOK, Command
  <1>2. page.path = LocationPath(db, proc[c].workspace, page.resource, FileType)
    BY <1>1, ListedPages
  <1>3. \A other \in Listed(proc[c].workspace) : page.resource = other.resource => page = other
    BY DEF Listed
  <1>4. ASSUME NEW l \in db.locations, l.workspace = proc[c].workspace, l.resource = page.resource
        PROVE  l.path = page.path
    <2>1. l.type = FileType
      BY <1>1 DEF TablesOfPages
    <2>2. PICK k \in db.locations : /\ k.workspace = proc[c].workspace
                                    /\ k.resource = page.resource /\ k.type = FileType
                                    /\ k.path = page.path
      BY <1>1, <1>2, <1>4, <2>1, LocationPathFacts
    <2>3. l = k
      BY <1>1, <1>4, <2>1, <2>2 DEF Consistent, LocationsUnique
    <2> QED BY <2>2, <2>3
  <1>5. page.path # NULL =>
          \E l \in db.locations : /\ l.workspace = proc[c].workspace
                                  /\ l.resource = page.resource /\ l.path = page.path
    BY <1>1, <1>2, LocationPathFacts
  <1> QED BY <1>3, <1>4, <1>5 DEF PlaceKnown

LEMMA CommandKeepsLocationRows ==
    ASSUME BaseInv, NEW c \in Procs, proc[c] # NULL, Step(c), ~Register(c)
    PROVE  Kept /\ LocationsStay
  BY CommandTables DEF LocationsStay

(* A page of the list is not touched by the registration of another.       *)
LEMMA RegisterKeepsPlaces ==
    ASSUME AloneInv, NEW c \in Procs, Register(c), NEW q \in proc[c].todo \ {proc[c].page}
    PROVE  PlaceKnown(c, q)'
  <1>1. /\ BaseInv /\ AloneSound(c) /\ proc[c] # NULL /\ InHand(c)
    BY DEF AloneInv, Register, At, InHand
  <1>2. q.resource # proc[c].page.resource
    BY <1>1, PageInHand DEF AloneSound
  <1>3. /\ db'.workspaces = db.workspaces
        /\ db'.locations =
              OtherLocations(db, proc[c].workspace, proc[c].page.resource, FileType) \cup
                {[workspace |-> proc[c].workspace, resource |-> proc[c].page.resource,
                  type |-> FileType, path |-> proc[c].path]}
    BY <1>1, RegisterTables
  <1>4. proc'[c].workspace = proc[c].workspace
    BY <1>1, CommandGoes DEF Goes
  <1>5. \A l : l.resource = q.resource => (l \in db'.locations <=> l \in db.locations)
    BY <1>2, <1>3 DEF OtherLocations
  <1>6. PlaceKnown(c, q)
    BY <1>1 DEF AloneSound
  <1> QED BY <1>3, <1>4, <1>5, <1>6 DEF PlaceKnown, HasWorkspace
(* A command that has no file in hand, or keeps the one it has.            *)
LEMMA AloneCommand ==
    ASSUME AloneInv, Alone, NEW c \in Procs, proc[c] # NULL, Step(c), proc'[c] # NULL
    PROVE  AloneSound(c)'
  <1>1. /\ BaseInv /\ AloneSound(c) /\ CommandSound(c) /\ Kept
        /\ files \in [Paths -> Files]
    BY CommandTables DEF AloneInv, BaseInv, TypeOK
  <1>2. proc'[c].workspace = proc[c].workspace
    BY <1>1, CommandMoves
  <1>3. ~Register(c) => \A q \in proc[c].todo : PlaceKnown(c, q)'
    BY <1>1, <1>2, CommandKeepsLocationRows, PlaceStays DEF AloneSound
  (* The steps after which no page is in hand.                             *)
  <1>4. ASSUME NEW pc \in {"discovered", "stored", "listed"}, NEW todo, NEW page, NEW path,
               NEW fetched, Goes(c, pc, todo, page, path, fetched),
               \A q \in todo : PlaceKnown(c, q)',
               \A q, other \in todo : q.resource = other.resource => q = other
        PROVE  AloneSound(c)'
    BY <1>4 DEF Goes, AloneSound
  <1>5. ASSUME NEW pc \in {"discovered", "stored", "listed"}, NEW todo \in SUBSET proc[c].todo,
               NEW page, NEW path, NEW fetched, Goes(c, pc, todo, page, path, fetched), ~Register(c)
        PROVE  AloneSound(c)'
    BY <1>1, <1>3, <1>4, <1>5 DEF AloneSound
  <1>6. CASE Discover(c) \/ StorePages(c) \/ FailPage(c) \/ Rollback(c)
    <2>1. ~Register(c)
      BY <1>6 DEF Discover, StorePages, FailPage, Rollback, Register, At
    <2> QED BY <1>1, <1>5, <1>6, <2>1, CommandGoes
  <1>7. CASE Register(c)
    <2>1. Goes(c, "listed", proc[c].todo \ {proc[c].page}, NULL, NULL,
               proc[c].fetched \cup {proc[c].page.resource})
      BY <1>1, <1>7, CommandGoes
    <2>2. \A q \in proc[c].todo \ {proc[c].page} : PlaceKnown(c, q)'
      BY <1>7, RegisterKeepsPlaces
    <2> QED BY <1>1, <1>4, <2>1, <2>2 DEF AloneSound
  <1>8. ASSUME NEW pages \in SUBSET Listed(proc[c].workspace), SelectPages(c, pages)
        PROVE  AloneSound(c)'
    <2>1. /\ ~Register(c)
          /\ Goes(c, "listed", pages, proc[c].page, proc[c].path, proc[c].fetched)
      BY <1>1, <1>8, CommandGoes DEF SelectPages, Register, At
    <2>2. \A q \in pages : PlaceKnown(c, q)'
      BY <1>1, <1>2, <2>1, ListedPlaces, CommandKeepsLocationRows, PlaceStays
    <2>3. \A q, other \in pages : q.resource = other.resource => q = other
      BY <1>1, ListedPlaces
    <2> QED BY <1>4, <2>1, <2>2, <2>3
  <1>9. ASSUME NEW page \in proc[c].todo, RefusePage(c, page)
        PROVE  AloneSound(c)'
    <2>1. ~Register(c)
      BY <1>9 DEF RefusePage, Register, At
    <2> QED BY <1>1, <1>5, <1>9, <2>1, CommandGoes
  (* The steps that keep the list.                                         *)
  <1>10. ASSUME NEW pc, NEW page, NEW path, Goes(c, pc, proc[c].todo, page, path, proc[c].fetched),
                ~Register(c),
                (pc \in {"inspected", "staged"} /\ IsFirstFetch(page)) => files'[path] = NULL,
                pc = "staged" => files'[path] # OtherFile,
                pc \in {"replaced", "rollback"} =>
                   files'[path] = [resource |-> page.resource, source |-> proc[c].source,
                                   provider |-> page.key],
                pc = "rollback" => IsFirstFetch(page)
         PROVE  AloneSound(c)'
    BY <1>1, <1>3, <1>10 DEF Goes, AloneSound, IsFirstFetch
  <1>11. ASSUME NEW page \in proc[c].todo, Inspect(c, page)
         PROVE  AloneSound(c)'
    <2>1. ~Register(c) /\ files' = files
      BY <1>11 DEF Inspect, Register, At
    <2>2. PICK path \in Paths :
            /\ Goes(c, "inspected", proc[c].todo, page, path, proc[c].fetched)
            /\ IsFirstFetch(page) => files[path] = NULL
      BY <1>1, <1>11, CommandGoes
    <2>3. IsFirstFetch(page) => files'[path] = NULL
      BY <2>1, <2>2
    <2>4. "inspected" \notin {"staged", "replaced", "rollback"}
      OBVIOUS
    <2> QED BY <1>10, <2>1, <2>2, <2>3, <2>4
  <1>12. CASE Stage(c)
    <2>1. /\ ~Register(c) /\ files' = files /\ proc[c].pc = "inspected"
          /\ files[proc[c].path] # OtherFile
      BY <1>12 DEF Stage, Register, At
    <2>2. Goes(c, "staged", proc[c].todo, proc[c].page, proc[c].path, proc[c].fetched)
      BY <1>1, <1>12, CommandGoes
    <2>3. /\ IsFirstFetch(proc[c].page) => files'[proc[c].path] = NULL
          /\ files'[proc[c].path] # OtherFile
      BY <1>1, <2>1 DEF AloneSound
    <2>4. "staged" \notin {"replaced", "rollback"} /\ "staged" # "rollback"
      OBVIOUS
    <2> QED BY <1>10, <2>1, <2>2, <2>3, <2>4
  <1>13. CASE Replace(c)
    <2>1. ~Register(c) /\ InHand(c)
      BY <1>13 DEF Replace, Register, At, InHand
    <2>2. Goes(c, "replaced", proc[c].todo, proc[c].page, proc[c].path, proc[c].fetched)
      BY <1>1, <1>13, CommandGoes
    <2>3. files'[proc[c].path] = [resource |-> proc[c].page.resource, source |-> proc[c].source,
                                  provider |-> proc[c].page.key]
      BY <1>1, <1>13, <2>1, PageInHand DEF Replace
    <2> QED BY <1>10, <2>1, <2>2, <2>3
  <1>14. CASE RegisterFails(c)
    <2>1. proc[c].pc = "replaced" /\ files' = files
      BY <1>14 DEF RegisterFails, At
    <2>2. files[proc[c].path] = [resource |-> proc[c].page.resource, source |-> proc[c].source,
                                 provider |-> proc[c].page.key]
      BY <1>1, <2>1 DEF AloneSound
    <2>3. \/ /\ IsFirstFetch(proc[c].page)
             /\ Goes(c, "rollback", proc[c].todo, proc[c].page, proc[c].path, proc[c].fetched)
          \/ Goes(c, "listed", proc[c].todo \ {proc[c].page}, NULL, NULL, proc[c].fetched)
      BY <1>1, <1>14, CommandGoes
    <2>4. CASE Register(c)
      BY <1>7, <2>4
    <2>5. CASE ~Register(c)
      BY <1>5, <1>10, <2>1, <2>2, <2>3, <2>5
    <2> QED BY <2>4, <2>5
  <1>15. ~GiveUp(c) /\ ~Finish(c)
    BY <1>1 DEF GiveUp, Finish, BaseInv, TypeOK
  <1> QED
    BY <1>6, <1>7, <1>8, <1>9, <1>11, <1>12, <1>13, <1>14, <1>15 DEF Step, PageStep

LEMMA AloneStep ==
    ASSUME AloneInv, Alone, [Next]_wiki
    PROVE  AloneInv'
  <1>1. BaseInv /\ BaseInv'
    BY BaseStep DEF AloneInv
  <1>2. CASE UNCHANGED wiki
    BY <1>1, <1>2, KeptWhenUnchanged, AloneRests DEF wiki, LocationsStay
  <1>3. ASSUME NEW c \in Procs, proc[c] # NULL, Step(c)
        PROVE  AloneInv'
    BY <1>1, <1>3, AloneCommand DEF AloneInv, Alone
  <1>4. ASSUME NEW c \in Procs, NEW w \in WorkspaceIds, Resolve(c, w)
        PROVE  AloneInv'
    BY <1>1, <1>4, StartsSound DEF AloneInv, AloneSound, Alone
  <1> QED BY <1>2, <1>3, <1>4, AloneEnvironment DEF Next

(* One command at a time finds every location and file as it read them,    *)
(* even when sites are switched, statements fail and users edit between    *)
(* commands.                                                               *)
THEOREM AloneInvInductive ==
    ASSUME Alone
    PROVE  Spec => []AloneInv
  <1>1. AloneInv /\ [Next]_wiki => AloneInv'
    BY AloneStep
  <1> QED BY AloneInit, <1>1, PTL DEF Spec

(* One command at a time reports a page only when the list shows it, even  *)
(* while the configuration changes its site between commands, the user     *)
(* edits the files or the database fails.                                  *)
THEOREM ReportsHoldAlone ==
    ASSUME Alone
    PROVE  Spec => ReportedPagesRegistered
  <1>1. ASSUME AloneInv, Next, NEW c \in Procs, proc[c] # NULL, proc'[c] # NULL,
               NEW r \in proc'[c].fetched \ proc[c].fetched
        PROVE  \E page \in Listed(proc[c].workspace)' :
                  /\ page.resource = r /\ PageState(page)' = "fetched"
                  /\ Holds([resource |-> r, path |-> page.path])'
    <2>1. BaseInv /\ AloneSound(c) /\ proc[c].source \in Sources
      BY <1>1 DEF AloneInv, BaseInv, TypeOK, Command
    <2>2. Register(c) /\ r = proc[c].page.resource
      BY <1>1, <2>1, OnlyRegisterReports
    <2>3. files[proc[c].path] = [resource |-> r, source |-> proc[c].source,
                                 provider |-> proc[c].page.key]
      BY <2>1, <2>2 DEF AloneSound, Register, At
    <2> QED BY ZenonT(60), <2>1, <2>2, <2>3, RegisterShows
  <1>2. AloneInv /\ [Next]_wiki =>
          [ \A c \in Procs : (proc[c] # NULL /\ proc'[c] # NULL) =>
              \A r \in proc'[c].fetched \ proc[c].fetched :
                 \E page \in Listed(proc[c].workspace)' :
                    /\ page.resource = r /\ PageState(page)' = "fetched"
                    /\ Holds([resource |-> r, path |-> page.path])' ]_wiki
    BY <1>1
  <1> QED BY <1>2, AloneInvInductive, PTL DEF Spec, ReportedPagesRegistered

(* Only the end of a fetch concerns files and locations.                   *)
LEMMA QuietStep ==
    ASSUME BaseInv, Alone, NEW c \in Procs, proc[c] # NULL, Step(c),
           ~Replace(c), ~Register(c), ~RegisterFails(c), ~Rollback(c)
    PROVE  /\ files' = files /\ db'.locations = db.locations
           /\ \A p \in Paths : ~Pending(p) /\ ~Pending(p)'
  <1>1. files' = files /\ db'.locations = db.locations
    BY SMTT(30), CommandFiles, CommandTables
  <1>2. ~At(c, "replaced") /\ ~At(c, "rollback")
    BY DEF Step, PageStep, Discover, StorePages, SelectPages, GiveUp, Finish, Inspect, RefusePage,
           Stage, FailPage, At
  <1>3. proc'[c] = NULL \/ proc'[c].pc \notin {"replaced", "rollback"}
    <2>1. CASE proc' = [proc EXCEPT ![c] = NULL]
      BY <2>1 DEF BaseInv, TypeOK
    <2>2. CASE \E pc \in {"discovered", "stored", "listed", "inspected", "staged"} :
                 \E todo, page, path, fetched : Goes(c, pc, todo, page, path, fetched)
      BY <2>2 DEF Goes
    <2> QED BY <2>1, <2>2, CommandGoes DEF Step, PageStep, GiveUp, Finish
  <1> QED BY <1>1, <1>2, <1>3 DEF Alone, Pending, At

LEMMA PendingAlone ==
    ASSUME Alone, NEW c \in Procs, NEW p
    PROVE  Pending(p) <=> /\ At(c, "replaced") \/ At(c, "rollback")
                          /\ proc[c].path = p /\ IsFirstFetch(proc[c].page)
  BY DEF Alone, Pending

LEMMA RegisterKeepsOthers ==
    ASSUME AloneInv, NEW c \in Procs, Register(c), NEW l \in db.locations, l.path # proc[c].path
    PROVE  l \in db'.locations
  <1>1. BaseInv /\ AloneSound(c) /\ CommandSound(c) /\ proc[c] # NULL /\ InHand(c)
    BY DEF AloneInv, BaseInv, Register, At, InHand
  <1>2. CASE l.workspace = proc[c].workspace /\ l.resource = proc[c].page.resource
    <2>1. l.path = proc[c].page.path
      BY <1>1, <1>2, PageInHand DEF AloneSound, PlaceKnown
    <2>2. l.path \in Paths
      BY DEF AloneInv, BaseInv, TypeOK, RegistryTypeOK, Database, LocationRow
    <2> QED BY <1>1, <2>1, <2>2, AbsenceAssumption DEF CommandSound, IsFirstFetch
  <1>3. CASE ~(l.workspace = proc[c].workspace /\ l.resource = proc[c].page.resource)
    BY <1>1, <1>3, RegisterTables DEF OtherLocations
  <1> QED BY <1>2, <1>3

(* One command at a time leaves a file without a location only by dying,   *)
(* by failing to remove it, or by replacing one that had lost its own.     *)
THEOREM OrphansExplained ==
    ASSUME Alone
    PROVE  Spec => NoOrphans
  <1>1. ASSUME AloneInv, [Next]_wiki, proc' # proc, NEW p \in Paths, Orphan(p)', ~Orphan(p)
        PROVE  \E c \in Procs :
                  /\ proc[c] # NULL /\ proc[c].path = p
                  /\ At(c, "rollback") \/ proc'[c] = NULL \/ ~IsFirstFetch(proc[c].page)
    <2>1. BaseInv /\ files \in [Paths -> Files]
      BY <1>1 DEF AloneInv, BaseInv, TypeOK
    <2>2. ASSUME files'[p] = files[p], db'.locations = db.locations, ~Pending(p)
          PROVE  FALSE
      BY <1>1, <2>2 DEF Orphan, IsGenerated, Registered
    <2>3. ASSUME NEW c \in Procs, proc[c] # NULL, Step(c)
          PROVE  /\ proc[c].path = p
                 /\ At(c, "rollback") \/ proc'[c] = NULL \/ ~IsFirstFetch(proc[c].page)
      <3>1. AloneSound(c)
        BY <1>1, <2>3 DEF AloneInv
      <3>2. CASE ~Replace(c) /\ ~Register(c) /\ ~RegisterFails(c) /\ ~Rollback(c)
        BY <2>1, <2>2, <2>3, <3>2, QuietStep
      <3>3. CASE Replace(c)
        <4>1. /\ Goes(c, "replaced", proc[c].todo, proc[c].page, proc[c].path, proc[c].fetched)
              /\ db' = db /\ ~Pending(p)
          BY <2>1, <2>3, <3>3, CommandGoes, PendingAlone DEF Replace, At
        <4>2. proc[c].path = p
          BY <2>1, <2>2, <3>3, <4>1 DEF Replace
        <4>3. CASE IsFirstFetch(proc[c].page)
          <5>1. Pending(p)'
            BY <4>1, <4>2, <4>3, AbsenceAssumption DEF Pending, At, Goes, IsFirstFetch
          <5> QED BY <1>1, <5>1 DEF Orphan
        <4> QED BY <4>2, <4>3
      <3>4. CASE Register(c)
        <4>1. files' = files
          BY <3>4 DEF Register
        <4>2. [workspace |-> proc[c].workspace, resource |-> proc[c].page.resource,
               type |-> FileType, path |-> proc[c].path] \in db'.locations
          BY <2>1, <3>4, RegisterTables
        <4>3. proc[c].path # p
          BY <1>1, <4>2 DEF Orphan, Registered
        <4>4. Registered(p)
          BY <1>1, <4>1, <4>3, PendingAlone DEF Orphan, IsGenerated, Registered, Pending, Alone
        <4>5. Registered(p)'
          BY <1>1, <3>4, <4>3, <4>4, RegisterKeepsOthers DEF Registered
        <4> QED BY <1>1, <4>5 DEF Orphan
      <3>5. CASE RegisterFails(c)
        <4>1. files' = files /\ db' = db /\ At(c, "replaced")
          BY <3>5 DEF RegisterFails
        <4>2. Pending(p)
          BY <1>1, <2>2, <4>1
        <4>3. IsFirstFetch(proc[c].page) /\ proc[c].path = p
          BY <4>2, PendingAlone
        <4>4. Goes(c, "rollback", proc[c].todo, proc[c].page, proc[c].path, proc[c].fetched)
          BY <2>1, <2>3, <3>5, <4>3, CommandGoes
        <4>5. Pending(p)'
          BY <4>3, <4>4, AbsenceAssumption DEF Pending, At, Goes, IsFirstFetch
        <4> QED BY <1>1, <4>5 DEF Orphan
      <3>6. CASE Rollback(c)
        <4>1. At(c, "rollback") /\ db' = db
          BY <3>6 DEF Rollback
        <4>2. proc[c].path = p
          <5> SUFFICES ASSUME proc[c].path # p PROVE FALSE
            OBVIOUS
          <5>1. files'[p] = files[p] /\ ~Pending(p)
            BY <2>1, <3>6, PendingAlone DEF Rollback
          <5> QED BY <2>2, <4>1, <5>1
        <4> QED BY <4>1, <4>2
      <3> QED BY <3>2, <3>3, <3>4, <3>5, <3>6
    <2>4. ASSUME NEW c \in Procs, Crash(c)
          PROVE  proc[c] # NULL /\ proc[c].path = p /\ proc'[c] = NULL
      <3>1. proc[c] # NULL /\ proc'[c] = NULL /\ files' = files /\ db' = db
        BY <2>1, <2>4 DEF Crash, BaseInv, TypeOK
      <3>2. Pending(p)
        BY <2>2, <3>1
      <3> QED BY <3>1, <3>2, PendingAlone
    <2>5. ASSUME NEW c \in Procs, NEW w \in WorkspaceIds, Resolve(c, w)
          PROVE  FALSE
      <3>1. files' = files /\ db' = db /\ ~Pending(p)
        BY <2>5, PendingAlone DEF Resolve, At
      <3> QED BY <2>2, <3>1
    <2>6. CASE Next
      BY <1>1, <2>3, <2>4, <2>5, <2>6
         DEF Next, Environment, OtherCommands, SwitchSite, EditSite, EditFiles
    <2> QED BY <1>1, <2>6 DEF wiki
  <1>2. AloneInv /\ [Next]_wiki =>
          [ proc' # proc =>
              \A p \in Paths : Orphan(p)' =>
                 \/ Orphan(p)
                 \/ \E c \in Procs :
                       /\ proc[c] # NULL /\ proc[c].path = p
                       /\ At(c, "rollback") \/ proc'[c] = NULL \/ ~IsFirstFetch(proc[c].page) ]_wiki
    BY <1>1
  <1> QED BY <1>2, AloneInvInductive, PTL DEF Spec, NoOrphans
(* What the library shows of a state: a file counts from its registration. *)
Shown == [p \in Paths |-> IF Pending(p) THEN NULL ELSE files[p]]
Located == {l \in db.locations : l.type = FileType}
Running == \E c \in Procs : proc[c] # NULL

LEMMA LocatedAll == BaseInv => Located = db.locations
  BY DEF BaseInv, TablesOfPages, Located

(* The page in the hand of a command, as it is written.                    *)
Written(c) == [resource |-> proc[c].page.resource, source |-> proc[c].source,
               provider |-> proc[c].page.key]

LEMMA WrittenGenerated ==
    ASSUME BaseInv, NEW c \in Procs, proc[c] # NULL, InHand(c)
    PROVE  Written(c) \in Generated /\ Written(c).resource = proc[c].page.resource
  <1>1. proc[c].source \in Sources
    BY DEF BaseInv, TypeOK, Command
  <1> QED BY <1>1, PageInHand DEF Written, Generated

(* Without removals, a command keeps its workspace.                        *)
WorkspacesLive == \A c \in Procs : proc[c] # NULL => HasWorkspace(db, proc[c].workspace)

LEMMA WorkspacesStayLive ==
    ASSUME BaseInv, WorkspacesLive, "removals" \notin Events, [Next]_wiki
    PROVE  WorkspacesLive'
  <1>1. ASSUME NEW c \in Procs, proc[c] # NULL, Step(c)
        PROVE  WorkspacesLive'
    BY <1>1, CommandMoves, CommandTables DEF WorkspacesLive, HasWorkspace
  <1>2. ASSUME NEW c \in Procs, NEW w \in WorkspaceIds, Resolve(c, w)
        PROVE  WorkspacesLive'
    <2>1. db' = db
      BY <1>2 DEF Resolve
    <2> QED BY <1>2, <2>1, StartsSound DEF WorkspacesLive
  <1>3. CASE OtherCommands
    <2>1. proc' = proc /\ \A c \in Procs : proc[c] # NULL => proc[c].workspace \in WorkspaceIds
      BY <1>3 DEF OtherCommands, BaseInv, TypeOK, Command
    <2> QED BY <1>3, <2>1, WorkspaceTables DEF WorkspacesLive
  <1>4. ASSUME NEW c \in Procs, Crash(c)
        PROVE  WorkspacesLive'
    BY <1>4 DEF Crash, WorkspacesLive, BaseInv, TypeOK
  <1>5. CASE UNCHANGED <<db, proc>>
    BY <1>5 DEF WorkspacesLive
  <1> QED BY <1>1, <1>2, <1>3, <1>4, <1>5
          DEF Next, Environment, SwitchSite, EditSite, EditFiles, wiki

LEMMA ShowsFiles ==
    ASSUME BaseInv, NEW p \in Paths
    PROVE  /\ Shown \in [Paths -> Files] /\ Shown[p] = IF Pending(p) THEN NULL ELSE files[p]
           /\ DOMAIN Shown' = Paths /\ Shown'[p] = IF Pending(p)' THEN NULL ELSE files'[p]
  BY DEF Shown, BaseInv, TypeOK, Files
LEMMA LibraryQuiet ==
    ASSUME AloneInv, Alone, NEW c \in Procs, proc[c] # NULL, Step(c),
           ~Replace(c), ~Register(c), ~RegisterFails(c), ~Rollback(c)
    PROVE  [Library!Next]_(Library!library)
  <1>1. BaseInv
    BY DEF AloneInv
  <1>2. Shown' = Shown /\ Located' = Located
    BY <1>1, QuietStep DEF Shown, Located
  <1>3. Running
    BY DEF Running
  <1>4. CASE Running'
    BY <1>2, <1>3, <1>4 DEF Library!library, Shown, Located, Running
  <1>5. CASE ~Running'
    <2>1. Library!Switch
      BY <1>2, <1>3, <1>5 DEF Library!Switch, Shown, Located, Running
    <2> QED BY <2>1 DEF Library!Next
  <1> QED BY <1>4, <1>5

LEMMA LibraryReplace ==
    ASSUME AloneInv, Alone, WorkspacesLive, NEW c \in Procs, proc[c] # NULL, Step(c), Replace(c)
    PROVE  [Library!Next]_(Library!library)
  <1>1. /\ BaseInv /\ AloneSound(c) /\ CommandSound(c) /\ files \in [Paths -> Files]
        /\ InHand(c) /\ proc[c].pc = "staged"
    BY DEF AloneInv, BaseInv, TypeOK, Replace, At, InHand
  <1>2. Goes(c, "replaced", proc[c].todo, proc[c].page, proc[c].path, proc[c].fetched)
    BY <1>1, CommandGoes
  <1>3. /\ proc[c].path \in Paths /\ files' = [files EXCEPT ![proc[c].path] = Written(c)]
        /\ Located' = Located
    BY <1>1, PageInHand DEF Replace, Written, Located
  <1>4. Running /\ Running'
    BY <1>2, AbsenceAssumption DEF Running, Goes
  <1>5. \A p \in Paths : /\ ~Pending(p)
                         /\ Pending(p)' <=> (p = proc[c].path /\ IsFirstFetch(proc[c].page))
    BY <1>1, <1>2, AbsenceAssumption DEF Alone, Pending, At, Goes, IsFirstFetch
  <1>6. CASE IsFirstFetch(proc[c].page)
    <2>1. files[proc[c].path] = NULL
      BY <1>1, <1>6 DEF AloneSound
    <2>2. \A p \in Paths : Shown'[p] = Shown[p]
      BY <1>1, <1>3, <1>5, <1>6, <2>1, ShowsFiles
    <2>3. Shown' = Shown
      BY <1>1, <2>2, ShowsFiles DEF Shown
    <2> QED BY <1>3, <1>4, <2>3 DEF Library!library, Shown, Located, Running
  <1>7. CASE ~IsFirstFetch(proc[c].page)
    <2>1. PICK l \in db.locations : /\ l.workspace = proc[c].workspace
                                    /\ l.resource = proc[c].page.resource
                                    /\ l.path = proc[c].page.path
      BY <1>1, <1>7, PageInHand DEF AloneSound, PlaceKnown, IsFirstFetch, WorkspacesLive
    <2>2. l \in Located /\ l.path = proc[c].path
      BY <1>1, <1>7, <2>1, LocatedAll DEF CommandSound
    <2>3. files[proc[c].path] # OtherFile
      BY <1>1 DEF AloneSound
    <2>4. \A p \in Paths : Shown'[p] = IF p = proc[c].path THEN Written(c) ELSE Shown[p]
      BY <1>1, <1>3, <1>5, <1>7, ShowsFiles
    <2>5. Shown' = [Shown EXCEPT ![l.path] = Written(c)]
      BY ZenonT(60), <1>1, <1>3, <2>2, <2>4, ShowsFiles DEF Shown
    <2>6. Shown[l.path] # OtherFile
      BY <1>1, <1>3, <1>5, <2>2, <2>3, ShowsFiles
    <2>7. PICK page \in Generated : page = Written(c) /\ page.resource = l.resource
      BY <1>1, <2>1, WrittenGenerated
    <2>8. Library!Refetch(l, page)
      BY <1>3, <1>4, <2>5, <2>6, <2>7 DEF Library!Refetch, Shown, Located, Running
    <2>9. l \in {k \in db.locations : k.type = FileType}
      BY <2>2 DEF Located
    <2> QED BY <2>7, <2>8, <2>9 DEF Library!Next
  <1> QED BY <1>6, <1>7
LEMMA LibraryRegister ==
    ASSUME AloneInv, Alone, NEW c \in Procs, proc[c] # NULL, Step(c), Register(c)
    PROVE  [Library!Next]_(Library!library)
  <1>1. /\ BaseInv /\ BaseInv' /\ AloneSound(c) /\ CommandSound(c)
        /\ InHand(c) /\ proc[c].pc = "replaced" /\ files' = files
    BY BaseCommand DEF AloneInv, BaseInv, Register, At, InHand
  <1>2. Goes(c, "listed", proc[c].todo \ {proc[c].page}, NULL, NULL,
             proc[c].fetched \cup {proc[c].page.resource})
    BY <1>1, CommandGoes
  <1> DEFINE new == [workspace |-> proc[c].workspace, resource |-> proc[c].page.resource,
                     type |-> FileType, path |-> proc[c].path]
  <1>3. /\ proc[c].path \in Paths /\ proc[c].page \in proc[c].todo
        /\ LocationAccepted(db, proc[c].workspace, proc[c].page.resource, FileType, proc[c].path)
        /\ db'.locations =
              OtherLocations(db, proc[c].workspace, proc[c].page.resource, FileType) \cup {new}
    BY <1>1, PageInHand, RegisterTables
  <1>4. Running /\ Running'
    BY <1>2, AbsenceAssumption DEF Running, Goes
  <1>5. \A p \in Paths : /\ Pending(p) <=> (p = proc[c].path /\ IsFirstFetch(proc[c].page))
                         /\ ~Pending(p)'
    BY <1>1, <1>2, PendingAlone DEF Alone, Pending, At, Goes
  <1>6. Located = db.locations /\ Located' = db'.locations
    BY <1>1, LocatedAll DEF Located, BaseInv, TablesOfPages
  <1>7. CASE IsFirstFetch(proc[c].page)
    <2>1. \A l \in db.locations :
            ~(l.workspace = proc[c].workspace /\ l.resource = proc[c].page.resource)
      <3>1. \A l \in db.locations : l.path # NULL
        BY <1>1, AbsenceAssumption DEF BaseInv, TypeOK, RegistryTypeOK, Database, LocationRow
      <3> QED BY <1>1, <1>3, <1>7, <3>1 DEF AloneSound, PlaceKnown, IsFirstFetch
    <2>2. OtherLocations(db, proc[c].workspace, proc[c].page.resource, FileType) = db.locations
      BY <2>1 DEF OtherLocations
    <2>3. \A l \in db.locations : l.path # proc[c].path
      BY <1>1, <1>3, <2>2 DEF LocationAccepted, BaseInv, TablesOfPages
    <2>4. /\ Located' = Located \cup {new} /\ new \in Located' \ Located
          /\ new.path = proc[c].path /\ new.workspace = proc[c].workspace
          /\ new.resource = proc[c].page.resource
      BY <1>3, <1>6, <2>2, <2>3
    <2>5. files[proc[c].path] = Written(c)
      BY <1>1 DEF AloneSound, Written
    <2>6. PICK page \in Generated : page = Written(c) /\ page.resource = proc[c].page.resource
      BY <1>1, WrittenGenerated
    <2>7. \A p \in Paths : Shown'[p] = IF p = proc[c].path THEN page ELSE Shown[p]
      BY <1>1, <1>5, <1>7, <2>5, <2>6, ShowsFiles
    <2>8. Shown' = [Shown EXCEPT ![proc[c].path] = page]
      BY <1>1, <1>3, <2>7, ShowsFiles DEF Shown
    <2>9. Shown[proc[c].path] = NULL
      BY <1>1, <1>3, <1>5, <1>7, ShowsFiles
    <2> HIDE DEF new
    <2>10. PICK l \in Located' \ Located : l = new
      BY <2>4
    <2>11. /\ \A k \in Located : k.path # l.path
           /\ \A k \in Located : k.workspace = l.workspace => k.resource # l.resource
           /\ page.resource = l.resource /\ l.path = proc[c].path /\ Located' = Located \cup {l}
      BY <1>6, <2>1, <2>3, <2>4, <2>6, <2>10
    <2>12. Library!Materialize(l, page)
      BY <1>4, <2>8, <2>9, <2>11 DEF Library!Materialize, Shown, Located, Running
    <2>13. l \in {k \in db.locations : k.type = FileType}' \ {k \in db.locations : k.type = FileType}
      BY <2>10 DEF Located
    <2> QED BY <2>6, <2>12, <2>13 DEF Library!Next
  <1>8. CASE ~IsFirstFetch(proc[c].page)
    <2>1. /\ \A l \in db.locations : l.type = FileType
          /\ \A l \in db.locations :
                (l.workspace = proc[c].workspace /\ l.resource = proc[c].page.resource) =>
                    l.path = proc[c].path
          /\ HasWorkspace(db, proc[c].workspace)
      BY <1>1, <1>3, <1>8 DEF AloneSound, PlaceKnown, CommandSound, BaseInv, TablesOfPages,
                              LocationAccepted
    <2>2. new \in db.locations
      <3>1. PICK l \in db.locations : /\ l.workspace = proc[c].workspace
                                      /\ l.resource = proc[c].page.resource
                                      /\ l.path = proc[c].page.path
        BY <1>1, <1>3, <1>8, <2>1 DEF AloneSound, PlaceKnown, IsFirstFetch
      <3>2. l \in LocationRow /\ l.path = proc[c].path /\ l.type = FileType
        BY <2>1, <3>1, <1>1 DEF BaseInv, TypeOK, RegistryTypeOK, Database
      <3>3. l = new
        BY <3>1, <3>2 DEF LocationRow
      <3> QED BY <3>3
    <2>3. ASSUME NEW l \in db.locations, l.workspace = proc[c].workspace,
                 l.resource = proc[c].page.resource
          PROVE  l = new
      <3>1. l \in LocationRow /\ l.path = proc[c].path /\ l.type = FileType
        BY <2>1, <2>3, <1>1 DEF BaseInv, TypeOK, RegistryTypeOK, Database
      <3> QED BY <2>3, <3>1 DEF LocationRow
    <2>4. Located' = Located
      <3> HIDE DEF new
      <3> QED BY <1>3, <1>6, <2>2, <2>3 DEF OtherLocations
    <2>5. Shown' = Shown
      BY <1>1, <1>5, <1>8 DEF Shown
    <2> QED BY SMTT(30), <1>4, <2>4, <2>5 DEF Library!library, Shown, Located, Running
  <1> QED BY <1>7, <1>8

LEMMA LibraryFails ==
    ASSUME AloneInv, Alone, NEW c \in Procs, proc[c] # NULL, Step(c), RegisterFails(c)
    PROVE  [Library!Next]_(Library!library)
  <1>1. /\ BaseInv /\ files' = files /\ db' = db /\ At(c, "replaced")
    BY DEF AloneInv, RegisterFails
  <1>2. \/ /\ IsFirstFetch(proc[c].page)
           /\ Goes(c, "rollback", proc[c].todo, proc[c].page, proc[c].path, proc[c].fetched)
        \/ /\ ~IsFirstFetch(proc[c].page)
           /\ Goes(c, "listed", proc[c].todo \ {proc[c].page}, NULL, NULL, proc[c].fetched)
    BY <1>1, CommandGoes
  <1>3. Running /\ Running'
    BY <1>2, AbsenceAssumption DEF Running, Goes
  <1>4. \A p \in Paths : Pending(p)' <=> Pending(p)
    BY <1>1, <1>2, AbsenceAssumption DEF Alone, Pending, At, Goes, IsFirstFetch
  <1>5. Shown' = Shown /\ Located' = Located
    BY <1>1, <1>4 DEF Shown, Located
  <1> QED BY <1>3, <1>5 DEF Library!library, Shown, Located, Running

(* A file that its first fetch wrote becomes visible without a location.   *)
LEMMA LibraryAbandons ==
    ASSUME AloneInv, NEW c \in Procs, InHand(c), Pending(proc[c].path), proc[c] # NULL,
           proc[c].pc \in {"replaced", "rollback"},
           Located' = Located, files' = files, \A p \in Paths : ~Pending(p)',
           \A p \in Paths : Pending(p) => p = proc[c].path
    PROVE  Library!Next
  <1>1. BaseInv /\ AloneSound(c) /\ Running
    BY DEF AloneInv, Running
  <1>2. proc[c].path \in Paths /\ files[proc[c].path] = Written(c)
    BY <1>1, PageInHand DEF AloneSound, Written
  <1>3. PICK page \in Generated : page = Written(c)
    BY <1>1, WrittenGenerated
  <1>4. \A p \in Paths : Shown'[p] = IF p = proc[c].path THEN page ELSE Shown[p]
    BY <1>1, <1>2, <1>3, ShowsFiles
  <1>5. Shown' = [Shown EXCEPT ![proc[c].path] = page]
    BY <1>1, <1>2, <1>4, ShowsFiles DEF Shown
  <1>6. Shown[proc[c].path] = NULL
    BY <1>1, <1>2, ShowsFiles
  <1>7. Running' \in BOOLEAN
    BY DEF Running
  <1>8. Library!Abandon(proc[c].path, page)
    BY <1>1, <1>5, <1>6, <1>7 DEF Library!Abandon, Shown, Located, Running
  <1> QED BY <1>2, <1>8 DEF Library!Next

LEMMA LibraryRollback ==
    ASSUME AloneInv, Alone, NEW c \in Procs, proc[c] # NULL, Step(c), Rollback(c)
    PROVE  [Library!Next]_(Library!library)
  <1>1. /\ BaseInv /\ AloneSound(c) /\ InHand(c) /\ proc[c].pc = "rollback" /\ db' = db
        /\ files \in [Paths -> Files]
    BY DEF AloneInv, BaseInv, TypeOK, Rollback, At, InHand
  <1>2. IsFirstFetch(proc[c].page) /\ proc[c].path \in Paths
    BY <1>1, PageInHand DEF AloneSound
  <1>3. Goes(c, "listed", proc[c].todo \ {proc[c].page}, NULL, NULL, proc[c].fetched)
    BY <1>1, CommandGoes
  <1>4. /\ Running /\ Running' /\ Located' = Located
    BY <1>1, <1>3, AbsenceAssumption DEF Running, Goes, Located
  <1>5. \A p \in Paths : (Pending(p) <=> p = proc[c].path) /\ ~Pending(p)'
    BY <1>1, <1>2, <1>3, PendingAlone DEF Alone, Pending, At, Goes
  <1>6. CASE files' = [files EXCEPT ![proc[c].path] = NULL]
    <2>1. \A p \in Paths : Shown'[p] = Shown[p]
      BY <1>1, <1>2, <1>5, <1>6, ShowsFiles
    <2>2. Shown' = Shown
      BY <1>1, <2>1, ShowsFiles DEF Shown
    <2> QED BY <1>4, <2>2 DEF Library!library, Shown, Located, Running
  <1>7. CASE files' = files
    BY <1>1, <1>2, <1>4, <1>5, <1>7, LibraryAbandons
  <1> QED BY <1>6, <1>7 DEF Rollback
LEMMA LibraryCrash ==
    ASSUME AloneInv, Alone, NEW c \in Procs, Crash(c)
    PROVE  Library!Next
  <1>1. /\ BaseInv /\ proc[c] # NULL /\ proc'[c] = NULL /\ files' = files /\ Located' = Located
    BY DEF AloneInv, BaseInv, TypeOK, Crash, Located
  <1>2. Running /\ ~Running' /\ \A p \in Paths : ~Pending(p)'
    BY <1>1 DEF Alone, Running, Pending, At
  <1>3. CASE \E p \in Paths : Pending(p)
    <2>1. proc[c].pc \in {"replaced", "rollback"} /\ InHand(c)
      BY <1>3, PendingAlone DEF At, InHand
    <2>2. /\ Pending(proc[c].path)
          /\ \A p \in Paths : Pending(p) => p = proc[c].path
      BY <1>3, PendingAlone
    <2> QED BY <1>1, <1>2, <2>1, <2>2, LibraryAbandons
  <1>4. CASE ~ \E p \in Paths : Pending(p)
    <2>1. Shown' = Shown
      BY <1>1, <1>2, <1>4 DEF Shown
    <2>2. Library!Switch
      BY <1>1, <1>2, <2>1 DEF Library!Switch, Shown, Located, Running
    <2> QED BY <2>2 DEF Library!Next
  <1> QED BY <1>3, <1>4

LEMMA LibraryStarts ==
    ASSUME AloneInv, Alone, NEW c \in Procs, NEW w \in WorkspaceIds, Resolve(c, w)
    PROVE  Library!Next
  <1>1. /\ proc[c] = NULL /\ proc'[c] \in Command /\ proc'[c].pc = "resolved"
        /\ files' = files /\ Located' = Located
    BY StartsSound DEF AloneInv, Resolve, Located
  <1>2. ~Running /\ Running'
    BY <1>1, AbsenceAssumption DEF Alone, Running
  <1>3. \A p \in Paths : ~Pending(p) /\ ~Pending(p)'
    BY <1>1 DEF Alone, Pending, At
  <1>4. Shown' = Shown
    BY <1>1, <1>3 DEF Shown
  <1>5. Library!Switch
    BY <1>1, <1>2, <1>4 DEF Library!Switch, Shown, Located, Running
  <1> QED BY <1>5 DEF Library!Next

LEMMA LibraryEdited ==
    ASSUME AloneInv, EditFiles
    PROVE  Library!Next
  <1>1. PICK p \in Paths, content \in {NULL, UserFile, OtherFile} :
          files' = [files EXCEPT ![p] = content]
    BY DEF EditFiles
  <1>2. /\ BaseInv /\ files \in [Paths -> Files] /\ Located' = Located /\ proc' = proc
        /\ ~Running /\ ~Running'
    BY DEF AloneInv, BaseInv, TypeOK, EditFiles, Located, Running
  <1>3. \A q \in Paths : ~Pending(q) /\ ~Pending(q)'
    BY <1>2 DEF Pending, At, Running
  <1>4. \A q \in Paths : Shown'[q] = IF q = p THEN content ELSE Shown[q]
    BY <1>1, <1>2, <1>3, ShowsFiles
  <1>5. Shown' = [Shown EXCEPT ![p] = content]
    BY <1>2, <1>4, ShowsFiles DEF Shown
  <1>6. Library!UserEdits(p, content)
    BY <1>2, <1>5 DEF Library!UserEdits, Shown, Located, Running
  <1> QED BY <1>6 DEF Library!Next

LEMMA LibraryStep ==
    ASSUME AloneInv, Alone, WorkspacesLive, "removals" \notin Events, [Next]_wiki
    PROVE  [Library!Next]_(Library!library)
  <1>1. ASSUME NEW c \in Procs, proc[c] # NULL, Step(c)
        PROVE  [Library!Next]_(Library!library)
    BY <1>1, LibraryQuiet, LibraryReplace, LibraryRegister, LibraryFails, LibraryRollback
  <1>2. ASSUME files' = files, db'.locations = db.locations, proc' = proc
        PROVE  [Library!Next]_(Library!library)
    <2>1. Shown' = Shown /\ Located' = Located /\ Running' = Running
      BY <1>2 DEF Shown, Located, Running, Pending, At, IsFirstFetch
    <2> QED BY <2>1 DEF Library!library, Shown, Located, Running
  <1>3. CASE OtherCommands
    <2>1. files' = files /\ db'.locations = db.locations /\ proc' = proc
      BY <1>3, WorkspaceTables DEF OtherCommands, AloneInv
    <2> QED BY <1>2, <2>1
  <1>4. CASE SwitchSite \/ EditSite \/ UNCHANGED wiki
    BY <1>2, <1>4 DEF SwitchSite, EditSite, wiki
  <1> QED BY <1>1, <1>3, <1>4, LibraryCrash, LibraryStarts, LibraryEdited DEF Next, Environment

(* The many steps of a fetch, cut off at any of them or failing at any of  *)
(* them, implement the library in which a page and its location appear in  *)
(* one step, stay where they are, and nothing else of the files changes.   *)
THEOREM FetchImplementsLibrary ==
    ASSUME Alone, "removals" \notin Events
    PROVE  Spec => LibrarySpec
  <1>1. Init => AloneInv /\ WorkspacesLive /\ Library!Init
    <2> SUFFICES ASSUME Init PROVE AloneInv /\ WorkspacesLive /\ Library!Init
      OBVIOUS
    <2>1. db.locations = {} /\ (\A c \in Procs : proc[c] = NULL) /\ files = [p \in Paths |-> NULL]
      BY DEF Init, RegistryInit, EmptyDatabase
    <2>2. Shown = [p \in Paths |-> NULL] /\ Located = {} /\ ~Running
      BY <2>1 DEF Shown, Located, Running
    <2>3. Library!Init
      BY <2>2 DEF Library!Init, Shown, Located, Running
    <2> QED BY <2>1, <2>3, AloneInit DEF WorkspacesLive
  <1>2. AloneInv /\ WorkspacesLive /\ [Next]_wiki =>
          AloneInv' /\ WorkspacesLive' /\ [Library!Next]_(Library!library)
    BY AloneStep, WorkspacesStayLive, LibraryStep DEF AloneInv
  <1> QED BY <1>1, <1>2, PTL DEF Spec, LibrarySpec, Library!Spec

-----------------------------------------------------------------------------
(* What is selected. *)

LEMMA ListedAreDistinct ==
    ASSUME IsFiniteSet(ResourceIds), NEW w
    PROVE  /\ IsFiniteSet(Listed(w))
           /\ \A a, b \in Listed(w) : a.resource = b.resource => a = b
  <1> DEFINE row == [r \in WorkspaceResources(db, w, PageType) |->
                       [resource |-> r, key |-> db.resources[r].provider,
                        name |-> db.resources[r].name, path |-> LocationPath(db, w, r, FileType)]]
             listed == {row[r] : r \in WorkspaceResources(db, w, PageType)}
  <1>1. Listed(w) = listed
    BY DEF Listed
  <1>2. IsFiniteSet(WorkspaceResources(db, w, PageType))
    BY FS_Subset DEF WorkspaceResources
  <1>3. IsFiniteSet(listed)
    <2> HIDE DEF row
    <2> QED BY <1>2, RangeIsFinite
  <1>4. \A a, b \in Listed(w) : a.resource = b.resource => a = b
    <2>1. \A r \in WorkspaceResources(db, w, PageType) : row[r].resource = r
      OBVIOUS
    <2> HIDE DEF row
    <2> QED BY <1>1, <2>1
  <1> QED BY <1>1, <1>3, <1>4

(* For however many pages of however many sites a selection is what its    *)
(* user named (wiki.Select).                                               *)
THEOREM SelectionsExact ==
    ASSUME IsFiniteSet(ResourceIds)
    PROVE  Spec => []SelectionExact
  <1>1. SelectionExact
    <2> SUFFICES ASSUME NEW c \in Procs, NEW rows \in Listings(proc[c].workspace),
                        NEW selectors \in Selectors
                 PROVE  IsSelection(rows, selectors, "wiki")
      BY DEF SelectionExact
    <2>1. /\ rows \in SetToSeqs(Listed(proc[c].workspace))
          /\ selectors \in SeqOf(ProviderIds \cup Names, MaxSelectors) /\ MaxSelectors \in Nat
      BY WikiAssumption DEF Listings, Selectors
    <2> QED BY <2>1, ListedAreDistinct, EveryListingExact
  <1> QED BY <1>1, PTL

-----------------------------------------------------------------------------
(* The names of the files. *)

LowerCase == {LowerCaseOf[l] : l \in DOMAIN LowerCaseOf}

(* What a slug is made of: nothing as long as there is no letter, else a   *)
(* letter first.                                                           *)
SlugsSoFar(title) ==
    {x \in Seq(LowerCase \cup {"-"}) \X Nat :
        /\ x[1] = <<>> <=> \A j \in 1 .. x[2] : title[j] \notin DOMAIN LowerCaseOf
        /\ x[1] # <<>> => x[1][1] \in LowerCase}

LEMMA SlugIs ==
    ASSUME NEW n \in Nat, NEW title, DOMAIN title = 1 .. n
    PROVE  /\ Slug(title) \in Seq(LowerCase \cup {"-", "page"})
           /\ Slug(title) # <<>>
           /\ Slug(title)[1] \in LowerCase \cup {"page"}
  <1> DEFINE Letter(i) == title[i] \in DOMAIN LowerCaseOf
             part(i) == IF ~Letter(i) THEN <<>>
                        ELSE IF i > 1 /\ ~Letter(i - 1) /\ \E j \in 1 .. i - 1 : Letter(j)
                        THEN <<"-", LowerCaseOf[title[i]]>>
                        ELSE <<LowerCaseOf[title[i]]>>
             parts == [i \in DOMAIN title |-> part(i)]
             slug == FlattenSeq(parts)
  <1>1. Slug(title) = IF slug = <<>> THEN <<"page">> ELSE slug
    BY Zenon DEF Slug
  <1>2. n = 0 => slug = <<>>
    <2>1. n = 0 => parts = <<>>
      OBVIOUS
    <2>2. n = 0 => Len(parts) = 0
      <3> HIDE DEF parts
      <3> QED BY <2>1
    <2> HIDE DEF parts
    <2> QED BY Zenon, <2>1, <2>2 DEF FlattenSeq
  <1>3. ASSUME n # 0
        PROVE  <<slug, n>> \in SlugsSoFar(title)
    <2>1. n \in Nat \ {0} /\ parts = [i \in 1 .. n |-> part(i)]
      BY <1>3
    <2>2. \A i \in 1 .. n : parts[i] = part(i)
      BY <2>1
    <2>3. Len(parts) = n
      <3> HIDE DEF part
      <3>1. \A i \in 1 .. n : parts[i] = part(i)
        OBVIOUS
      <3>2. parts \in Seq({part(i) : i \in 1 .. n}) /\ DOMAIN parts = 1 .. n
        OBVIOUS
      <3> HIDE DEF parts
      <3> QED BY <3>2
    <2>4. \A i \in 1 .. n : Letter(i) => LowerCaseOf[title[i]] \in LowerCase
      BY DEF LowerCase
    <2> HIDE DEF parts
    <2>5. <<parts[1], 1>> \in SlugsSoFar(title)
      <3>1. 1 \in 1 .. n
        BY <1>3
      <3>2. CASE Letter(1)
        <4>1. parts[1] = <<LowerCaseOf[title[1]]>>
          <5>1. parts[1] = part(1)
            BY <2>2, <3>1
          <5> QED BY <3>2, <5>1
        <4>2. LowerCaseOf[title[1]] \in LowerCase
          BY <2>4, <3>1, <3>2
        <4> HIDE DEF part
        <4> QED BY SMTT(30), <3>2, <4>1, <4>2 DEF SlugsSoFar
      <3>3. CASE ~ Letter(1)
        <4>1. parts[1] = <<>>
          BY <2>2, <3>1, <3>3
        <4>2. /\ <<>> \in Seq(LowerCase \cup {"-"})
              /\ \A j \in 1 .. 1 : title[j] \notin DOMAIN LowerCaseOf
          BY <3>3
        <4> HIDE DEF part, Letter
        <4> QED BY <4>1, <4>2 DEF SlugsSoFar
      <3> QED BY <3>2, <3>3
    <2>6. ASSUME NEW k \in 1 .. n - 1, NEW text, <<text, k>> \in SlugsSoFar(title)
          PROVE  <<text \o parts[k + 1], k + 1>> \in SlugsSoFar(title)
      <3>1. k + 1 \in 1 .. n /\ (k + 1) - 1 = k /\ 1 .. k + 1 = (1 .. k) \cup {k + 1} /\ k + 1 \in Nat
        OBVIOUS
      <3>2. /\ text \in Seq(LowerCase \cup {"-"})
            /\ text = <<>> <=> \A j \in 1 .. k : ~ Letter(j)
            /\ text # <<>> => text[1] \in LowerCase
        BY <2>6 DEF SlugsSoFar
      <3>3. \/ ~ Letter(k + 1) /\ parts[k + 1] = <<>>
            \/ /\ Letter(k + 1) /\ \E j \in 1 .. k : Letter(j)
               /\ parts[k + 1] = <<"-", LowerCaseOf[title[k + 1]]>>
            \/ Letter(k + 1) /\ parts[k + 1] = <<LowerCaseOf[title[k + 1]]>>
        BY <2>2, <3>1
      <3>4. /\ text \o parts[k + 1] \in Seq(LowerCase \cup {"-"})
            /\ text \o parts[k + 1] = <<>> <=> \A j \in 1 .. k + 1 : ~ Letter(j)
            /\ text \o parts[k + 1] # <<>> => (text \o parts[k + 1])[1] \in LowerCase
        <4>1. CASE ~ Letter(k + 1) /\ parts[k + 1] = <<>>
          <5>1. text \o parts[k + 1] = text
            BY <3>2, <4>1
          <5> HIDE DEF part, Letter
          <5> QED BY <3>1, <3>2, <4>1, <5>1
        <4>2. CASE /\ Letter(k + 1) /\ \E j \in 1 .. k : Letter(j)
                   /\ parts[k + 1] = <<"-", LowerCaseOf[title[k + 1]]>>
          <5>1. LowerCaseOf[title[k + 1]] \in LowerCase
            BY <2>4, <3>1, <4>2
          <5>2. text # <<>> /\ text[1] \in LowerCase
            BY <3>2, <4>2
          <5>3. ~ \A j \in 1 .. k + 1 : ~ Letter(j)
            BY <3>1, <4>2
          <5> HIDE DEF part, Letter
          <5>4. /\ text \o <<"-", LowerCaseOf[title[k + 1]]>> \in Seq(LowerCase \cup {"-"})
                /\ (text \o <<"-", LowerCaseOf[title[k + 1]]>>)[1] = text[1]
                /\ text \o <<"-", LowerCaseOf[title[k + 1]]>> # <<>>
            BY <3>2, <5>1, <5>2
          <5> QED BY <4>2, <5>2, <5>3, <5>4
        <4>3. CASE Letter(k + 1) /\ parts[k + 1] = <<LowerCaseOf[title[k + 1]]>>
          <5>1. LowerCaseOf[title[k + 1]] \in LowerCase
            BY <2>4, <3>1, <4>3
          <5>3. ~ \A j \in 1 .. k + 1 : ~ Letter(j)
            BY <3>1, <4>3
          <5> HIDE DEF part, Letter
          <5>4. /\ text \o <<LowerCaseOf[title[k + 1]]>> \in Seq(LowerCase \cup {"-"})
                /\ (text \o <<LowerCaseOf[title[k + 1]]>>)[1] \in LowerCase
                /\ text \o <<LowerCaseOf[title[k + 1]]>> # <<>>
            BY <3>2, <5>1
          <5> QED BY <4>3, <5>3, <5>4
        <4> QED BY <3>3, <4>1, <4>2, <4>3
      <3> HIDE DEF part
      <3> QED BY <3>1, <3>4 DEF SlugsSoFar
    <2> HIDE DEF part
    <2> QED BY <1>3, <2>3, <2>5, <2>6, FlattenInduction
  <1> HIDE DEF slug
  <1>4. CASE slug = <<>>
    BY <1>1, <1>4
  <1>5. CASE slug # <<>>
    <2>1. n # 0 /\ slug \in Seq(LowerCase \cup {"-"}) /\ slug[1] \in LowerCase
      BY <1>2, <1>3, <1>5 DEF SlugsSoFar
    <2> QED BY <1>1, <1>5, <2>1
  <1> QED BY <1>4, <1>5

(* The name of a file ends in the ID of its page, whatever the title is    *)
(* (Filename).                                                             *)
THEOREM EveryFilenameExact ==
    ASSUME NEW T, NEW title \in Seq(T), NEW id \in Seq(Digits)
    PROVE  IsIdentified(title, id)
  <1> DEFINE slug == Slug(title)
             name == PageFilename(title, id)
             m == Len(slug)
  <1>1. /\ slug \in Seq(LowerCase \cup {"-", "page"})
        /\ slug # <<>>
        /\ slug[1] \in LowerCase \cup {"page"}
    <2>1. DOMAIN title = 1 .. Len(title) /\ Len(title) \in Nat
      OBVIOUS
    <2> QED BY <2>1, SlugIs
  <1>2. id \in Seq(LowerCase \ {"-"})
    <2>1. Digits \subseteq LowerCase \ {"-"}
      BY MarkdownAssumption DEF LowerCase
    <2> QED BY <2>1
  <1>3. "-" \notin LowerCase
    BY MarkdownAssumption DEF LowerCase
  <1>4. name = slug \o <<"-">> \o id \o <<".md">>
    BY DEF PageFilename
  <1> HIDE DEF slug, name
  <1>5. /\ m \in Nat \ {0} /\ Len(id) \in Nat
        /\ Len(name) = m + Len(id) + 2
        /\ name \in Seq(LowerCase \cup {"-", "page", ".md"})
        /\ \A i \in 1 .. m : name[i] = slug[i]
        /\ name[m + 1] = "-"
        /\ \A i \in 1 .. Len(id) : name[m + 1 + i] = id[i]
        /\ name[Len(name)] = ".md"
    BY <1>1, <1>2, <1>4
  <1>6. \A i \in m + 2 .. Len(name) : name[i] # "-"
    <2>1. ASSUME NEW i \in m + 2 .. Len(name) - 1 PROVE name[i] # "-"
      <3>1. i - (m + 1) \in 1 .. Len(id) /\ m + 1 + (i - (m + 1)) = i
        BY <1>5
      <3>2. name[i] = id[i - (m + 1)]
        BY <1>5, <3>1
      <3> QED BY <1>2, <3>1, <3>2
    <2>2. \A i \in m + 2 .. Len(name) : i = Len(name) \/ i \in m + 2 .. Len(name) - 1
      <3>1. m \in Nat /\ Len(name) \in Nat
        BY <1>5
      <3> HIDE DEF m
      <3> QED BY <3>1
    <2> QED BY <1>5, <2>1, <2>2
  <1>7. Rightmost(Positions("-", name)) = m + 1
    <2>1. /\ m + 1 \in Positions("-", name) /\ Positions("-", name) \subseteq 0 .. Len(name)
          /\ Len(name) \in Nat
      <3>1. DOMAIN name = 1 .. Len(name) /\ Len(name) \in Nat /\ m + 1 \in 1 .. Len(name)
        BY <1>5
      <3> HIDE DEF m
      <3> QED BY <1>5, <3>1 DEF Positions
    <2>2. /\ Rightmost(Positions("-", name)) \in Positions("-", name)
          /\ \A k \in Positions("-", name) : k <= Rightmost(Positions("-", name))
      BY <2>1, IsRightmost
    <2>3. \A k \in Positions("-", name) : k <= m + 1
      BY <1>5, <1>6 DEF Positions
    <2> HIDE DEF m
    <2> QED BY <1>5, <2>1, <2>2, <2>3
  <1>8. After(m + 1, name) = id \o <<".md">>
    <2>1. After(m + 1, name) = SubSeq(name, m + 2, Len(name))
      BY <1>5 DEF After
    <2> DEFINE rest == SubSeq(name, m + 2, Len(name))
    <2>2. /\ rest \in Seq(LowerCase \cup {"-", "page", ".md"})
          /\ Len(rest) = Len(id) + 1
          /\ \A i \in 1 .. Len(id) + 1 : rest[i] = name[m + 1 + i]
      BY <1>5
    <2>3. /\ id \o <<".md">> \in Seq(LowerCase \cup {"-", "page", ".md"})
          /\ Len(id \o <<".md">>) = Len(id) + 1
          /\ \A i \in 1 .. Len(id) : (id \o <<".md">>)[i] = id[i]
          /\ (id \o <<".md">>)[Len(id) + 1] = ".md"
      BY <1>2
    <2> HIDE DEF rest
    <2>4. \A i \in 1 .. Len(id) + 1 : rest[i] = (id \o <<".md">>)[i]
      <3>1. \A i \in 1 .. Len(id) + 1 : i \in 1 .. Len(id) \/ i = Len(id) + 1
        BY <1>5
      <3>2. m + 1 + (Len(id) + 1) = Len(name)
        BY <1>5
      <3> HIDE DEF m
      <3> QED BY <1>5, <2>2, <2>3, <3>1, <3>2
    <2>5. rest = id \o <<".md">>
      <3> DEFINE right == id \o <<".md">>
      <3> HIDE DEF right
      <3> QED BY <2>2, <2>3, <2>4 DEF right
    <2> QED BY <2>1, <2>5 DEF rest
  <1>9. \A i \in 1 .. Len(name) - 1 : name[i] \in LowerCase \cup {"-", "page"}
    <2>1. ASSUME NEW i \in m + 2 .. Len(name) - 1 PROVE name[i] \in LowerCase
      <3>1. i - (m + 1) \in 1 .. Len(id) /\ m + 1 + (i - (m + 1)) = i
        BY <1>5
      <3>2. name[i] = id[i - (m + 1)]
        BY <1>5, <3>1
      <3> QED BY <1>2, <3>1, <3>2
    <2>2. \A i \in 1 .. Len(name) - 1 : i \in 1 .. m \/ i = m + 1 \/ i \in m + 2 .. Len(name) - 1
      BY <1>5
    <2>3. \A i \in 1 .. m : slug[i] \in LowerCase \cup {"-", "page"}
      BY <1>1
    <2> HIDE DEF m
    <2> QED BY <1>5, <2>1, <2>2, <2>3
  <1>10. name[1] # "-"
    <2>1. name[1] = slug[1]
      BY <1>5
    <2> QED BY <1>1, <1>3, <2>1
  <1> QED BY <1>7, <1>8, <1>9, <1>10 DEF name, IsIdentified, LowerCase

(* Two pages never want one file, whatever their titles are: what          *)
(* FilenameAssumption says of the names a fetch chooses.                   *)
THEOREM PagesApart ==
    ASSUME NEW T, NEW title \in Seq(T), NEW other \in Seq(T),
           NEW id \in Seq(Digits), NEW otherID \in Seq(Digits),
           PageFilename(title, id) = PageFilename(other, otherID)
    PROVE  id = otherID
  <1>1. id \o <<".md">> = otherID \o <<".md">>
    BY ZenonT(60), EveryFilenameExact DEF IsIdentified
  <1>2. /\ Len(id) \in Nat /\ Len(otherID) \in Nat
        /\ Len(id \o <<".md">>) = Len(id) + 1 /\ Len(otherID \o <<".md">>) = Len(otherID) + 1
        /\ \A i \in 1 .. Len(id) : (id \o <<".md">>)[i] = id[i]
        /\ \A i \in 1 .. Len(otherID) : (otherID \o <<".md">>)[i] = otherID[i]
    OBVIOUS
  <1>3. Len(id) = Len(otherID)
    BY <1>1, <1>2
  <1>4. \A i \in 1 .. Len(id) : id[i] = otherID[i]
    BY <1>1, <1>2, <1>3
  <1> QED BY <1>3, <1>4

(* A first fetch chooses a name from which the page ID can be read.        *)
THEOREM FilenamesIdentified == Spec => []FilenamesIdentify
  <1>1. FilenamesExact
    <2>1. MaxText \in Nat
      BY MarkdownAssumption
    <2>2. ASSUME NEW title \in SeqOf(DOMAIN LowerCaseOf \cup Punctuation, MaxText),
                 NEW id \in SeqOf(Digits, 2) \ {<<>>}
          PROVE  IsIdentified(title, id)
      <3>1. PICK n \in Nat : title \in [1 .. n -> DOMAIN LowerCaseOf \cup Punctuation]
        BY <2>1, SeqOfHas
      <3>2. PICK k \in Nat : id \in [1 .. k -> Digits]
        BY SeqOfHas, 2 \in Nat
      <3>3. title \in Seq(DOMAIN LowerCaseOf \cup Punctuation) /\ id \in Seq(Digits)
        BY <3>1, <3>2
      <3> QED BY <3>3, EveryFilenameExact
    <2> QED BY <2>2 DEF FilenamesExact
  <1>2. FilenamesIdentify
    BY <1>1 DEF FilenamesIdentify
  <1> QED BY <1>2, PTL

-----------------------------------------------------------------------------
(* The delimiters of code: backticks, more of them than the code has.      *)

LEMMA Joined ==
    ASSUME NEW S, NEW p \in Seq(S), NEW q \in Seq(S)
    PROVE  /\ p \o q \in Seq(S) /\ Len(p \o q) = Len(p) + Len(q)
           /\ Len(p) \in Nat /\ Len(q) \in Nat
           /\ \A i \in 1 .. Len(p) : (p \o q)[i] = p[i]
           /\ \A i \in 1 .. Len(q) : (p \o q)[Len(p) + i] = q[i]
  <1>1. Len(p) \in Nat /\ Len(q) \in Nat
    BY LenProperties
  <1>2. /\ p \o q \in Seq(S) /\ Len(p \o q) = Len(p) + Len(q)
        /\ \A i \in 1 .. Len(p) + Len(q) : (p \o q)[i] = IF i <= Len(p) THEN p[i] ELSE q[i - Len(p)]
    BY ConcatProperties
  <1> DEFINE s == p \o q
  <1> HIDE DEF s
  <1>3. /\ s \in Seq(S) /\ Len(s) = Len(p) + Len(q)
        /\ \A i \in 1 .. Len(p) + Len(q) : s[i] = IF i <= Len(p) THEN p[i] ELSE q[i - Len(p)]
    BY <1>2 DEF s
  <1>4. \A i \in 1 .. Len(p) : i \in 1 .. Len(p) + Len(q) /\ i <= Len(p)
    BY <1>1
  <1>5. \A i \in 1 .. Len(q) : /\ Len(p) + i \in 1 .. Len(p) + Len(q) /\ ~ (Len(p) + i <= Len(p))
                               /\ (Len(p) + i) - Len(p) = i
    BY <1>1
  <1>6. /\ \A i \in 1 .. Len(p) : s[i] = p[i]
        /\ \A i \in 1 .. Len(q) : s[Len(p) + i] = q[i]
    BY <1>3, <1>4, <1>5
  <1> QED BY <1>1, <1>3, <1>6 DEF s

LEMMA Widened ==
    ASSUME NEW S, NEW B, S \subseteq B, NEW p \in Seq(S)
    PROVE  p \in Seq(B)
  OBVIOUS

(* A run of n backticks behind position i.                                 *)
RunAt(text, i, n) == \A k \in 1 .. n : text[i + k] = Tick

LEMMA DelimiterIs ==
    ASSUME NEW T, NEW text \in Seq(T), NEW minimum \in Nat \ {0}
    PROVE  \E n \in Nat : /\ n >= minimum
                          /\ BacktickDelimiter(text, minimum) = Backticks(n)
                          /\ \A i \in 0 .. Len(text) - n : ~ RunAt(text, i, n)
  <1> DEFINE S == {n + 1 : n \in Runs(text)} \cup {minimum}
             n == Rightmost(S)
             last == Len(text) + 1 + minimum
  <1>1. Len(text) \in Nat /\ last \in Nat
    BY LenProperties
  <1>2. Runs(text) \subseteq 1 .. Len(text)
    BY DEF Runs
  <1>3. S \subseteq 0 .. last /\ minimum \in S
    BY <1>1, <1>2
  <1>4. BacktickDelimiter(text, minimum) = Backticks(n)
    BY DEF BacktickDelimiter
  <1>5. \A m \in Runs(text) : m + 1 \in S
    OBVIOUS
  <1> HIDE DEF S, last
  <1>6. n \in S /\ \A m \in S : m <= n
    BY <1>1, <1>3, IsRightmost
  <1> HIDE DEF n
  <1>7. n \in Nat /\ n >= minimum
    <2>1. n \in 0 .. last
      BY <1>3, <1>6
    <2> QED BY <1>1, <1>3, <1>6, <2>1
  <1>8. ASSUME NEW i \in 0 .. Len(text) - n, RunAt(text, i, n)
        PROVE  FALSE
    <2>1. n \in 1 .. Len(text)
      BY <1>1, <1>7
    <2>2. n \in Runs(text)
      BY <1>8, <2>1 DEF Runs, RunAt
    <2>3. n + 1 <= n
      BY <1>5, <1>6, <2>2
    <2> QED BY <1>7, <2>3
  <1> QED BY <1>4, <1>7, <1>8

(* What n backticks begin is ended by the last n, and by no others; inner  *)
(* is between them.                                                        *)
IsDelimited(s, inner, n) ==
    /\ Len(s) = Len(inner) + 2 * n
    /\ \A k \in 1 .. Len(inner) : s[n + k] = inner[k]
    /\ \A i \in 0 .. Len(s) - n : RunAt(s, i, n) <=> i \in {0, Len(s) - n}

(* Between two delimiters that nothing in the middle touches.              *)
LEMMA OnlyAtEnds ==
    ASSUME NEW T, NEW body \in Seq(T), NEW n \in Nat \ {0}, body # <<>>,
           body[1] # Tick, body[Len(body)] # Tick,
           \A i \in 0 .. Len(body) - n : ~ RunAt(body, i, n)
    PROVE  IsDelimited(Backticks(n) \o body \o Backticks(n), body, n)
  <1> DEFINE b == Backticks(n)
             S == T \cup {Tick}
             q == b \o body
             s == q \o b
             m == Len(body)
  <1>1. b \in Seq(S) /\ Len(b) = n /\ \A k \in 1 .. n : b[k] = Tick
    BY DEF Backticks
  <1>2. body \in Seq(S) /\ m \in Nat \ {0}
    BY LenProperties, EmptySeq
  <1> HIDE DEF b, m, S
  <1>3. /\ q \in Seq(S) /\ Len(q) = n + m
        /\ \A k \in 1 .. n : q[k] = Tick
        /\ \A k \in 1 .. m : q[n + k] = body[k]
    <2>1. /\ q \in Seq(S) /\ Len(q) = Len(b) + Len(body)
          /\ \A k \in 1 .. Len(b) : q[k] = b[k]
          /\ \A k \in 1 .. Len(body) : q[Len(b) + k] = body[k]
      <3>1. b \in Seq(S) /\ body \in Seq(S)
        BY <1>1, <1>2
      <3> QED BY <3>1, Joined
    <2> HIDE DEF q
    <2> QED BY <1>1, <2>1 DEF m
  <1> HIDE DEF q
  <1>4. /\ s \in Seq(S) /\ Len(s) = (n + m) + n
        /\ \A k \in 1 .. n + m : s[k] = q[k]
        /\ \A k \in 1 .. n : s[(n + m) + k] = Tick
    <2>2. /\ s \in Seq(S) /\ Len(s) = Len(q) + Len(b)
          /\ \A k \in 1 .. Len(q) : s[k] = q[k]
          /\ \A k \in 1 .. Len(b) : s[Len(q) + k] = b[k]
      <3>1. q \in Seq(S) /\ b \in Seq(S)
        BY <1>1, <1>3
      <3> QED BY <3>1, Joined
    <2> HIDE DEF s
    <2> QED BY <1>1, <1>3, <2>2
  <1> HIDE DEF s
  <1>5. \A k \in 1 .. n : s[k] = Tick
    <2>1. \A k \in 1 .. n : k \in 1 .. n + m
      BY <1>2
    <2> QED BY <1>3, <1>4, <2>1
  <1>6. \A k \in 1 .. m : s[n + k] = body[k]
    <2>1. \A k \in 1 .. m : n + k \in 1 .. n + m
      BY <1>2
    <2> QED BY <1>3, <1>4, <2>1
  <1>7. s[n + 1] # Tick /\ s[n + m] # Tick
    <2>1. 1 \in 1 .. m /\ m \in 1 .. m
      BY <1>2
    <2> QED BY <1>6, <2>1 DEF m
  <1>8. Len(s) - n = n + m
    BY <1>2, <1>4
  <1>9. RunAt(s, 0, n) /\ RunAt(s, n + m, n)
    <2>1. \A k \in 1 .. n : 0 + k = k
      OBVIOUS
    <2> QED BY <1>4, <1>5, <2>1 DEF RunAt
  <1>10. ASSUME NEW i \in 0 .. n + m, RunAt(s, i, n), i # 0, i # n + m
         PROVE  FALSE
    <2>1. i \in Nat /\ n \in Nat /\ m \in Nat
      BY <1>2
    <2>2. ~ (i <= n)
      <3>1. i <= n => (n + 1) - i \in 1 .. n /\ i + ((n + 1) - i) = n + 1
        BY <1>10, <2>1
      <3> QED BY <1>7, <1>10, <3>1 DEF RunAt
    <2>3. ~ (i + n >= n + m)
      <3>1. i + n >= n + m => (n + m) - i \in 1 .. n /\ i + ((n + m) - i) = n + m
        BY <1>10, <2>1
      <3> QED BY <1>7, <1>10, <3>1 DEF RunAt
    <2>4. /\ i - n \in 0 .. m - n
          /\ \A k \in 1 .. n : (i - n) + k \in 1 .. m /\ n + ((i - n) + k) = i + k
      BY <2>1, <2>2, <2>3
    <2>5. RunAt(body, i - n, n)
      BY <1>6, <1>10, <2>4 DEF RunAt
    <2> QED BY <2>4, <2>5 DEF m
  <1>11. Len(s) = m + 2 * n
    BY <1>2, <1>4
  <1>12. \A i \in 0 .. Len(s) - n : RunAt(s, i, n) <=> i \in {0, Len(s) - n}
    BY <1>8, <1>9, <1>10
  <1>13. IsDelimited(s, body, n)
    BY <1>6, <1>11, <1>12 DEF IsDelimited, m
  <1> QED BY <1>13 DEF s, q, b

(* One text behind another.                                                *)
Behind(p, q) == p \o q

LEMMA Associative ==
    ASSUME NEW S
    PROVE  /\ \A p, q, r \in Seq(S) : Behind(Behind(p, q), r) = Behind(p, Behind(q, r))
           /\ \A p, q \in Seq(S) : Behind(p, q) \in Seq(S)
  <1>1. \A p, q, r \in Seq(S) : (p \o q) \o r = p \o (q \o r)
    BY SMTT(30), ConcatAssociative
  <1>2. \A p, q \in Seq(S) : p \o q \in Seq(S)
    BY ConcatProperties, SMTT(20)
  <1>3. \A p, q, r \in Seq(S) : Behind(Behind(p, q), r) = Behind(p, Behind(q, r))
    BY <1>1, Zenon DEF Behind
  <1>4. \A p, q \in Seq(S) : Behind(p, q) \in Seq(S)
    BY <1>2, Zenon DEF Behind
  <1> QED BY <1>3, <1>4

LEMMA Grouped ==
    ASSUME NEW S, NEW a \in Seq(S), NEW b \in Seq(S), NEW c \in Seq(S), NEW d \in Seq(S)
    PROVE  a \o b \o c \o d \o a = a \o (b \o c \o d) \o a
  <1>1. /\ Behind(Behind(a, b), c) = Behind(a, Behind(b, c))
        /\ Behind(b, c) \in Seq(S)
    BY Associative
  <1>2. Behind(Behind(a, Behind(b, c)), d) = Behind(a, Behind(Behind(b, c), d))
    BY <1>1, Associative
  <1>3. Behind(Behind(Behind(a, b), c), d) = Behind(a, Behind(Behind(b, c), d))
    BY <1>1, <1>2
  <1> QED BY <1>3, Zenon DEF Behind

(* A character on both sides.                                              *)
LEMMA Padded ==
    ASSUME NEW T, NEW text \in Seq(T), NEW c, c # Tick, NEW n \in Nat \ {0},
           \A i \in 0 .. Len(text) - n : ~ RunAt(text, i, n)
    PROVE  LET body == <<c>> \o text \o <<c>>
           IN  /\ body \in Seq(T \cup {c}) /\ body # <<>>
               /\ body[1] # Tick /\ body[Len(body)] # Tick
               /\ \A i \in 0 .. Len(body) - n : ~ RunAt(body, i, n)
  <1> DEFINE S == T \cup {c}
             C == <<c>>
             q == C \o text
             body == q \o C
             m == Len(text)
  <1>1. C \in Seq(S) /\ Len(C) = 1 /\ C[1] = c /\ text \in Seq(S) /\ m \in Nat
    BY LenProperties
  <1> HIDE DEF C, S, m
  <1>2. /\ q \in Seq(S) /\ Len(q) = 1 + m
        /\ q[1] = c /\ \A k \in 1 .. m : q[1 + k] = text[k]
    <2>1. /\ q \in Seq(S) /\ Len(q) = Len(C) + Len(text)
          /\ \A k \in 1 .. Len(C) : q[k] = C[k]
          /\ \A k \in 1 .. Len(text) : q[Len(C) + k] = text[k]
      <3>1. C \in Seq(S) /\ text \in Seq(S)
        BY <1>1
      <3> QED BY <3>1, Joined
    <2> HIDE DEF q
    <2>2. 1 \in 1 .. 1
      OBVIOUS
    <2> QED BY <1>1, <2>1, <2>2 DEF m
  <1> HIDE DEF q
  <1>3. /\ body \in Seq(S) /\ Len(body) = (1 + m) + 1
        /\ \A k \in 1 .. 1 + m : body[k] = q[k]
        /\ body[(1 + m) + 1] = c
    <2>1. /\ body \in Seq(S) /\ Len(body) = Len(q) + Len(C)
          /\ \A k \in 1 .. Len(q) : body[k] = q[k]
          /\ \A k \in 1 .. Len(C) : body[Len(q) + k] = C[k]
      <3>1. C \in Seq(S) /\ q \in Seq(S)
        BY <1>1, <1>2
      <3> QED BY <3>1, Joined
    <2> HIDE DEF body
    <2>2. 1 \in 1 .. 1
      OBVIOUS
    <2> QED BY <1>1, <1>2, <2>1, <2>2
  <1> HIDE DEF body
  <1>4. body[1] = c /\ body[Len(body)] = c /\ body # <<>>
    <2>1. 1 \in 1 .. 1 + m /\ Len(body) # 0
      BY <1>1, <1>3
    <2>2. Len(<<>>) = 0
      OBVIOUS
    <2> QED BY <1>2, <1>3, <2>1, <2>2
  <1>5. ASSUME NEW i \in 0 .. Len(body) - n, RunAt(body, i, n)
        PROVE  FALSE
    <2>1. i \in Nat /\ i + n <= (1 + m) + 1 /\ n \in Nat /\ n >= 1
      BY <1>1, <1>3
    <2>2. i # 0
      <3>1. i = 0 => 1 \in 1 .. n /\ i + 1 = 1
        BY <2>1
      <3> QED BY <1>4, <1>5, <3>1 DEF RunAt
    <2>3. i + n # (1 + m) + 1
      <3>1. n \in 1 .. n
        BY <2>1
      <3> QED BY <1>3, <1>5, <3>1 DEF RunAt
    <2>4. /\ i - 1 \in 0 .. m - n
          /\ \A k \in 1 .. n : /\ (i - 1) + k \in 1 .. m /\ 1 + ((i - 1) + k) = i + k
                               /\ i + k \in 1 .. 1 + m
      BY <1>1, <2>1, <2>2, <2>3
    <2>5. ASSUME NEW k \in 1 .. n PROVE text[(i - 1) + k] = Tick
      <3>1. body[i + k] = q[i + k] /\ q[i + k] = text[(i - 1) + k]
        BY <1>2, <1>3, <2>4
      <3> QED BY <1>5, <3>1 DEF RunAt
    <2> QED BY <2>4, <2>5 DEF RunAt, m
  <1> QED BY <1>3, <1>4, <1>5 DEF body, q, C, S

(* Fenced code ends with its fence, whatever backticks are in it           *)
(* (renderCode, backtickDelimiter).                                        *)
THEOREM EveryFenceCloses ==
    ASSUME NEW T, NEW code \in Seq(T)
    PROVE  \E n \in Nat : n >= 3 /\ IsDelimited(FencedCode(code), <<"\n">> \o code \o <<"\n">>, n)
  <1>1. PICK n \in Nat : /\ n >= 3
                         /\ BacktickDelimiter(code, 3) = Backticks(n)
                         /\ \A i \in 0 .. Len(code) - n : ~ RunAt(code, i, n)
    BY DelimiterIs
  <1> DEFINE S == T \cup {"\n", Tick}
             N == <<"\n">>
             body == N \o code \o N
             b == Backticks(n)
  <1>2. n \in Nat \ {0}
    BY <1>1
  <1>3. /\ body \in Seq(T \cup {"\n"}) /\ body # <<>>
        /\ body[1] # Tick /\ body[Len(body)] # Tick
        /\ \A i \in 0 .. Len(body) - n : ~ RunAt(body, i, n)
    <2>1. "\n" # Tick
      BY DEF Tick
    <2> HIDE DEF body
    <2> QED BY <1>1, <1>2, <2>1, Padded DEF body
  <1>4. FencedCode(code) = b \o N \o code \o N \o b
    BY <1>1, Zenon DEF FencedCode
  <1>5. b \o N \o code \o N \o b = b \o body \o b
    <2>1. b \in Seq(S) /\ N \in Seq(S) /\ code \in Seq(S)
      BY <1>2 DEF Backticks
    <2> HIDE DEF b, N, S
    <2> QED BY SMTT(30), <2>1, Grouped
  <1>6. FencedCode(code) = b \o body \o b
    BY <1>4, <1>5, Zenon
  <1> HIDE DEF body
  <1>7. IsDelimited(FencedCode(code), body, n)
    BY <1>2, <1>3, <1>6, OnlyAtEnds
  <1> QED BY <1>1, <1>7 DEF body

(* So does inline code, with or without the space that keeps its own       *)
(* backticks from its delimiters (renderInlineCode).                       *)
THEOREM EveryInlineCodeCloses ==
    ASSUME NEW T, NEW code \in Seq(T), code # <<>>
    PROVE  \E n \in Nat : \E padding \in {<<>>, <<" ">>} :
              n >= 1 /\ IsDelimited(InlineCode(code), padding \o code \o padding, n)
  <1>1. PICK n \in Nat : /\ n >= 1
                         /\ BacktickDelimiter(code, 1) = Backticks(n)
                         /\ \A i \in 0 .. Len(code) - n : ~ RunAt(code, i, n)
    BY DelimiterIs
  <1> DEFINE S == T \cup {" ", Tick}
             padding == IF Tick \in {Head(code), Last(code)} THEN <<" ">> ELSE <<>>
             body == padding \o code \o padding
             b == Backticks(n)
  <1>2. n \in Nat \ {0}
    BY <1>1
  <1>3. /\ body \in Seq(T \cup {" "}) /\ body # <<>>
        /\ body[1] # Tick /\ body[Len(body)] # Tick
        /\ \A i \in 0 .. Len(body) - n : ~ RunAt(body, i, n)
    <2>1. CASE Tick \in {Head(code), Last(code)}
      <3>1. " " # Tick
        BY DEF Tick
      <3>2. body = <<" ">> \o code \o <<" ">>
        BY <2>1
      <3> HIDE DEF body
      <3> QED BY <1>1, <1>2, <3>1, <3>2, Padded
    <2>2. CASE Tick \notin {Head(code), Last(code)}
      <3>1. body = code
        <4>1. padding = <<>>
          BY <2>2
        <4>2. <<>> \o code = code /\ code \o <<>> = code
          BY ConcatEmptySeq
        <4> QED BY <4>1, <4>2, Zenon
      <3>2. code[1] = Head(code) /\ code[Len(code)] = Last(code)
        BY DEF Last
      <3> HIDE DEF body
      <3>3. code \in Seq(T \cup {" "})
        <4>1. T \subseteq T \cup {" "}
          OBVIOUS
        <4>2. code \in Seq(T)
          OBVIOUS
        <4> QED BY <4>1, <4>2, Widened, Zenon
      <3> QED BY <1>1, <2>2, <3>1, <3>2, <3>3
    <2> QED BY <2>1, <2>2
  <1>4. InlineCode(code) = b \o padding \o code \o padding \o b
    BY <1>1, Zenon DEF InlineCode
  <1>5. b \o padding \o code \o padding \o b = b \o body \o b
    <2>1. b \in Seq(S) /\ padding \in Seq(S) /\ code \in Seq(S)
      <3>1. <<" ">> \in Seq(S) /\ <<>> \in Seq(S)
        OBVIOUS
      <3>2. T \subseteq S /\ Tick \in S
        OBVIOUS
      <3>3. code \in Seq(S)
        BY <3>2, Widened, Zenon
      <3>4. b \in Seq(S)
        <4> HIDE DEF S
        <4> QED BY <1>2, <3>2 DEF Backticks
      <3> QED BY <3>1, <3>3, <3>4
    <2> HIDE DEF b, padding, S
    <2> QED BY SMTT(30), <2>1, Grouped
  <1>6. InlineCode(code) = b \o body \o b
    BY <1>4, <1>5, Zenon
  <1> HIDE DEF body
  <1>7. IsDelimited(InlineCode(code), body, n)
    BY <1>2, <1>3, <1>6, OnlyAtEnds
  <1>8. padding \in {<<>>, <<" ">>}
    OBVIOUS
  <1> QED BY <1>1, <1>7, <1>8 DEF body

-----------------------------------------------------------------------------
(* Quoted values, character by character.                                  *)

(* A character of a quoted value stands at a position of the text, itself  *)
(* or escaped, and the next one right behind it.                           *)
StandsAt(text, at, value, k) ==
    /\ at[k] \in Nat \ {0} /\ at[k + 1] \in Nat /\ at[k + 1] <= Len(text) + 1
    /\ IF value[k] \in DOMAIN Escape
       THEN /\ at[k + 1] = at[k] + 2
            /\ text[at[k]] = "\\" /\ text[at[k] + 1] = Escape[value[k]]
       ELSE at[k + 1] = at[k] + 1 /\ text[at[k]] = value[k]

Stand(text, at, value, n) == \A k \in 1 .. n : StandsAt(text, at, value, k)

QuotedSoFar(value, chars) ==
    {x \in Seq(chars) \X Nat :
        \E at \in [1 .. x[2] + 1 -> Nat \ {0}] :
            at[1] = 1 /\ at[x[2] + 1] = Len(x[1]) + 1 /\ Stand(x[1], at, value, x[2])}

Piece(c) == IF c \in DOMAIN Escape THEN <<"\\", Escape[c]>> ELSE <<c>>

QuoteChars(T) == (T \cup {"\"", "\\", "n"}) \ {"\n"}

LEMMA EscapesAre ==
    /\ DOMAIN Escape = {"\"", "\\", "\n"}
    /\ Escape["\""] = "\"" /\ Escape["\\"] = "\\" /\ Escape["\n"] = "n"
  BY DEF Escape

LEMMA PieceIs ==
    ASSUME NEW T, NEW c \in T
    PROVE  /\ Piece(c) \in Seq(QuoteChars(T))
           /\ IF c \in DOMAIN Escape
              THEN Len(Piece(c)) = 2 /\ Piece(c)[1] = "\\" /\ Piece(c)[2] = Escape[c]
              ELSE Len(Piece(c)) = 1 /\ Piece(c)[1] = c
  <1>1. CASE c \in DOMAIN Escape
    <2>1. "\\" \in QuoteChars(T) /\ Escape[c] \in QuoteChars(T)
      BY <1>1, EscapesAre DEF QuoteChars
    <2>2. Piece(c) = <<"\\", Escape[c]>>
      BY <1>1 DEF Piece
    <2> QED BY <1>1, <2>1, <2>2
  <1>2. CASE c \notin DOMAIN Escape
    <2>1. c \in QuoteChars(T)
      BY <1>2, EscapesAre DEF QuoteChars
    <2>2. Piece(c) = <<c>>
      BY <1>2 DEF Piece
    <2> QED BY <1>2, <2>1, <2>2
  <1> QED BY <1>1, <1>2

LEMMA Within ==
    ASSUME NEW a \in Nat \ {0}, NEW b \in Nat, NEW l \in Nat, b <= l + 1
    PROVE  /\ b = a + 2 => a \in 1 .. l /\ a + 1 \in 1 .. l
           /\ b = a + 1 => a \in 1 .. l
  OBVIOUS

LEMMA Shifted ==
    ASSUME NEW a \in Nat \ {0}, NEW b \in Nat
    PROVE  /\ 1 + a = a + 1 /\ 1 + (a + 1) = (a + 1) + 1
           /\ b = a + 2 => b + 1 = (a + 1) + 2
           /\ b = a + 1 => b + 1 = (a + 1) + 1
  OBVIOUS

(* What stands in a text stands in it when something is written before or  *)
(* behind it.                                                              *)
LEMMA StandsBehind ==
    ASSUME NEW C, NEW p \in Seq(C), NEW q \in Seq(C), NEW value, NEW n \in Nat, NEW at,
           Stand(p, at, value, n)
    PROVE  Stand(p \o q, at, value, n)
  <1>1. /\ Len(p \o q) = Len(p) + Len(q) /\ Len(p) \in Nat /\ Len(q) \in Nat
        /\ \A i \in 1 .. Len(p) : (p \o q)[i] = p[i]
    BY Joined
  <1> DEFINE s == p \o q
  <1> HIDE DEF s
  <1>2. /\ Len(s) = Len(p) + Len(q)
        /\ \A i \in 1 .. Len(p) : s[i] = p[i]
    BY <1>1 DEF s
  <1>3. ASSUME NEW k \in 1 .. n PROVE StandsAt(s, at, value, k)
    <2>1. StandsAt(p, at, value, k)
      BY DEF Stand
    <2>2. at[k] \in Nat \ {0} /\ at[k + 1] \in Nat /\ at[k + 1] <= Len(p) + 1
      BY <2>1 DEF StandsAt
    <2>3. at[k + 1] <= Len(s) + 1
      BY <1>1, <1>2, <2>2
    <2>4. CASE value[k] \in DOMAIN Escape
      <3>1. at[k + 1] = at[k] + 2 /\ p[at[k]] = "\\" /\ p[at[k] + 1] = Escape[value[k]]
        BY <2>1, <2>4 DEF StandsAt
      <3>2. at[k] \in 1 .. Len(p) /\ at[k] + 1 \in 1 .. Len(p)
        BY <1>1, <2>2, <3>1, Within
      <3> QED BY <1>2, <2>2, <2>3, <2>4, <3>1, <3>2 DEF StandsAt
    <2>5. CASE value[k] \notin DOMAIN Escape
      <3>1. at[k + 1] = at[k] + 1 /\ p[at[k]] = value[k]
        BY <2>1, <2>5 DEF StandsAt
      <3>2. at[k] \in 1 .. Len(p)
        BY <1>1, <2>2, <3>1, Within
      <3> QED BY <1>2, <2>2, <2>3, <2>5, <3>1, <3>2 DEF StandsAt
    <2> QED BY <2>4, <2>5
  <1> QED BY <1>3 DEF Stand, s

LEMMA StandsBefore ==
    ASSUME NEW C, NEW c \in C, NEW q \in Seq(C), NEW value, NEW n \in Nat,
           NEW at \in [1 .. n + 1 -> Nat \ {0}], Stand(q, at, value, n)
    PROVE  Stand(<<c>> \o q, [k \in 1 .. n + 1 |-> at[k] + 1], value, n)
  <1> DEFINE s == <<c>> \o q
             next == [k \in 1 .. n + 1 |-> at[k] + 1]
  <1>1. <<c>> \in Seq(C) /\ Len(<<c>>) = 1
    OBVIOUS
  <1>2. /\ s \in Seq(C) /\ Len(s) = Len(<<c>>) + Len(q) /\ Len(q) \in Nat
        /\ \A i \in 1 .. Len(q) : s[Len(<<c>>) + i] = q[i]
    BY <1>1, Joined
  <1> HIDE DEF s
  <1>3. Len(s) = 1 + Len(q) /\ \A i \in 1 .. Len(q) : s[1 + i] = q[i]
    BY <1>1, <1>2
  <1>4. \A k \in 1 .. n + 1 : next[k] = at[k] + 1
    OBVIOUS
  <1> HIDE DEF next
  <1>5. ASSUME NEW k \in 1 .. n PROVE StandsAt(s, next, value, k)
    <2>1. StandsAt(q, at, value, k)
      BY DEF Stand
    <2>2. at[k] \in Nat \ {0} /\ at[k + 1] \in Nat /\ at[k + 1] <= Len(q) + 1
      BY <2>1 DEF StandsAt
    <2>3. next[k] = at[k] + 1 /\ next[k + 1] = at[k + 1] + 1
      BY <1>4
    <2>4. next[k] \in Nat \ {0} /\ next[k + 1] \in Nat /\ next[k + 1] <= Len(s) + 1
      BY SMTT(30), <1>2, <1>3, <2>2, <2>3
    <2>5. CASE value[k] \in DOMAIN Escape
      <3>1. at[k + 1] = at[k] + 2 /\ q[at[k]] = "\\" /\ q[at[k] + 1] = Escape[value[k]]
        BY <2>1, <2>5 DEF StandsAt
      <3>2. at[k] \in 1 .. Len(q) /\ at[k] + 1 \in 1 .. Len(q)
        BY <1>2, <2>2, <3>1, Within
      <3>3. s[1 + at[k]] = "\\" /\ s[1 + (at[k] + 1)] = Escape[value[k]]
        BY <1>3, <3>1, <3>2
      <3>4. 1 + at[k] = next[k] /\ 1 + (at[k] + 1) = next[k] + 1 /\ next[k + 1] = next[k] + 2
        BY <2>2, <2>3, <3>1, Shifted
      <3> QED BY <2>4, <2>5, <3>3, <3>4 DEF StandsAt
    <2>6. CASE value[k] \notin DOMAIN Escape
      <3>1. at[k + 1] = at[k] + 1 /\ q[at[k]] = value[k]
        BY <2>1, <2>6 DEF StandsAt
      <3>2. at[k] \in 1 .. Len(q)
        BY <1>2, <2>2, <3>1, Within
      <3>3. s[1 + at[k]] = value[k]
        BY <1>3, <3>1, <3>2
      <3>4. 1 + at[k] = next[k] /\ next[k + 1] = next[k] + 1
        BY <2>2, <2>3, <3>1, Shifted
      <3> QED BY <2>4, <2>6, <3>3, <3>4 DEF StandsAt
    <2> QED BY <2>5, <2>6
  <1>6. Stand(s, next, value, n)
    BY <1>5 DEF Stand
  <1> QED BY <1>6 DEF s, next

(* One more character.                                                     *)
LEMMA QuoteStep ==
    ASSUME NEW T, NEW value, NEW k \in Nat, NEW text, value[k + 1] \in T,
           <<text, k>> \in QuotedSoFar(value, QuoteChars(T))
    PROVE  <<text \o Piece(value[k + 1]), k + 1>> \in QuotedSoFar(value, QuoteChars(T))
  <1> DEFINE C == QuoteChars(T)
             piece == Piece(value[k + 1])
             s == text \o piece
  <1>1. text \in Seq(C) /\ \E at \in [1 .. k + 1 -> Nat \ {0}] :
              at[1] = 1 /\ at[k + 1] = Len(text) + 1 /\ Stand(text, at, value, k)
    BY DEF QuotedSoFar
  <1>2. PICK at \in [1 .. k + 1 -> Nat \ {0}] :
              at[1] = 1 /\ at[k + 1] = Len(text) + 1 /\ Stand(text, at, value, k)
    BY <1>1
  <1>3. /\ piece \in Seq(C)
        /\ IF value[k + 1] \in DOMAIN Escape
           THEN Len(piece) = 2 /\ piece[1] = "\\" /\ piece[2] = Escape[value[k + 1]]
           ELSE Len(piece) = 1 /\ piece[1] = value[k + 1]
    BY PieceIs
  <1> HIDE DEF C, piece
  <1>4. /\ s \in Seq(C) /\ Len(s) = Len(text) + Len(piece) /\ Len(text) \in Nat
        /\ \A i \in 1 .. Len(piece) : s[Len(text) + i] = piece[i]
    BY <1>1, <1>3, Joined
  <1>5. Stand(s, at, value, k)
    BY <1>1, <1>2, <1>3, StandsBehind
  <1> HIDE DEF s
  <1> DEFINE next == [i \in 1 .. (k + 1) + 1 |-> IF i = k + 2 THEN Len(s) + 1 ELSE at[i]]
  <1>6. /\ next[k + 2] = Len(s) + 1 /\ \A i \in 1 .. k + 1 : next[i] = at[i]
        /\ Len(s) \in Nat
    <2>1. Len(s) \in Nat
      BY <1>4, LenProperties
    <2>2. \A i \in 1 .. k + 1 : i \in 1 .. (k + 1) + 1 /\ i # k + 2
      OBVIOUS
    <2>3. k + 2 \in 1 .. (k + 1) + 1
      OBVIOUS
    <2> QED BY <2>1, <2>2, <2>3
  <1>7. next \in [1 .. (k + 1) + 1 -> Nat \ {0}]
    <2>1. \A i \in 1 .. (k + 1) + 1 : i = k + 2 \/ i \in 1 .. k + 1
      OBVIOUS
    <2>2. Len(s) + 1 \in Nat \ {0}
      BY <1>6
    <2> QED BY <1>2, <2>1, <2>2
  <1> HIDE DEF next
  <1>8. ASSUME NEW i \in 1 .. k PROVE StandsAt(s, next, value, i)
    <2>1. StandsAt(s, at, value, i)
      BY <1>5 DEF Stand
    <2>2. next[i] = at[i] /\ next[i + 1] = at[i + 1]
      <3>1. i \in 1 .. k + 1 /\ i + 1 \in 1 .. k + 1
        OBVIOUS
      <3> QED BY <1>6, <3>1
    <2> QED BY <2>1, <2>2 DEF StandsAt
  <1>9. StandsAt(s, next, value, k + 1)
    <2>1. next[k + 1] = Len(text) + 1 /\ (k + 1) + 1 = k + 2
      <3>1. k + 1 \in 1 .. k + 1
        OBVIOUS
      <3> QED BY <1>2, <1>6, <3>1
    <2>2. next[k + 1] \in Nat \ {0} /\ next[k + 2] \in Nat /\ next[k + 2] <= Len(s) + 1
      BY <1>4, <1>6, <2>1
    <2>3. CASE value[k + 1] \in DOMAIN Escape
      <3>1. Len(piece) = 2 /\ piece[1] = "\\" /\ piece[2] = Escape[value[k + 1]]
        BY <1>3, <2>3
      <3>2. 1 \in 1 .. 2 /\ 2 \in 1 .. 2
        OBVIOUS
      <3>3. s[Len(text) + 1] = "\\" /\ s[Len(text) + 2] = Escape[value[k + 1]]
        BY <1>4, <3>1, <3>2
      <3>4. next[k + 2] = next[k + 1] + 2 /\ next[k + 1] + 1 = Len(text) + 2
        BY <1>4, <1>6, <2>1, <3>1
      <3> QED BY <2>1, <2>2, <2>3, <3>3, <3>4 DEF StandsAt
    <2>4. CASE value[k + 1] \notin DOMAIN Escape
      <3>1. Len(piece) = 1 /\ piece[1] = value[k + 1]
        BY <1>3, <2>4
      <3>2. 1 \in 1 .. 1
        OBVIOUS
      <3>3. s[Len(text) + 1] = value[k + 1]
        BY <1>4, <3>1, <3>2
      <3>4. next[k + 2] = next[k + 1] + 1
        BY <1>4, <1>6, <2>1, <3>1
      <3> QED BY <2>1, <2>2, <2>4, <3>3, <3>4 DEF StandsAt
    <2> QED BY <2>3, <2>4
  <1>10. Stand(s, next, value, k + 1)
    <2>1. \A i \in 1 .. k + 1 : i = k + 1 \/ i \in 1 .. k
      OBVIOUS
    <2> QED BY <1>8, <1>9, <2>1 DEF Stand
  <1>11. next[1] = 1 /\ next[(k + 1) + 1] = Len(s) + 1 /\ k + 1 \in Nat
    <2>1. 1 \in 1 .. k + 1 /\ (k + 1) + 1 = k + 2
      OBVIOUS
    <2> QED BY <1>2, <1>6, <2>1
  <1>12. <<s, k + 1>> \in QuotedSoFar(value, C)
    BY <1>4, <1>7, <1>10, <1>11 DEF QuotedSoFar
  <1> QED BY <1>12 DEF s, C, piece

(* Where the characters of a value stand in the quoted one, from its first *)
(* quote to its last.                                                      *)
IsQuoted(q, at, value, n) ==
    /\ at[1] = 2 /\ at[n + 1] = Len(q) /\ q[Len(q)] = "\""
    /\ Stand(q, at, value, n)

LEMMA QuoteStarts ==
    ASSUME NEW C, NEW value
    PROVE  <<<<>>, 0>> \in QuotedSoFar(value, C)
  <1> DEFINE at == [i \in 1 .. 0 + 1 |-> 1]
             x == <<<<>>, 0>>
             Has(y) == \E f \in [1 .. y[2] + 1 -> Nat \ {0}] :
                          f[1] = 1 /\ f[y[2] + 1] = Len(y[1]) + 1 /\ Stand(y[1], f, value, y[2])
  <1>1. at \in [1 .. 0 + 1 -> Nat \ {0}] /\ at[1] = 1 /\ at[0 + 1] = 0 + 1
    OBVIOUS
  <1>2. x[1] = <<>> /\ x[2] = 0 /\ Len(<<>>) = 0 /\ x \in Seq(C) \X Nat
    <2>1. <<>> \in Seq(C)
      OBVIOUS
    <2>2. Len(<<>>) = 0
      OBVIOUS
    <2>3. x[1] = <<>>
      OBVIOUS
    <2>4. x[2] = 0
      OBVIOUS
    <2>5. x \in Seq(C) \X Nat
      BY <2>1
    <2> QED BY <2>2, <2>3, <2>4, <2>5, Zenon
  <1>3. Stand(<<>>, at, value, 0)
    BY DEF Stand
  <1> HIDE DEF at, x
  <1>4. Has(x)
    BY <1>1, <1>2, <1>3
  <1>5. QuotedSoFar(value, C) = {y \in Seq(C) \X Nat : Has(y)}
    BY Zenon DEF QuotedSoFar
  <1> HIDE DEF Has
  <1>6. x \in QuotedSoFar(value, C)
    BY <1>2, <1>4, <1>5
  <1> QED BY <1>6 DEF x

LEMMA QuoteIs ==
    ASSUME NEW T, NEW value \in Seq(T)
    PROVE  /\ Quote(value) \in Seq(QuoteChars(T))
           /\ \E at \in [1 .. Len(value) + 1 -> Nat \ {0}] :
                IsQuoted(Quote(value), at, value, Len(value))
  <1> DEFINE n == Len(value)
             C == QuoteChars(T)
             parts == [i \in DOMAIN value |->
                          IF value[i] \in DOMAIN Escape THEN <<"\\", Escape[value[i]]>>
                          ELSE <<value[i]>>]
             body == FlattenSeq(parts)
             mark == <<"\"">>
  <1>1. n \in Nat /\ DOMAIN value = 1 .. n /\ \A i \in 1 .. n : value[i] \in T
    BY LenProperties
  <1>2. Quote(value) = mark \o body \o mark
    BY Zenon DEF Quote
  <1>3. parts = [i \in 1 .. n |-> Piece(value[i])]
    BY <1>1 DEF Piece
  <1>4. mark \in Seq(C) /\ Len(mark) = 1 /\ mark[1] = "\"" /\ "\"" \in C
    BY DEF QuoteChars
  <1>5. <<body, n>> \in QuotedSoFar(value, C)
    <2>1. CASE n = 0
      <3>1. parts = <<>> /\ Len(parts) = 0
        <4>1. parts = <<>>
          BY <1>3, <2>1
        <4> HIDE DEF parts
        <4> QED BY <4>1
      <3>2. body = <<>>
        <4> HIDE DEF parts
        <4> QED BY <3>1, Zenon DEF FlattenSeq
      <3>6. <<<<>>, 0>> \in QuotedSoFar(value, C)
        BY QuoteStarts
      <3> HIDE DEF C, n
      <3> QED BY <2>1, <3>2, <3>6
    <2>2. CASE n # 0
      <3>1. n \in Nat \ {0}
        BY <1>1, <2>2
      <3>2. \A i \in 1 .. n : parts[i] = Piece(value[i])
        BY <1>3
      <3>3. Len(parts) = n
        <4> DEFINE P == {Piece(value[i]) : i \in 1 .. n}
        <4>1. [i \in 1 .. n |-> Piece(value[i])] \in [1 .. n -> P]
          OBVIOUS
        <4> HIDE DEF P, parts, n
        <4>2. parts \in [1 .. n -> P]
          BY <1>3, <4>1
        <4>3. parts \in Seq(P) /\ DOMAIN parts = 1 .. n
          BY <1>1, <4>2
        <4> QED BY <1>1, <4>3, LenProperties
      <3> HIDE DEF parts
      <3>4. <<parts[1], 1>> \in QuotedSoFar(value, C)
        <4>4. <<<<>>, 0>> \in QuotedSoFar(value, C)
          BY QuoteStarts
        <4>5. value[0 + 1] \in T /\ 0 + 1 = 1
          BY <1>1, <3>1
        <4>6. <<<<>> \o Piece(value[0 + 1]), 0 + 1>> \in QuotedSoFar(value, C)
          BY <4>4, <4>5, QuoteStep
        <4>7. <<>> \o Piece(value[0 + 1]) = parts[1]
          <5>1. Piece(value[1]) \in Seq(C)
            BY <4>5, PieceIs
          <5>2. parts[1] = Piece(value[1])
            BY <3>1, <3>2
          <5> HIDE DEF C
          <5> QED BY <4>5, <5>1, <5>2, ConcatEmptySeq
        <4> HIDE DEF C
        <4> QED BY <4>5, <4>6, <4>7
      <3>5. ASSUME NEW k \in 1 .. n - 1, NEW text, <<text, k>> \in QuotedSoFar(value, C)
            PROVE  <<text \o parts[k + 1], k + 1>> \in QuotedSoFar(value, C)
        <4>1. k \in Nat /\ k + 1 \in 1 .. n
          BY <1>1
        <4>2. value[k + 1] \in T /\ parts[k + 1] = Piece(value[k + 1])
          BY <1>1, <3>2, <4>1
        <4>3. <<text \o Piece(value[k + 1]), k + 1>> \in QuotedSoFar(value, C)
          BY <3>5, <4>1, <4>2, QuoteStep
        <4> HIDE DEF C
        <4> QED BY <4>2, <4>3
      <3> DEFINE Good == QuotedSoFar(value, C)
      <3> HIDE DEF Good, C, n
      <3>6. <<parts[1], 1>> \in Good /\ \A k \in 1 .. n - 1 : \A text :
                <<text, k>> \in Good => <<text \o parts[k + 1], k + 1>> \in Good
        BY <3>4, <3>5 DEF Good
      <3>7. <<FlattenSeq(parts), n>> \in Good
        BY <3>1, <3>3, <3>6, FlattenInduction
      <3> QED BY <3>7 DEF Good
    <2> QED BY <2>1, <2>2
  <1> HIDE DEF n, C, parts, mark, body
  <1>6. /\ body \in Seq(C)
        /\ \E at \in [1 .. n + 1 -> Nat \ {0}] :
              at[1] = 1 /\ at[n + 1] = Len(body) + 1 /\ Stand(body, at, value, n)
    BY <1>5 DEF QuotedSoFar
  <1>7. PICK at \in [1 .. n + 1 -> Nat \ {0}] :
              at[1] = 1 /\ at[n + 1] = Len(body) + 1 /\ Stand(body, at, value, n)
    BY <1>6
  <1> DEFINE next == [k \in 1 .. n + 1 |-> at[k] + 1]
             p == mark \o body
             q == p \o mark
  <1> HIDE DEF next
  <1>8. Stand(p, next, value, n)
    <2>1. "\"" \in C
      BY <1>4
    <2>2. Stand(<<"\"">> \o body, next, value, n)
      <3> HIDE DEF p, q
      <3> QED BY <1>1, <1>6, <1>7, <2>1, StandsBefore DEF next
    <2> QED BY <2>2 DEF mark
  <1>9. p \in Seq(C) /\ Len(p) = 1 + Len(body) /\ Len(body) \in Nat
    <2>1. p \in Seq(C) /\ Len(p) = Len(mark) + Len(body) /\ Len(body) \in Nat
      <3>1. mark \in Seq(C) /\ body \in Seq(C)
        BY <1>4, <1>6
      <3> QED BY <3>1, Joined
    <2> HIDE DEF p
    <2> QED BY <1>4, <2>1
  <1>10. next \in [1 .. n + 1 -> Nat \ {0}] /\ next[1] = 2 /\ next[n + 1] = Len(body) + 2
    <2>1. \A k \in 1 .. n + 1 : next[k] = at[k] + 1 /\ at[k] + 1 \in Nat \ {0}
      BY <1>7 DEF next
    <2>2. 1 \in 1 .. n + 1 /\ n + 1 \in 1 .. n + 1
      BY <1>1
    <2>3. next[1] = 2 /\ next[n + 1] = Len(body) + 2
      BY <1>7, <1>9, <2>1, <2>2
    <2> QED BY <2>1, <2>3 DEF next
  <1> HIDE DEF p
  <1>11. /\ q \in Seq(C) /\ Len(q) = Len(p) + Len(mark)
         /\ \A i \in 1 .. Len(mark) : q[Len(p) + i] = mark[i]
    <2>1. p \in Seq(C) /\ mark \in Seq(C)
      BY <1>4, <1>9
    <2> QED BY <2>1, Joined
  <1>12. Stand(q, next, value, n)
    BY <1>1, <1>4, <1>8, <1>9, StandsBehind
  <1>13. q = Quote(value)
    BY <1>2 DEF p
  <1> HIDE DEF q
  <1>14. Len(q) = Len(body) + 2 /\ q[Len(q)] = "\""
    <2>0. 1 \in 1 .. 1
      OBVIOUS
    <2>1. Len(mark) = 1 /\ mark[1] = "\"" /\ 1 \in 1 .. 1
      BY <1>4, <2>0, Zenon
    <2>2. Len(q) = Len(p) + Len(mark) /\ \A i \in 1 .. Len(mark) : q[Len(p) + i] = mark[i]
      BY <1>11
    <2>3. Len(q) = Len(p) + 1 /\ q[Len(p) + 1] = "\""
      BY <2>1, <2>2
    <2>4. Len(q) = Len(body) + 2
      <3>1. Len(q) = (1 + Len(body)) + 1 /\ Len(body) \in Nat
        BY <1>9, <2>3, Zenon
      <3>2. \A l \in Nat : (1 + l) + 1 = l + 2
        OBVIOUS
      <3> QED BY <3>1, <3>2, Zenon
    <2> QED BY <2>3, <2>4
  <1>15. IsQuoted(q, next, value, n)
    BY <1>10, <1>12, <1>14 DEF IsQuoted
  <1> QED BY <1>10, <1>11, <1>13, <1>15 DEF n, C

(* What stands at a position is no bare quote and can be only one thing.   *)
LEMMA StandsNoQuote ==
    ASSUME NEW t, NEW a, NEW v, NEW k \in Nat, StandsAt(t, a, v, k)
    PROVE  t[a[k]] # "\""
  <1>1. "\\" \in DOMAIN Escape /\ "\"" \in DOMAIN Escape /\ "\\" # "\""
    BY EscapesAre
  <1> QED BY <1>1 DEF StandsAt

MeanSame(a, b, v, w, k) == v[k] = w[k] /\ a[k + 1] = b[k + 1]

LEMMA StandsOnce ==
    ASSUME NEW t, NEW a, NEW b, NEW v, NEW w, NEW k \in Nat, StandsAt(t, a, v, k),
           StandsAt(t, b, w, k), a[k] = b[k]
    PROVE  MeanSame(a, b, v, w, k)
  <1>0. "\\" \in DOMAIN Escape /\ "\"" \in DOMAIN Escape /\ "\\" # "\""
    BY EscapesAre
  <1>1. CASE v[k] \in DOMAIN Escape
    <2>1. t[b[k]] = "\\"
      BY <1>1 DEF StandsAt
    <2>2. w[k] \in DOMAIN Escape
      BY <1>0, <2>1 DEF StandsAt
    <2>3. Escape[v[k]] = Escape[w[k]]
      BY <1>1, <2>2 DEF StandsAt
    <2>4. v[k] = w[k]
      BY <1>1, <2>2, <2>3, EscapesAre
    <2>5. a[k + 1] = b[k + 1]
      BY <1>1, <2>2 DEF StandsAt
    <2> QED BY <2>4, <2>5 DEF MeanSame
  <1>2. CASE v[k] \notin DOMAIN Escape
    <2>1. t[b[k]] = v[k]
      BY <1>2 DEF StandsAt
    <2>2. w[k] \notin DOMAIN Escape
      BY <1>0, <1>2, <2>1 DEF StandsAt
    <2>3. v[k] = w[k] /\ a[k + 1] = b[k + 1]
      BY <1>2, <2>1, <2>2 DEF StandsAt
    <2> QED BY <2>3 DEF MeanSame
  <1> QED BY <1>1, <1>2

SameFirst(v, w, k) == \A i \in 1 .. k : v[i] = w[i]

SameTo(a, b, v, w, m) ==
    {k \in Nat : k <= m /\ a[k + 1] = b[k + 1] /\ SameFirst(v, w, k)}

LEMMA Positive == \A l \in Nat \ {0} : l \in 1 .. l
  OBVIOUS

LEMMA ZeroIs ==
    /\ 0 + 1 = 1 /\ 0 \in Nat /\ \A i \in 1 .. 0 : FALSE
    /\ \A l \in Nat : 0 <= l /\ l \in 0 .. l
  OBVIOUS

LEMMA OneFurther ==
    ASSUME NEW n \in Nat, NEW m \in Nat, NEW k \in 0 .. n - 1
    PROVE  /\ k \in Nat /\ k + 1 \in Nat /\ k + 1 \in 1 .. n
           /\ k <= m /\ k # m => k + 1 <= m /\ k + 1 \in 1 .. m
           /\ \A i \in 1 .. k + 1 : i = k + 1 \/ i \in 1 .. k
  OBVIOUS

LEMMA StandsSame ==
    ASSUME NEW t, NEW a, NEW b, NEW v, NEW w, NEW n \in Nat, NEW m \in Nat, a[1] = b[1],
           Stand(t, a, v, n), Stand(t, b, w, m), t[b[m + 1]] = "\""
    PROVE  n <= m /\ SameFirst(v, w, n)
  <1> DEFINE S == SameTo(a, b, v, w, m)
  <1>1. 0 \in S
    <2> QED BY ZeroIs, Zenon DEF SameTo, SameFirst
  <1>2. ASSUME NEW k \in 0 .. n - 1, k \in S PROVE k + 1 \in S
    <2>1. k \in Nat /\ k <= m /\ a[k + 1] = b[k + 1] /\ \A i \in 1 .. k : v[i] = w[i]
      BY <1>2 DEF SameTo, SameFirst
    <2> HIDE DEF S
    <2>2. k + 1 \in 1 .. n /\ k + 1 \in Nat
      BY OneFurther
    <2>3. StandsAt(t, a, v, k + 1)
      BY <2>2 DEF Stand
    <2>4. t[a[k + 1]] # "\""
      BY <2>2, <2>3, StandsNoQuote, Zenon
    <2>5. k # m
      BY <2>1, <2>4, Zenon
    <2>6. k + 1 \in 1 .. m /\ k + 1 <= m
      BY <2>1, <2>5, OneFurther
    <2>7. StandsAt(t, b, w, k + 1)
      BY <2>6 DEF Stand
    <2>8. v[k + 1] = w[k + 1] /\ a[(k + 1) + 1] = b[(k + 1) + 1]
      <3>1. MeanSame(a, b, v, w, k + 1)
        BY <2>1, <2>2, <2>3, <2>7, StandsOnce, Zenon
      <3> QED BY <3>1 DEF MeanSame
    <2>9. \A i \in 1 .. k + 1 : i = k + 1 \/ i \in 1 .. k
      BY OneFurther
    <2>10. \A i \in 1 .. k + 1 : v[i] = w[i]
      BY <2>1, <2>8, <2>9, Zenon
    <2> QED BY <2>2, <2>6, <2>8, <2>10, Zenon DEF S, SameTo, SameFirst
  <1>3. n \in S
    <2> HIDE DEF S
    <2>1. \A k \in 0 .. n : k \in S
      BY <1>1, <1>2, BoundedInduction
    <2> QED BY <2>1, ZeroIs, Zenon
  <1> QED BY <1>3 DEF SameTo

(* A quoted value can be read in one way only, whatever quotes, backslashes *)
(* and line breaks are in it and whatever follows it, and stays on its     *)
(* line (Quote in front matter).                                           *)
THEOREM EveryQuoteReadsBack ==
    ASSUME NEW T, NEW v \in Seq(T)
    PROVE  /\ \A i \in 1 .. Len(Quote(v)) : Quote(v)[i] # "\n"
           /\ \A w, x, y \in Seq(T) : Quote(v) \o x = Quote(w) \o y => v = w
  <1>1. \A i \in 1 .. Len(Quote(v)) : Quote(v)[i] # "\n"
    <2>1. Quote(v) \in Seq(QuoteChars(T)) /\ "\n" \notin QuoteChars(T)
      BY QuoteIs DEF QuoteChars
    <2> QED BY <2>1
  <1>2. ASSUME NEW w \in Seq(T), NEW x \in Seq(T), NEW y \in Seq(T), Quote(v) \o x = Quote(w) \o y
        PROVE  v = w
    <2> DEFINE C == QuoteChars(T) \cup T
               q == Quote(v)
               r == Quote(w)
               t == q \o x
               n == Len(v)
               m == Len(w)
    <2>1. n \in Nat /\ m \in Nat
      BY LenProperties
    <2>2. q \in Seq(C) /\ r \in Seq(C) /\ x \in Seq(C) /\ y \in Seq(C)
      <3>1. q \in Seq(QuoteChars(T)) /\ r \in Seq(QuoteChars(T))
        BY QuoteIs
      <3>2. QuoteChars(T) \subseteq C /\ T \subseteq C
        OBVIOUS
      <3> HIDE DEF C, q, r
      <3> QED BY <3>1, <3>2, Widened
    <2>3. PICK a \in [1 .. n + 1 -> Nat \ {0}] : IsQuoted(q, a, v, n)
      BY QuoteIs
    <2>4. PICK b \in [1 .. m + 1 -> Nat \ {0}] : IsQuoted(r, b, w, m)
      BY QuoteIs
    <2> HIDE DEF C, q, r, n, m
    <2>5. Stand(t, a, v, n)
      BY <2>1, <2>2, <2>3, StandsBehind DEF IsQuoted
    <2>6. t = r \o y
      BY <1>2 DEF q, r
    <2>7. Stand(r \o y, b, w, m)
      BY <2>1, <2>2, <2>4, StandsBehind DEF IsQuoted
    <2>8. t[a[n + 1]] = "\""
      <3>1. \A i \in 1 .. Len(q) : (q \o x)[i] = q[i]
        BY <2>2, Joined
      <3>2. a[n + 1] = Len(q) /\ q[Len(q)] = "\"" /\ a[n + 1] \in Nat \ {0}
        <4>1. n + 1 \in 1 .. n + 1
          BY <2>1
        <4> QED BY <2>3, <4>1 DEF IsQuoted
      <3>3. Len(q) \in 1 .. Len(q)
        BY <3>2, Positive, Zenon
      <3> QED BY <3>1, <3>2, <3>3
    <2>9. (r \o y)[b[m + 1]] = "\""
      <3>1. \A i \in 1 .. Len(r) : (r \o y)[i] = r[i]
        BY <2>2, Joined
      <3>2. b[m + 1] = Len(r) /\ r[Len(r)] = "\"" /\ b[m + 1] \in Nat \ {0}
        <4>1. m + 1 \in 1 .. m + 1
          BY <2>1
        <4> QED BY <2>4, <4>1 DEF IsQuoted
      <3>3. Len(r) \in 1 .. Len(r)
        BY <3>2, Positive, Zenon
      <3> QED BY <3>1, <3>2, <3>3
    <2> HIDE DEF t
    <2>10. Stand(t, b, w, m) /\ t[b[m + 1]] = "\""
      BY <2>6, <2>7, <2>9
    <2>11. a[1] = b[1]
      BY <2>3, <2>4 DEF IsQuoted
    <2>12. n <= m /\ SameFirst(v, w, n)
      BY <2>1, <2>5, <2>10, <2>11, StandsSame, Zenon
    <2>13. m <= n
      <3>1. b[1] = a[1]
        BY <2>11
      <3> QED BY <2>1, <2>5, <2>8, <2>10, <3>1, StandsSame, Zenon
    <2>14. Len(v) = Len(w) /\ \A i \in 1 .. Len(v) : v[i] = w[i]
      BY <2>1, <2>12, <2>13 DEF n, m, SameFirst
    <2> QED BY <2>14, SeqEqual
  <1> QED BY <1>1, <1>2

-----------------------------------------------------------------------------
(* Pipes in the cells of tables.                                           *)

(* No pipe without a backslash before it.                                  *)
PipesEscaped(s) == \A i \in 1 .. Len(s) : s[i] = "|" => i - 1 \in 1 .. Len(s) /\ s[i - 1] = "\\"

EscapedSoFar(C) == {x \in Seq(C) \X Nat : PipesEscaped(x[1])}

CellPiece(c) == IF c = "|" THEN <<"\\", "|">> ELSE <<c>>

LEMMA CellPieceIs ==
    ASSUME NEW C, NEW c \in C, "\\" \in C
    PROVE  CellPiece(c) \in Seq(C) /\ PipesEscaped(CellPiece(c))
  <1>1. CASE c = "|"
    <2>1. CellPiece(c) = <<"\\", "|">>
      BY <1>1 DEF CellPiece
    <2>2. <<"\\", "|">> \in Seq(C)
      BY <1>1
    <2>3. PipesEscaped(<<"\\", "|">>)
      BY DEF PipesEscaped
    <2> QED BY <2>1, <2>2, <2>3
  <1>2. CASE c # "|"
    <2>1. CellPiece(c) = <<c>>
      BY <1>2 DEF CellPiece
    <2>2. <<c>> \in Seq(C)
      OBVIOUS
    <2>3. PipesEscaped(<<c>>)
      BY <1>2 DEF PipesEscaped
    <2> QED BY <2>1, <2>2, <2>3
  <1> QED BY <1>1, <1>2

LEMMA Halves ==
    ASSUME NEW p \in Nat, NEW q \in Nat, NEW i \in 1 .. p + q
    PROVE  \/ i \in 1 .. p /\ (i - 1 \in 1 .. p => i - 1 \in 1 .. p + q)
           \/ /\ i - p \in 1 .. q /\ p + (i - p) = i
              /\ (i - p) - 1 \in 1 .. q => p + ((i - p) - 1) = i - 1 /\ i - 1 \in 1 .. p + q
  OBVIOUS

LEMMA EscapedTogether ==
    ASSUME NEW C, NEW p \in Seq(C), NEW q \in Seq(C), PipesEscaped(p), PipesEscaped(q)
    PROVE  PipesEscaped(p \o q)
  <1> DEFINE s == p \o q
  <1>1. /\ s \in Seq(C) /\ Len(s) = Len(p) + Len(q)
        /\ Len(p) \in Nat /\ Len(q) \in Nat
        /\ \A i \in 1 .. Len(p) : s[i] = p[i]
        /\ \A i \in 1 .. Len(q) : s[Len(p) + i] = q[i]
    BY Joined
  <1> HIDE DEF s
  <1>2. ASSUME NEW i \in 1 .. Len(s), s[i] = "|"
        PROVE  i - 1 \in 1 .. Len(s) /\ s[i - 1] = "\\"
    <2>1. i \in 1 .. Len(p) + Len(q)
      BY <1>1
    <2>2. CASE i \in 1 .. Len(p) /\ (i - 1 \in 1 .. Len(p) => i - 1 \in 1 .. Len(p) + Len(q))
      <3>1. p[i] = "|"
        BY <1>1, <1>2, <2>2
      <3>2. i - 1 \in 1 .. Len(p) /\ p[i - 1] = "\\"
        BY <2>2, <3>1 DEF PipesEscaped
      <3> QED BY <1>1, <2>2, <3>2
    <2>3. CASE /\ i - Len(p) \in 1 .. Len(q) /\ Len(p) + (i - Len(p)) = i
               /\ (i - Len(p)) - 1 \in 1 .. Len(q) =>
                     Len(p) + ((i - Len(p)) - 1) = i - 1 /\ i - 1 \in 1 .. Len(p) + Len(q)
      <3>1. q[i - Len(p)] = "|"
        BY <1>1, <1>2, <2>3
      <3>2. (i - Len(p)) - 1 \in 1 .. Len(q) /\ q[(i - Len(p)) - 1] = "\\"
        BY <2>3, <3>1 DEF PipesEscaped
      <3>3. s[Len(p) + ((i - Len(p)) - 1)] = "\\"
        BY <1>1, <3>2
      <3> QED BY <1>1, <2>3, <3>2, <3>3
    <2> QED BY <1>1, <2>1, <2>2, <2>3, Halves
  <1>3. PipesEscaped(s)
    BY <1>2 DEF PipesEscaped
  <1> QED BY <1>3 DEF s

(* A cell of a table has no bare pipe, which would divide its row in one   *)
(* cell more (escapePipes in renderTable).                                 *)
THEOREM EveryPipeEscaped ==
    ASSUME NEW T, NEW text \in Seq(T)
    PROVE  PipesEscaped(EscapePipes(text))
  <1> DEFINE n == Len(text)
             C == T \cup {"\\"}
             parts == [i \in DOMAIN text |-> IF text[i] = "|" THEN <<"\\", "|">> ELSE <<text[i]>>]
  <1>1. n \in Nat /\ DOMAIN text = 1 .. n /\ \A i \in 1 .. n : text[i] \in C
    BY LenProperties
  <1>2. EscapePipes(text) = FlattenSeq(parts)
    BY Zenon DEF EscapePipes
  <1>3. parts = [i \in 1 .. n |-> CellPiece(text[i])]
    BY <1>1 DEF CellPiece
  <1>4. "\\" \in C
    OBVIOUS
  <1>5. CASE n = 0
    <2>1. parts = <<>> /\ Len(parts) = 0
      <3>1. parts = <<>>
        BY <1>3, <1>5
      <3> HIDE DEF parts
      <3> QED BY <3>1
    <2> HIDE DEF parts
    <2>2. FlattenSeq(parts) = <<>>
      BY <2>1, Zenon DEF FlattenSeq
    <2>3. PipesEscaped(<<>>)
      BY DEF PipesEscaped
    <2> QED BY <1>2, <2>2, <2>3, Zenon
  <1>6. CASE n # 0
    <2>1. n \in Nat \ {0}
      BY <1>1, <1>6
    <2>2. \A i \in 1 .. n : parts[i] = CellPiece(text[i])
      BY <1>3
    <2>3. Len(parts) = n
      <3> DEFINE P == {CellPiece(text[i]) : i \in 1 .. n}
      <3>1. [i \in 1 .. n |-> CellPiece(text[i])] \in [1 .. n -> P]
        OBVIOUS
      <3> HIDE DEF P, parts, n
      <3>2. parts \in [1 .. n -> P]
        BY <1>3, <3>1
      <3>3. parts \in Seq(P) /\ DOMAIN parts = 1 .. n
        BY <1>1, <3>2
      <3> QED BY <1>1, <3>3, LenProperties
    <2> HIDE DEF parts, C, n
    <2>4. \A i \in 1 .. n : parts[i] \in Seq(C) /\ PipesEscaped(parts[i])
      BY <1>1, <1>4, <2>2, CellPieceIs
    <2> DEFINE Good == EscapedSoFar(C)
    <2>5. <<parts[1], 1>> \in Good
      <3>1. 1 \in 1 .. n
        BY <2>1
      <3> QED BY <2>4, <3>1 DEF EscapedSoFar
    <2>6. ASSUME NEW k \in 1 .. n - 1, NEW done, <<done, k>> \in Good
          PROVE  <<done \o parts[k + 1], k + 1>> \in Good
      <3>1. done \in Seq(C) /\ PipesEscaped(done)
        BY <2>6 DEF EscapedSoFar
      <3>2. k + 1 \in 1 .. n /\ k + 1 \in Nat
        BY <2>1
      <3>3. parts[k + 1] \in Seq(C) /\ PipesEscaped(parts[k + 1])
        BY <2>4, <3>2
      <3>4. done \o parts[k + 1] \in Seq(C) /\ PipesEscaped(done \o parts[k + 1])
        <4>1. PipesEscaped(done \o parts[k + 1])
          BY <3>1, <3>3, EscapedTogether
        <4>2. done \o parts[k + 1] \in Seq(C)
          BY <3>1, <3>3, ConcatProperties
        <4> QED BY <4>1, <4>2
      <3> QED BY <3>2, <3>4 DEF EscapedSoFar
    <2> HIDE DEF Good
    <2>7. <<FlattenSeq(parts), n>> \in Good
      BY <2>1, <2>3, <2>5, <2>6, FlattenInduction
    <2> QED BY <1>2, <2>7 DEF Good, EscapedSoFar
  <1> QED BY <1>5, <1>6

=============================================================================
