----------------------------- MODULE WikiFetch -----------------------------
(***************************************************************************)
(* devdash wiki refresh and wiki fetch.  Each command is a process of its  *)
(* own that reads the workspace and its configuration, discovers the pages *)
(* of the Confluence site, stores them in the registry, lists the pages of *)
(* the workspace and then, page by page, inspects the destination file,    *)
(* downloads the page, replaces the file and registers its location.  No   *)
(* lock spans two of those steps: other commands, the user's files and the *)
(* site may change between any two of them, and the process may die.       *)
(***************************************************************************)
EXTENDS Registry, Selection, Markdown, SequencesExt

CONSTANTS
    Procs,         \* the commands that may run at one time
    Filename,      \* the file a first fetch of a page chooses
    PageType,      \* "confluence_page"
    FileType,      \* "materialized_file"
    UserFile,      \* a regular file of the user
    OtherFile,     \* a symlink, a directory: anything but a regular file
    MaxSelectors,  \* bound on the selectors of one command
    Events         \* the behaviours of the environment in this instance

PossibleEvents == {"crash", "db_error", "remove_error", "removals", "sites", "remote", "user_files"}

(* The name ends in the page ID, so two pages never share a file; two      *)
(* titles of one page may have the same slug.                              *)
ASSUME FilenameAssumption ==
    /\ Filename \in [Directories \X ProviderIds \X Names -> Paths]
    /\ \A x, y \in DOMAIN Filename :
          Filename[x] = Filename[y] => x[1] = y[1] /\ x[2] = y[2]

ASSUME WikiAssumption ==
    /\ PageType \in SeededTypes /\ FileType \in LocationTypes
    /\ \A s \in Sources : TypeOf[s] = PageType
    /\ MaxSelectors \in Nat
    /\ Events \subseteq PossibleEvents

VARIABLES
    files,    \* what is at each path
    remote,   \* the titles of the pages of each site
    site,     \* the site each workspace is configured for
    proc      \* the running commands

wiki == <<db, issued, files, remote, site, proc>>

(* A generated file names its resource and holds a page of a site.         *)
Generated == [resource : ResourceIds, source : Sources, provider : ProviderIds]

Files == Generated \cup {NULL, UserFile, OtherFile}

(* A page as listPages reports it: the key is the page ID (NULL for a      *)
(* resource added by hand), path is NULL before the first fetch.           *)
Page == [resource : ResourceIds, key : ProviderIds \cup {NULL}, name : Names,
         path : Paths \cup {NULL}]

Command == [pc : {"resolved", "discovered", "stored", "listed",
                  "inspected", "staged", "replaced", "rollback"},
            workspace : WorkspaceIds, dir : Directories, source : Sources,
            items : SUBSET Item,                    \* what discovery returned
            todo : SUBSET Page,                     \* the selected pages left
            page : Page \cup {NULL}, path : Paths \cup {NULL},   \* the one in hand
            fetched : SUBSET ResourceIds]           \* results reported "fetched"

ASSUME AbsenceAssumption ==
    /\ NULL \notin Command \cup Page \cup Paths
    /\ {NULL, UserFile, OtherFile} \cap Generated = {}

At(c, pc) == proc[c] # NULL /\ proc[c].pc = pc

Init ==
    /\ RegistryInit
    /\ files = [p \in Paths |-> NULL]
    /\ remote \in [Sources -> [ProviderIds -> Names \cup {NULL}]]
    /\ site \in [WorkspaceIds -> Sources]
    /\ proc = [c \in Procs |-> NULL]

-----------------------------------------------------------------------------
(* The command as a whole: prepareRemote, refresh, listPages, Select.      *)

Resolve(c, w) ==
    /\ proc[c] = NULL
    /\ HasWorkspace(db, w)
    /\ proc' = [proc EXCEPT ![c] =
         [pc |-> "resolved", workspace |-> w, dir |-> db.workspaces[w].dir,
          source |-> site[w], items |-> {}, todo |-> {}, page |-> NULL, path |-> NULL,
          fetched |-> {}]]
    /\ UNCHANGED <<db, issued, files, remote, site>>

PublishedPages(s) ==
    {[provider |-> p, key |-> k, name |-> remote[s][p]] :
        p \in {q \in ProviderIds : remote[s][q] # NULL}, k \in ExternalKeys}

Discover(c) ==
    /\ At(c, "resolved")
    /\ proc' = [proc EXCEPT ![c].pc = "discovered",
                            ![c].items = PublishedPages(proc[c].source)]
    /\ UNCHANGED <<db, issued, files, remote, site>>

(* UpsertDiscovered, one transaction (RefreshTransaction).                 *)
StorePages(c) ==
    /\ At(c, "discovered")
    /\ \E rs \in SUBSET ResourceIds : \E stored \in [rs -> proc[c].items] :
          Refresh(proc[c].workspace, proc[c].source, proc[c].items, stored)
    /\ proc' = [proc EXCEPT ![c].pc = "stored", ![c].items = {}]
    /\ UNCHANGED <<files, remote, site>>

Listed(w) ==
    {[resource |-> r, key |-> db.resources[r].provider, name |-> db.resources[r].name,
      path |-> LocationPath(db, w, r, FileType)] : r \in WorkspaceResources(db, w, PageType)}

(* The list is ordered by keys and then by random IDs; any order will do,  *)
(* since a selector sees only the order of the rows of one key.            *)
Listings(w) == SetToSeqs(Listed(w))

Selectors == SeqOf(ProviderIds \cup Names, MaxSelectors)

(* A fetch selects all listed pages or those its selectors name; wiki      *)
(* refresh, which ends here, none.  They may be of another site.           *)
SelectPages(c, pages) ==
    /\ At(c, "stored")
    /\ \/ pages \in {{}, Listed(proc[c].workspace)}
       \/ \E rows \in Listings(proc[c].workspace), selectors \in Selectors :
             /\ Accepted(rows, selectors, "wiki")
             /\ pages = ToSet(Selected(rows, selectors, "wiki"))
    /\ proc' = [proc EXCEPT ![c].pc = "listed", ![c].todo = pages]
    /\ UNCHANGED <<db, issued, files, remote, site>>

(* The workspace is gone, the site does not answer, a statement fails:     *)
(* before a page is in hand an error ends the command.                     *)
GiveUp(c) ==
    /\ At(c, "resolved") \/ At(c, "discovered") \/ At(c, "stored")
    /\ proc' = [proc EXCEPT ![c] = NULL]
    /\ UNCHANGED <<db, issued, files, remote, site>>

Finish(c) ==
    /\ At(c, "listed")
    /\ proc[c].todo = {}
    /\ proc' = [proc EXCEPT ![c] = NULL]
    /\ UNCHANGED <<db, issued, files, remote, site>>

-----------------------------------------------------------------------------
(* fetchOne.  A failure fails the page, and the next page goes on.         *)

(* Fault: the page stays in the list.                                      *)
SamePage(c, done) ==
    proc' = [proc EXCEPT ![c].pc = "listed", ![c].page = NULL, ![c].path = NULL,
                         ![c].fetched = @ \cup done]

NextPage(c, done) ==
    proc' = [proc EXCEPT ![c].pc = "listed", ![c].todo = @ \ {proc[c].page},
                         ![c].page = NULL, ![c].path = NULL, ![c].fetched = @ \cup done]

IsFirstFetch(page) == page.path = NULL

(* What wiki list shows; one tracked path that is no regular file fails    *)
(* the whole list.                                                         *)
PageState(page) ==
    CASE page.path = NULL             -> "not fetched"
      [] files[page.path] = NULL      -> "missing"
      [] files[page.path] = OtherFile -> "error"
      [] OTHER                        -> "fetched"

(* The page Fetch returns: one of the ID it was asked for.                 *)
Downloads(s, page) == page.key # NULL /\ remote[s][page.key] # NULL

(* A first fetch refuses a destination that exists; a refetch needs its    *)
(* tracked path to be a child of the wiki directory and a regular file, or *)
(* absent.                                                                 *)
Inspect(c, page) ==
    /\ At(c, "listed")
    /\ \E path \in Paths :
        /\ IF IsFirstFetch(page)
           THEN /\ page.key # NULL
                /\ path = Filename[<<proc[c].dir, page.key, page.name>>]
                /\ files[path] = NULL
           ELSE /\ path = page.path
                /\ \E p \in ProviderIds, n \in Names : path = Filename[<<proc[c].dir, p, n>>]
                /\ files[path] # OtherFile
        /\ proc' = [proc EXCEPT ![c].pc = "inspected", ![c].page = page, ![c].path = path]
    /\ UNCHANGED <<db, issued, files, remote, site>>

(* A path that fails those tests, or a directory that cannot be made.      *)
RefusePage(c, page) ==
    /\ At(c, "listed")
    /\ proc' = [proc EXCEPT ![c].todo = @ \ {page}]
    /\ UNCHANGED <<db, issued, files, remote, site>>

(* Fetch the page from the site of the configuration, render it, and write *)
(* a temporary file; WriteAtomic inspects the destination once more.       *)
Stage(c) ==
    /\ At(c, "inspected")
    /\ Downloads(proc[c].source, proc[c].page)
    /\ files[proc[c].path] # OtherFile
    /\ proc' = [proc EXCEPT ![c].pc = "staged"]
    /\ UNCHANGED <<db, issued, files, remote, site>>

(* Fault: a failed fetch removes the file.                                 *)
FailPageRemoving(c) ==
    /\ At(c, "inspected") \/ At(c, "staged")
    /\ files' = [files EXCEPT ![proc[c].path] = NULL]
    /\ NextPage(c, {})
    /\ UNCHANGED <<db, issued, remote, site>>

FailPage(c) ==
    /\ At(c, "inspected") \/ At(c, "staged")
    /\ NextPage(c, {})
    /\ UNCHANGED <<db, issued, files, remote, site>>

(* The rename, over whatever is at the path by now.                        *)
Replace(c) ==
    /\ At(c, "staged")
    /\ files' = [files EXCEPT ![proc[c].path] =
         [resource |-> proc[c].page.resource, source |-> proc[c].source,
          provider |-> proc[c].page.key]]
    /\ proc' = [proc EXCEPT ![c].pc = "replaced"]
    /\ UNCHANGED <<db, issued, remote, site>>

Register(c) ==
    /\ At(c, "replaced")
    /\ RegisterLocation(proc[c].workspace, proc[c].page.resource, FileType, proc[c].path)
    /\ NextPage(c, {proc[c].page.resource})
    /\ UNCHANGED <<files, remote, site>>

(* Fault: nothing is rolled back.                                          *)
RegisterFailsOnly(c) ==
    /\ At(c, "replaced")
    /\ "db_error" \in Events
    /\ NextPage(c, {})
    /\ UNCHANGED <<db, issued, files, remote, site>>

(* Fault: a refetch is rolled back like a first fetch.                     *)
RegisterFailsRemoving(c) ==
    /\ At(c, "replaced")
    /\ "db_error" \in Events
    /\ proc' = [proc EXCEPT ![c].pc = "rollback"]
    /\ UNCHANGED <<db, issued, files, remote, site>>

(* Workspace or resource are gone, the path is registered for another, or  *)
(* the database fails.                                                     *)
RegisterFails(c) ==
    /\ At(c, "replaced")
    /\ \/ "db_error" \in Events
       \/ ~LocationAccepted(db, proc[c].workspace, proc[c].page.resource, FileType, proc[c].path)
    /\ IF IsFirstFetch(proc[c].page)
       THEN proc' = [proc EXCEPT ![c].pc = "rollback"]
       ELSE NextPage(c, {})
    /\ UNCHANGED <<db, issued, files, remote, site>>

(* Fault: a page whose registration failed counts as fetched.              *)
RollbackReporting(c) ==
    /\ At(c, "rollback")
    /\ files' = [files EXCEPT ![proc[c].path] = NULL]
    /\ NextPage(c, {proc[c].page.resource})
    /\ UNCHANGED <<db, issued, remote, site>>

Rollback(c) ==
    /\ At(c, "rollback")
    /\ \/ files' = [files EXCEPT ![proc[c].path] = NULL]
       \/ "remove_error" \in Events /\ UNCHANGED files
    /\ NextPage(c, {})
    /\ UNCHANGED <<db, issued, remote, site>>

PageStep(c) ==
    \/ \E page \in proc[c].todo : Inspect(c, page) \/ RefusePage(c, page)
    \/ Stage(c) \/ FailPage(c) \/ Replace(c)
    \/ Register(c) \/ RegisterFails(c) \/ Rollback(c)

(* What a started command does next.                                       *)
Step(c) ==
    \/ Discover(c) \/ StorePages(c)
    \/ \E pages \in SUBSET Listed(proc[c].workspace) : SelectPages(c, pages)
    \/ GiveUp(c) \/ PageStep(c) \/ Finish(c)

-----------------------------------------------------------------------------
(* The environment. *)

Crash(c) ==
    /\ "crash" \in Events
    /\ proc[c] # NULL
    /\ proc' = [proc EXCEPT ![c] = NULL]
    /\ UNCHANGED <<db, issued, files, remote, site>>

(* workspace add, workspace remove                                         *)
OtherCommands ==
    /\ \E w \in WorkspaceIds :
        \/ \E name \in WorkspaceNames, dir \in Directories : AddWorkspace(w, name, dir)
        \/ "removals" \in Events /\ RemoveWorkspace(w)
    /\ UNCHANGED <<files, remote, site, proc>>

(* workspace config set ... confluence.base_url *)
SwitchSite ==
    /\ "sites" \in Events
    /\ \E w \in WorkspaceIds, s \in Sources : site' = [site EXCEPT ![w] = s]
    /\ UNCHANGED <<db, issued, files, remote, proc>>

(* Pages are published, renamed and deleted.                               *)
EditSite ==
    /\ "remote" \in Events
    /\ \E s \in Sources, p \in ProviderIds, title \in Names \cup {NULL} :
          remote' = [remote EXCEPT ![s][p] = title]
    /\ UNCHANGED <<db, issued, files, site, proc>>

(* The user writes, links and deletes files while no command is running.   *)
EditFiles ==
    /\ "user_files" \in Events
    /\ \A c \in Procs : proc[c] = NULL
    /\ \E p \in Paths, content \in {NULL, UserFile, OtherFile} :
          files' = [files EXCEPT ![p] = content]
    /\ UNCHANGED <<db, issued, remote, site, proc>>

Environment == (\E c \in Procs : Crash(c)) \/ OtherCommands \/ SwitchSite \/ EditSite \/ EditFiles

Next ==
    \/ \E c \in Procs : (\E w \in WorkspaceIds : Resolve(c, w)) \/ (proc[c] # NULL /\ Step(c))
    \/ Environment

Spec == Init /\ [][Next]_wiki

(* A command that runs goes on: it is one thread that waits for nothing    *)
(* but the site, whose requests end when the command is interrupted.       *)
FairSpec == Spec /\ \A c \in Procs : WF_wiki(proc[c] # NULL /\ Step(c))

-----------------------------------------------------------------------------
(* Properties. *)

(* The tables, the files and the commands have their types.                *)
TypeOK ==
    /\ RegistryTypeOK
    /\ files \in [Paths -> Files]
    /\ remote \in [Sources -> [ProviderIds -> Names \cup {NULL}]]
    /\ site \in [WorkspaceIds -> Sources]
    /\ proc \in [Procs -> Command \cup {NULL}]

IsGenerated(p) == files[p] \notin {NULL, UserFile, OtherFile}

Registered(p) == \E l \in db.locations : l.type = FileType /\ l.path = p

(* The first fetch that wrote p is about to register or remove it.         *)
Pending(p) ==
    \E c \in Procs : /\ At(c, "replaced") \/ At(c, "rollback")
                     /\ proc[c].path = p /\ IsFirstFetch(proc[c].page)

Orphan(p) == IsGenerated(p) /\ ~Registered(p) /\ ~Pending(p)

(* A command leaves a file that no location names only when it dies before *)
(* it registers a first fetch, when the removal of a failed one fails, or  *)
(* when the location of the page it refetches was removed meanwhile.       *)
NoOrphans ==
    [][ proc' # proc =>
          \A p \in Paths : Orphan(p)' =>
             \/ Orphan(p)
             \/ \E c \in Procs :
                   /\ proc[c] # NULL /\ proc[c].path = p
                   /\ At(c, "rollback") \/ proc'[c] = NULL \/ ~IsFirstFetch(proc[c].page) ]_wiki

(* Page l.resource is in the registered file l.path.                       *)
Holds(l) ==
    /\ IsGenerated(l.path)
    /\ files[l.path].resource = l.resource
    /\ files[l.path].provider = db.resources[l.resource].provider

(* A location is registered only over a file that is there, generated from *)
(* its own resource: commands, crashes and rollbacks never take the file   *)
(* of a registered location away.                                          *)
RegisteredFilesIntact == TypeOK /\ \A l \in db.locations : Holds(l)

(* A command that is not interleaved with another appears to put each page *)
(* and its location in place in one step or not at all: what a first fetch *)
(* wrote counts from its registration on, a failed one takes nothing away, *)
(* and a page once fetched stays where it is, whatever its title becomes.  *)
Library == INSTANCE PageLibrary WITH
    Pages     <- Generated,
    contents  <- [p \in Paths |-> IF Pending(p) THEN NULL ELSE files[p]],
    locations <- {l \in db.locations : l.type = FileType},
    running   <- \E c \in Procs : proc[c] # NULL

LibrarySpec == Library!Spec

(* The content of a registered file comes from the site its resource       *)
(* belongs to, even when another site has a page of the same ID.           *)
ContentFromOwnSite ==
    \A l \in db.locations : (IsGenerated(l.path) /\ ~Pending(l.path)) =>
        files[l.path].source = db.resources[l.resource].source

(* A selection is what its user named, whatever pages of whatever sites    *)
(* are listed: every selector counts or none does.                         *)
SelectionExact ==
    \A c \in Procs : At(c, "stored") =>
        \A rows \in Listings(proc[c].workspace), selectors \in Selectors :
            IsSelection(rows, selectors, "wiki")

(* A page is reported as fetched only when wiki list shows it as fetched   *)
(* and the file it names holds this page.                                  *)
ReportedPagesRegistered ==
    [][ \A c \in Procs : (proc[c] # NULL /\ proc'[c] # NULL) =>
          \A r \in proc'[c].fetched \ proc[c].fetched :
             \E page \in Listed(proc[c].workspace)' :
                /\ page.resource = r /\ PageState(page)' = "fetched"
                /\ Holds([resource |-> r, path |-> page.path])' ]_wiki

(* A rollback removes only a file that no location refers to.              *)
RollbackSparesRegistered ==
    [][ \A p \in Paths : (IsGenerated(p) /\ files'[p] = NULL /\ proc' # proc) => ~Registered(p) ]_wiki

(* A first fetch chooses a name that is one component of a path, in one    *)
(* case, from which the page ID can be read: whatever the titles are, two  *)
(* pages never want one file (FilenameAssumption).                         *)
FilenamesIdentify == \A c \in Procs : At(c, "inspected") => FilenamesExact

(* From what a fetch stages, a reader of Markdown takes what the page has: *)
(* quoted values end where they end, code neither ends its own delimiters  *)
(* nor runs into the text, and each cell stays in its column.              *)
MarkdownReadsBack == \A c \in Procs : At(c, "staged") => MarkdownExact

(* No text is lost, repeated or moved, in whatever elements it is nested:  *)
(* unknown elements retain theirs.                                         *)
TextRetained == \A c \in Procs : At(c, "staged") => TextExact

(* Every command ends, whatever the site and the other commands do.        *)
CommandsEnd == \A c \in Procs : proc[c] # NULL ~> proc[c] = NULL
=============================================================================
