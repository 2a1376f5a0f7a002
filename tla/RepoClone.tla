----------------------------- MODULE RepoClone -----------------------------
(***************************************************************************)
(* devdash repo refresh, repo clone and repo pick.  Each command resolves  *)
(* the workspace and its GitHub host, stores the discovered repositories,  *)
(* lists those of the workspace and, for each selected one, inspects its   *)
(* tracked checkout or the default destination, lets gh clone it there     *)
(* when nothing is there, inspects the result and registers the location.  *)
(* repo pick shows the list to its user, resolves the workspace once more  *)
(* and selects what was picked by its keys.                                *)
(* A clone takes time: other commands see the directory grow, it may fail  *)
(* half way, and a killed command leaves what there is.                    *)
(***************************************************************************)
EXTENDS Registry, Selection, Picker, GitRemote, SequencesExt

CONSTANTS
    Procs,           \* the commands that may run at one time
    Commands,        \* which they are: clone (and refresh), pick
    Destination,     \* <workspace directory>/repos/<repository name>
    OwnerOf,         \* the owner in owner/name
    NameOf,          \* the short name in owner/name
    RepositoryType,  \* "repository"
    CheckoutType,    \* "local_checkout"
    Protocols,       \* those git clones with: https, ssh
    UserKeys,        \* the repositories users clone by hand
    OtherDir,        \* a path that exists and is no checkout of any repository
    MaxSelectors,    \* bound on the selectors of one command
    Events           \* the behaviours of the environment in this instance

PossibleEvents == {"crash", "db_error", "clone_error", "hosts", "renames", "refresh",
                   "user_dirs"}

ASSUME CloneAssumption ==
    /\ Destination \in [Directories \X Names -> Paths]
    /\ OwnerOf \in [ExternalKeys -> Words] /\ NameOf \in [ExternalKeys -> Names]
    /\ \A k, l \in ExternalKeys : OwnerOf[k] = OwnerOf[l] /\ NameOf[k] = NameOf[l] => k = l
    /\ Names \cup Sources \cup {"https", "git"} \subseteq Words /\ "https" \notin Ports
    /\ \A s \in Sources : Lower[s] = s
    /\ Names \cap ExternalKeys = {}
    /\ UserKeys \subseteq ExternalKeys /\ Protocols \subseteq {"https", "ssh"}
    /\ RepositoryType \in SeededTypes /\ CheckoutType \in LocationTypes
    /\ \A s \in Sources : TypeOf[s] = RepositoryType
    /\ MaxSelectors \in Nat
    /\ Events \subseteq PossibleEvents /\ Commands \subseteq {"clone", "pick"}

VARIABLES
    dirs,     \* what is at each path
    remote,   \* the owner/name of each repository of a host
    host,     \* the host each workspace is configured for
    proc      \* the running commands

clone == <<db, issued, dirs, remote, host, proc>>

(* The URL that discovery stores, and the remotes that gh or a user clones *)
(* from, by the protocol their git is set up for.                          *)
URL(s, key) == <<"https", ":", "/", "/", s, "/", OwnerOf[key], "/", NameOf[key]>>

Origins(s, key) ==
    {IF protocol = "https" THEN URL(s, key) \o <<".git">>
     ELSE <<"git", "@", s, ":", OwnerOf[key], "/", NameOf[key], ".git">> : protocol \in Protocols}

AnyOrigin == UNION {Origins(s, k) : s \in Sources, k \in ExternalKeys}

Checkout == [origin : AnyOrigin, complete : BOOLEAN]

IsCheckout(p) == dirs[p] \notin {NULL, OtherDir}

(* A repository as ListByWorkspace reports it; its URL names both source   *)
(* and key.                                                                *)
Repository == [resource : ResourceIds, source : Sources, key : ExternalKeys, name : Names,
               path : Paths \cup {NULL}]

Command == [pc : {"resolved", "discovered", "stored", "listed", "absent", "cloning",
                  "cloned", "valid", "picked"},
            workspace : WorkspaceIds, dir : Directories, source : Sources,
            picked : SUBSET Repository,             \* the rows its user picked
            selectors : SUBSET ExternalKeys,        \* what the picker returned
            items : SUBSET Item, todo : SUBSET Repository,
            item : Repository \cup {NULL}, path : Paths \cup {NULL},  \* the one in hand
            done : SUBSET Repository]                                 \* reported without error

ASSUME AbsenceAssumption ==
    /\ NULL \notin Command \cup Repository \cup Checkout \cup Paths
    /\ OtherDir \notin Checkout \cup {NULL}

At(c, pc) == proc[c] # NULL /\ proc[c].pc = pc

Init ==
    /\ RegistryInit
    /\ dirs = [p \in Paths |-> NULL]
    /\ remote \in [Sources -> [ProviderIds -> ExternalKeys \cup {NULL}]]
    /\ \A s \in Sources, p, q \in ProviderIds :
          remote[s][p] = remote[s][q] => p = q \/ remote[s][p] = NULL
    /\ host \in [WorkspaceIds -> Sources]
    /\ proc = [c \in Procs |-> NULL]

-----------------------------------------------------------------------------
(* The command as a whole. *)

Resolve(c, w) ==
    /\ proc[c] = NULL
    /\ HasWorkspace(db, w)
    /\ proc' = [proc EXCEPT ![c] =
         [pc |-> "resolved", workspace |-> w, dir |-> db.workspaces[w].dir,
          source |-> host[w], picked |-> {}, selectors |-> {}, items |-> {}, todo |-> {},
          item |-> NULL, path |-> NULL, done |-> {}]]
    /\ UNCHANGED <<db, issued, dirs, remote, host>>

PublishedRepositories(s) ==
    {[provider |-> p, key |-> remote[s][p], name |-> NameOf[remote[s][p]]] :
        p \in {q \in ProviderIds : remote[s][q] # NULL}}

Discover(c) ==
    /\ At(c, "resolved")
    /\ proc' = [proc EXCEPT ![c].pc = "discovered",
                            ![c].items = PublishedRepositories(proc[c].source)]
    /\ UNCHANGED <<db, issued, dirs, remote, host>>

StoreRepositories(c) ==
    /\ At(c, "discovered")
    /\ \E rs \in SUBSET ResourceIds : \E stored \in [rs -> proc[c].items] :
          Refresh(proc[c].workspace, proc[c].source, proc[c].items, stored)
    /\ proc' = [proc EXCEPT ![c].pc = "stored", ![c].items = {}]
    /\ UNCHANGED <<dirs, remote, host>>

Listed(w) ==
    {[resource |-> r, source |-> db.resources[r].source, key |-> db.resources[r].key,
      name |-> db.resources[r].name, path |-> LocationPath(db, w, r, CheckoutType)] :
        r \in {q \in WorkspaceResources(db, w, RepositoryType) : db.resources[q].source # NULL}}

(* The list is ordered by keys and then by random IDs; any order will do,  *)
(* since a selector sees only the order of the rows of one key.            *)
Listings(w) == SetToSeqs(Listed(w))

Selectors == SeqOf(ExternalKeys \cup Names, MaxSelectors)

(* repo pick: the rows are shown, and the picked ones are known by their   *)
(* keys from then on.  A line with anything but numbers of the list is no  *)
(* answer (PicksExact).                                                    *)
PickRepositories(c) ==
    /\ "pick" \in Commands
    /\ At(c, "stored") /\ proc[c].selectors = {}
    /\ \E rows \in Listings(proc[c].workspace) : \E line \in SeqOf(1 .. Len(rows), 2) :
        LET answer == Pick([i \in DOMAIN rows |-> rows[i].key], <<line>>, TRUE, Word)
        IN  /\ answer.outcome = "answered"
            /\ \E picked \in SUBSET Listed(proc[c].workspace), keys \in SUBSET ExternalKeys :
                /\ picked = {rows[i] : i \in ToSet(line)}
                /\ keys = ToSet(answer.value)
                /\ proc' = [proc EXCEPT ![c].pc = "picked", ![c].picked = picked,
                                        ![c].selectors = keys]
    /\ UNCHANGED <<db, issued, dirs, remote, host>>

(* CloneKnown resolves the workspace and its host anew, and does not       *)
(* refresh.  A workspace setup, which offers the same list, has it         *)
(* confirmed first.                                                        *)
ResumePick(c) ==
    /\ At(c, "picked")
    /\ proc' = [proc EXCEPT ![c].pc = "stored", ![c].source = host[proc[c].workspace]]
    /\ UNCHANGED <<db, issued, dirs, remote, host>>

SelectPicked(c) ==
    /\ At(c, "stored") /\ proc[c].selectors # {}
    /\ \E rows \in Listings(proc[c].workspace) :
        LET selectors == SetToSeq(proc[c].selectors)
            selected  == ToSet(Selected(rows, selectors, "repository"))
        IN  /\ Accepted(rows, selectors, "repository")
            /\ \E items \in SUBSET Listed(proc[c].workspace) :
                /\ items = selected
                /\ proc' = [proc EXCEPT ![c].pc = "listed", ![c].picked = {}, ![c].selectors = {},
                                        ![c].todo = items]
    /\ UNCHANGED <<db, issued, dirs, remote, host>>

(* A clone selects all listed repositories or those its selectors name,    *)
(* repo refresh none.  They may be of another host than the configured     *)
(* one.                                                                    *)
SelectRepositories(c, items) ==
    /\ "clone" \in Commands
    /\ At(c, "stored") /\ proc[c].selectors = {}
    /\ \/ items \in {{}, Listed(proc[c].workspace)}
       \/ \E rows \in Listings(proc[c].workspace), selectors \in Selectors :
             /\ Accepted(rows, selectors, "repository")
             /\ items = ToSet(Selected(rows, selectors, "repository"))
    /\ proc' = [proc EXCEPT ![c].pc = "listed", ![c].todo = items]
    /\ UNCHANGED <<db, issued, dirs, remote, host>>

GiveUp(c) ==
    /\ At(c, "resolved") \/ At(c, "discovered") \/ At(c, "stored") \/ At(c, "picked")
    /\ proc' = [proc EXCEPT ![c] = NULL]
    /\ UNCHANGED <<db, issued, dirs, remote, host>>

Finish(c) ==
    /\ At(c, "listed")
    /\ proc[c].todo = {}
    /\ proc' = [proc EXCEPT ![c] = NULL]
    /\ UNCHANGED <<db, issued, dirs, remote, host>>

-----------------------------------------------------------------------------
(* cloneOne.  A failure fails the repository, and the next one goes on.    *)

NextRepository(c, item, done) ==
    proc' = [proc EXCEPT ![c].pc = "listed", ![c].todo = @ \ {item},
                         ![c].item = NULL, ![c].path = NULL, ![c].done = @ \cup done]

(* Inspector.Inspect reports a checkout valid when its origin names the    *)
(* expected repository: git sets the origin before it fetches anything.    *)
Valid(p, item) ==
    IsCheckout(p) /\ NormalizeRemote(dirs[p].origin) = NormalizeRemote(URL(item.source, item.key))

(* DeriveState, what repo list shows: a checkout whose origin no longer    *)
(* names the listed repository, for one, is invalid.                       *)
State(item) ==
    IF item.path = NULL THEN "not cloned"
    ELSE CASE dirs[item.path] = NULL -> "missing"
           [] Valid(item.path, item) -> "cloned"
           [] OTHER                  -> "invalid"

(* Fault: the default destination even when a path is tracked.             *)
DefaultPath(c, item) == Destination[<<proc[c].dir, item.name>>]

(* The tracked path when there is one, else the default destination.       *)
TargetPath(c, item) ==
    IF item.path # NULL THEN item.path ELSE Destination[<<proc[c].dir, item.name>>]

InHand(c, item, pc) ==
    /\ proc' = [proc EXCEPT ![c].pc = pc, ![c].item = item, ![c].path = TargetPath(c, item)]
    /\ UNCHANGED <<db, issued, dirs, remote, host>>

(* A valid tracked checkout is all there is to do.                         *)
AlreadyCloned(c, item) ==
    /\ At(c, "listed")
    /\ State(item) = "cloned"
    /\ NextRepository(c, item, {item})
    /\ UNCHANGED <<db, issued, dirs, remote, host>>

(* A valid checkout at the default destination is adopted.                 *)
Adopt(c, item) ==
    /\ At(c, "listed")
    /\ State(item) = "not cloned" /\ Valid(TargetPath(c, item), item)
    /\ InHand(c, item, "valid")

(* Fault: what is in the way is removed.                                   *)
ClearDestination(c, item) ==
    /\ At(c, "listed")
    /\ ~Valid(TargetPath(c, item), item)
    /\ dirs' = [dirs EXCEPT ![TargetPath(c, item)] = NULL]
    /\ proc' = [proc EXCEPT ![c].pc = "absent", ![c].item = item, ![c].path = TargetPath(c, item)]
    /\ UNCHANGED <<db, issued, remote, host>>

(* Nothing is there: clone or restore.                                     *)
FindAbsent(c, item) ==
    /\ At(c, "listed")
    /\ dirs[TargetPath(c, item)] = NULL
    /\ InHand(c, item, "absent")

(* Something else is there, or the inspection fails.                       *)
RefuseRepository(c, item) ==
    /\ At(c, "listed")
    /\ NextRepository(c, item, {})
    /\ UNCHANGED <<db, issued, dirs, remote, host>>

(* gh repo clone <owner/name> <destination> on the configured host.  git   *)
(* refuses a destination that exists by now; the host may redirect a name  *)
(* to the repository that had it.                                          *)
CloneBegins(c) ==
    /\ At(c, "absent")
    /\ dirs[proc[c].path] = NULL
    /\ \E p \in ProviderIds :
        /\ remote[proc[c].source][p] # NULL
        /\ \E origin \in Origins(proc[c].source, remote[proc[c].source][p]) :
              dirs' = [dirs EXCEPT ![proc[c].path] = [origin |-> origin, complete |-> FALSE]]
    /\ proc' = [proc EXCEPT ![c].pc = "cloning"]
    /\ UNCHANGED <<db, issued, remote, host>>

CloneCompletes(c) ==
    /\ At(c, "cloning")
    /\ dirs' = [dirs EXCEPT ![proc[c].path].complete = TRUE]
    /\ proc' = [proc EXCEPT ![c].pc = "cloned"]
    /\ UNCHANGED <<db, issued, remote, host>>

(* git removes a clone that fails, or leaves it (when only the checkout of *)
(* the files failed); devdash reports what is left.                        *)
CloneFails(c) ==
    /\ "clone_error" \in Events
    /\ At(c, "cloning")
    /\ dirs' \in {dirs, [dirs EXCEPT ![proc[c].path] = NULL]}
    /\ NextRepository(c, proc[c].item, {})
    /\ UNCHANGED <<db, issued, remote, host>>

(* Fault: the clone is not inspected.                                      *)
TrustClone(c) ==
    /\ At(c, "cloned")
    /\ proc' = [proc EXCEPT ![c].pc = "valid"]
    /\ UNCHANGED <<db, issued, dirs, remote, host>>

InspectClone(c) ==
    /\ At(c, "cloned")
    /\ Valid(proc[c].path, proc[c].item)
    /\ proc' = [proc EXCEPT ![c].pc = "valid"]
    /\ UNCHANGED <<db, issued, dirs, remote, host>>

(* The destination exists by now, gh does not start, or the clone is not   *)
(* the expected repository; it stays where it is.                          *)
FailRepository(c) ==
    /\ \/ At(c, "absent")
       \/ At(c, "cloned") /\ ~Valid(proc[c].path, proc[c].item)
    /\ NextRepository(c, proc[c].item, {})
    /\ UNCHANGED <<db, issued, dirs, remote, host>>

Register(c) ==
    /\ At(c, "valid")
    /\ RegisterLocation(proc[c].workspace, proc[c].item.resource, CheckoutType, proc[c].path)
    /\ NextRepository(c, proc[c].item, {proc[c].item})
    /\ UNCHANGED <<dirs, remote, host>>

(* Fault: the error is dropped.                                            *)
RegisterFailsSilently(c) ==
    /\ At(c, "valid")
    /\ "db_error" \in Events
    /\ NextRepository(c, proc[c].item, {proc[c].item})
    /\ UNCHANGED <<db, issued, dirs, remote, host>>

(* The checkout stays, and the next clone command adopts it.               *)
RegisterFails(c) ==
    /\ At(c, "valid")
    /\ \/ "db_error" \in Events
       \/ ~LocationAccepted(db, proc[c].workspace, proc[c].item.resource, CheckoutType,
                            proc[c].path)
    /\ NextRepository(c, proc[c].item, {})
    /\ UNCHANGED <<db, issued, dirs, remote, host>>

RepositoryStep(c) ==
    \/ \E item \in proc[c].todo :
        \/ AlreadyCloned(c, item) \/ Adopt(c, item)
        \/ FindAbsent(c, item) \/ RefuseRepository(c, item)
    \/ CloneBegins(c) \/ CloneCompletes(c) \/ CloneFails(c) \/ InspectClone(c)
    \/ FailRepository(c) \/ Register(c) \/ RegisterFails(c)

(* What a started command does next.                                       *)
Step(c) ==
    \/ Discover(c) \/ StoreRepositories(c)
    \/ PickRepositories(c) \/ ResumePick(c) \/ SelectPicked(c)
    \/ \E items \in SUBSET Listed(proc[c].workspace) : SelectRepositories(c, items)
    \/ GiveUp(c) \/ RepositoryStep(c) \/ Finish(c)

-----------------------------------------------------------------------------
(* The environment. *)

Crash(c) ==
    /\ "crash" \in Events
    /\ proc[c] # NULL
    /\ proc' = [proc EXCEPT ![c] = NULL]
    /\ UNCHANGED <<db, issued, dirs, remote, host>>

AddWorkspaces ==
    /\ \E w \in WorkspaceIds, name \in WorkspaceNames, dir \in Directories :
          AddWorkspace(w, name, dir)
    /\ UNCHANGED <<dirs, remote, host, proc>>

(* Another command refreshes a workspace.                                  *)
OtherRefresh ==
    /\ "refresh" \in Events
    /\ \E w \in WorkspaceIds, rs \in SUBSET ResourceIds :
        LET items == PublishedRepositories(host[w])
        IN  \E stored \in [rs -> items] : Refresh(w, host[w], items, stored)
    /\ UNCHANGED <<dirs, remote, host, proc>>

(* workspace config set ... github.base_url *)
SwitchHost ==
    /\ "hosts" \in Events
    /\ \E w \in WorkspaceIds, s \in Sources : host' = [host EXCEPT ![w] = s]
    /\ UNCHANGED <<db, issued, dirs, remote, proc>>

(* Repositories are renamed and transferred.                               *)
EditHost ==
    /\ "renames" \in Events
    /\ \E s \in Sources, p \in ProviderIds, key \in ExternalKeys :
        /\ remote[s][p] # NULL
        /\ \A q \in ProviderIds : remote[s][q] # key
        /\ remote' = [remote EXCEPT ![s][p] = key]
    /\ UNCHANGED <<db, issued, dirs, host, proc>>

(* The user makes, clones and removes directories while no command runs.   *)
EditDirs ==
    /\ "user_dirs" \in Events
    /\ \A c \in Procs : proc[c] = NULL
    /\ \E p \in Paths :
        \/ \E content \in {NULL, OtherDir} : dirs' = [dirs EXCEPT ![p] = content]
        \/ \E s \in Sources, key \in UserKeys : \E origin \in Origins(s, key) :
              dirs' = [dirs EXCEPT ![p] = [origin |-> origin, complete |-> TRUE]]
    /\ UNCHANGED <<db, issued, remote, host, proc>>

Environment ==
    \/ \E c \in Procs : Crash(c)
    \/ AddWorkspaces \/ OtherRefresh \/ SwitchHost \/ EditHost \/ EditDirs

Next ==
    \/ \E c \in Procs : (\E w \in WorkspaceIds : Resolve(c, w)) \/ (proc[c] # NULL /\ Step(c))
    \/ Environment

Spec == Init /\ [][Next]_clone

-----------------------------------------------------------------------------
(* Properties. *)

(* The tables, the directories and the commands have their types.          *)
TypeOK ==
    /\ RegistryTypeOK
    /\ dirs \in [Paths -> Checkout \cup {NULL, OtherDir}]
    /\ remote \in [Sources -> [ProviderIds -> ExternalKeys \cup {NULL}]]
    /\ host \in [WorkspaceIds -> Sources]
    /\ proc \in [Procs -> Command \cup {NULL}]

(* A location is registered only for a checkout of its own repository, by  *)
(* the key its command listed, whatever host was configured when, wherever *)
(* gh was redirected, and whatever another command cloned there.           *)
RegisteredIsExpected ==
    [][ \A l \in db'.locations \ db.locations :
          \E c \in Procs :
             /\ proc[c] # NULL /\ proc[c].item # NULL /\ proc[c].item.resource = l.resource
             /\ IsCheckout(l.path)
             /\ dirs[l.path].origin
                   \in Origins(db.resources[l.resource].source, proc[c].item.key) ]_clone

(* Once registered, the path of a checkout stays: a missing checkout is    *)
(* restored where it was, even after the repository was renamed.           *)
CheckoutPathRetained ==
    [][ \A l \in db.locations, k \in db'.locations :
          (l.workspace = k.workspace /\ l.resource = k.resource) => l.path = k.path ]_clone

(* No command changes a complete checkout or anything else it finds at a   *)
(* path: it only fills a path at which it found nothing.                   *)
NothingOverwritten ==
    [][ \A p \in Paths :
          (proc' # proc /\ (dirs[p] = OtherDir \/ (IsCheckout(p) /\ dirs[p].complete)))
             => dirs'[p] = dirs[p] ]_clone

(* A repository is reported without an error only when repo list, run at   *)
(* any later time of the command, shows it as cloned.                      *)
ReportedClonesRegistered ==
    /\ TypeOK
    /\ \A c \in Procs : proc[c] # NULL =>
          \A item \in proc[c].done :
              \E shown \in Listed(proc[c].workspace) :
                  shown.resource = item.resource /\ State(shown) = "cloned"

(* A selection is what its user named, whatever repositories of whatever   *)
(* hosts are listed: every selector counts or none does.                   *)
SelectionExact ==
    \A c \in Procs : At(c, "stored") =>
        \A rows \in Listings(proc[c].workspace), selectors \in Selectors :
            IsSelection(rows, selectors, "repository")

(* What repo pick clones has the keys of the rows its user picked, and is  *)
(* what was shown to have them as long as no other listed repository has   *)
(* one of these keys, whatever was refreshed or configured meanwhile.      *)
PickClonesPicked ==
    [][ \A c \in Procs : (At(c, "stored") /\ proc[c].picked # {} /\ At(c, "listed")') =>
          LET keys == {row.key : row \in proc[c].picked}
          IN  /\ {item.key : item \in proc'[c].todo} = keys
              /\ (\A item \in Listed(proc[c].workspace) : item.key \in keys =>
                      \E row \in proc[c].picked : row.resource = item.resource)
                    => {item.resource : item \in proc'[c].todo} \subseteq
                          {row.resource : row \in proc[c].picked} ]_clone

(* Whatever is typed at the list that a command shows, it is answered with *)
(* options the user named, all of them and none twice: a line with one bad *)
(* number counts for nothing, an empty one takes the default and never a   *)
(* part of an earlier line, and the lines behind the answer are left for   *)
(* the next prompt.  fzf and the numbered list agree on what a choice is.  *)
PicksExact == \A c \in Procs : At(c, "stored") => DialoguesExact

(* However the remote of a checkout is written, it is recognized, and      *)
(* nothing else is taken for it: what decides whether a directory is       *)
(* adopted neither misses an ssh or https clone nor confuses two           *)
(* repositories.                                                           *)
RemotesIdentify == \A p \in Paths : IsCheckout(p) => RemotesExact

(* A clone that did not complete is never registered.                      *)
PartialStaysUnregistered ==
    \A l \in db.locations : IsCheckout(l.path) => dirs[l.path].complete
=============================================================================
