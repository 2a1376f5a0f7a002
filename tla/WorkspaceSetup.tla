--------------------------- MODULE WorkspaceSetup ---------------------------
(***************************************************************************)
(* devdash workspace setup, the guided configuration of GitHub and then    *)
(* Confluence, on top of the configuration tables and the secrets they     *)
(* refer to.  The setup reads the configuration once at its start, asks,   *)
(* checks the answers with the provider, and then stores them one          *)
(* statement at a time: it may stop between any two of them.               *)
(***************************************************************************)
EXTENDS WorkspaceConfig, Integers, Sequences

CONSTANTS
    Procs,          \* the setups that may run at one time
    SecretNames,
    DefaultSecret,  \* "confluence.pat"
    Reference,      \* the configuration value that refers to a secret
    BaseURLs, Spaces, RootPages, Pats, \* what the user may answer
    Accepted,       \* the <<base URL, space, root or NULL, PAT>> Confluence accepts
    Hosts, DefaultHost,
    Authenticated,  \* the hosts gh is authenticated for
    Owners,         \* logins of users and organizations, in any case
    Login,          \* a login in lower case
    Personal,       \* the login of the user at each host
    Organizations,  \* the organizations of the user at each host, in gh's order
    Providers,      \* the integrations set up: "github", "confluence"
    Typed,          \* the values users set by hand for each key
    Events          \* the behaviours of the environment in this instance

BaseURLKey == "confluence.base_url"
SpaceKey == "confluence.space"
SecretKey == "confluence.secret"
AuthTypeKey == "confluence.auth_type"
RootPageKey == "confluence.root_page"
HostKey == "github.base_url"
OrganizationKey == "github.org"
DefaultAuthType == "pat"

PossibleEvents == {"config", "secrets", "remove"}

ASSUME SetupAssumption ==
    /\ {BaseURLKey, SpaceKey, SecretKey, AuthTypeKey, RootPageKey, HostKey, OrganizationKey}
          \subseteq UserKeys
    /\ BaseURLs \cup Spaces \cup RootPages \cup Hosts \cup Owners \cup {DefaultAuthType} \subseteq Values
    /\ DefaultSecret \in SecretNames /\ DefaultHost \in Hosts /\ Authenticated \subseteq Hosts
    /\ DOMAIN Login = Owners
    /\ Personal \in [Hosts -> Owners] /\ Organizations \in [Hosts -> Seq(Owners)]
    /\ Reference \in [SecretNames -> Values]
    /\ \A m, n \in SecretNames : Reference[m] = Reference[n] => m = n
    /\ Providers \subseteq {"github", "confluence"}
    /\ Typed \in [UserKeys -> SUBSET Values]
    /\ Events \subseteq PossibleEvents /\ NULL \notin SecretNames \cup Pats

VARIABLES
    secrets,   \* the secrets table
    setup      \* the running setups

setupVars == <<names, issued, config, editor, secrets, setup>>

Candidate == [base_url : BaseURLs, space : Spaces, secret : SecretNames,
              root_page : RootPages \cup {NULL}, pat : Pats]

(* A statement a checked setup still has to run; a NULL value unsets.      *)
Write == [key : UserKeys \cup {"pat"}, value : Values \cup Pats \cup {NULL}]

Setup == [pc : {"host", "login", "owner", "refresh", "ask", "check", "store", "done"},
          workspace : WorkspaceIds, providers : SUBSET Providers,
          values : Entries,                             \* read at the start
          host : Hosts \cup {NULL},
          offered : SUBSET Owners, owner : Owners \cup {NULL},
          refreshed : (Hosts \X Values) \cup {NULL},     \* what Refresh resolved
          candidate : Candidate \cup {NULL}, new_pat : BOOLEAN,
          todo : Seq(Write)]

(* NULL is no setup, nor an answer or what Refresh resolved.               *)
ASSUME AbsenceAssumption ==
    NULL \notin Setup /\ NULL \notin Candidate /\ NULL \notin Hosts \X Values

At(c, pc) == setup[c] # NULL /\ setup[c].pc = pc

Init ==
    /\ ConfigInit
    /\ secrets = [n \in SecretNames |-> NULL]
    /\ setup = [c \in Procs |-> NULL]

-----------------------------------------------------------------------------
(* What the integrations make of the stored entries. *)

EffectiveHost(entries) == IF entries[HostKey] = NULL THEN DefaultHost ELSE entries[HostKey]

(* ResolveConfig of Confluence and the lookup of the secret, NULL when the *)
(* configuration is incomplete or invalid or the secret is missing.        *)
EffectiveConfluence(entries) ==
    IF /\ entries[BaseURLKey] \in BaseURLs /\ entries[SpaceKey] \in Spaces
       /\ entries[AuthTypeKey] \in {NULL, DefaultAuthType}
       /\ entries[RootPageKey] \in RootPages \cup {NULL}
       /\ \E n \in SecretNames : entries[SecretKey] = Reference[n] /\ secrets[n] # NULL
    THEN LET n == CHOOSE n \in SecretNames : entries[SecretKey] = Reference[n]
         IN  [base_url |-> entries[BaseURLKey], space |-> entries[SpaceKey], secret |-> n,
              root_page |-> entries[RootPageKey], pat |-> secrets[n]]
    ELSE NULL

(* Confluence knows the PAT, the space and, in this space, the root page.  *)
Validates(answer) == <<answer.base_url, answer.space, answer.root_page, answer.pat>> \in Accepted

(* The secret setup uses: the one referred to, else the default one.       *)
SecretName(reference) ==
    IF \E n \in SecretNames : reference = Reference[n]
    THEN CHOOSE n \in SecretNames : reference = Reference[n]
    ELSE DefaultSecret

-----------------------------------------------------------------------------
(* executeWorkspaceSetup *)

AfterGitHub(providers) == IF "confluence" \in providers THEN "ask" ELSE "done"

Begin(c, w, providers) ==
    /\ setup[c] = NULL
    /\ Live(w)
    /\ providers # {}
    /\ setup' = [setup EXCEPT ![c] =
         [pc |-> IF "github" \in providers THEN "host" ELSE "ask",
          workspace |-> w, providers |-> providers, values |-> config[w],
          host |-> NULL, offered |-> {}, owner |-> NULL, refreshed |-> NULL,
          candidate |-> NULL, new_pat |-> FALSE, todo |-> <<>>]]
    /\ UNCHANGED <<names, issued, config, editor, secrets>>

(* A stored valid host may be kept when anything of GitHub is configured.  *)
KeepHost(c) ==
    /\ At(c, "host")
    /\ \E k \in {HostKey, OrganizationKey} : setup[c].values[k] # NULL
    /\ EffectiveHost(setup[c].values) \in Hosts
    /\ setup' = [setup EXCEPT ![c].pc = "login", ![c].host = EffectiveHost(setup[c].values)]
    /\ UNCHANGED <<names, issued, config, editor, secrets>>

(* Another host is stored before gh is asked about it.                     *)
ChooseHost(c, host) ==
    /\ At(c, "host")
    /\ SetUser(setup[c].workspace, HostKey, host)
    /\ setup' = [setup EXCEPT ![c].pc = "login", ![c].host = host]
    /\ UNCHANGED secrets

(* The logins offered for a host: one for each login up to case, where the *)
(* user's own goes before an organization's and a listed one before later. *)
DiscoveredOwners(host) ==
    LET logins == <<Personal[host]>> \o Organizations[host]
    IN  {logins[i] : i \in {j \in DOMAIN logins :
            \A earlier \in 1..(j - 1) : Login[logins[earlier]] # Login[logins[j]]}}

(* Only a host gh is authenticated for lets the setup go on.  When gh does *)
(* not tell the owners, none are offered.                                  *)
DiscoverOwners(c) ==
    /\ At(c, "login")
    /\ setup[c].host \in Authenticated
    /\ \E offered \in {{}, DiscoveredOwners(setup[c].host)} :
          setup' = [setup EXCEPT ![c].pc = "owner", ![c].offered = offered]
    /\ UNCHANGED <<names, issued, config, editor, secrets>>

(* One of the offered owners is picked, or the stored one is kept as it is *)
(* written there; without an offer any owner is typed.                     *)
ChooseOwner(c, owner) ==
    /\ At(c, "owner")
    /\ LET offered == setup[c].offered
       IN  \/ offered = {}
           \/ owner \in offered
           \/ /\ owner = setup[c].values[OrganizationKey]
              /\ \E o \in offered : Login[o] = Login[owner]
    /\ SetUser(setup[c].workspace, OrganizationKey, owner)
    /\ setup' = [setup EXCEPT ![c].pc = "refresh", ![c].offered = {}, ![c].owner = owner]
    /\ UNCHANGED secrets

(* Refresh resolves the configuration anew; what it stores and the clones  *)
(* that may follow are RepoClone's.                                        *)
RefreshRepositories(c) ==
    /\ At(c, "refresh")
    /\ LET entries == config[setup[c].workspace]
       IN  /\ EffectiveHost(entries) \in Hosts /\ entries[OrganizationKey] # NULL
           /\ setup' = [setup EXCEPT ![c].pc = AfterGitHub(setup[c].providers),
                ![c].refreshed = <<EffectiveHost(entries), entries[OrganizationKey]>>]
    /\ UNCHANGED <<names, issued, config, editor, secrets>>

(* The prompts of configureConfluence: the PAT in the table may be kept.   *)
AskConfluence(c, base, space, root, pat) ==
    /\ At(c, "ask")
    /\ \E new \in BOOLEAN :
        /\ ~new => pat = secrets[SecretName(setup[c].values[SecretKey])]
        /\ setup' = [setup EXCEPT ![c].pc = "check", ![c].new_pat = new,
             ![c].candidate = [base_url |-> base, space |-> space, root_page |-> root, pat |-> pat,
                               secret |-> SecretName(setup[c].values[SecretKey])]]
    /\ UNCHANGED <<names, issued, config, editor, secrets>>

Put(key, value) == <<[key |-> key, value |-> value]>>

(* Fault: the stored authentication type stays.                            *)
WritesKeepAuthType(s) ==
    LET candidate == s.candidate
    IN  (IF s.new_pat THEN Put("pat", candidate.pat) ELSE <<>>)
        \o Put(BaseURLKey, candidate.base_url)
        \o Put(SpaceKey, candidate.space)
        \o Put(SecretKey, Reference[candidate.secret])
        \o (IF candidate.root_page # NULL \/ s.values[RootPageKey] # NULL
            THEN Put(RootPageKey, candidate.root_page) ELSE <<>>)

(* Fault: the stored root page stays when none is wanted.                  *)
WritesKeepRootPage(s) ==
    LET candidate == s.candidate
    IN  (IF s.new_pat THEN Put("pat", candidate.pat) ELSE <<>>)
        \o Put(BaseURLKey, candidate.base_url)
        \o Put(SpaceKey, candidate.space)
        \o Put(SecretKey, Reference[candidate.secret])
        \o (IF s.values[AuthTypeKey] # NULL THEN Put(AuthTypeKey, NULL) ELSE <<>>)
        \o (IF candidate.root_page # NULL THEN Put(RootPageKey, candidate.root_page) ELSE <<>>)

(* Fault: the old reference is taken away first.                           *)
WritesFromScratch(s) ==
    LET candidate == s.candidate
    IN  (IF s.values[SecretKey] # NULL THEN Put(SecretKey, NULL) ELSE <<>>)
        \o (IF s.new_pat THEN Put("pat", candidate.pat) ELSE <<>>)
        \o Put(BaseURLKey, candidate.base_url)
        \o Put(SpaceKey, candidate.space)
        \o Put(SecretKey, Reference[candidate.secret])

(* Fault: the PAT is stored last.                                          *)
WritesPatLast(s) ==
    LET candidate == s.candidate
    IN  Put(BaseURLKey, candidate.base_url)
        \o Put(SpaceKey, candidate.space)
        \o Put(SecretKey, Reference[candidate.secret])
        \o (IF s.new_pat THEN Put("pat", candidate.pat) ELSE <<>>)

(* What a checked setup stores, in this order.  It unsets what was there   *)
(* when it started.                                                        *)
Writes(s) ==
    LET candidate == s.candidate
    IN  (IF s.new_pat THEN Put("pat", candidate.pat) ELSE <<>>)
        \o Put(BaseURLKey, candidate.base_url)
        \o Put(SpaceKey, candidate.space)
        \o Put(SecretKey, Reference[candidate.secret])
        \o (IF s.values[AuthTypeKey] # NULL THEN Put(AuthTypeKey, NULL) ELSE <<>>)
        \o (IF candidate.root_page # NULL \/ s.values[RootPageKey] # NULL
            THEN Put(RootPageKey, candidate.root_page) ELSE <<>>)

(* Fault: a failed check is ignored.                                       *)
SkipCheck(c) ==
    /\ At(c, "check")
    /\ setup' = [setup EXCEPT ![c].pc = "store", ![c].todo = Writes(setup[c])]
    /\ UNCHANGED <<names, issued, config, editor, secrets>>

CheckConfluence(c) ==
    /\ At(c, "check")
    /\ Validates(setup[c].candidate)
    /\ setup' = [setup EXCEPT ![c].pc = "store", ![c].todo = Writes(setup[c])]
    /\ UNCHANGED <<names, issued, config, editor, secrets>>

(* One statement.  Setting needs the workspace, unsetting needs the entry. *)
StoreNext(c) ==
    /\ At(c, "store") /\ setup[c].todo # <<>>
    /\ LET write == Head(setup[c].todo)
           w == setup[c].workspace
       IN  CASE write.key = "pat" ->
                  /\ secrets' = [secrets EXCEPT ![setup[c].candidate.secret] = write.value]
                  /\ InvalidateSnapshots
                  /\ UNCHANGED <<names, issued, config>>
             [] write.value = NULL -> UnsetUser(w, write.key) /\ UNCHANGED secrets
             [] OTHER -> SetUser(w, write.key, write.value) /\ UNCHANGED secrets
    /\ setup' = [setup EXCEPT ![c].todo = Tail(@),
                              ![c].pc = IF Len(setup[c].todo) = 1 THEN "done" ELSE "store"]

(* The summary is printed, and the setup ends; or it ends before: the user *)
(* cancels, a check or a statement fails, the process dies.                *)
Stop(c) ==
    /\ setup[c] # NULL
    /\ setup' = [setup EXCEPT ![c] = NULL]
    /\ UNCHANGED <<names, issued, config, editor, secrets>>

SetupStep(c) ==
    \/ \E w \in WorkspaceIds, providers \in SUBSET Providers : Begin(c, w, providers)
    \/ KeepHost(c) \/ \E host \in Hosts : ChooseHost(c, host)
    \/ DiscoverOwners(c) \/ \E owner \in Owners : ChooseOwner(c, owner)
    \/ RefreshRepositories(c)
    \/ \E base \in BaseURLs, space \in Spaces, root \in RootPages \cup {NULL}, pat \in Pats :
          AskConfluence(c, base, space, root, pat)
    \/ CheckConfluence(c) \/ StoreNext(c) \/ Stop(c)

-----------------------------------------------------------------------------
(* Other commands, between setups; a workspace may be removed at any time. *)

Idle == \A c \in Procs : setup[c] = NULL

(* workspace add, workspace remove, workspace config set and unset *)
OtherConfigCommands ==
    /\ \E w \in WorkspaceIds :
        \/ \E name \in WorkspaceNames : AddWorkspace(w, name)
        \/ "remove" \in Events /\ RemoveWorkspace(w)
        \/ /\ "config" \in Events /\ Idle
           /\ \E k \in UserKeys : UnsetUser(w, k) \/ \E value \in Typed[k] : SetUser(w, k, value)
    /\ UNCHANGED <<secrets, setup>>

(* secret set, secret delete *)
SetSecret(name, pat) ==
    /\ "secrets" \in Events /\ Idle
    /\ secrets' = [secrets EXCEPT ![name] = pat]
    /\ InvalidateSnapshots
    /\ UNCHANGED <<names, issued, config, setup>>

DeleteSecret(name) ==
    /\ "secrets" \in Events /\ Idle
    /\ secrets[name] # NULL
    /\ secrets' = [secrets EXCEPT ![name] = NULL]
    /\ InvalidateSnapshots
    /\ UNCHANGED <<names, issued, config, setup>>

Next ==
    \/ \E c \in Procs : SetupStep(c)
    \/ OtherConfigCommands
    \/ \E name \in SecretNames : DeleteSecret(name) \/ \E pat \in Pats : SetSecret(name, pat)

Spec == Init /\ [][Next]_setupVars

-----------------------------------------------------------------------------
(* Properties. *)

(* The tables and the running setups have their types.                     *)
SetupTypeOK ==
    /\ ConfigTypeOK
    /\ secrets \in [SecretNames -> Pats \cup {NULL}]
    /\ setup \in [Procs -> Setup \cup {NULL}]

(* When setup prints "Status: ready" the stored configuration resolves to  *)
(* the candidate Confluence accepted, and the repositories were refreshed  *)
(* for the host and the owner chosen, whatever was configured before and   *)
(* wherever earlier setups stopped.                                        *)
ReadyIsEffective ==
    /\ SetupTypeOK
    /\ \A c \in Procs :
         (At(c, "done") /\ Live(setup[c].workspace) /\ "confluence" \in setup[c].providers) =>
           EffectiveConfluence(config[setup[c].workspace]) = setup[c].candidate
    /\ \A c \in Procs : (setup[c] # NULL /\ setup[c].refreshed # NULL) =>
           setup[c].refreshed = <<setup[c].host, setup[c].owner>>

(* No step of a setup makes a stored reference dangle, wherever the setup  *)
(* stops: the PAT is stored before the reference to it.                    *)
ReferencesResolve ==
    [][ setup' # setup =>
          \A w \in WorkspaceIds, n \in SecretNames :
             (config'[w][SecretKey] = Reference[n] /\ secrets'[n] = NULL) =>
                (config[w][SecretKey] = Reference[n] /\ secrets[n] = NULL) ]_setupVars

(* Setup stores nothing before Confluence accepted the whole answer: a PAT *)
(* or an entry that a setup changes is one of an accepted candidate.       *)
OnlyAcceptedStored ==
    [][ \A c \in Procs :
          (setup'[c] # setup[c] /\ (secrets' # secrets \/ \E w \in WorkspaceIds :
              \E k \in {BaseURLKey, SpaceKey, SecretKey, RootPageKey} : config'[w][k] # config[w][k]))
          => Validates(setup[c].candidate) ]_setupVars
=============================================================================
