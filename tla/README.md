# dev-dash: models, checks and proofs

This directory holds TLA+ models of devdash (`src/`), the TLC configurations that check them on small
instances, and the theorems TLAPS proves about them. `PROJECT.json` ties every definition to the lines of the
source it stands for, every property to the hazards it is aimed at and to a plausible fault of the code that
breaks it.

devdash is a command line program. Each command is a process of its own: it opens one SQLite database, does its
work in one goroutine (a second one draws the spinner) and exits. There is no daemon and no lock beyond those of
SQLite. What makes it hard is that commands run side by side in several terminals, that they hold on to what
they read from the database while they talk to Confluence, GitHub, git or the user, that database, file system and
remote service change in separate steps, and that a command may be interrupted between any two of them.

## 1. The system

| Component | State | Operations | What is hard | What makes it correct |
| --- | --- | --- | --- | --- |
| Resource registry (`storage/sqlite`, `workspace`, `resource`) | tables of workspaces, resource types, integrations, resources, memberships, locations | add and remove workspaces; add, update, remove resources; link and unlink; register a location; refresh a provider's resources | constraints that look complete but are partial (a location needs no membership, an identity is unique only with an integration) | references resolve, identities and paths are unique, identities stay, commands of one workspace leave others alone |
| Provider refresh (`resource_sync.go`) | an open transaction with a private view of the tables | `UpsertDiscovered`: begin, upsert the integration, per item find, insert or update, link; commit or roll back | death between any two statements, a page listed twice, a blank ID in the middle, a resource retyped by hand | all of a batch or nothing, additive, the same as an atomic refresh |
| Wiki fetch (`integration/confluence/service.go`, `page_materializer.go`) | registered locations, the files of the wiki directory, the pages of the sites | `wiki refresh`, `wiki fetch`: resolve, discover, store, list, select, then per page inspect, download, stage, replace, register, roll back | two commands in one directory, titles that change, sites that are switched, a registration that fails after the file was written | a registered file is there and is that page; a user's file is never lost; no orphans; paths are kept |
| Confluence discovery (`client.go`) | offset, requested offsets, pages found | one request per result page | the site is edited between two requests, repeats a page, reports a wrong size, or promises more without end | exact on a quiet site, nothing hidden by additions, ends |
| Repository clone (`integration/github/service.go`, `git/inspect.go`) | registered checkouts, directories, repositories of the hosts | `repo refresh`, `repo list`, `repo clone`, `repo pick`: resolve, discover, store, list, select or let the user pick, then per repository inspect, adopt, clone, inspect again, register | partial clones, one name on two hosts, renamed repositories, user directories, two commands with one destination, a list that is stale when the pick is made | what is registered is the expected checkout, nothing is overwritten, paths are kept, what was picked is what is cloned |
| Selectors (`repository/state.go`, `wiki/wiki.go`) | none | key, or else unique name, or all | equal keys of several sources, ambiguous and repeated selectors | every selector counts or none does, no row twice |
| Picker (`ui/picker`) | the buffered input | lists through fzf or as numbered lines, confirmations, values | numbers out of range, repeated, too many; lines left over for the next prompt | an answer has exactly the named options; unread lines stay |
| Remote normalization (`integration/git/remote.go`) | none | `NormalizeRemote` | https, ssh and `host:path`, with and without user, port, `.git` and slashes | every spelling of a repository is recognized, nothing else is taken for it |
| Markdown (`integration/confluence/markdown.go`) | none | `Filename`, `RenderMarkdown` | backticks in code, quotes in titles, pipes in cells, nested lists, unknown elements | pages never want one file; values, code and tables read back; text is kept, once and in order |
| Workspace configuration (`workspace/config_service.go`, `workspace_config.go`) | entries per workspace, the file in the editor | set, unset, internal set, edit | the editor is open for long; the workspace is removed and its name reused; the replacement reads and then writes | every command is as good as one step: an edit is exact, internal entries survive; no entries without a workspace |
| Workspace setup (`app/workspace_setup.go`) | configuration, secrets, the answers so far | choose the host, discover and choose the owner, refresh, ask for Confluence, check, store one entry after the other | stops between any two writes; entries and secrets are changed by hand meanwhile; gh fails to tell the owners | what is complete is what was checked; a stopped setup does not break a complete configuration |
| Workspace check (`app/workspace_check.go`) | none | the status of each integration and of the workspace | the order of the conditions | a setup that ends leaves a configuration the check finds ready |
| Secrets (`secret`, `storage/sqlite/secret.go`) | secrets | set, delete | shared by workspaces, referred to by name | references resolve after a setup |
| Progress indicator (`ui/progress`) | two goroutines, a ticker, two channels, the terminal | `Run` | a tick that waits as the action ends, a panic | writes exclude each other, the outcome is last |
| Release publishing, installer and self update (`scripts/publish-release.sh`, `scripts/release.sh`, `install.sh`, `platform/update.go`) | tags, releases, assets, the installed file | a workflow run; an installation; `devdash update` | a run stops after any step, also while `gh` fills a draft, and is repeated; archive and checksums are two downloads | tags stay, assets come from the tag, a publication that ends is complete, what is installed is from the release asked for |

`PROJECT.json` lists the remaining parts (graph relation types, migrations, editor and paths, dispatch, build
scripts) with what is missing of each; section 8 says why.

Interactions: every command reads and writes the registry. A fetch and a clone begin with a refresh, list the
resources of their workspace with the registered locations, select from the list, and register a location for
each file or checkout; what they selected they remember, and the registry may have changed by the time they use it. A
refresh resolves the workspace's configuration, whose secret entry refers to the secrets table. The setup writes
both and runs a GitHub refresh. Long steps run as the action of the progress indicator.

## 2. Modules

```
RegistryTables ── Registry ──┬── RegistryProofs
                             ├── RefreshTransaction ── RefreshTransactionProofs
                             ├── WikiFetch ─── Selection, Markdown ── Text;  implements PageLibrary
                             │       └── WikiFetchProofs ──┐
                             │                  SelectionProofs
                             │       ┌── RepoCloneProofs ──┘
                             └── RepoClone ─── Selection, Picker, GitRemote ── Text
WorkspaceConfig ──┬── WorkspaceSetup ── WorkspaceCheck ── WorkspaceSetupProofs
                  └── implements ConfigStore
Progress ──┬── WikiRefresh ── WikiRefreshProofs          Release ── ReleaseProofs
ConfluenceDiscover ──┘
```

`WikiFetchProofs`, `RepoCloneProofs` and `RefreshTransactionProofs` extend `RegistryProofs`, the first two also
`SelectionProofs`, which holds what is proved of sequences, folds and `Select`: a component's theorems use what is proved
of the one it works on. `WorkspaceSetupProofs` has the theorems of the configuration and of the setup.

* **RegistryTables**: the database as a record of sets and functions, and every statement as an operator from
  database to database (`InsertMembership`, `SetLocation`, `StoreItem`, ...) with the constraints of the schema
  (`IdentityFree`, `LocationAccepted`, ...) and its cascades (`DeleteWorkspace`, `DeleteResource`). No state of its own. `StoreAll`
  says in one relation what a whole refresh may leave.
* **Registry**: the commands on these tables. `db` is the committed database, `issued` the IDs ever used (random
  UUIDs do not repeat). One command is one commit; here the refresh is atomic. This is the **abstract
  specification** of the registry. Commands come in groups (`WorkspaceCommand`, `ResourceCommand`, `LinkCommand`,
  `RefreshCommand`) so that other modules can let exactly some of them interfere.
* **RefreshTransaction**: the registry with `UpsertDiscovered` statement by statement. `tx` is the open transaction
  with its private database. It commits, rolls back, or dies with its process; other commands wait for it (one
  writer). It implements `RegistrySpec` with the identity mapping on `db` and `issued`, which TLC checks and
  `RefreshTransactionProofs` proves.
* **Text**: texts as sequences of characters or of words, with `Strip` for what `strings.Trim` does.
* **Selection**: `Select` of both domains as operators on any listing. A map keeps the last row of a key in
  `repository.Select`; the loop of `wiki.Select` stops at the first.
* **WikiFetch**: commands `proc[c]` that move through `resolved`, `discovered`, `stored`, `listed` and, for the page
  in hand, `inspected`, `staged`, `replaced`, `rollback`. `files` maps paths to what is in them, `remote` the sites to
  their pages, `site` the workspaces to the site they are configured for. A page is the identity of its content:
  resource, site, page ID, title. `PageState` is what `wiki list` shows.
* **PageLibrary**: the **abstract specification** of a workspace that stays, one command at a time: files, locations and
  whether a command runs. A page and its location appear in one step, a refetch replaces the tracked file, a failure
  changes nothing, and a file without a location is left only by a command that died or could not roll back. The
  refinement mapping (`Library` in `WikiFetch`) hides a file that is written and not yet registered (`Pending`).
* **Markdown**: `Filename` and `RenderMarkdown` on trees of nodes, as the HTML parser leaves them. The renderers are
  recursive functions over the nodes, one for inline text and one for blocks; what they have to satisfy is said by readers:
  a quoted value is unquoted, a fence ends at the first line of as many backticks, a row is divided at bare pipes.
* **RepoClone**: the same for clones. A directory holds nothing, something of the user, or a checkout with an
  origin and whether it is complete; `gh repo clone` is three steps (`CloneBegins` sets the origin, then it
  completes or fails), and an inspection of git (`Valid`) compares the normalized origin with the normalized URL of
  the listed repository. `State` is what `repo list` shows. `repo pick` shows the list (`PickRepositories`), resolves workspace and
  host anew (`ResumePick`) and selects by the keys that were picked (`SelectPicked`).
* **Picker**: a dialogue as a function from typed lines to an answer and the lines it did not read. **GitRemote**:
  `NormalizeRemote` on sequences of words and separators, against `Spellings`, the ways to write a repository's remote, and
  `IsRemoteOf`, which says of any text whether it is one. The code drops the port of a remote, and so does the model.
* **WorkspaceConfig**: names and entries per workspace, and what each editor has open. `stale` is SQLite's rule that a
  transaction that has read cannot write after another commit; one that has nothing to write commits all the same
  (`CommitNothing`). **ConfigStore** is its **abstract specification**: every command is one step, and an edit is pending
  from its save until it is applied or dropped (`PendingEdits`). An edit with nothing to write is applied when it reads.
* **WorkspaceSetup** / **WorkspaceCheck**: the setup as the process it is, reading the configuration once, offering the
  discovered owners (or taking a typed one when gh does not tell them), storing
  the answers one statement at a time (`Writes` is the sequence of statements, in the order of the code); the check as
  operators of the stored state.
* **Progress**, **ConfluenceDiscover**, **WikiRefresh**: the two goroutines around an action, the paging loop, and
  `devdash wiki refresh` on a terminal, whose action is the paging and then the storing of the pages (`StorePages`). `wrong`
  counts the sizes the site got wrong, `kept` holds the pages that were there throughout, `stored` says whether
  `UpsertDiscovered` has committed; the action ends with an error when the discovery or the storing fails.
* **Release**: tags, releases and assets of the GitHub repository, one workflow run at a time that may stop
  anywhere, and installers that download and verify, started by hand or by `devdash update` (`BeginUpdate`). `gh release
  create` is the three steps it takes: a draft (`CreateDraft`), its assets one by one, and its publication (`PublishDraft`);
  `published` has the versions whose release is no draft. The next run takes a draft that is left for the release.

The actions are one per operation, each with its whole handler: guard from the early returns, then the writes. An
early return with an error is `GiveUp`, `RefusePage`, `FailPage`, `RegisterFails`, ...: it is a step of the model, since a
command that goes on after it is where partial failures show.

Operators whose comment begins with *Fault* are not part of any specification. Each is a definition of the module
changed as a plausible bug would change it (a guard dropped, a stale read, a swapped order); replacing the
definition by it makes TLC report the property that `PROJECT.json` pairs it with. They document what each property is
able to notice.

## 3. Environment

The environment is part of the models, switched by the constant `Events` of each component so that a run says what it
includes: `crash` (a command dies between any two steps), `db_error` (any statement may fail, the disk being full or
the database busy), `remove_error` (the file of a failed first fetch cannot be removed), `removals` (the workspace is removed),
`sites`/`hosts` (the configured site or host is switched), `remote` (pages are published, renamed and deleted),
`renames` (repositories are renamed), `refresh` (another command refreshes), `user_files`/`user_dirs` (the user writes, links and deletes files or directories), `clone_error` (gh fails,
leaving what it had), `config` and `secrets` (entries and secrets are changed by hand), `remove`.
Files of a wiki directory change by the user's hand only while no command runs; see section 8.

## 4. Runs

Twelve configurations, each of which TLC finishes within about two minutes with two workers. Deadlock is
checked in `MCRefreshTransaction` and `MCRelease`, where something can always happen; in the others an instance
really ends, its workspaces, edits or runs being used up.

| Run | Instance | Properties | What it shows |
| --- | --- | --- | --- |
| `MCRefreshTransaction` | 2 workspaces, 2 names, 3 resource rows, 2 types (one seeded), 1 site, 2 provider IDs, 2 paths; batches: none, two pages, one page twice, a blank ID | `TypeOK` `TablesConsistent` `TransactionSound` `IdentityIsStable` `WorkspacesIsolated` `RefreshIsAllOrNothing` `RegistrySpec` | every registry command around a refresh cut off anywhere: consistent tables, stable identities, isolated workspaces, and an atomic refresh implemented |
| `MCWikiSequential` | 1 workspace, 2 sites with one page ID, 2 titles, 2 rows, 1 command, up to 2 selectors; `crash sites remove_error db_error remote user_files` | `LibrarySpec` `SelectionExact` `NoOrphans` `ReportedPagesRegistered` | sequences of commands with failures and edits in between implement the page library; what is reported is what `wiki list` shows |
| `MCWikiConcurrent` | 1 workspace, 1 page, 2 titles, 2 commands; `crash remote removals`; titles, values and code of up to 5 characters, pages of up to 4 elements of 9 kinds | `RegisteredFilesIntact` `CommandsEnd` `FilenamesIdentify` `MarkdownReadsBack` `TextRetained` | commands that overlap, crash and lose their workspace leave registered files intact, and end; file names and contents are exact |
| `MCWikiSites` | 2 sites, 1 page ID each; `sites` | `ContentFromOwnSite` (violated) | finding 1 |
| `MCWikiRollback` | 2 workspaces of one directory, 2 commands | `RollbackSparesRegistered` (violated) | finding 2 |
| `MCCloneSequential` | 1 workspace, 2 hosts, 2 repository keys, 2 rows, 1 command that picks; `hosts renames refresh user_dirs clone_error` | `RegisteredIsExpected` `CheckoutPathRetained` `NothingOverwritten` `PickClonesPicked` | sequences of picks and clones with switched hosts, renames, refreshes by others, failures and user directories |
| `MCCloneConcurrent` | 2 workspaces of one directory, 2 hosts with one repository name, 2 commands, up to 2 selectors; `hosts crash db_error`; dialogues of 2 options and 2 lines, remotes of up to 6 tokens | `ReportedClonesRegistered` `SelectionExact` `PicksExact` `RemotesIdentify` | two commands with one destination; dialogues and remotes are exact |
| `MCClonePartial` | 1 repository, 1 command; `clone_error` | `PartialStaysUnregistered` (violated) | finding 3 |
| `MCWorkspaceConfig` | 2 workspaces taking one name in turn, 2 user keys, 1 internal key, 2 editors | `EntriesHaveWorkspace` `StoreSpec` | edits among single-entry commands, other edits and removals implement a store of whole commands |
| `MCWorkspaceSetup` | 1 workspace, 2 sites with a PAT each, one with a root page, 2 secrets, 2 hosts of which gh knows one, an owner written in two cases; `config secrets remove` | `ReadyIsEffective` `SetupLeavesReady` `SetupKeepsComplete` `ReferencesResolve` `OnlyAcceptedStored` | one setup after the other, each stopping anywhere |
| `MCRelease` | 3 commits, 2 of one version, 1 platform (its archive and the checksums), 2 installers, 3 builds | `AssetsFromTag` `PublishedComplete` `InstalledFromTag` `TagsImmutable` | publications that stop and are repeated while users install: a release, the interrupted replacement of its assets and its repair, drafts that are left |
| `MCWikiRefresh` | up to 4 of 5 pages below a root page, 2 per request, 1 edit or wrong size per refresh, 2 refreshes | `DisplaySound` `OutcomeStays` `QuietIsExact` `AdditionsHideNothing` `RefreshEnds` | a refresh under the spinner, from a site that changes or answers wrongly |

The type invariants of the wiki and clone commands, configuration, setup, release and refresh are conjuncts of
`RegisteredFilesIntact`, `ReportedClonesRegistered`, `EntriesHaveWorkspace`, `ReadyIsEffective`, `AssetsFromTag` and
`DisplaySound`.

`FilenamesIdentify`, `MarkdownReadsBack`, `TextRetained`, `PicksExact`, `RemotesIdentify` and `SelectionExact` are about pure
functions. Each compares the function of the code with an independent definition of what it is for (`Spellings`, `IsPick`,
`Unquote`, `IsSelection`, ...) on all inputs within the bounds, in the states in which a command is about to use it.

### Why the bounds are enough

The theorems of section 6 remove the bounds for every property but those of section 7, under the hypotheses stated there.
Of the instances:

* Registry: a reference, a uniqueness violation or an isolation violation needs two rows (two workspaces, two
  resources, two paths); the third row lets a refresh insert while two exist. The unregistered second type is what
  lets a resource be retyped by hand between two refreshes.
* Wiki and clone: what can go wrong takes two sources with one key, or one page with two titles, or two
  workspaces in one directory, or two commands. The sequential and the concurrent runs share
  the module, each with the events the other leaves out, since all at once are out of TLC's reach. A second command is enough
  for every race here, which is between one that inspects and one that writes.
* `MaxSelectors = 2` makes repetition, ambiguity and one failing selector of two possible; the listing has the rows of
  two sources under one key.
* Remotes: six tokens hold `user@host:owner/name` and `//host/owner/name`; the spellings behind it, with every port, user,
  slash and suffix at once, are enumerated without a bound. (`RemotesIdentified` removes the bound.) `UserKeys` are the repositories
  users clone by hand, and `Protocols` the forms of the origins gh leaves; one form is enough, since only normalized origins
  are compared.
* Dialogues: two options and two lines of two numbers each make repeated, invalid and surplus answers possible.
* Markdown: a fence or a quote goes wrong with a few characters; four elements nest a list in a list, a table in an
  unknown element, and have an element behind it. Pages on which the renderer is known to move or lose
  text are excluded by `IsRegular` and `TablesExact`, which say so (section 5).
* Setup: two values for site, PAT and secret make mixtures of an earlier and a later configuration visible.
* Discovery: a site begins with up to four pages at two per request, and at least one page is left to add. An addition
  before the border of the first result page pushes a page that is known across it, which is then listed twice, and
  from four pages on makes a third result page; a removal pulls an unknown page over the border. One edit or wrong size per
  refresh shows each of these; the theorems cover any number of them. `MaxEdits`, `MaxRuns` and `MaxBuilds` bound counters.
  `RefreshEnds` holds for a site that is edited, and reports wrong sizes, finitely often during a refresh: one that grows faster
  than it is read, or forever reports pages that are not there and a next page, keeps a refresh going, since nothing in the client bounds
  its requests.
* Release: a release, an upload that is interrupted between two assets and the run that repairs it take three builds. An archive and
  the checksums are the least that can be of different builds; two commits of one version compete for a tag.
* Symmetry is used where no property is a liveness property and the permuted values are never told apart.
  `SwapRepositories` exchanges two repositories with their keys and names.

### Fairness

`CommandsEnd` and `RefreshEnds` assume weak fairness and no more. A running command is one thread that waits for
nothing but an answer of a remote service, each request of which ends or fails, so some step of it is always enabled and is
taken in the end (checked for the wiki commands; a clone runs the same loop). The commands wait for no other command: SQLite's busy timeout turns waiting into a failed
statement. Nothing is assumed of the environment or of new commands. In `WikiRefresh` there is one weak fairness
condition for each of: the caller's action (a request, the storing of the pages, the return), the report of the caller's goroutine, and the spinner's goroutine.
No strong fairness is needed: once the ticker is stopped at most one tick waits, so the spinner sees the
closed channel after at most one more frame.

## 5. Findings

1. **A page of one site in the file of another** (`MCWikiSites`, `integration/confluence/service.go:258`). The list of
   pages has those of every site the workspace was ever configured for, but each is downloaded, by its
   ID, from the site configured now. After `confluence.base_url` is changed, `wiki fetch --all` replaces the registered file
   of a page of the first site by the page of that ID of the second. `docs/integrations/confluence.md:15`: "The full
   normalized URL identifies the provider instance, so two context paths on one host do not collide."
2. **A rollback removes a registered file** (`MCWikiRollback`, `service.go:275`). Two workspaces of one directory fetch a page for
   the first time side by side. Both find no file and write it; one registers it; the registration of the
   other fails, the path being unique, and its rollback removes the file the first has registered.
   `docs/integrations/confluence.md:101`: "a new file is removed if location registration fails."
3. **A partial clone is adopted** (`MCClonePartial`, `integration/github/service.go:193`). A directory whose origin is the
   expected one counts as a checkout, and git sets the origin before it fetches. What a failed clone left is
   registered as already cloned by the next command. `docs/repositories.md:68`: "If clone fails after creating a
   destination, retain it unregistered and report the partial path."

Each of these three runs checks the documented statement alone, and TLC's trace is the scenario above.

Reading the renderer against its properties also showed where generated Markdown does not keep what
`docs/integrations/confluence.md:76` calls readable text. The checked pages leave these cases out: rows wider than the
first lose cells (`markdown.go:286`); a CDATA section with `>` in it is cut by the parser, and one outside a code macro is dropped
(158); paragraphs in one cell or item run together (147, 240); text behind a nested list moves before it (240); a
break in a cell ends its row, and a backslash before a pipe stays bare (259); an inline element at block level leaves
the placeholder of a break, with its NUL bytes, in the file (129); a list nested in an ordered item is indented by two
columns only (246). They are in the hazard list.

## 6. What is proved

The proofs hold for every number of workspaces, resources, pages, repositories, sources, paths, commands, setups,
editors, installations and platforms, for batches, lists and result pages of every length, and, where nothing is said
of `Events`, for all events of section 3 together.

| Module | Theorem | Statement |
| --- | --- | --- |
| `RegistryProofs` | `RegistryInvInductive`, `RegistryTypeCorrect` | the registry's inductive invariant; its type invariant |
| | `TablesStayConsistent` | `RegistrySpec => []TablesConsistent` |
| | `IdentityStable` | `RegistrySpec => IdentityIsStable` |
| | `WorkspacesStayIsolated` | `RegistrySpec => WorkspacesIsolated` |
| `RefreshTransactionProofs` | `InvInductive`, `TypeCorrect` | the inductive invariant with an open transaction; `[]TypeOK` |
| | `TransactionStaysSound` | `Spec => []TransactionSound` |
| | `RefreshAtomic`, `RefreshAdditive` | `Spec => RefreshIsAllOrNothing`; `Spec => RefreshIsAdditive` |
| | `RefinesRegistry` | `Spec => RegistrySpec`: many statements implement the atomic refresh |
| `SelectionProofs` | `EverySelectionExact`, `EveryListingExact` | a selection from any rows by any selectors is the one the documents describe |
| `WikiFetchProofs` | `BaseInvInductive` | what every fetch knows of its workspace and its pages, without hypotheses |
| | `ConcurrentInvInductive`, `RegisteredFilesStay` | `[]RegisteredFilesIntact`, with `Undisturbed` and `[]OwnDirectory` |
| | `ReportsHold` | `ReportedPagesRegistered`, with the same |
| | `ContentStaysOnSite`, `RollbackSpares` | `[]ContentFromOwnSite` and `RollbackSparesRegistered`, with the same |
| | `AloneInvInductive`, `ReportsHoldAlone` | `ReportedPagesRegistered`, with `Alone` and all events |
| | `OrphansExplained` | `Spec => NoOrphans`, with `Alone` |
| | `FetchImplementsLibrary` | `Spec => LibrarySpec`, with `Alone` and no removed workspaces |
| | `SelectionsExact` | `Spec => []SelectionExact`, with finitely many rows |
| | `EveryFilenameExact`, `PagesApart`, `FilenamesIdentified` | the name of a file is one component that ends in the page ID; different pages have different names; `Spec => []FilenamesIdentify` |
| | `EveryFenceCloses`, `EveryInlineCodeCloses` | the delimiters of code stand at its two ends and nowhere between |
| | `EveryQuoteReadsBack`, `EveryPipeEscaped` | a quoted value has one reading and no line break; a cell has no pipe without a backslash before it |
| `RepoCloneProofs` | `OriginsIdentify` | a checkout's origin that normalizes like a repository's URL is an origin of that repository |
| | `EveryRemoteRead`, `EverySpellingRecognized`, `RemotesIdentified` | a text of any length normalizes to a repository exactly when it is a remote of it; every spelling does; `Spec => []RemotesIdentify` |
| | `SelectionsExact` | `Spec => []SelectionExact`, with finitely many rows |
| | `AnsweredIsChoice`, `EveryPickExact`, `PicksAreExact` | an answer has numbers of the list only, each named one once in the order of first mention; `Spec => []PicksExact` |
| | `PicksAreCloned` | `Spec => PickClonesPicked`, with finitely many rows |
| | `BaseInvInductive`, `NothingIsOverwritten` | `Spec => NothingOverwritten`, without hypotheses |
| | `InspectedInvInductive`, `OnlyExpectedRegistered` | `Spec => RegisteredIsExpected`, with `CheckoutsStay` |
| | `PathsRetained` | `Spec => CheckoutPathRetained`, with `Alone` or no renames |
| | `ReportInvInductive`, `ReportsHold` | `Spec => []ReportedClonesRegistered`, with `CheckoutsStay` and `KeysStay` |
| `WorkspaceSetupProofs` | `InvInductive` | the inductive invariant of the configuration with its running edits |
| | `EntriesKeepWorkspace` | `ConfigSpec => []EntriesHaveWorkspace` |
| | `EditsAreAtomic` | `ConfigSpec => StoreSpec`: an edit of many statements implements one step of the store |
| | `SetupInvInductive` | what every setup knows, whatever runs beside it |
| | `NoReferenceDangles` | `Spec => ReferencesResolve`, for any number of setups |
| | `AcceptedBeforeStored` | `Spec => OnlyAcceptedStored`, for any number of setups |
| | `CompleteStays` | `Spec => SetupKeepsComplete`, for any number of setups |
| | `AloneInvInductive`, `ReadyHolds`, `CheckAgrees` | `[]ReadyIsEffective` and `[]SetupLeavesReady`, with `Alone` |
| `WikiRefreshProofs` | `ReportInvInductive` | where the two goroutines are when one of them writes |
| | `DisplayStaysSound`, `OutcomesStay` | `[]DisplaySound`; `[]OutcomeStays` |
| | `DiscoveryInvInductive` | what the client has while it goes through the result pages |
| | `QuietDiscoveryExact`, `NothingHidden` | `[]QuietIsExact`; `[]AdditionsHideNothing` |
| `ReleaseProofs` | `ReleaseInvInductive` | what a publication and an installation know at each step |
| | `AssetsAreFromTag`, `PublicationsComplete` | `[]AssetsFromTag`; `[]PublishedComplete` |
| | `InstalledIsTagged`, `TagsStay` | `[]InstalledFromTag`; `Spec => TagsImmutable` |

### Registry and refresh

`RegistryProofs` begins with one lemma per statement: applied to a consistent database under its constraints, it
leaves one. Everything else rests on these lemmas and not on the definitions of the tables. Consistency alone is not
inductive: a refresh inserts rows of the source's type, which must be a registered type, so `RegistryInv` adds that
the seeded types are never deleted; and a new resource must not meet rows that still refer to its ID, so it adds that
every living ID has been issued. The lemma `CommandPreserves` has one step per command. In `RefreshTransactionProofs`
the strengthening `Inv` adds what the open transaction knows: it holds its integration row, its workspace was issued,
and no item of its batch is blank. Atomicity then follows because `TransactionSound` says, at every statement, that
all items so far are stored and linked in the private database and that it extends the committed one; the commit
publishes just that.

The refinement needs to know more of the open transaction than that it is sound: `Summarised` says that its private
tables are `StoreAll` of the committed ones for some choice of resources that fits the items processed so far. The
heart is `StoreSummarised`: one more statement is one more resource in the choice, or, when the provider lists a page
twice, the same resource with the later item. That the choice stays one resource per identity uses `IdentityUnique` of
the private tables, and that no row is found by its key uses `IdentityComplete`. When the transaction commits,
`Summarised` is the guard and the effect of the atomic `Refresh`; every other statement stutters. `RefreshAdditive` is
proved but no run checks it: it follows from what `RegistrySpec` says of a refresh.

### Wiki fetch

`BaseInv` holds with every event: the registry's invariant, that only pages are registered, and `CommandSound`, what a
command remembers of its pages and still holds, since a resource never changes its identity (`RefreshKeepsIdentity`)
and a membership goes only with its workspace. The two other invariants say what the files hold.

* `ConcurrentInv`, for any number of commands: every location names a file that holds the page of its resource
  (`LocationSound`), and `FetchSound` says for each program counter what is in the file of the page in hand. It takes
  two hypotheses. `[]OwnDirectory`: no other workspace has the directory in which a command works; `MCWikiRollback`
  shows what goes wrong otherwise. `Undisturbed`: the site is not switched (`MCWikiSites` shows why), no statement
  fails, and the user leaves the files alone. Failing statements must go: of two commands that fetch one page for the
  first time, one may register the file the other then rolls back. Crashes, removed workspaces and a changing site are
  all allowed, as in `MCWikiConcurrent`.
* `AloneInv`, for one command at a time, with all events: `PlaceKnown` says that the locations a command listed are
  still those of the tables, and `AloneSound` that a first fetch finds its destination free until it writes. From it
  come `ReportsHoldAlone`, `OrphansExplained`, and the refinement.

`FetchImplementsLibrary` maps a file to what the library shows of it: `Pending`, a file written and not yet
registered, is nothing yet. So replacing a file is a stutter on a first fetch and the library's update on a later one,
registering is the library's first fetch, and a rollback or a crash turns what was pending into nothing or an orphan.
The library is that of a workspace that stays: removing the workspace takes its locations away, which no step of
`PageLibrary` does.

### Repository clone

`BaseInv` holds with every event: the registry's invariant, `CommandSound`, and `ClonesApart`: two commands that clone
are at different paths, since a clone begins only at a free path and leaves something there at once.
`NothingOverwritten` follows for any number of commands. The other results need to know more.

* `InspectedInv`: a command about to register has a valid checkout of its repository before it. `OriginsIdentify` is
  what makes "valid" mean something: of the origins gh leaves, by `https` or by `ssh`, one that normalizes to a
  repository's URL names that repository and no other, on any host. (`RemotesIdentified` says the same
  of every spelling.) `CheckoutsStay` is the hypothesis: with several commands no clone fails. Otherwise a command may
  have adopted the directory in which another one clones, which git removes when it fails.
* `CheckoutPathRetained` has two reasons. Without renames a path is a function of directory and name (`SettledInv`:
  rows say what the host says; `HomesInv`: every location is at the path of its name). With renames, and one command,
  the command knows the locations it listed (`TrackedInv`). Two commands with renames may indeed clone one repository
  at its old and its new name, and the second registration moves the location.
* `ReportInv`: what a command has done is registered at a path with its checkout, and the keys the command remembers
  are those of the rows. `KeysStay` says when they are: without renames, or for one command that no other refresh
  interrupts. Otherwise `repo list` would compare the origin of a checkout with the new name and show it as invalid.

* `PickInv`: a command knows the rows that were picked by their keys and by nothing else, finitely many. With
  `SelectionsExact` it then clones a row for each of these keys or nothing, and only picked rows unless another row has got a picked
  key by then (a repository renamed between the pick and the clone).

### Pure functions

`SelectionProofs` begins with what the other proofs of pure functions need. The library's induction theorems take an operator
as a parameter, which the provers cannot instantiate; so `Induction` is proved from the well-foundedness of `<` on the
naturals, with a set in the place of the operator, and an invariant of `FlattenSeq` (`FlattenInduction`) or of a fold
(`FoldPrefix`) is a set of pairs of what has been put together and how many parts it has. That the recursive functions
behind `FlattenSeq` and the folds of the library exist at all is proved first (`ConcatenationExists`, `FoldExists`).

* Selection: the map of `repository.Select` and the loop of `wiki.Select` are both the fold that adds the row each selector
  means unless it has it (`AddNewAnswers`); each selector means a row or refuses the whole selection (`MatchesAreMeant`).
  The listings are those of finitely many rows: a list of infinitely many does not exist.
* Picks: the same induction over the typed numbers (`MentionsAnswer`), and case by case over what is read of a dialogue.
* Remotes: a spelling is taken apart from both ends. `IsRemoteOf` reads an address as user, host and path or a URL as
  protocol, user, host, port and path; `EveryRemoteRead` shows that `NormalizeRemote` does the same, and
  `EverySpellingRecognized` puts the parts together. The converse for texts longer than the checked ones cannot be
  "only the spellings": `//host/owner/name//` and `//a@b@host/owner/name` are read as remotes too, so it says which are.
* File names: the slug has no separator and begins with a letter (`SlugsSoFar`), and no digit of an ID is a dash, so the ID is what
  follows the last dash.
* Markdown: a delimiter is longer than any run in the code (`DelimiterIs`) and nothing but the delimiters touches the ends, so that no run of
  its length begins elsewhere (`OnlyAtEnds`). Where a character stands in a quoted value, an escape begins or itself stands, and
  neither is a bare quote: two values quoted at the head of one text have the same characters at the same places
  (`StandsSame`). That a pipe has a backslash before it does not say that it is escaped where the cell itself has a
  backslash there; see section 5.

### Configuration and setup

Types and `EntriesHaveWorkspace` are inductive but say nothing of a replacement between its read and its writes.
`SnapshotsCurrent` does: as long as no other command has committed, what the transaction read is what the tables hold.
Every other action either commits, and makes the snapshot stale, or leaves the tables alone. With it the commit
deletes exactly the user's entries that were not saved, which is the store's `Apply`. A replacement that finds nothing to write is not refused
when it is stale, so for it the refinement puts `Apply` at its read, where the entries are those it saves.
`SavedEditsResolved` adds that a saved edit knows a workspace that was issued.

`SetupInv` says of each setup which statements it has still to run: all belong to the candidate Confluence accepted
(`Wanted`), and the PAT comes first (`PatFirst`). That needs nothing of the others, so that references resolve,
nothing unaccepted is stored and a complete configuration stays complete for any number of setups. That what is stored
is what was chosen can hold for one setup at a time only. `Tracks` says what each stage of a setup has stored already:
host and owner once chosen are the stored ones, the entries of Confluence are those it began with until it stores, and
`Applied`: every part of the candidate is stored or among the statements to come. The code makes no promise about two
setups on one workspace.

### Discovery, display, release

`DiscoveryInv` says of every page that was there all along that the client has it already or it is still ahead of the
start of the next request (`Ahead`). An addition moves pages to a later index, so that at worst one is listed twice; a
removal moves them to an earlier one, where the client does not look again, and a wrong size moves the start past them;
`AdditionsHideNothing` speaks of discoveries without either. The sequences need `InsertAt` and removal by index (`InsertAtFacts`, `RemoveAtFacts`). `ReportInv` is
separate: `DisplayInv` ties the program counters of caller and spinner to the two channels, so that each knows the
other is not at a write, and `OutcomeInv` that the outcome which is passed on is the action's and says whether the pages are stored.

`ReleaseInv`: tags name commits of their version (`TagsSound`), the assets of a release are from the commit of its tag
(`AssetsSound`), the build of a publication is of the commit it checked out (`BuildSound`), `PublisherSound` what it
knows at each step of the script (what it need not upload any more is of its build, and a release it created itself is a draft until it
publishes it), and `InstallersSound` that an installation holds a damaged file or a build of the
tag, the first of which cannot pass its checksum. It rests on publications running one at a time, which the workflow's
concurrency group sees to.

### Assumptions

`ConfigAssumption`, `EditAssumption` and `PendingAssumption` say that `NULL` is no workspace, name, value, running or
saved edit, that no workspace ID is a name, and that user and internal keys differ. `TablesAssumption`,
`RegistryAssumption`, `BatchesAssumption` and `TransactionAssumption` say only that `NULL` is no row, source, provider
ID or key and no open transaction, that seeded types are types and `TypeOf` gives every source one of them, and that
batches are sequences of items whose sets `ItemSets` holds. `AbsenceAssumption` of `WikiFetch`, `RepoClone`,
`WorkspaceSetup` and `Release` says that `NULL` is no command, path, setup or build, and that the marks for other
files, other directories and damaged archives are none of the program's own. `DiscoverAssumption` says that a result
page has at least one entry and that the root page is a page or absent, `SitesAssumption` that the sites considered at first list pages other than the root page, each
once, `FilenameAssumption` that file names of
different directories or page IDs differ (`PagesApart` proves it of the code's names), `MarkdownAssumption` that the lower case of a letter is a letter
whose lower case it is, and neither is a dash, that digits have no case, and that punctuation is neither. `RemoteAssumption` and
`CloneAssumption` say that words are not punctuation, that lower case is idempotent, that `https` is no port, that
what is not a remote is no identity of a repository, that owner and name identify a repository, and that a repository's name is not its key, which has a slash.
`PickerAssumption` says that the word standing for any other line is not an answer to a confirmation. TLC evaluates all of them in the runs.

## 7. Only model-checked

* `CommandsEnd` and `RefreshEnds`: liveness under fairness, and `ENABLED`, are out of the prover's reach.
* `MarkdownReadsBack` and `TextRetained`: the renderers are recursive functions over trees of nodes, and the readers they are
  compared with divide texts with `SelectSeq` and recursive functions. What the first rests on is proved for texts of every length: delimiters,
  quoted values and escaped pipes.

## 8. Not modelled, and why

* In the commands, the contents of pages and files: a page is its identity, a path the pair of directory and name that
  determines it (`FilenamesIdentify` says why it may be). The HTML parser, JSON, URLs beyond what `GitRemote` needs, and the
  length of file names: libraries and limits outside the code.
* A user who edits files while a fetch runs. A first fetch inspects the destination, downloads, and renames over
  whatever is there by then (`page_materializer.go:77`), so a file saved in between is lost although
  `docs/integrations/confluence.md:101` says a first fetch refuses an existing destination. The model would only
  repeat this known window; the hazard list records it.
* Two setups at one time on one workspace. The code makes no promise about them. A workspace check is evaluated on one
  state; beside a running setup it would report a state in between, as any reader of several rows.
* Failing clones beside a second command: the states of `MCCloneConcurrent` are too many with them, and what is reported
  does not hold there (section 6). `gh`'s environment
  (`GH_HOST`), and `gh repo list --limit 1000`, a limit of an external program.
* Hosts that differ in their port only. `remote.go` drops the port, so the program takes a checkout of one for one of the other; the
  hosts of `GitRemote` and `RepoClone` differ in their names.
* The publication of a draft. A cancelled `gh release create` leaves a draft, which `gh release view` finds; the rerun uploads to it and ends
  well, and nobody but the person who inspects the release (`docs/development.md:141`, `163`) publishes it.
  `PublishedComplete` says so.
* Some interleavings are covered by the theorems only, under their hypotheses, the runs being too large otherwise: a second workspace or a second page beside the
  commands of `MCWikiConcurrent`, a second command beside those of `MCCloneSequential`, a second workspace that shares the secret in
  `MCWorkspaceSetup`. A file that another program creates between inspection and rename is in neither (above).
* The migrations run by goose, help and usage texts, `doctor`, `config`, the configuration definitions: pure input, output or
  static tables. Graph relation types: a table with insert and list that nothing refers to; `devdash secret list`: display.

## 9. Plan

Done, in the order of importance: registry and refresh with their proofs; wiki fetch and clone on top of the
registry; selection; configuration, setup and check; discovery under the progress indicator; release and installer; the page
library and the configuration store as abstract specifications; picker, remotes, Markdown, owner discovery
and self update.

Then the theorems of every component that a run checks: registry, refresh, configuration, then wiki, clone, setup, discovery
and release, and the pure functions: selection, picks, remotes, file names and the parts of Markdown that section 6 names. Proving
those corrected two properties that hold on short inputs only. The rows of a selection by three selectors, one of which is the
key of one row and the name of another, need not come in the order of the first selector that could mean them; `Answering` now says which
selector each row answers. And remotes longer than six tokens are read in more ways than the usual spellings have
(`IsRemoteOf`).

Next:

1. The hypotheses of section 6 one by one: what a wiki fetch still guarantees beside another workspace of the same directory
   (every file but those that some rollback may remove), and what a clone guarantees when another one fails.
2. `TextRetained` by induction over the depth of a page, and the lines of a rendered page read back as a whole.
3. Models of the page materializer's steps on the file system, of the migrations, and of concurrent setups.
