SPECIFICATION Spec
CONSTANTS
    w1 = w1  w2 = w2
    r1 = r1  r2 = r2
    p1 = p1  p2 = p2
    acmeApi = acmeApi  acmeWeb = acmeWeb
    api = api  web = web
    hostA = hostA  hostB = hostB
    c1 = c1  c2 = c2
    NULL = NULL  OtherDir = OtherDir
    WorkspaceIds = {w1, w2}
    WorkspaceNames = {"a", "b"}
    Directories = {"dir"}
    ResourceIds = {r1, r2}
    Types = {"repository"}
    SeededTypes = {"repository"}
    RepositoryType = "repository"
    Sources = {hostA, hostB}
    ProviderIds = {p1}
    ExternalKeys = {acmeApi}
    Names = {api}
    LocationTypes = {"local_checkout"}
    CheckoutType = "local_checkout"
    Paths <- MCPaths
    TypeOf <- MCTypeOf
    ItemSets <- MCItemSets
    Destination <- MCDestination
    OwnerOf <- MCOwnerOf
    NameOf <- MCNameOf
    Lower <- MCLower
    Protocols = {"ssh"}
    UserKeys = {acmeApi}
    Ports = {"22"}
    RemoteWords = {"GitHub", "github", "22"}
    NoRemote = NoRemote
    MaxTokens = 6
    Word = Word
    MaxOptions = 2
    Procs = {c1, c2}
    Commands = {"clone"}
    MaxSelectors = 2
    Events = {"crash", "db_error", "hosts"}
SYMMETRY Symmetry
CHECK_DEADLOCK FALSE
INVARIANTS ReportedClonesRegistered SelectionExact PicksExact RemotesIdentify
