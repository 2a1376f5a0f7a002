SPECIFICATION Spec
CONSTANTS
    w1 = w1  w2 = w2
    r1 = r1  r2 = r2
    p1 = p1  p2 = p2
    acmeApi = acmeApi  acmeWeb = acmeWeb
    api = api  web = web
    hostA = hostA  hostB = hostB
    c1 = c1  c2 = c2
    NULL = NULL  OtherDir = OtherDir
    WorkspaceIds = {w1}
    WorkspaceNames = {"a"}
    Directories = {"dir"}
    ResourceIds = {r1, r2}
    Types = {"repository"}
    SeededTypes = {"repository"}
    RepositoryType = "repository"
    Sources = {hostA, hostB}
    ProviderIds = {p1}
    ExternalKeys = {acmeApi, acmeWeb}
    Names = {api, web}
    LocationTypes = {"local_checkout"}
    CheckoutType = "local_checkout"
    Paths <- MCPaths
    TypeOf <- MCTypeOf
    ItemSets <- MCItemSets
    Destination <- MCDestination
    OwnerOf <- MCOwnerOf
    NameOf <- MCNameOf
    Lower <- MCLower
    Protocols = {"ssh"}
    UserKeys = {acmeApi, acmeWeb}
    Ports = {"22"}
    RemoteWords = {"GitHub", "github", "22"}
    NoRemote = NoRemote
    MaxTokens = 6
    Word = Word
    MaxOptions = 2
    Procs = {c1}
    Commands = {"pick"}
    MaxSelectors = 1
    Events = {"hosts", "renames", "refresh", "user_dirs", "clone_error"}
SYMMETRY SymmetryOfRepositories
CHECK_DEADLOCK FALSE
PROPERTIES RegisteredIsExpected CheckoutPathRetained NothingOverwritten PickClonesPicked
