SPECIFICATION Spec
CONSTANTS
    w1 = w1
    c1 = c1
    NULL = NULL
    WorkspaceIds = {w1}
    WorkspaceNames = {"team"}
    UserKeys <- MCUserKeys
    InternalKeys = {}
    Values <- MCValues
    Editors = {}
    Procs = {c1}
    SecretNames = {"confluence.pat", "other.pat"}
    DefaultSecret = "confluence.pat"
    Reference <- MCReference
    BaseURLs = {"siteA", "siteB"}
    Spaces = {"DEV"}
    RootPages = {"100"}
    Pats = {"patA", "patB"}
    Accepted <- MCAccepted
    Hosts = {"https://github.com", "https://git.example.com"}
    DefaultHost = "https://github.com"
    Owners = {"acme", "ACME"}
    Login <- MCLogin
    Personal <- MCPersonal
    Organizations <- MCOrganizations
    Authenticated = {"https://github.com"}
    Providers = {"github", "confluence"}
    Typed <- MCTyped
    Events = {"config", "secrets", "remove"}
CHECK_DEADLOCK FALSE
INVARIANTS ReadyIsEffective SetupLeavesReady
PROPERTIES SetupKeepsComplete ReferencesResolve OnlyAcceptedStored
