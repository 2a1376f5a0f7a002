SPECIFICATION Spec
CONSTANTS
    w1 = w1  w2 = w2
    n1 = n1  n2 = n2
    r1 = r1  r2 = r2
    p1 = p1  p2 = p2  t1 = t1  t2 = t2
    siteA = siteA  siteB = siteB
    c1 = c1  c2 = c2
    NULL = NULL  UserFile = UserFile  OtherFile = OtherFile
    WorkspaceIds = {w1}
    WorkspaceNames = {n1}
    Directories = {"dir"}
    ResourceIds = {r1, r2}
    Types = {"confluence_page"}
    SeededTypes = {"confluence_page"}
    PageType = "confluence_page"
    Sources = {siteA, siteB}
    ProviderIds = {p1}
    ExternalKeys = {"k"}
    Names = {t1, t2}
    LocationTypes = {"materialized_file"}
    FileType = "materialized_file"
    Paths <- MCPaths
    TypeOf <- MCTypeOf
    ItemSets <- MCItemSets
    Filename <- MCFilename
    LowerCaseOf <- MCLowerCaseOf
    Digits = {"7"}  Punctuation = {"/", ".", "-"}
    Elements = {"p", "ul", "ol", "li", "table", "tr", "td", "strong", "custom"}
    MaxElements = 1  MaxText = 1
    Procs = {c1}
    MaxSelectors = 2
    Events = {"crash", "sites", "remove_error", "db_error", "remote", "user_files"}
SYMMETRY Symmetry
CHECK_DEADLOCK FALSE
INVARIANTS SelectionExact
PROPERTIES LibrarySpec NoOrphans ReportedPagesRegistered
