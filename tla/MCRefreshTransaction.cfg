SPECIFICATION Spec
CONSTANTS
    w1 = w1  w2 = w2
    r1 = r1  r2 = r2  r3 = r3
    page = page  note = note  wikiSite = wikiSite
    n1 = n1  n2 = n2
    p1 = p1  p2 = p2  f1 = f1  f2 = f2
    NULL = NULL
    WorkspaceIds <- MCWorkspaceIds
    WorkspaceNames = {n1, n2}
    Directories = {"dir"}
    ResourceIds <- MCResourceIds
    Types = {page, note}
    SeededTypes = {page}
    Sources = {wikiSite}
    ProviderIds = {p1, p2}
    ExternalKeys = {"k"}
    Names = {"title"}
    LocationTypes = {"materialized_file"}
    Paths = {f1, f2}
    TypeOf <- MCTypeOf
    ItemSets <- MCItemSets
    Batches <- MCBatches
SYMMETRY Symmetry
INVARIANTS TypeOK TablesConsistent TransactionSound
PROPERTIES IdentityIsStable WorkspacesIsolated RefreshIsAllOrNothing RegistrySpec
