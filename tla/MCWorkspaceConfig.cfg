SPECIFICATION ConfigSpec
CONSTANTS
    w1 = w1  w2 = w2
    k1 = k1  k2 = k2
    e1 = e1  e2 = e2
    NULL = NULL
    WorkspaceIds = {w1, w2}
    WorkspaceNames = {"team"}
    UserKeys = {k1, k2}
    InternalKeys = {"_k"}
    Values = {"v"}
    Editors = {e1, e2}
SYMMETRY Symmetry
CHECK_DEADLOCK FALSE
INVARIANTS EntriesHaveWorkspace
PROPERTIES StoreSpec
