SPECIFICATION Spec
CONSTANTS
    commit1 = commit1  commit2 = commit2  commit3 = commit3
    v1 = v1  v2 = v2
    darwin = darwin
    i1 = i1  i2 = i2
    NULL = NULL  Damaged = Damaged  Latest = Latest
    Commits = {commit1, commit2, commit3}
    Versions = {v1, v2}
    VersionOf <- MCVersionOf
    Archives = {darwin}
    Installers = {i1, i2}
    MaxBuilds = 3
SYMMETRY Symmetry
INVARIANTS AssetsFromTag PublishedComplete InstalledFromTag
PROPERTIES TagsImmutable
