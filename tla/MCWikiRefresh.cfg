SPECIFICATION FairSpec
CONSTANTS
    p1 = p1  p2 = p2  p3 = p3  p4 = p4  p5 = p5  root = root
    NULL = NULL
    Pages = {p1, p2, p3, p4, p5, root}
    RootPage = root
    Limit = 2
    FirstSites <- MCFirstSites
    MaxEdits = 1
    MaxRuns = 2
CHECK_DEADLOCK FALSE
INVARIANTS DisplaySound OutcomeStays QuietIsExact AdditionsHideNothing
PROPERTIES RefreshEnds
