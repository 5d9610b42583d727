SPECIFICATION ApartSpec
CONSTANTS
    OrderIds = {o1, o2}
    LinkIds = {l1, l2}
    PreviewIds = {p1}
    NoPreview = gallery
    Requests = {r1, r2}
    Visitors = {v1, v2}
    Customers = {c1, c2}
    Watchers = {w1}
    MaxAccesses = 1
    OneAtATime = FALSE
SYMMETRY Symmetry
INVARIANTS Inductive RowsCoherent DeliveredHasLink LinkOnlyAfterSettlement DeliveredAnnouncedOnce AccessesWithinCap ConvertedHasOrder StatsMatchList
PROPERTY ExpiredStaysExpired
CHECK_DEADLOCK FALSE
