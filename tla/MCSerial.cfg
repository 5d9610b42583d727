SPECIFICATION Spec
CONSTANTS
    OrderIds = {o1, o2}
    LinkIds = {l1}
    PreviewIds = {p1}
    NoPreview = gallery
    Requests = {r1}
    Visitors = {}
    Customers = {c1}
    Watchers = {w1}
    MaxAccesses = 1
    OneAtATime = TRUE
SYMMETRY Symmetry
INVARIANTS OneOrderPerPreview DeliveredItemsStamped
PROPERTIES ConvertedIsFinal KeepsLifecycle
CHECK_DEADLOCK FALSE
