SPECIFICATION Spec
CONSTANTS
    OrderIds = {o1}
    LinkIds = {l1}
    PreviewIds = {}
    NoPreview = gallery
    Requests = {r1}
    Visitors = {}
    Customers = {c1}
    Watchers = {}
    MaxAccesses = 1
    OneAtATime = TRUE
INVARIANT RegenerationSucceeds
CHECK_DEADLOCK FALSE
