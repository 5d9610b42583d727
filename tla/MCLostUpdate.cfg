SPECIFICATION Spec
CONSTANTS
    OrderIds = {o1}
    LinkIds = {l1}
    PreviewIds = {}
    NoPreview = gallery
    Requests = {r1, r2}
    Visitors = {}
    Customers = {c1}
    Watchers = {}
    MaxAccesses = 1
    OneAtATime = FALSE
PROPERTY StatusFollowsDocs
CHECK_DEADLOCK FALSE
