SPECIFICATION CartSpec
CONSTANTS
    p1 = p1
    p2 = p2
    e1 = e1
    e2 = e2
    CartIds = {c1}
    OrderIds = {o1}
    LinkIds = {}
    PreviewIds = {}
    NoPreview = gallery
    Users = {u1}
    Sessions = {s1}
    NoOwner = nobody
    Photos = {p1, p2}
    Events = {e1, e2}
    EventOf <- TwoEvents
    Tasks = {t1, t2}
    MaxLines = 1
PROPERTY MergeClosesSessionCarts
CHECK_DEADLOCK FALSE
