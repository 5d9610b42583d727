SPECIFICATION ApartSpec
CONSTANTS
    p1 = p1
    p2 = p2
    e1 = e1
    e2 = e2
    CartIds = {c1, c2, c3}
    OrderIds = {o1, o2}
    LinkIds = {}
    PreviewIds = {}
    NoPreview = gallery
    Users = {u1}
    Sessions = {s1}
    NoOwner = nobody
    Photos = {p1, p2}
    Events = {e1, e2}
    EventOf <- TwoEvents
    Tasks = {t1, t2}
    MaxLines = 2
SYMMETRY Symmetry
INVARIANTS CartTypeOK CheckoutComplete
PROPERTY KeepsBasket
CHECK_DEADLOCK FALSE
