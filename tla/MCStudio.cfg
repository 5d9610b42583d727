SPECIFICATION PartSpec
CONSTANTS
    p1 = p1
    k1 = k1
    k2 = k2
    f1 = f1
    v1 = v1
    blur = blur
    e1 = e1
    e2 = e2
    PhotoIds = {p1, p2}
    Keys = {k1, k2, k3}
    EventOf <- KeyEvents
    NameOf <- KeyNames
    Files = {f1, f2}
    NoFile = none
    Attempts = 2
    MaxStalls = 1
    Desks = {d1, d2}
    OrderIds = {o1}
    AttrIds = {a1, a2}
    Values = {v1, v2, blur}
    BibNumbers = {v1, v2}
    AskedNumbers = {v1, v2}
    Palette = {v1, v2}
    NoValue = null
    Editors = {w1, w2}
    MaxCorrections = 2
    EventIds = {e1, e2}
    Operators = {u1}
    AllEvents = all
INVARIANTS GalleryTypeOK ProcessedHasResult PhotoRowsCoherent DashboardAgrees CompletionAnnounced AuditChain FoundIsShown GalleryComplete
PROPERTIES ReviewSettles KeepsSheet
SYMMETRY Symmetry
CHECK_DEADLOCK FALSE
