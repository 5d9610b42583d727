SPECIFICATION PartSpec
CONSTANTS
    p1 = p1
    k1 = k1
    k2 = k2
    f1 = f1
    v1 = v1
    blur = blur
    e1 = e1
    e2 = e2
    PhotoIds = {p1}
    Keys = {k1}
    EventOf <- KeyEvents
    NameOf <- KeyNames
    Files = {}
    NoFile = none
    Attempts = 1
    MaxStalls = 0
    Desks = {d1}
    OrderIds = {}
    AttrIds = {a1}
    Values = {v1, blur}
    BibNumbers = {v1}
    AskedNumbers = {v1}
    Palette = {v1}
    NoValue = null
    Editors = {w1}
    MaxCorrections = 1
    EventIds = {e1, e2}
    Operators = {}
    AllEvents = all
INVARIANT MissedPlatesFound
CHECK_DEADLOCK FALSE
