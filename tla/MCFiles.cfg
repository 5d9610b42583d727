SPECIFICATION PartSpec
CONSTANTS
    p1 = p1
    d1 = d1
    k1 = k1
    PhotoIds = {p1, p2}
    Keys = {k1, k2}
    EventOf <- OneEvent
    Files = {f1, f2}
    NoFile = none
    OrderIds = {}
    Attempts = 2
    MaxStalls = 1
    Desks = {d1, d2}
INVARIANTS OnePhotoPerUpload PhotosServed
PROPERTY QueuesDrain
CHECK_DEADLOCK FALSE
