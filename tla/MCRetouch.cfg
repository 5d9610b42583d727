SPECIFICATION PipelineSpec
CONSTANTS
    PhotoIds = {p1}
    Keys = {k1}
    EventOf <- OneEvent
    Files = {f1}
    NoFile = none
    OrderIds = {}
    Attempts = 1
    MaxStalls = 0
    Desks = {d1}
PROPERTY ConfirmedFileKept
CHECK_DEADLOCK FALSE
