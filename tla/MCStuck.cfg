SPECIFICATION PipelineSpec
CONSTANTS
    PhotoIds = {p1}
    Keys = {k1}
    EventOf <- OneEvent
    Files = {}
    NoFile = none
    OrderIds = {}
    Attempts = 3
    MaxStalls = 6
    Desks = {d1}
INVARIANT ProcessingIsRetried
CHECK_DEADLOCK FALSE
