CONSTANTS
    Streams <- MCStreams
    CutPoints <- MCCutPoints
    HeaderLen = 4
    PayloadLen = 6
    Calls = {c1, c2, c3}
    Registered = {c1, c2}
    None = None
SPECIFICATION Spec
INVARIANTS
    TypeOK
    PacketsInOrder
    OwnResponse
    SaneUnlessCut
PROPERTY
    CallsAnswered
CHECK_DEADLOCK FALSE
