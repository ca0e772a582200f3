CONSTANTS
    Streams <- MCStreams
    CutPoints <- MCCutPoints
    HeaderLen = 4
    PayloadLen = 6
    Calls = {c1}
    Registered = {c1}
    None = None
SPECIFICATION Spec
INVARIANT
    FullPacket
CHECK_DEADLOCK FALSE
