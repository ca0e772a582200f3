SPECIFICATION FairSpec
CONSTANTS
    MaxSend = 4
    Exp = 3
    MaxReceive = 2
    MaxRequests = 2
INVARIANTS
    BytesInOrder
    OutputHasWriter
    OutputFits
    InputOffered
    CleanedUpOnce
PROPERTIES
    OutputDrains
    PeerCloseSeen
