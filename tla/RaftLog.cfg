CONSTANTS
    Terms = {1, 2}
    Lens = {1, 2}
    FirstIndices = {1, 3}
    MaxAppends = 3
    MaxTruncates = 2
    MaxFaults = 2
    Word = 256
SPECIFICATION Spec
INVARIANTS
    ReloadAgrees
    EntriesKept
    OneTornPerFault
    AppendedWhereAsked
    ValidExact
CHECK_DEADLOCK FALSE
