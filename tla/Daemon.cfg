CONSTANTS
    c1 = c1
    c2 = c2
    c3 = c3
    Cmds = {c1, c2, c3}
    None = None
    MaxTries = 2
SYMMETRY Symmetry
SPECIFICATION Spec
INVARIANTS
    SoleDaemon
    FileNamesDaemon
    StoppedIsGone
CHECK_DEADLOCK FALSE
