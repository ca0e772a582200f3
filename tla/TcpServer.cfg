CONSTANTS
    Loops <- MCLoops
    Conns <- MCConns
    Fds <- MCFds
    InitEvents = 1
    MaxTrouble = 1
    None = None
    Leaked = Leaked
    Listener = Listener
SPECIFICATION Spec
INVARIANTS
    TypeOK
    PollersAgree
    ActiveAlive
    AssertionsHold
    LoopReady
    ReadOffered
CHECK_DEADLOCK FALSE
