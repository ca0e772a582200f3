CONSTANTS
    Loops <- MCLoops
    Conns <- MCConns
    Fds <- MCFds
    InitEvents = 1
    MaxTrouble = 0
    None = None
    Leaked = Leaked
    Listener = Listener
SPECIFICATION Spec
INVARIANT
    RemovesKnown
CHECK_DEADLOCK FALSE
