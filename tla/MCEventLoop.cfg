CONSTANTS
    Threads = {t1, t2}
    Functors = {f1, f2, f3}
    Channels = {c1}
    WakeupChannel = wakeup
SPECIFICATION FairSpec
INVARIANTS TypeOK NoLostWakeup NoLostQuit FunctorsConserved
PROPERTIES ImplementsExecutor FunctorsRun QuitStopsLoop
