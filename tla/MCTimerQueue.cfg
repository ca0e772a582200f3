SPECIFICATION FairSpec
CONSTANTS
    Addresses = {1, 2}
    Intervals = {0, 1}
    MaxTimers = 2
    MaxTime = 3
    Delays <- MCDelays
INVARIANTS
    EntriesLive
    NeverSleepsPastDeadline
    CancelledStaysCancelled
PROPERTIES
    TimersFire
