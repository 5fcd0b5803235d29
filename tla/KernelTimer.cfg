\* A hard timer, two soft timers, and a tick of three bits.
CONSTANTS
    h = h
    s1 = s1
    s2 = s2
    own = own
    HardTimers = {h}
    SoftTimers = {s1, s2}
    ThreadTimer = own
    NoTimer = NoTimer
    TickMax = 7
    Period <- Periods
    MaxInit = 2
    MaxLate = 1
SPECIFICATION FairSpec
INVARIANTS TypeOK HardPunctual CanBeStopped SoftWatched
PROPERTIES CalledInTurn SoftServed
