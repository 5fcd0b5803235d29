\* Two threads, a semaphore that is released, reset, detached and created.
CONSTANTS
    t1 = t1
    t2 = t2
    Threads = {t1, t2}
    Prios = {1, 2}
    SemMax = 2
SPECIFICATION FairSpec
INVARIANTS TypeOK QueueMatchesThreads TokenDelivered
PROPERTIES NoOvertaking TimedWaitsEnd IsCountingSem
\* The assertion in rt_thread_resume really stops the system.
CHECK_DEADLOCK FALSE
