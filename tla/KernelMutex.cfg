\* Three threads of different priorities and two mutexes, taken in any order.
\* Threads may deadlock on the two mutexes, so the system may stop.
CONSTANTS
    low = low
    mid = mid
    high = high
    m1 = m1
    m2 = m2
    NoThread = NoThread
    Threads = {low, mid, high}
    Mutexes = {m1, m2}
    Prios = {1, 2, 3}
    Base <- LowMidHigh
    NoPrio = 255
    HoldMax = 2
SPECIFICATION Spec
INVARIANTS TypeOK Ownership Inheritance
CHECK_DEADLOCK FALSE
