\* What a block read reports after a wait was given up.
CONSTANTS
    t1 = t1
    t2 = t2
    v1 = v1
    v2 = v2
    Threads = {t1, t2}
    Sectors = {1, 2}
    Values = {v1, v2}
    Garbage = Garbage
    NoThread = NoThread
    Retries = 2
SPECIFICATION Spec
INVARIANT ReadAfterTimeout
