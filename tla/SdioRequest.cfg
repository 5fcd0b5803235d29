\* Two threads, a card that may fail, fall silent, garble or be late.  One
\* sector keeps the liveness check short; the theorems hold for any number.
CONSTANTS
    t1 = t1
    t2 = t2
    v1 = v1
    v2 = v2
    Threads = {t1, t2}
    Sectors = {1}
    Values = {v1, v2}
    Garbage = Garbage
    NoThread = NoThread
    Retries = 2
SPECIFICATION FairSpec
INVARIANTS TypeOK ReadTruthful CleanHandover
PROPERTIES OnlyRequestedWrites RequestReturns
