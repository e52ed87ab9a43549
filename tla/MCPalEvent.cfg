\* Two waiters compete for the sets of two setters; w2 also sets.
CONSTANTS
    Threads = {w1, w2, s1}
    Waiters = {w1, w2}
    Setters = {w2, s1}
    NoThread = NoThread
    BlockTime = 1
    Spurious = TRUE
SPECIFICATION FairSpec
INVARIANTS TypeOK NoLostWakeup
PROPERTIES ImplementsEvent SetWakesWaiters
