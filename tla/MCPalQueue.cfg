\* Two slots: the ring wraps, and is full and empty at different counts.
CONSTANTS
    Threads = {t1, t2, t3}
    Items = {a, b}
    N = 2
    NoThread = NoThread
    Spurious = TRUE
SPECIFICATION Spec
SYMMETRY Symmetry
INVARIANTS TypeOK RingConsistent NoLostWakeup
PROPERTY ImplementsFifo
