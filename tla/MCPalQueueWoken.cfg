\* No symmetry: a liveness property is checked. One slot makes every send and
\* receive compete.
CONSTANTS
    Threads = {t1, t2, t3}
    Items = {a}
    N = 1
    NoThread = NoThread
    Spurious = TRUE
SPECIFICATION PatientSpec
PROPERTY WaitersAreWoken
