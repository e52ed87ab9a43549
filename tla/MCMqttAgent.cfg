CONSTANTS
    Users = {u1, u2}
    Commands = {c1, c2}
    QueueLength = 1
    None = None
    Filters = {f}
    Receivers = {u1, u2}
    ReceiversOf <- OwnReceiver
    Matches <- NoMatches
    MaxSubscriptions = 2
    Free = Free
    MaxCalls = 1
    MaxLosses = 1
    Impatient = TRUE
SPECIFICATION FairSpec
INVARIANTS TypeOK PoolConserved CompletedOnce
PROPERTY CommandsComeBack
CHECK_DEADLOCK FALSE
