CONSTANTS
    Users = {u1}
    Commands = {c1}
    QueueLength = 1
    None = None
    Filters = {f}
    Receivers = {u1}
    ReceiversOf <- OwnReceiver
    Matches <- NoMatches
    MaxSubscriptions = 1
    Free = Free
    MaxCalls = 1
    MaxLosses = 0
    Impatient = TRUE
SPECIFICATION Spec
INVARIANT CompletionEndsWait
CHECK_DEADLOCK FALSE
