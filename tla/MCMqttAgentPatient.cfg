CONSTANTS
    Users = {u1, u2}
    Commands = {c1, c2}
    QueueLength = 2
    None = None
    Filters = {f}
    Receivers = {u1, u2}
    ReceiversOf <- OwnReceiver
    Matches <- NoMatches
    MaxSubscriptions = 2
    Free = Free
    MaxCalls = 2
    MaxLosses = 0
    Impatient = FALSE
SPECIFICATION Spec
SYMMETRY Symmetry
INVARIANTS RoutesAgree PublishReportsOwn PublishIsWoken FrameNotUsed
CHECK_DEADLOCK FALSE
