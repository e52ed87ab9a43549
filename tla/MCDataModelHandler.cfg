CONSTANTS
    Users = {handler}
    Handler = handler
    Commands = {c1, c2}
    QueueLength = 2
    None = None
    Filters = {test}
    Receivers = {callback, queue}
    CallbackReceiver = callback
    QueueReceiver = queue
    ReceiversOf <- MCReceiversOf
    Matches <- MCMatches
    MaxSubscriptions = 2
    Free = Free
    MaxCalls = 9
    MaxLosses = 1
    Impatient = TRUE
    QueueSize = 2
SPECIFICATION DMSpec
SYMMETRY Symmetry
INVARIANTS DMTypeOK ChecksPass ItemsComeBack
CHECK_DEADLOCK FALSE
