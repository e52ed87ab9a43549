CONSTANTS
    Filters = {f}
    Payloads = {p}
    Copied = {p}
    Empty = Empty
    MaxOutgoing = 2
    MaxRequests = 3
    MaxConnections = 2
    MaxOnWire = 1
SPECIFICATION Spec
INVARIANTS StoredOnce NeverForgotten AnswerIsOwn
CHECK_DEADLOCK FALSE
