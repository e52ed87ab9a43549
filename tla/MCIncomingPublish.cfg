CONSTANTS
    QueueItems = {i1, i2, i3}
    Messages <- MCMessages
    Required <- MCRequired
    Readers = {r1, r2}
    NoItem = NoItem
    NoMessage = NoMessage
SPECIFICATION Spec
INVARIANTS TypeOK ItemsConserved BuffersFit
PROPERTY ImplementsMailbox
CHECK_DEADLOCK TRUE
