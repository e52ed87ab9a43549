CONSTANTS
    Filters <- MCFilters
    Payloads <- MCPayloads
    Copied <- MCCopied
    Empty = Empty
    MaxOutgoing = 2
    MaxRequests = 10
    MaxConnections = 2
    MaxOnWire = 1
    MaxLoopCount = 2
    MaxKeys = 2
    MaxRepeats = 1
    MaxRestarts = 1
SPECIFICATION FPSpec
INVARIANTS FPTypeOK SuccessIsUsable ResponseIsAnswer AssertionsHold
PROPERTIES RegisteredIsStored RequestIntact
CHECK_DEADLOCK FALSE
