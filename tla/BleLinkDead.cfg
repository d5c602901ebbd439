SPECIFICATION Spec
CONSTANTS
    pFree = pFree
    pBusy = pBusy
    Payloads <- TwoPayloads
    Free = pFree
    Empty = Empty
    NoOne = NoOne
    ResetAfter = 2
    DisconnectRaises = TRUE
    MaxPushes = 2
    MaxQueue = 2
    MaxFaults = 1
INVARIANT LoopAlive
