SPECIFICATION FairSpec
CONSTANTS
    pFree = pFree
    pBusy = pBusy
    Payloads <- TwoPayloads
    Free = pFree
    Empty = Empty
    NoOne = NoOne
    ResetAfter = 2
    DisconnectRaises = TRUE
    MaxPushes = 2
    MaxQueue = 2
    MaxFaults = 2
INVARIANT TypeOK
INVARIANT LockDiscipline
INVARIANT StaleByAtMostOne
INVARIANT PromptReconnect
PROPERTY SendsReturn
PROPERTY DisplayIsRegister
