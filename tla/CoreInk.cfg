SPECIFICATION FairSpec
CONSTANTS
    mBusy = mBusy
    FREE = FREE
    Empty = Empty
    Blank = Blank
    Nothing = Nothing
    Messages <- SomeMessages
    Debounce = 1
    Poll = 1
    AdvInterval = 2
    AutoFree = 3
    MaxWrites = 2
    MaxFaults = 2
PROPERTY PanelIsMailbox
PROPERTY AutoFreed
PROPERTY Reachable
INVARIANT TypeOK
INVARIANT PendingShown
INVARIANT NoOversleep
INVARIANT ResetKeepsScreen
PROPERTY AutoFreeJustified
