SPECIFICATION FairSpec
CONSTANTS
    page1 = page1
    page2 = page2
    hook = hook
    Pages <- TwoPages
    Hooks <- OneHook
    Nobody = Nobody
    MaxMessages = 2
    MaxFaults = 2
INVARIANT TypeOK
INVARIANT CancelledForGood
PROPERTY Delivers
PROPERTY AgentCatchesUp
