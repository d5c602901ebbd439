SPECIFICATION FairSpec
CONSTANTS
    standup = standup
    review = review
    auto = auto
    manual = manual
    query = query
    Ids <- TwoIds
    PageOf <- TwoPages
    LastPage = 2
    Syncs <- TwoSyncs
    Timer = auto
    Queries <- OneQuery
    MaxEvents = 2
INVARIANT TypeOK
INVARIANT RefreshShared
INVARIANT TokensAlive
PROPERTY PruneSafe
PROPERTY Converges
CHECK_DEADLOCK FALSE
