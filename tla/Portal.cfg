SPECIFICATION Spec
CONSTANTS
    mine = mine
    here = here
    Nothing = Nothing
    NoAddress = NoAddress
    Events <- FewEvents
    DaysPerWeek = 3
    DaysPerMonth = 4
    Today = 2
    LastDay = 5
    MaxRequests = 2
    Ids <- OneAccount
    Providers <- AllProviders
    MaxAccounts = 1
    StatusIds <- OneAccount
    Addresses <- OneAddress
INVARIANT CalendarComplete
INVARIANT NothingDropped
INVARIANT NoRepeatedApproval
