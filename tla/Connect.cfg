SPECIFICATION FairSpec
CHECK_DEADLOCK FALSE
CONSTANTS
    alice = alice
    bob = bob
    work = work
    home = home
    Users <- OneUser
    Providers <- SlackAndZoom
    Identities <- TwoIdentities
    MaxAccounts = 1
    MaxStates = 3
    MaxFaults = 1
INVARIANT TypeOK
INVARIANT WithinLimit
PROPERTY StatesAreTickets
