SPECIFICATION FairSpec
CHECK_DEADLOCK FALSE
CONSTANTS
    laptop = laptop
    desktop = desktop
    alice = alice
    bob = bob
    Agents <- TwoAgents
    Users <- TwoUsers
    None = None
    MaxAttempts = 1
    MaxApprovals = 2
    MaxFaults = 2
INVARIANT TypeOK
INVARIANT LinkedIsAccepted
PROPERTY PairingEnds
PROPERTY CodesAreTickets
