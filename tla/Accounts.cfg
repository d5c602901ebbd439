SPECIFICATION FairSpec
CONSTANTS
    home = home
    office = office
    eve = eve
    Browsers <- TwoBrowsers
    Emails <- OneEmail
    Nobody = Nobody
    MaxUsers = 2
    MaxSessions = 3
    MaxPasswords = 2
    MaxFaults = 1
INVARIANT TypeOK
INVARIANT Revoked
PROPERTY Heals
