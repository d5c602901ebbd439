SPECIFICATION FairSpec
CONSTANTS
    permanent = permanent
    brief = brief
    Window = 1
    Grace = 1
    Lasting <- OneLasting
    Passing <- OnePassing
    NoMessage = NoMessage
    Meetings <- OneMeeting
    Nothing = Nothing
    Staleness = 2
    MaxTime = 3
    MaxChanges = 2
INVARIANT TypeOK
INVARIANT ShownAgrees
PROPERTY Converges
PROPERTY FallsBack
