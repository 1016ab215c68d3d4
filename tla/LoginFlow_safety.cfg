SPECIFICATION FairSpec
CONSTANTS
    Floor = 2
    DefaultExpiry = 7
    Intervals = {0, 1, 3}
    Expiries = {0, 4}
    MaxTransit = 2
    MaxLag = 1
    MaxSlowDowns = 2
    NotYet = NotYet
INVARIANTS
    TypeOK
    ApprovalInTimeCounts
    PollingIsBounded
PROPERTIES
    PollsArePaced
    FlagIsReleased
