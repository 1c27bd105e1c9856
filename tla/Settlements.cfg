SPECIFICATION FairSpec
CONSTANTS
    None = None
    ann = ann
    bob = bob
    cat = cat
    Ann = Ann
    b1 = b1
    b2 = b2
    b3 = b3
    b4 = b4
    b5 = b5
    b6 = b6
    b7 = b7
    DayLength = 2
    MinSettled = 2
    Limit = 2
    Messages <- FourMessages
    Content <- BetOf
    Unparsable <- Poison
    Earlier <- ThreeRows
    Conns <- ThreeConns
    Prefetch = 2
    FaultKinds = {"crash", "drop", "channel", "statement"}
    MaxFaults = 1
INVARIANTS
    CountedOnce
    NothingLost
    ChartEndsAtSummary
    LeaderboardRanks
PROPERTIES
    SettlementsAreCounted
CHECK_DEADLOCK FALSE
