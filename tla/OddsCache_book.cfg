SPECIFICATION FairSpec
CONSTANTS
    None = None
    Closed = Closed
    e1 = e1
    home = home
    draw = draw
    Events <- OneEvent
    Selections <- Sides
    Lines <- OneLine
    MinOdds = 11
    MaxOdds = 1000
    MaxAge = 1
    MaxAttempts = 2
    MaxTime = 3
    QueueBound = 2
    FaultKinds = {"crash", "hydrate", "drop"}
    MaxFaults = 2
INVARIANTS
    LinesArePosted
    PricesAreFresh
    CacheIsCurrent
PROPERTIES
    KeepsBook
    EventsBecomeKnown
CHECK_DEADLOCK FALSE
