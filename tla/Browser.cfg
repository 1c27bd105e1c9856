SPECIFICATION BrowserSpec
CONSTANTS
    q1 = q1
    q2 = q2
    r1 = r1
    Quotes <- TwoQuotes
    Results <- OneResult
    Lists <- AllLists
    MaxChanges = 2
    FaultKinds = {"drop", "network", "sleep", "relay", "elsewhere"}
    MaxFaults = 2
    None = None
    OddsUnit = 100
    Fixtures <- SomeFixtures
    Balances <- SomeBalances
    Texts <- SomeTexts
    MaxMoves = 1
INVARIANTS
    QuietMeansCurrent
    EditsAreExact
    SlipSells
    FiltersAgree
PROPERTIES
    SessionReturns
    AnonymousInTheEnd
CHECK_DEADLOCK FALSE
