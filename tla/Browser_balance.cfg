SPECIFICATION BrowserSpec
CONSTANTS
    q1 = q1
    q2 = q2
    r1 = r1
    Quotes <- TwoQuotes
    Results <- OneResult
    Lists <- JustBalance
    MaxChanges = 1
    FaultKinds = {"drop"}
    MaxFaults = 1
    None = None
    OddsUnit = 100
    Fixtures <- SomeFixtures
    Balances <- SomeBalances
    Texts <- SomeTexts
    MaxMoves = 0
INVARIANT MissedUpdatesAreRecovered
CHECK_DEADLOCK FALSE
