SPECIFICATION FairSpec
CONSTANTS
    NoBet = NoBet
    NoResult = NoResult
    b1 = b1
    b2 = b2
    alice = alice
    e1 = e1
    e2 = e2
    home = home
    away = away
    m1 = m1
    m2 = m2
    Users <- OneUser
    Selections <- Sides
    Outcomes <- Sides
    Owner <- AllAlice
    Bets <- TwoBets
    Events <- OneEvent
    EventOf <- SameEvent
    Pick <- OppositeSides
    Stake <- Stakes
    Opening <- CoversBoth
    Odds <- LowOdds
    OddsUnit = 10
    Msgs <- TwoMsgs
    MaxColumn = 4
    FaultKinds = {"crash", "database"}
    MaxFaults = 1
PROPERTIES
    HeldBetsSettle
CHECK_DEADLOCK FALSE
