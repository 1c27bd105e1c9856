SPECIFICATION FairSpec
CONSTANTS
    None = None
    apifootball = apifootball
    mock = mock
    f1 = f1
    f2 = f2
    f3 = f3
    m1 = m1
    a1 = a1
    home = home
    away = away
    Providers <- FootballAndMock
    Events <- Fixtures
    Origin <- OriginOf
    Kickoff <- StartsAt
    Finish <- EndsAt
    Final <- Played
    Mock = mock
    SendKickoff = {apifootball, mock}
    Requests <- OneAdmin
    Outcomes <- Sides
    Grace = 1
    Lookback = 4
    MaxPending = 2
    MaxTime = 4
    FaultKinds = {"crash", "tick", "broker"}
    MaxFaults = 2
INVARIANTS
    PolledOnce
    PublishedStaysResolved
    OutcomesAreAnnounced
PROPERTIES
    PolledEventsGetResults
CHECK_DEADLOCK FALSE
