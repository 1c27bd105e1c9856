SPECIFICATION Spec
CONSTANTS
    ann = ann
    r1 = r1
    r2 = r2
    r3 = r3
    a1 = a1
    a2 = a2
    Users <- OneUser
    Requests <- ThreeRequests
    Caller <- AllAnn
    Stake <- Stakes
    Adjustments <- TwoAdjustments
    Subject <- OfAnn
    Target <- UpAndDown
    StartingBalance = 4
    FaultKinds = {"crash", "channel", "database"}
    MaxFaults = 2
INVARIANTS
    GrantedAtMostOnce
    GrantOnItsWay
    CreatorsHaveAccounts
    NoOverdraft
    AdjustmentsAddUp
CHECK_DEADLOCK FALSE
