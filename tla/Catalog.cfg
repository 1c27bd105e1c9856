SPECIFICATION FairSpec
CONSTANTS
    None = None
    Unreadable = Unreadable
    Plain <- PlainOf
    Number <- NumberOfWord
    Providers <- AllProviders
    Payloads <- Quotes
    ResultPayloads <- Outcome
    Final <- Ends
    Club <- Clubs
    MaxLines <- Recorded
    FaultKinds = {"crash", "statement"}
    MaxFaults = 1
INVARIANTS
    OneRowPerIdentity
    LabelsMeet
    LinksAgree
    OnlyRealResults
PROPERTIES
    FirstSeenKept
    RecordsEnd
CHECK_DEADLOCK FALSE
