SPECIFICATION FairSpec
CHECK_DEADLOCK FALSE
CONSTANTS
    k1 = k1
    k2 = k2
    p1 = p1
    p2 = p2
    s = s
    Company = {k1, k2}
    Project = {p1}
    Sender = {s}
    Caller = {c1, c2}
    CreatedAt <- FromStart
    CompanyOf <- OneCompany
    BilledFrom <- FromS
    Mode <- Mixed
    Rate = 4
    FirstNumber = 1
    NoCaller = NoCaller
    Requests <- LedgerCalls
    MayFail = TRUE
    MayCrash = TRUE
    MayPause = TRUE
    PollerLags = FALSE
    MaxClock = 2
    MaxCalls = 3
INVARIANTS
    GaplessNumbers
    UniqueNumbers
    FilesAreIssued
    CreditNotOverdrawn
PROPERTIES
    ConnectionReturned
