SPECIFICATION Spec
CHECK_DEADLOCK FALSE
CONSTANTS
    k1 = k1
    k2 = k2
    p1 = p1
    p2 = p2
    s = s
    Company = {k1}
    Project = {p1}
    Sender = {s}
    Caller = {c1}
    CreatedAt <- LaterFounded
    CompanyOf <- OneCompany
    BilledFrom <- FromS
    Mode <- Hourly
    Rate = 1
    FirstNumber = 1
    NoCaller = NoCaller
    Requests <- HourCalls
    MayFail = TRUE
    MayCrash = TRUE
    MayPause = FALSE
    PollerLags = FALSE
    MaxClock = 4
    MaxCalls = 4
INVARIANTS
    TypeOK
    HoursBilledOnce
PROPERTIES
    HoursNotDropped
