SPECIFICATION Spec
CHECK_DEADLOCK FALSE
CONSTANTS
    k1 = k1
    k2 = k2
    p1 = p1
    p2 = p2
    s = s
    Company = {k1}
    Project = {p1, p2}
    Sender = {s}
    Caller = {c1}
    CreatedAt <- FromStart
    CompanyOf <- ProjectsOfOne
    BilledFrom <- FromS
    Mode <- Hourly
    Rate = 1
    FirstNumber = 1
    NoCaller = NoCaller
    Requests <- OnlyGenerate
    MayFail = FALSE
    MayCrash = FALSE
    MayPause = TRUE
    PollerLags = FALSE
    MaxClock = 4
    MaxCalls = 1
PROPERTIES
    HoursNotDropped
