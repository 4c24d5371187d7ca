SPECIFICATION Spec
CHECK_DEADLOCK FALSE
CONSTANTS
    NoCompany = NoCompany
    Client = {k1, NoCompany}
    Project = {p1}
    Unassigned = Unassigned
    Midnights = {0, 2}
    DaySeconds = 2
    LastSecond = 2
    MaxChanges = 1
    MessageGrace = 2
    RetryWait = 3
INVARIANTS
    CompanyCoversProjects
    ViewFresh
PROPERTIES
    ViewCatchesUp
    ComesBack
