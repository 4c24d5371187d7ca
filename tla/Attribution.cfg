SPECIFICATION Spec
CONSTANTS
    f = f
    a = a
    t = t
    NoSpace = NoSpace
    Obs <- MCObs
    Source <- MCSource
    Space <- MCSpace
    Matchers <- MCMatchers
    MaxProject = 2
    Sightings <- AllSightings
    InitDB <- OneProject
    Caller = {c1}
    CallKinds = {"pause", "resumeAll", "add", "delete", "ruleAdd", "ruleDelete", "ignore", "tag"}
    MayFail = TRUE
    Endless = FALSE
    AutoDisarm = 2
    MaxNow = 2
    MaxCalls = 2
INVARIANTS
    TypeOK
    NoOrphanTick
    WarningMeansArmed
PROPERTIES
    TicksAreKept
    OnlyPollerDisarms
