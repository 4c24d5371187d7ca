SPECIFICATION FairSpec
CONSTANTS
    f = f
    a = a
    t = t
    NoSpace = NoSpace
    Obs <- MCObs
    Source <- MCSource
    Space <- MCSpace
    Matchers <- MCMatchers
    MaxProject = 1
    Sightings <- BusySightings
    InitDB <- OneProject
    Caller = {c1}
    CallKinds = {"pause", "ruleAdd", "watch"}
    MayFail = FALSE
    Endless = TRUE
    AutoDisarm = 2
    MaxNow = 1
    MaxCalls = 3
PROPERTIES
    Unstuck
