SPECIFICATION Spec
CONSTANTS
    f = f
    a = a
    t = t
    NoSpace = NoSpace
    Obs <- MCObs
    Source <- MCSource
    Space <- MCSpace
    Matchers <- MCMatchers
    MaxProject = 1
    Sightings <- AllSightings
    InitDB <- Ruled
    Caller = {c1}
    CallKinds = {"pause"}
    MayFail = FALSE
    Endless = FALSE
    AutoDisarm = 2
    MaxNow = 3
    MaxCalls = 2
PROPERTIES
    PausedNotCredited
