SPECIFICATION Spec
CONSTANTS
    f = f
    a = a
    t = t
    NoSpace = NoSpace
    Obs <- MCObs
    Source <- MCSource
    Space <- MCSpace
    Matchers <- MCMatchers
    MaxProject = 1
    Sightings <- FocusSightings
    InitDB <- Unruled
    Caller = {c1}
    CallKinds = {"tag"}
    MayFail = FALSE
    Endless = FALSE
    AutoDisarm = 2
    MaxNow = 2
    MaxCalls = 2
INVARIANTS
    TagMissesNoTick
