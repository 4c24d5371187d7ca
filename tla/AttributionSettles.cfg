SPECIFICATION Spec
CONSTANTS
    f = f
    a = a
    t = t
    NoSpace = NoSpace
    Obs <- MCObs
    Source <- MCSource
    Space <- MCSpace
    Matchers <- MCMatchers
    MaxProject = 1
    Sightings <- SettleSightings
    InitDB <- Ruled
    Caller = {c1, c2}
    CallKinds = {"pause", "resume", "pauseAll", "resumeAll", "add", "delete", "ruleAdd", "ruleDelete", "ignore", "watch", "tag"}
    MayFail = TRUE
    Endless = FALSE
    AutoDisarm = 2
    MaxNow = 2
    MaxCalls = 2
SYMMETRY CallerSymmetry
INVARIANTS
    CacheSettles
PROPERTIES
    PausedIsQuiet
