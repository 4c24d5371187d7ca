SPECIFICATION Spec
CHECK_DEADLOCK FALSE
CONSTANTS
    root = root
    repo = repo
    None = None
    Dir <- MCDir
    Home = root
    Tracked <- MCTracked
    Content <- MCContent
    Grace = 2
    MaxLines = 2
    MaxNow = 4
    i1 = i1
    p1 = p1
    p2 = p2
    NoMatch = NoMatch
    SpaceProject = p2
    Importer = {i1}
    Transcripts <- MCTranscripts
    StampsOf <- MCStamps
    MatchOf <- MCMatch
    Ranges <- MCRanges
    GraceSec = 2
    Interval = 2
    MaxTime = 4
    MaxImports = 2
    NoSpace = NoSpace
    Process <- MCProcess
    Snapshots <- MCSnapshots
    Rise = 2
    Fall = 3
    s1 = s1
    s2 = s2
    w1 = w1
    w2 = w2
    Nowhere = Nowhere
    Session = {s1, s2}
    Workspace = {w1, w2}
    HomeOf <- MCHome
    Headless = {s2}
    MaxVersion = 4
    First = 2
    Most = 5
    Streak = 2
    PermStale = 15
    d1 = d1
    d2 = d2
    Proc = {d1, d2}
    NoProc = NoProc
    Alien = Alien
    Columns = 1
    Space = {"", "w"}
    Char <- MCChar
    MaxPattern = 3
    MaxCwd = 4
INVARIANTS
    NothingTwice
    DenialStaysVisible
    ServesWhole
    PlainMatchersAgree
PROPERTIES
    TurnsSeen
    HalfLinesWait
    ImportIsWhole
    RightProcess
    SeenOnceResolved
    NothingStale
    SpaceOutlivesSession
    QuietLessThanCap
    RefusedOnlyIfServing
    ObservationsSurvive
