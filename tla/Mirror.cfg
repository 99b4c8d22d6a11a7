SPECIFICATION SideBySide
CONSTANTS
    Last = 3
    Index <- GappyIndex
    Errors = {3}
    History = {0, 1}
    Pollers = {p1, p2}
    p1 = p1
    p2 = p2
    PageLimit = 2
    MaxPages = 2
    Begins = {"opened", "created", "mirrored"}
    MaxForgets = 1
    MaxFails = 1
    MayReplay = TRUE
    MayShed = TRUE
    MayReopen = TRUE
    MayRace = FALSE
    NoCall = NoCall
    Resources = {r1}
    Api = Api
    Threshold = 2
    MaxAttempts = 2
    Permits = 2
    MaxHangs = 1
    MayGarble = FALSE
    MaxHeads = 2
    MaxRuns = 1
    MaxTurns = 2
    MaxErrors = 1
    Lifetime = 1
    MaxMishaps = 1
SYMMETRY
    Symmetry
INVARIANTS
    NothingLostNothingTwice
    CallsAreCounted
    
PROPERTIES
    KeepsTheMirror
CHECK_DEADLOCK FALSE
