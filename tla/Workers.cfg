SPECIFICATION SideBySide
CONSTANTS
    Rows = {1, 2, 3}
    Content <- DistinctContent
    Activity = {2}
    Workers = {w1, w2}
    w1 = w1
    w2 = w2
    NoRow = NoRow
    NoWorker = NoWorker
    BatchSize = 2
    MaxAttempts = 2
    MayOverlap = TRUE
    MaySlow = FALSE
    MayCrash = TRUE
    MayStop = TRUE
    MayBlip = TRUE
    MayFail = TRUE
    MayLoseTopic = FALSE
    Sessions = {s1, s2, s3}
    Teams = {large}
    TeamOf <- TheOneTeam
    Quota <- TwoEach
    Ceiling = 3
    MaxOdd = 1
    MayUnbind = TRUE
    MayRevoke = TRUE
    MayRekey = TRUE
    HandlersCall = TRUE
INVARIANTS
    TypeOK
    SettledMeansSeen
    PollersKeepToTheirCeilings
PROPERTIES
    KeepsThePromise
    ShownOnce
    ClientsOutliveTheirPollers
SYMMETRY Symmetry
CHECK_DEADLOCK FALSE
