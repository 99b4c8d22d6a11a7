SPECIFICATION ReaderFairSpec
CONSTANTS
    Rows = {1, 2}
    Content <- DistinctContent
    Activity = {}
    Workers = {w1, w2}
    w1 = w1
    w2 = w2
    NoRow = NoRow
    NoWorker = NoWorker
    BatchSize = 2
    MaxAttempts = 2
    MayOverlap = FALSE
    MaySlow = FALSE
    MayCrash = TRUE
    MayStop = FALSE
    MayBlip = FALSE
    MayFail = TRUE
    MayLoseTopic = TRUE
PROPERTIES
    TopicOrderIsExact
    EveryRowSettles
