SPECIFICATION SideBySide
CONSTANTS
    Cap = 12
    Longest = 13
    Growth = 1
    Last = 3
    Index <- GappyIndex
    Errors = {3}
    History = {1}
    Pollers = {p1, p2}
    PageLimit = 1
    MaxPages = 2
    Begins = {"created", "mirrored"}
    MaxForgets = 2
    MaxFails = 1
    MayReplay = FALSE
    MayShed = FALSE
    MayReopen = FALSE
    MayRace = FALSE
    Notes = {1}
    Workers = {w1, w2}
    NoNote = NoNote
    MaxAttempts = 2
    OrphanAfter = 1
    Deadline = 2
    MaxTaps = 1
    Instances = {i1, i2}
    MaxHeads = 1
    MaxRuns = 2
    MaxTurns = 1
    MaxErrors = 2
    Lifetime = 1
    MaxMishaps = 1
    urgent = urgent
    plain = plain
    talks = talks
    x = x
    y = y
    z = z
    Destinations = {urgent, plain, talks}
    Chats = {x, y, z}
    ChatOf <- AChatEach
    Backlog <- TwoUrgent
    Throttled = {x, y}
    Carded = {x}
    Narrating = {talks}
    Urgent = {urgent}
    Nowhere = Nowhere
    BatchSize = 2
    Burst = 1
    Pauses = {2}
    GlobalChats = 2
    GlobalWindow = 2
INVARIANTS
    OneRowIntoAPause
    FindsAnEnd
    RepairsExactly
    OneNoteOnePrompt
    FewRequests
PROPERTIES
    WhatIsSaidArrives
    NobodyStarves
    NothingWaitsForEver
CHECK_DEADLOCK FALSE
