SPECIFICATION SideBySide
CONSTANTS
    Instances = {a, b}
    Nobody = Nobody
    TTL = 3
    Pace = 1
    MaxBlips = 1
    MaySlow = FALSE
    lone = lone
    large = large
    small = small
    Sessions = {s1, lone}
    Teams = {large, small}
    TeamOf <- Alone
    Quota <- OneEach
    Ceiling = 1
    MaxOdd = 1
    MayUnbind = TRUE
    MayRevoke = TRUE
    MayRekey = FALSE
    HandlersCall = FALSE
    Calls = {c1, c2}
    NoCall = NoCall
    Resources = {r1}
    Api = Api
    Threshold = 2
    MaxAttempts = 1
    Permits = 2
    MaxHangs = 1
    MayGarble = FALSE
INVARIANTS
    PollsUnderALiveLease
PROPERTIES
    EveryTeamIsServed
    TheApiComesBack
CHECK_DEADLOCK FALSE
