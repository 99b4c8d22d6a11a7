SPECIFICATION SideBySide
CONSTANTS
    Users = {u1, u2}
    Groups = {g1, g2}
    Names = {1, 2}
    Handlers = {h1, h2}
    TTL = 1
    MaxOps = 4
    None = None
    MaxTurns = 2
    MaxPosts = 5
    MaxMishaps = 1
    MaxThrottles = 1
    ForgetExcused = TRUE

    
PROPERTIES
    GroupsKeepTheirTeam
    OnlyOwnersTouchOwners
    AStaleResolutionIsYoung
    TheCardIsTheTurns
SYMMETRY Symmetry
CHECK_DEADLOCK FALSE
