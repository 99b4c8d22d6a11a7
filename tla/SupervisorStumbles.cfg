SPECIFICATION Spec
CONSTANTS
    lone = lone
    large = large
    small = small
    Sessions = {s1, s2, lone}
    Teams = {large, small}
    TeamOf <- Alone
    Quota <- Ample
    Ceiling = 3
    MaxOdd = 0
    MayUnbind = FALSE
    MayRevoke = TRUE
    MayRekey = FALSE
    HandlersCall = FALSE
PROPERTIES OneTeamsKeyIsNotAnothersOutage
