SPECIFICATION Spec
CONSTANTS
    Users = {u1, u2}
    Groups = {g1, g2}
    Names = {1, 2}
    Handlers = {h1, h2}
    TTL = 1
    MaxOps = 4
    None = None
INVARIANT TeamKeepsAnOwner
CHECK_DEADLOCK FALSE
SYMMETRY Symmetry
