SPECIFICATION SideBySide
CONSTANTS
    Sessions = {s1, s2, n1}
    Forks = {n1}
    Threads = {t1, t2, t3}
    Handlers = {h1, h2}
    Discoverers = {d1}
    NoOne = NoOne
    Root = Root
    Nowhere = Nowhere
    MaxTasks = 3
    Typed = {l1}
    Cards = {k1}
    Spoken = {v1}
    Containers = {1, 2}
    Topics = {p1}
    Here = Here
    None = None
    Limit = 1
    MaxBegun = 2
    MaxPrompts = 2
    MaxFinals = 3
    MaxMishaps = 1
INVARIANTS
    EveryWordFindsItsRoom
    OneIntentOneBill
PROPERTIES
    NothingIsStranded
    
SYMMETRY Symmetry
CHECK_DEADLOCK FALSE
