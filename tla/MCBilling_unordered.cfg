SPECIFICATION Spec
CONSTANTS
    Session = {s1, s2}
    Worker = {w1, w2}
    None = None
    Ordered = FALSE
    AdminActs = TRUE
    MaxEvent = 3
    MaxFailure = 1
SYMMETRY Symmetry
INVARIANTS
    FeeOncePerSession
    FeeMarkIsHonest
CHECK_DEADLOCK FALSE
