SPECIFICATION Spec
CONSTANTS
    Session = {s1, s2}
    Worker = {w1}
    None = None
    Ordered = TRUE
    AdminActs = FALSE
    MaxEvent = 7
    MaxFailure = 0
INVARIANTS
    RestoreUnblocksUsers
CHECK_DEADLOCK FALSE
