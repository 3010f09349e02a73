SPECIFICATION Spec
CONSTANTS
    Session = {s1}
    Worker = {w1}
    None = None
    Ordered = FALSE
    AdminActs = FALSE
    MaxEvent = 4
    MaxFailure = 0
INVARIANTS
    EndLeavesNoAccess
CHECK_DEADLOCK FALSE
