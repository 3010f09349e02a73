SPECIFICATION Spec
CONSTANTS
    Session = {s1}
    Worker = {w1}
    None = None
    Ordered = TRUE
    AdminActs = FALSE
    MaxEvent = 2
    MaxFailure = 0
INVARIANTS
    LatePaymentCounts
CHECK_DEADLOCK FALSE
