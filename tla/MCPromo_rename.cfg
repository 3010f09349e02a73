SPECIFICATION Spec
CONSTANTS
    Row = {r1}
    Coupon = {c1}
    Promotion = {p1, p2}
    Code = {x1, x2}
    Discount = {d1}
    Worker = {w1}
    None = None
    Operation = {"create", "rename"}
    MaxFailure = 1
    MaxCrash = 0
SYMMETRY Symmetry
INVARIANTS
    NoOrphanCode
CHECK_DEADLOCK FALSE
