SPECIFICATION Spec
CONSTANTS
    Row = {r1, r2}
    Coupon = {c1, c2}
    Promotion = {p1, p2, p3}
    Code = {x1, x2}
    Discount = {d1, d2}
    Worker = {w1, w2}
    None = None
    Operation = {"create", "edit", "rename", "delete"}
    MaxFailure = 1
    MaxCrash = 1
SYMMETRY Symmetry
INVARIANTS
    RowsAreBacked
PROPERTIES
    CreatedLive
CHECK_DEADLOCK FALSE
