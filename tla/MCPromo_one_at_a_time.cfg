SPECIFICATION Spec
CONSTANTS
    Row = {r1, r2}
    Coupon = {c1, c2, c3}
    Promotion = {p1, p2, p3}
    Code = {x1, x2}
    Discount = {d1, d2}
    Worker = {w1}
    None = None
    Operation = {"create", "edit", "rename", "delete", "toggle", "list"}
    MaxFailure = 1
    MaxCrash = 0
SYMMETRY Symmetry
INVARIANTS
    TypeOK
    ListsAgree
    DiscountsAreOwned
CHECK_DEADLOCK FALSE
