SPECIFICATION Spec
CONSTANTS
    Company = {c1}
    Person = {a1, p1}
    Admin = {a1}
    Sub = {s1, s2}
    Worker = {w1, w2}
    None = None
    Operation = {"suspendCorporation", "closeCorporation", "reinstateCorporation"}
    MaxFailure = 0
SYMMETRY Symmetry
PROPERTIES
    ClosedIsFinal
CHECK_DEADLOCK FALSE
