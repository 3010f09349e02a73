SPECIFICATION Spec
CONSTANTS
    Plan <- Plans
    Request = {q1, q2}
    First = First
    None = None
SYMMETRY Symmetry
INVARIANTS
    TypeOK
    GrantedPlanIsPaid
    CreditIsEarned
    ChargedOnce
    RecordsAgree
PROPERTIES
    PlanOnlyRises
CHECK_DEADLOCK FALSE
