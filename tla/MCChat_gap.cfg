SPECIFICATION Spec
CONSTANTS
    Turn = {t1}
    Quick = 2
    Deep = 3
    Threshold = 4
    Cap = 3
    PageSize = 4
    MaxClock = 10
SYMMETRY Symmetry
INVARIANTS
    SummaryMeetsWindow
