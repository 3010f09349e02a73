SPECIFICATION Spec
CONSTANTS
    Assessment = {a1}
    Answer = {v1, v2}
    Empty = Empty
    Page = {p1}
    Job = {j1, j2}
    Worker = {w1, w2}
    None = None
    Wanted = {"completed", "in_progress"}
    BatchSize = 2
    MaxReceive <- Short
    MaxUpdate = 1
    MaxFailure = 1
SYMMETRY Symmetry
INVARIANTS
    TypeOK
    ScoreIsCurrent
    ReportShowsScore
    ReportIsStored
PROPERTIES
    ImplementsRecord
CHECK_DEADLOCK FALSE
