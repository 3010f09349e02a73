SPECIFICATION Spec
CONSTANTS
    Assessment = {a1}
    Answer = {v1}
    Empty = Empty
    Page = {p1}
    Job = {j1, j2}
    Worker = {w1}
    None = None
    Wanted = {"completed"}
    BatchSize = 1
    MaxReceive <- Short
    MaxUpdate = 1
    MaxFailure = 0
PROPERTIES
    ReportGeneratedIsFinal
CHECK_DEADLOCK FALSE
