SPECIFICATION FairSpec
CONSTANTS
    Assessment = {a1}
    Answer = {v1}
    Empty = Empty
    Page = {p1}
    Job = {j1, j2}
    Worker = {w1}
    None = None
    Wanted = {"completed", "in_progress"}
    BatchSize = 2
    MaxReceive <- Thrice
    MaxUpdate = 1
    MaxFailure = 2
PROPERTIES
    ScoringLeadsToScore
    ReportJobLeadsToReport
CHECK_DEADLOCK FALSE
