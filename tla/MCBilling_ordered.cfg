SPECIFICATION Spec
CONSTANTS
    Session = {s1, s2}
    Worker = {w1}
    None = None
    Ordered = TRUE
    AdminActs = FALSE
    MaxEvent = 7
    MaxFailure = 2
PROPERTIES
    EndEventuallyBlocks
INVARIANTS
    TypeOK
    PaidFeeIsRecorded
    RowFollowsStripe
    LapseBlocksUsers
    AccessRecordsAgree
CHECK_DEADLOCK FALSE
