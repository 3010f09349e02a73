SPECIFICATION Spec
CONSTANTS
    Company = {c1, c2}
    Person = {a1, p1}
    Admin = {a1}
    Sub = {s1, s2, s3}
    Worker = {w1}
    None = None
    Operation = {"confirmCorporation", "confirmCompany", "suspendCompany", "suspendCorporation",
                 "closeCorporation", "reinstateCompany", "reinstateCorporation", "invite",
                 "block", "unblock", "cancel", "resend",
                 "delete"}
    MaxFailure = 2
SYMMETRY Symmetry
INVARIANTS
    TypeOK
    AccountsAgree
PROPERTIES
    SuspensionBlocksMembers
    UnblockedOnlyWhenUp
