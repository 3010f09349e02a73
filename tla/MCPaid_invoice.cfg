SPECIFICATION FairSpec
CONSTANTS
    Personal = {p1}
    Corporate = {c1}
    OfSubscription = {c1}
    Request = {w1, w2}
    None = None
    MaxFailure = 2
INVARIANTS
    MailedOnce
    MarkMeansMailed
PROPERTIES
    PaymentIsServed
CHECK_DEADLOCK FALSE
