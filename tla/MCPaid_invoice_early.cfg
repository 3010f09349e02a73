SPECIFICATION FairSpec
CONSTANTS
    Personal = {}
    Corporate = {c1}
    OfSubscription = {c1}
    Request = {w1}
    None = None
    MaxFailure = 0
PROPERTIES
    CompanyInvoiceIsMailed
CHECK_DEADLOCK FALSE
