SPECIFICATION FairSpec
CONSTANTS
    A = A
    B = B
    k1 = k1
    e1 = e1
    e2 = e2
    None = None
    Accounts = {A, B}
    Keys = {k1}
    EventIds = {e1}
    Requests = {r1}
    Deliveries = {w1}
    Jobs = {job}
    MaxNumeric = 3
    MaxCrashes = 0
    Ageing = {"payments"}
    Unreliable = {}
    Opening <- OneUnit
    TypeLabels <- MigratedLabels
    Bodies <- OnePayment
    Notices <- LiveNotices
PROPERTY ConfirmedPaymentsAreReleased
