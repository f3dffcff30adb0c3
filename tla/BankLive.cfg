SPECIFICATION FairSpec
CONSTANTS
    A = A
    B = B
    k1 = k1
    e1 = e1
    e2 = e2
    None = None
    Accounts = {A, B}
    Keys = {k1}
    EventIds = {e1}
    Requests = {r1, r2}
    Deliveries = {w1}
    Jobs = {job}
    MaxNumeric = 3
    MaxCrashes = 1
    Ageing = {"payments"}
    Unreliable = {w1}
    Opening <- OneUnit
    TypeLabels <- CreatedLabels
    Bodies <- LiveBodies
    Notices <- LiveNotices
INVARIANTS JobNeverDeadlocks
PROPERTIES RequestsAreAnswered EventsAreResolved PendingPaymentsSettle
