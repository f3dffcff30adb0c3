SPECIFICATION Spec
CONSTANTS
    A = A
    B = B
    k1 = k1
    e1 = e1
    e2 = e2
    None = None
    Accounts = {A, B}
    Keys = {k1}
    EventIds = {e1, e2}
    Requests = {r1}
    Deliveries = {w1, w2}
    Jobs = {j1, j2}
    MaxNumeric = 3
    MaxCrashes = 1
    Ageing = {"payments", "events"}
    Unreliable = {r1, w1, w2, j1, j2}
    Opening <- OneUnit
    TypeLabels <- CreatedLabels
    Bodies <- SettlementBodies
    Notices <- SettlementNotices
SYMMETRY SettlementSymmetry
INVARIANTS ReleasedOnce EventOutcomeIsTrue
PROPERTIES SettledOnce ImplementsSettlement
