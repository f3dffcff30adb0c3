SPECIFICATION Spec
CONSTANTS
    A = A
    B = B
    k1 = k1
    e1 = e1
    e2 = e2
    None = None
    Accounts = {A, B}
    Keys = {k1}
    EventIds = {e1}
    Requests = {r1, r2, r3}
    Deliveries = {w1}
    Jobs = {job}
    MaxNumeric = 3
    MaxCrashes = 0
    Ageing = {"payments", "keys"}
    Unreliable = {r1, r2, r3}
    Opening <- OneUnit
    TypeLabels <- CreatedLabels
    Bodies <- RaceBodies
    Notices <- RefundNotices
SYMMETRY SessionSymmetry
CONSTRAINT ErrorWithoutNotice
INVARIANTS TypeOK WebhookObjectIsFresh LocksAreReleased
    OneChargePerKey RetryGetsOriginal
PROPERTIES DriftOnlyFromStaleObject ImplementsIdempotency
