\* Calls of process() stalled past their lease, an operator retrying a failed refund.
\* Requests may all have been served, so the system may stop.
SPECIFICATION Spec
CONSTANTS
    Creators = {c1}
    NoCreator = NoCreator
    Workers = {w1, w2}
    NoLease = NoLease
    MaxObjects = 3
    MaxSlots = 1
    MaxRefundRetries = 2
    ChargeHolds = {}
    LeaseMargin = FALSE
CHECK_DEADLOCK FALSE
SYMMETRY Symmetry
INVARIANTS RefundedOnce
