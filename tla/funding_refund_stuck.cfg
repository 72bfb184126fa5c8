\* A refund that failed before its provider_id was recorded.
\* Requests may all have been served, so the system may stop.
SPECIFICATION Spec
CONSTANTS
    Creators = {c1}
    NoCreator = NoCreator
    Workers = {w1}
    NoLease = NoLease
    MaxObjects = 2
    MaxSlots = 1
    MaxRefundRetries = 1
    ChargeHolds = {}
    LeaseMargin = TRUE
CHECK_DEADLOCK FALSE
INVARIANTS FailedRefundRetryable
