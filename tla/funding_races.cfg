\* One creator, two concurrent calls of process() that may outlive their lease: races,
\* crashes, lost answers, retries, and a charge disputed or refunded by somebody else.
\* Requests may all have been served, so the system may stop.
SPECIFICATION Spec
CONSTANTS
    Creators = {c1}
    NoCreator = NoCreator
    Workers = {w1, w2}
    NoLease = NoLease
    MaxObjects = 2
    MaxSlots = 1
    MaxRefundRetries = 1
    ChargeHolds = {"disputed", "refunded"}
    LeaseMargin = FALSE
CHECK_DEADLOCK FALSE
SYMMETRY Symmetry
INVARIANTS TypeOK LedgerBacked ChargedAndPaidOnce PaidOrReturned
PROPERTIES LedgerOnlyGrows NoTransferUnderHold
