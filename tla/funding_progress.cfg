\* One creator, two concurrent calls of process() inside their leases: each operation moves its
\* money once, and what accepted work is owed is decided.
\* Requests may all have been served, so the system may stop.
SPECIFICATION FairSpec
CONSTANTS
    Creators = {c1}
    NoCreator = NoCreator
    Workers = {w1, w2}
    NoLease = NoLease
    MaxObjects = 2
    MaxSlots = 1
    MaxRefundRetries = 1
    ChargeHolds = {"disputed", "refunded"}
    LeaseMargin = TRUE
CHECK_DEADLOCK FALSE
INVARIANT MovedOnce
PROPERTY AcceptedWorkDecided
