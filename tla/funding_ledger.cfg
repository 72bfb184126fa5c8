\* Two creators on up to two slots: the ledger against the deposit.
\* Requests may all have been served, so the system may stop.
SPECIFICATION Spec
CONSTANTS
    Creators = {c1, c2}
    NoCreator = NoCreator
    Workers = {w1}
    NoLease = NoLease
    MaxObjects = 2
    MaxSlots = 2
    MaxRefundRetries = 0
    ChargeHolds = {}
    LeaseMargin = TRUE
CHECK_DEADLOCK FALSE
SYMMETRY Symmetry
INVARIANTS LedgerSolvent ActiveIsFunded DepositMatchesTerms NothingStranded
PROPERTIES ImplementsEscrow
