\* Races of two calls on one line, one call on two lines with combined balances and panel
\* decisions, two runs of one statement over two lines (see MC_CommissionSettlement).
\* The system may stop: nothing obliges anybody to start another call.
SPECIFICATION Instances
CONSTANTS
    Lines = {l1, l2}
    First = l1
    Other = l2
    Requests = {r1, r2}
    Accounts = {a1, a2}
    NoLine = NoLine
    NoAccount = NoAccount
    Batches = {b1}
    Calls = {w1, w2}
    NoBatch = NoBatch
    NoRequest = NoRequest
    MaxRevision = 2
    Cents = {1}
    Minimum <- Minimums
    Limit = 2
    Combined = TRUE
    Selections = {{}, {l1}}
    PanelActions = {"qualify", "disqualify", "reconcile"}
    Failures = TRUE
CHECK_DEADLOCK FALSE
SYMMETRY Symmetry
INVARIANTS TypeOK DecidedIsRecorded ConfirmedWasDecided RequestsNotShared ProofCoversItsLine
PROPERTY ImplementsBooks
