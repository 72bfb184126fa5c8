\* More lines under review than the listing holds: the newest are never reached.  The system may stop.
SPECIFICATION Everything
CONSTANTS
    Lines = {l1, l2}
    First = l1
    Other = l2
    Requests = {r1, r2}
    Accounts = {a1}
    NoLine = NoLine
    NoAccount = NoAccount
    Batches = {b1}
    Calls = {w1}
    NoBatch = NoBatch
    NoRequest = NoRequest
    MaxRevision = 1
    Cents = {1}
    Minimum <- NoMinimum
    Limit = 1
    Combined = FALSE
    Selections = {{}}
    PanelActions = {}
    Failures = FALSE
CHECK_DEADLOCK FALSE
PROPERTY NewestLineSettled
