\* Requests around one account, and around the link of a Merchant brand.
\* Bounds are used up, so the system may stop.
SPECIFICATION AccessSpec
CONSTANTS
    Calls = {c1, c2}
    MaxTokens = 3
    MaxPasswords = 2
    MaxLinks = 1
    Brands = {b1, b2}
    Workspaces = {w1}
    Intents = {i1, i2, i3}
    Logins = {r1}
    NoBrand = NoBrand
    NoWorkspace = NoWorkspace
    NoRow = NoRow
    MaxBrandLinks = 3
    MaxSessions = 2
    Tabs = {t1, t2}
    Requests = {q1, q2}
CHECK_DEADLOCK FALSE
SYMMETRY Symmetry
INVARIANTS AccessTypeOK RotatedOnce ApprovedIsActive StaysDisconnected SessionHasLink ProofUsedOnce
