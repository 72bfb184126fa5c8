\* What merchant-links.service.ts says of disconnecting: no earlier grant reconnects either side.
\* One brand and two intents approved for it: one is completed, the link is disconnected,
\* and the completion of the other was under way before that.
SPECIFICATION Spec
CONSTANTS
    Calls = {c1, c2}
    Brands = {b1}
    Workspaces = {w1}
    Intents = {i1, i2}
    Logins = {}
    NoBrand = NoBrand
    NoWorkspace = NoWorkspace
    NoRow = NoRow
    MaxLinks = 2
    MaxSessions = 0
CHECK_DEADLOCK FALSE
INVARIANTS NotResurrected
