\* Two requests of one tab are answered 401, the second after the refresh of the first has settled.
\* Bounds are used up, so the system may stop.
SPECIFICATION Spec
CONSTANTS
    Tabs = {t1}
    Requests = {r1, r2}
    MaxSessions = 3
    Failures = FALSE
CHECK_DEADLOCK FALSE
PROPERTY SessionKept
