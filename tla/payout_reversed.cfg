\* One intent, one transfer and their events.  The system may stop.
SPECIFICATION Spec
CONSTANTS
    MaxObjects = 1
    Calls = {w1}
    Deliveries = {h1}
CHECK_DEADLOCK FALSE
INVARIANT ReversedIsHeld
