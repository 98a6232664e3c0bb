CONSTANTS
    Relay = {r1, r2}
    Registry = 1
    MaxDeliveries = 2
    MaxEvents = 3
SPECIFICATION FairSpec
INVARIANTS
    HandledOnce
    NothingForgotten
    MarksAreEarned
PROPERTY EventsSettle
\* With MaxEvents emitted and settled, nothing is left to do.
CHECK_DEADLOCK FALSE
