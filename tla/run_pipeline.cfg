CONSTANTS
    Final = 4
    Gates = {3}
    MaxAttempts = 2
    MaxDispatch = 3
    MaxClicks = 1
SPECIFICATION Spec
INVARIANTS
    OneThreadOfControl
    NothingStalls
    StagesInOrder
    AttemptsAreBounded
    FailureIsExplained
\* A run ends, and nothing follows.
CHECK_DEADLOCK FALSE
