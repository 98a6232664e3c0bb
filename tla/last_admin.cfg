SPECIFICATION TeamSpec
CONSTANTS
    Person = {p1, p2}
    Client = {s1, s2}
    MaxFailed = 2
INVARIANT AdminRemains
\* Every person may have left.
CHECK_DEADLOCK FALSE
