\* Two requests at a time over three packages, two auditors, five requests.
CONSTANTS
    Auditor = {fact, brand}
    FactAuditor = fact
    Script = {x, y}
    Session = {s1, s2}
    MaxPackages = 3
    MaxRequests = 5
SPECIFICATION Spec
SYMMETRY Symmetry
INVARIANTS PassIsUnanimous RowFollowsAudits RevisedOnce
\* The bounds end every behaviour.
CHECK_DEADLOCK FALSE
