\* Two requests at a time over two pages, two runs and two audits of each kind.
CONSTANTS
    Page = {p1, p2}
    Text = {t1, t2}
    Session = {s1, s2}
    MaxRuns = 2
    MaxAudits = 2
SPECIFICATION Spec
SYMMETRY Symmetry
INVARIANTS EligibilityIsEarned GatesFollowAudits BlocksAreFinal CountsNeverOverstate
\* The bounds end every behaviour.
CHECK_DEADLOCK FALSE
