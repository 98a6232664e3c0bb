\* Two requests at a time about one artifact and one platform, six requests.
CONSTANTS
    Artifact = {a}
    Platform = {youtube}
    Session = {s1, s2}
    MaxRequests = 6
SPECIFICATION Spec
SYMMETRY Symmetry
INVARIANTS PassesAreEarned WithdrawalHolds FoldIsFaithful
\* The bounds end every behaviour.
CHECK_DEADLOCK FALSE
