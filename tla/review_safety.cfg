SPECIFICATION FairSpec
CONSTANTS
    Job = {j1, j2}
    Reviewer = {admin, r1}
    Editor = {admin}
    MaxVersion = 3
INVARIANTS
    PublishedAsReviewed
    DecidedOnce
    EditsBuildOnEachOther
PROPERTY GateIsNoticed
