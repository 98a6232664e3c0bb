CONSTANTS
    Task = {t1, t2, t3}
    Est = 1
    Caps <- MCCaps
    Ceiling <- MCCeiling
SPECIFICATION Spec
SYMMETRY Symmetry
INVARIANTS
    BoundedOvershoot
    HeldOnlyWhenFull
PROPERTY OpenWithinCap
