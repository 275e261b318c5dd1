SPECIFICATION Spec
CONSTANTS
    Slots = {s1, s2, s3}
    MaxNew = 5
INVARIANTS PointersValid OneOwner SearchDiesFirst
PROPERTIES OnlyLiveTouched
SYMMETRY Symmetry
