SPECIFICATION Spec
CONSTANTS
    UMax = 3
    Limits = {0, 2}
    MaxHops = 2
    MaxChunk = 2
INVARIANTS TypeOK OverflowIsFinal
PROPERTIES HonestIsAccepted ImplementsFetch
