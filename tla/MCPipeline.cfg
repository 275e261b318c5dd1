SPECIFICATION Spec
CONSTANTS
    UMax = 127
    RecordMax = 15
    IntMax = 31
    ExactMax = 64
    Occurs <- MCOccurs
    Unset = Unset
    Absent = Absent
    None = None
    Editions <- MCEditions
    Uploads <- MCUploads
    Selectors <- MCSelectors
    MaxPosts = 1
INVARIANTS RightRecord NoRecordIsTrue RangeHoldsMessage
