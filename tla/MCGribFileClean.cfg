SPECIFICATION Spec
CONSTANTS
    Files = {f1}
    Buffers <- MCBuffers
    Members <- MCMembers
    Absent = Absent
INVARIANTS EndIsClean
