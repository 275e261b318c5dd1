SPECIFICATION FairSpec
CONSTANTS
    Files = {f1, f2}
    Buffers <- MCBuffers
    Members <- MCMembers
    Absent = Absent
INVARIANTS VisitsInOrder EndIsTheEnd
PROPERTIES RightMessage ExtractionReturns
CONSTRAINT FewAtOnce
