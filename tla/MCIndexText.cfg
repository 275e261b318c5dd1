SPECIFICATION TextSpec
CONSTANTS
    UMax = 127
    RecordMax = 15
    IntMax = 7
    ExactMax = 32
    Occurs <- MCOccurs
    Unset = Unset
    NomadsLines <- MCNomadsLines
    EcmwfLines <- MCEcmwfLines
    MaxLines = 3
INVARIANTS TypeOK RangesTile RangesAreStated
PROPERTIES CutIndexAgrees
