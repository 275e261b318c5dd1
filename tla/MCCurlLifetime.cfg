SPECIFICATION Spec
CONSTANTS
    Clients = {c1, c2, c3}
    MaxNew = 4
INVARIANTS TypeOK HandlesNeedLibcurl NothingLeft
SYMMETRY Symmetry
