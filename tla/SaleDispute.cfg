SPECIFICATION DisputeSpec
CONSTANTS
    d1 = d1
    d2 = d2
    Disputes = {d1, d2}
    Claims = {c1}
    Deliveries = {h1, h2}
    Operators = {o1}
    Scenarios <- Courses
    MaxPolicy = 2
SYMMETRY Symmetry
INVARIANTS
    DisputeInv
    NoEventIsRefusedForEver
    UnracedBooksReconcile
PROPERTIES
    ConsequencesAreFinal
CHECK_DEADLOCK FALSE
