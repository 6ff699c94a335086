SPECIFICATION Spec
CONSTANTS
    Workers = {w1, w2}
    Operators = {o1}
    NoWorker = NoWorker
    MaxAttempts = 2
    MaxRequeues = 1
INVARIANTS
    TaxInv
PROPERTIES
    ImplementsTaxLedger
    DoneStaysDone
CHECK_DEADLOCK FALSE
