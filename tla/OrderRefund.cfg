SPECIFICATION FairSpec
CONSTANTS
    Workers = {w1, w2}
    Operators = {o1}
    NoWorker = NoWorker
    MaxAttempts = 2
    MaxRequeues = 1
    Standings = {"LOST"}
INVARIANTS
    RefundInv
    BookedAsReturned
PROPERTIES
    ReturnedMoneyIsBooked
