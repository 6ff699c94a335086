SPECIFICATION PaymentFairSpec
CONSTANTS
    Handlers = {h1, h2}
    r1 = r1
    r2 = r2
    Refs = {r1, r2}
    NoRef = NoRef
    Events <- Contradicting
INVARIANTS
    OrderInv
    AcknowledgedIsRecorded
PROPERTIES
    SaleIsFinal
    PaidStaysPaid
    OutcomeIsDecided
CHECK_DEADLOCK FALSE
