SPECIFICATION FairSpec
CONSTANTS
    Messages = {m1}
    Workers = {w1, w2}
    NoMessage = NoMessage
    MaxAttempts = 2
    LeaseDuration = 1
    Backoff <- OneStep
    CycleLimit = 1
    DeliveryTime = 4
    Window = 1
INVARIANTS
    DeliveryInv
    DeliveredByLastClaim
PROPERTIES
    ImplementsDelivery
    LiveClaimIsNotStolen
    CommittedIsSettled
