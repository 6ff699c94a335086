SPECIFICATION Spec
CONSTANTS
    Pubs = {p1}
    Workers = {w1, w2}
    Operators = {o1, o2}
    NoPub = NoPub
    LeaseDuration = 1
    RetryDelay = 1
    SweepLimit = 1
    MaxClaims = 2
    MaxTime = 2
SYMMETRY ProcessSymmetry
INVARIANTS
    PipelineInv
    AnswerableAttemptIsCurrent
    ReceiptDecidesOnCurrentVerdict
    BodyDisposedOnlyByAcceptance
PROPERTIES
    LiveLeaseIsNotStolen
    ImplementsLifecycle
CHECK_DEADLOCK FALSE
