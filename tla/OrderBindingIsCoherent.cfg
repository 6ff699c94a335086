\* The terms that are consented to and the terms that set the amounts, read apart.
CONSTANTS
    Buyers = {b1}
    Horizon = 1
    Spans = {1}
    Lag = 0
    MaxOffers = 1
    MaxVersions = 2
    MaxCycles = 1
    MaxAcceptances = 1
SPECIFICATION Spec
INVARIANT
    BindingIsCoherent
CHECK_DEADLOCK FALSE
