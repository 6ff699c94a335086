\* One checkout beside up to two offers of three versions between them and two cycles,
\* over three instants; the instant of an act may lag by one.
CONSTANTS
    Buyers = {b1}
    Horizon = 2
    Spans = {1}
    Lag = 1
    MaxOffers = 2
    MaxVersions = 3
    MaxCycles = 2
    MaxAcceptances = 2
SPECIFICATION Spec
INVARIANTS
    PromotedSaleInv
    PromotionRestsOnStanding
    SaleRestsOnConsent
PROPERTY
    UndisturbedSaleIsCovered
CHECK_DEADLOCK FALSE
