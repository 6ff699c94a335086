SPECIFICATION Spec
CONSTANTS
    Requests = {r1, r2}
    Scopes = {payout, publish}
    NoScope = NoScope
SYMMETRY StandingSymmetry
INVARIANTS
    StandingInv
    UnracedStatusTellsTheRows
PROPERTIES
    ReviewIsDecidedOnce
CHECK_DEADLOCK FALSE
