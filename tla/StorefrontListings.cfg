\* Two requests at a time on two listings of two products, of which one may be active;
\* the bound on labels leaves nothing to do in the end.
CONSTANTS
    Listings = {l1, l2}
    Products = {p1, p2}
    Requests = {q1, q2}
    Allowance = 1
    MaxVersions = 3
SYMMETRY Symmetry
SPECIFICATION Spec
INVARIANTS
    ListingInv
PROPERTIES
    PromotionFindsRoom
    ImplementsHistory
CHECK_DEADLOCK FALSE
