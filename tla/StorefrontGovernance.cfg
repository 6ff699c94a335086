\* Two requests at a time on up to two storefronts of one owner, who may own one, and
\* the seats of the owner and another participant.
CONSTANTS
    Shops = {s1, s2}
    Members = {owner, other}
    Owner = owner
    Requests = {q1, q2}
    Allowance = 1
    MaxVersions = 3
SYMMETRY Symmetry
SPECIFICATION Spec
INVARIANTS
    GovernanceInv
    UncrossedSeatsAgree
PROPERTY
    ImplementsHistory
