---------------------------- MODULE MCSaleDispute ----------------------------
(* SaleDispute on one dispute: won; lost, with a word of the provider that comes *)
(* late at the same instant; lost for a part of the amount; or first told by an  *)
(* event that cannot be accepted.  Or on two disputes of one sale, open at once. *)
EXTENDS SaleDispute, TLC

CONSTANTS d1, d2

Told(status, at, full) == [dispute |-> d1, status |-> status, at |-> at,
                           full |-> full, foreign |-> FALSE]

Opened == Told("NEEDS_RESPONSE", 1, TRUE)

Courses ==
    {{Opened, Told("WON", 2, TRUE)},
     {Opened, Told("LOST", 2, TRUE), Told("UNDER_REVIEW", 2, TRUE)},
     {Opened, Told("LOST", 2, FALSE)},
     {[Opened EXCEPT !.foreign = TRUE], Told("LOST", 2, TRUE)},
     {Opened, [Opened EXCEPT !.dispute = d2]}}

Symmetry == Permutations(Deliveries)
==============================================================================
