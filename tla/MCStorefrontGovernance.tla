------------------------ MODULE MCStorefrontGovernance ------------------------
(***************************************************************************)
(* StorefrontGovernance on a small instance.                                  *)
(***************************************************************************)
EXTENDS StorefrontGovernance, TLC

\* Requests are interchangeable.
Symmetry == Permutations(Requests)
==============================================================================
