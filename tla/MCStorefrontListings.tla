------------------------- MODULE MCStorefrontListings -------------------------
(***************************************************************************)
(* StorefrontListings on a small instance.                                    *)
(***************************************************************************)
EXTENDS StorefrontListings, TLC

\* Requests are interchangeable.
Symmetry == Permutations(Requests)
==============================================================================
