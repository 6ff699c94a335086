------------------------ MODULE MCPublicationPipeline ------------------------
(***************************************************************************)
(* PublicationPipeline on small instances.                                 *)
(***************************************************************************)
EXTENDS PublicationPipeline, TLC

\* Workers and operators are interchangeable.
ProcessSymmetry == Permutations(Workers) \cup Permutations(Operators)
==============================================================================
