------------------------ MODULE MCParticipantStanding ------------------------
(***************************************************************************)
(* Instances of ParticipantStanding: two acts at a time, two scopes.          *)
(***************************************************************************)
EXTENDS ParticipantStanding, TLC

\* Requests are alike, and so are scopes; no property names one.
StandingSymmetry == Permutations(Requests) \cup Permutations(Scopes)
===============================================================================
