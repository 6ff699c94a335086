--------------------------- MODULE MCOutboundEmail ---------------------------
(***************************************************************************)
(* OutboundEmail on a small instance.                                      *)
(***************************************************************************)
EXTENDS OutboundEmail

\* One delay before every further attempt.
OneStep == [n \in 1..MaxAttempts |-> 1]
==============================================================================
