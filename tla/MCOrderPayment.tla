--------------------------- MODULE MCOrderPayment ---------------------------
(* OrderPayment with a provider that contradicts itself: two successful        *)
(* payments, a failure and an expiry of one order; or one that does not.        *)
EXTENDS OrderPayment

CONSTANTS r1, r2

Success(r) == [kind |-> "SUCCEEDED", ref |-> r]
Failure    == [kind |-> "FAILED", ref |-> NoRef]
Expiry     == [kind |-> "ABANDONED", ref |-> NoRef]

Contradicting == {Success(r1), Success(r2), Failure, Expiry}
OneSuccess    == {Success(r1)}
==============================================================================
