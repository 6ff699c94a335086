------------------------------- MODULE TaxLedger -------------------------------
(***************************************************************************)
(* What a tax authority is told of one sale, whatever queues, retries and      *)
(* processes tell it: a sale that was made, once; that it came back, once,      *)
(* after it was told of the sale and after the buyer's money was returned.     *)
(***************************************************************************)
VARIABLES
    made,      \* the sale is booked
    returned,  \* the sale's refund was finalised
    told       \* what the authority holds of the sale

vars == <<made, returned, told>>

Init == made = FALSE /\ returned = FALSE /\ told = "NOTHING"

Make == ~ made /\ made' = TRUE /\ UNCHANGED <<returned, told>>

Return == made /\ ~ returned /\ returned' = TRUE /\ UNCHANGED <<made, told>>

Report == made /\ told = "NOTHING" /\ told' = "SALE" /\ UNCHANGED <<made, returned>>

Reverse == returned /\ told = "SALE" /\ told' = "SALE_AND_RETURN" /\ UNCHANGED <<made, returned>>

Next == Make \/ Return \/ Report \/ Reverse

Spec == Init /\ [][Next]_vars
================================================================================
