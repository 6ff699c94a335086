--------------------------- MODULE MessageDelivery ---------------------------
(***************************************************************************)
(* What the outbound email queue promises of every message, whatever       *)
(* cycles, leases and crashes lie between: somebody commits to it; it is   *)
(* claimed at most MaxAttempts times, one claim after the other; a request *)
(* only goes out under a claim it had; it ends as delivered on the word of *)
(* its last claim, or is given up, and is then never claimed again.        *)
(***************************************************************************)
EXTENDS Naturals

CONSTANTS
    Messages,
    MaxAttempts

VARIABLE message  \* [Messages -> [state, claims, sent, accepted]]

None == [state |-> "NONE", claims |-> 0, sent |-> {}, accepted |-> {}]

Init == message = [m \in Messages |-> None]

Commit(old, new) == old.state = "NONE" /\ new = [old EXCEPT !.state = "WAITING"]

Claim(old, new) ==
    /\ old.state = "WAITING" /\ old.claims < MaxAttempts
    /\ new = [old EXCEPT !.state = "CLAIMED", !.claims = @ + 1]

\* A request under the last claim or, from a late worker, under one before; the
\* provider takes it or not.
Send(old, new) == \E c \in 1..old.claims, taken \in BOOLEAN :
    new = [old EXCEPT !.sent = @ \cup {c},
                      !.accepted = IF taken THEN @ \cup {c} ELSE @]

GiveBack(old, new) ==
    /\ old.state = "CLAIMED" /\ old.claims < MaxAttempts
    /\ new = [old EXCEPT !.state = "WAITING"]

GiveUp(old, new) == old.state = "CLAIMED" /\ new = [old EXCEPT !.state = "FAILED"]

Deliver(old, new) ==
    /\ old.state = "CLAIMED" /\ old.claims \in old.accepted
    /\ new = [old EXCEPT !.state = "DELIVERED"]

Step(old, new) ==
    \/ Commit(old, new) \/ Claim(old, new) \/ Send(old, new)
    \/ GiveBack(old, new) \/ GiveUp(old, new) \/ Deliver(old, new)

\* A batch is claimed in one step.
Next ==
    /\ message' = [m \in Messages |-> message'[m]]
    /\ \A m \in Messages : message'[m] = message[m] \/ Step(message[m], message'[m])

vars == <<message>>

Spec == Init /\ [][Next]_vars
==============================================================================
