------------------------ MODULE RegistrationLifecycle ------------------------
(***************************************************************************)
(* What the publication pipeline promises to somebody who only reads the   *)
(* publication row: the registration verdict of each publication, and      *)
(* whether its capsule body is still held.  It has no work items, leases,   *)
(* attempts, workers or receipts in flight; PublicationPipeline has those   *)
(* and implements this.                                                    *)
(***************************************************************************)
CONSTANT Pubs

VARIABLES
    verdict,    \* [Pubs -> Verdicts]
    bodyHeld    \* [Pubs -> BOOLEAN], the capsule body is still retained

vars == <<verdict, bodyHeld>>

Verdicts == {"ABSENT", "OPEN", "MISMATCH", "REJECTED", "RETRY_AUTHORIZED",
             "CLOSED", "RESOLVED"}

Init == /\ verdict  = [p \in Pubs |-> "ABSENT"]
        /\ bodyHeld = [p \in Pubs |-> FALSE]

\* A publication is prepared once, with its capsule body.
Prepare(p) == /\ verdict[p] = "ABSENT"
              /\ verdict'  = [verdict EXCEPT ![p] = "OPEN"]
              /\ bodyHeld' = [bodyHeld EXCEPT ![p] = TRUE]

\* A receipt about something else: evidence that a person must look at.  It
\* never replaces a recorded refusal.
Mismatch(p) == /\ verdict[p] \in {"OPEN", "MISMATCH", "RETRY_AUTHORIZED"}
               /\ verdict' = [verdict EXCEPT ![p] = "MISMATCH"]
               /\ UNCHANGED bodyHeld

\* The Registrar's definitive refusal of this publication.
Reject(p) == /\ verdict[p] \in {"OPEN", "MISMATCH", "RETRY_AUTHORIZED"}
             /\ verdict' = [verdict EXCEPT ![p] = "REJECTED"]
             /\ UNCHANGED bodyHeld

\* A matching acceptance settles the publication and disposes of the body.  It
\* never overturns adverse evidence that nobody has decided about.
Accept(p) == /\ verdict[p] \in {"OPEN", "RETRY_AUTHORIZED"}
             /\ verdict'  = [verdict EXCEPT ![p] = "RESOLVED"]
             /\ bodyHeld' = [bodyHeld EXCEPT ![p] = FALSE]

\* The governed decision: only on adverse evidence, and only once per evidence.
Decide(p) == /\ verdict[p] \in {"MISMATCH", "REJECTED"}
             /\ \E d \in {"RETRY_AUTHORIZED", "CLOSED"} :
                   verdict' = [verdict EXCEPT ![p] = d]
             /\ UNCHANGED bodyHeld

Next == \E p \in Pubs :
          Prepare(p) \/ Mismatch(p) \/ Reject(p) \/ Accept(p) \/ Decide(p)

Spec == Init /\ [][Next]_vars
==============================================================================
