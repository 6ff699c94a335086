----------------------------- MODULE OrderRefund -----------------------------
(***************************************************************************)
(* The refund of one paid sale.  A buyer or an operator commits a refund     *)
(* row; worker cycles recover claims whose lease is over, claim the row,      *)
(* verify it against the sale's evidence, ask the payment provider for the    *)
(* money and record what came of it, a success together with the sale's       *)
(* reversal entry and the obligation to reverse its tax.  Meanwhile the sale  *)
(* may be disputed, charged back, and reported to the tax provider.           *)
(*                                                                         *)
(* One order is one refund row, one charge and one settlement, so the module *)
(* has one of each.  A lease and a backoff are modelled by whether they are   *)
(* over.  A claim's lock token is fresh in the code; here it is the worker's  *)
(* name, since a worker gives up an old claim before it takes another.        *)
(***************************************************************************)
EXTENDS Naturals, FiniteSets

CONSTANTS
    Workers,      \* refund cycles that may run at the same time
    Operators,    \* requests of buyers and operators that may run at the same time
    NoWorker,     \* no claim
    MaxAttempts,  \* REFUND_RETRY_POLICY.maxAttempts
    MaxRequeues,  \* bound: how often operators requeue the row
    Standings     \* bound: what dispute events say of the dispute

ASSUME NoWorkerAssumption == NoWorker \notin Workers
ASSUME AttemptsAssumption == MaxAttempts \in Nat \ {0}
ASSUME RequeuesAssumption == MaxRequeues \in Nat
ASSUME StandingsAssumption == Standings \subseteq {"OPEN", "WON", "LOST"}

VARIABLES
    refund,    \* the OrderRefund row
    sale,      \* its settlement and reversal entry, its tax report and tax reversal
    dispute,   \* the standing of the dispute on the sale, if there is one
    charge,    \* the provider's charge: TAKEN or RETURNED by our refund
    worker,    \* the cycles in memory
    operator   \* the requests that have read and not yet written

vars == <<refund, sale, dispute, charge, worker, operator>>

------------------------------------------------------------------------------
\* Vocabulary

Statuses  == {"ABSENT", "PENDING", "IN_PROGRESS", "RETRY_PENDING", "REFUNDED",
              "FAILED_PERMANENT"}
Claimable == {"PENDING", "RETRY_PENDING"}

\* Failures by what they mean for the row: worth another attempt; permanent with a
\* cause an operator can remove (a credential in the wrong mode); permanent in the
\* record or at the provider.
Transient == "TRANSIENT"
Fixable   == "FIXABLE"
Permanent == "PERMANENT"
Failures  == {Transient, Fixable, Permanent}
Outcomes  == Failures \cup {"EXECUTED"}

RefundRows == [status : Statuses, token : Workers \cup {NoWorker},
               over : BOOLEAN, due : BOOLEAN, attempts : Nat,
               failure : Failures \cup {"NONE"}, requeues : Nat]
NoRefund   == [status |-> "ABSENT", token |-> NoWorker, over |-> FALSE,
               due |-> FALSE, attempts |-> 0, failure |-> "NONE", requeues |-> 0]

\* What reversed the sale, if anything; whether its tax was reported, and whether
\* a tax reversal was committed.
SaleRows == [reversal : {"NONE", "REFUND", "CHARGEBACK"},
             taxRecorded : BOOLEAN, taxReversal : BOOLEAN]

DisputeStandings == {"NONE", "OPEN", "WON", "LOST"}

\* A worker: its step, the attempt count it read, the outcome it is to record.
WorkerSteps == {"IDLE", "SELECT", "CLAIM", "VERIFY", "CALL", "RESOLVE", "WRITE"}
WorkerRows  == [step : WorkerSteps, count : Nat, outcome : Outcomes]
Idle        == [step |-> "IDLE", count |-> 0, outcome |-> Transient]

OperatorRows == [step : {"IDLE", "CREATE", "REQUEUE"}, requeues : Nat]
AtRest       == [step |-> "IDLE", requeues |-> 0]

Init ==
    /\ refund = NoRefund
    /\ sale = [reversal |-> "NONE", taxRecorded |-> FALSE, taxReversal |-> FALSE]
    /\ dispute = "NONE"
    /\ charge = "TAKEN"
    /\ worker = [w \in Workers |-> Idle]
    /\ operator = [o \in Operators |-> AtRest]

------------------------------------------------------------------------------
\* Eligibility

Exists == refund.status # "ABSENT"

\* Why a refund is refused, as far as it can change after the sale.  The seller's
\* policy row may be unreadable at the moment.  Once the refund row exists neither
\* the reversal nor the dispute is named any more.
Refusals(unreadable) ==
         {r \in {"REFUND_ALREADY_EXISTS"} : Exists}
    \cup {r \in {"SALE_ALREADY_REVERSED", "CONFLICTING_REFUND_STATE"} :
            sale.reversal # "NONE" /\ ~ Exists}
    \cup {r \in {"SALE_DISPUTE_OPEN"} : dispute = "OPEN" /\ ~ Exists}
    \cup {r \in {"SALE_DISPUTE_LOST"} : dispute = "LOST" /\ ~ Exists}
    \cup {r \in {"SELLER_REFUND_POLICY_UNREADABLE"} : unreadable}

\* What stops an execution: the row under way is itself the refund that exists.
Disqualifying(unreadable) ==
    Refusals(unreadable) \ {"REFUND_ALREADY_EXISTS", "CONFLICTING_REFUND_STATE"}

------------------------------------------------------------------------------
\* Requests and requeues: read, then write

RequestCheck(o) ==
    /\ operator[o].step = "IDLE"
    /\ \E unreadable \in BOOLEAN : Refusals(unreadable) = {}
    /\ operator' = [operator EXCEPT ![o].step = "CREATE"]
    /\ UNCHANGED <<refund, sale, dispute, charge, worker>>

\* The unique index on the order refuses a second row.
Create(o) ==
    /\ operator[o].step = "CREATE"
    /\ operator' = [operator EXCEPT ![o] = AtRest]
    /\ refund' = IF Exists THEN refund
                 ELSE [NoRefund EXCEPT !.status = "PENDING", !.due = TRUE]
    /\ UNCHANGED <<sale, dispute, charge, worker>>

RequeueCheck(o) ==
    /\ operator[o].step = "IDLE"
    /\ refund.status = "FAILED_PERMANENT"
    /\ refund.failure \in {Transient, Fixable}
    /\ refund.requeues < MaxRequeues
    /\ operator' = [operator EXCEPT ![o] = [step     |-> "REQUEUE",
                                            requeues |-> refund.requeues]]
    /\ UNCHANGED <<refund, sale, dispute, charge, worker>>

\* Variant: the attempts are kept.
RequeuedAsIs(row, requeues) ==
    [row EXCEPT !.status = "RETRY_PENDING", !.due = TRUE,
                !.requeues = requeues + 1]

\* Written by identity alone: whatever the row has become, its claim is kept and
\* its status is not.
Requeued(row, requeues) ==
    [row EXCEPT !.status = "RETRY_PENDING", !.due = TRUE, !.attempts = 0,
                !.requeues = requeues + 1]

Requeue(o) ==
    /\ operator[o].step = "REQUEUE"
    /\ refund' = Requeued(refund, operator[o].requeues)
    /\ operator' = [operator EXCEPT ![o] = AtRest]
    /\ UNCHANGED <<sale, dispute, charge, worker>>

\* A request dies between its read and its write.
DropRequest(o) ==
    /\ operator[o].step # "IDLE"
    /\ operator' = [operator EXCEPT ![o] = AtRest]
    /\ UNCHANGED <<refund, sale, dispute, charge, worker>>

------------------------------------------------------------------------------
\* A refund cycle

\* Variant: of rows waiting for a retry, which have no lease.
RecoveredRetries(row) ==
    IF row.status = "RETRY_PENDING" /\ row.over
      THEN [row EXCEPT !.token = NoWorker, !.over = FALSE, !.due = TRUE]
      ELSE row

\* One update returns the row of a claim whose lease is over; no attempt counts.
Recovered(row) ==
    IF row.status = "IN_PROGRESS" /\ row.over
      THEN [row EXCEPT !.status = "RETRY_PENDING", !.token = NoWorker,
                       !.over = FALSE, !.due = TRUE]
      ELSE row

Recover(w) ==
    /\ worker[w].step = "IDLE"
    /\ refund' = Recovered(refund)
    /\ worker' = [worker EXCEPT ![w].step = "SELECT"]
    /\ UNCHANGED <<sale, dispute, charge, operator>>

Eligible == /\ refund.status \in Claimable
            /\ refund.due
            /\ refund.token = NoWorker

Select(w) ==
    /\ worker[w].step = "SELECT"
    /\ worker' = [worker EXCEPT ![w].step = IF Eligible THEN "CLAIM" ELSE "IDLE"]
    /\ UNCHANGED <<refund, sale, dispute, charge, operator>>

Claimed(w) == [refund EXCEPT !.status = "IN_PROGRESS", !.token = w,
                             !.due = FALSE, !.over = FALSE]

\* The guarded update, and the row read back by its token.  A row lost before it is
\* read back ends the cycle, as any failure does.
Claim(w) ==
    /\ worker[w].step = "CLAIM"
    /\ refund' = IF Eligible THEN Claimed(w) ELSE refund
    /\ worker' = [worker EXCEPT ![w].step = IF Eligible THEN "VERIFY" ELSE "IDLE"]
    /\ UNCHANGED <<sale, dispute, charge, operator>>

Verify(w) ==
    /\ worker[w].step = "VERIFY"
    /\ \E unreadable \in BOOLEAN :
         worker' = [worker EXCEPT ![w] =
            IF Disqualifying(unreadable) = {}
              THEN [@ EXCEPT !.step = "CALL"]
              ELSE [@ EXCEPT !.step = "RESOLVE", !.outcome = Permanent]]
    /\ UNCHANGED <<refund, sale, dispute, charge, operator>>

\* The provider's answers.  The idempotency key is the same for every attempt, so
\* the charge is returned once whatever is asked; the answer to a call that
\* returned it may be lost, and a key may be forgotten (ALREADY_REFUNDED).
CallProvider(w) ==
    /\ worker[w].step = "CALL"
    /\ \E outcome \in Outcomes, after \in {"TAKEN", "RETURNED"} :
         /\ charge = "RETURNED" => after = "RETURNED"
         /\ outcome = "EXECUTED" => after = "RETURNED"
         /\ outcome \in {Fixable, Permanent} => after = charge
         /\ charge' = after
         /\ worker' = [worker EXCEPT ![w] = [@ EXCEPT !.step = "RESOLVE",
                                                      !.outcome = outcome]]
    /\ UNCHANGED <<refund, sale, dispute, operator>>

Holds(w) == refund.token = w

\* The row is read; a worker that no longer holds it records nothing.
Resolve(w) ==
    /\ worker[w].step = "RESOLVE"
    /\ worker' = [worker EXCEPT ![w] =
                    IF Holds(w)
                      THEN [@ EXCEPT !.step = "WRITE", !.count = refund.attempts]
                      ELSE Idle]
    /\ UNCHANGED <<refund, sale, dispute, charge, operator>>

\* A failed attempt, written by the row's identity alone.
Failed(row, attempts, failure) ==
    [row EXCEPT
        !.status   = IF failure # Transient \/ attempts >= MaxAttempts
                       THEN "FAILED_PERMANENT" ELSE "RETRY_PENDING",
        !.attempts = attempts,
        !.failure  = failure,
        !.token    = NoWorker,
        !.over     = FALSE,
        !.due      = FALSE]

Fail(w) ==
    /\ worker[w].step = "WRITE"
    /\ worker[w].outcome # "EXECUTED"
    /\ refund' = Failed(refund, worker[w].count + 1, worker[w].outcome)
    /\ worker' = [worker EXCEPT ![w] = Idle]
    /\ UNCHANGED <<sale, dispute, charge, operator>>

\* Variant: nobody asks.
ReversibleAlways == TRUE

\* A sale is reversed once: its settlement leaves for REVERSED once, and the
\* reversal entry's snapshot is unique.
Reversible == sale.reversal = "NONE"

\* One transaction: the reversal entry, the settlement, the row, the tax reversal
\* where the sale's tax was reported.  A sale already reversed refuses it and the
\* row stays as it was.
Finalize(w) ==
    /\ worker[w].step = "WRITE"
    /\ worker[w].outcome = "EXECUTED"
    /\ worker' = [worker EXCEPT ![w] = Idle]
    /\ IF Reversible
         THEN /\ sale' = [sale EXCEPT !.reversal = "REFUND",
                                      !.taxReversal = sale.taxRecorded]
              /\ refund' = [refund EXCEPT !.status = "REFUNDED",
                                          !.attempts = worker[w].count + 1,
                                          !.token = NoWorker,
                                          !.over = FALSE, !.due = FALSE]
         ELSE UNCHANGED <<sale, refund>>
    /\ UNCHANGED <<dispute, charge, operator>>

\* A worker dies, or a round trip throws and the row is left as it is.
Drop(w) ==
    /\ worker[w].step # "IDLE"
    /\ worker' = [worker EXCEPT ![w] = Idle]
    /\ UNCHANGED <<refund, sale, dispute, charge, operator>>

------------------------------------------------------------------------------
\* What else happens to the sale

LeaseEnds ==
    /\ refund.status = "IN_PROGRESS"
    /\ ~ refund.over
    /\ refund' = [refund EXCEPT !.over = TRUE]
    /\ UNCHANGED <<sale, dispute, charge, worker, operator>>

BackoffEnds ==
    /\ refund.status \in Claimable
    /\ ~ refund.due
    /\ refund' = [refund EXCEPT !.due = TRUE]
    /\ UNCHANGED <<sale, dispute, charge, worker, operator>>

\* The tax recorder reports the sale to the tax provider; it does not ask whether
\* the sale has been refunded.
RecordTax ==
    /\ ~ sale.taxRecorded
    /\ sale' = [sale EXCEPT !.taxRecorded = TRUE]
    /\ UNCHANGED <<refund, dispute, charge, worker, operator>>

\* The transaction of a dispute event.  A loss reverses the sale when nothing else
\* has and the whole amount was taken.
DisputeMoves(standing) ==
    /\ dispute \in {"NONE", "OPEN"}
    /\ standing # dispute
    /\ dispute' = standing
    /\ \E whole \in BOOLEAN :
         sale' = IF standing = "LOST" /\ whole /\ Reversible
                   THEN [sale EXCEPT !.reversal = "CHARGEBACK"] ELSE sale
    /\ UNCHANGED <<refund, charge, worker, operator>>

Request(o) == RequestCheck(o) \/ Create(o) \/ RequeueCheck(o) \/ Requeue(o)

Cycle(w) == \/ Recover(w) \/ Select(w) \/ Claim(w) \/ Verify(w) \/ CallProvider(w)
            \/ Resolve(w) \/ Fail(w) \/ Finalize(w)

Next ==
    \/ \E o \in Operators : Request(o) \/ DropRequest(o)
    \/ \E w \in Workers : Cycle(w) \/ Drop(w)
    \/ LeaseEnds
    \/ BackoffEnds
    \/ RecordTax
    \/ \E standing \in Standings : DisputeMoves(standing)

Spec == Init /\ [][Next]_vars

\* Time passes; cycles are invoked again and again; and although workers may die, or
\* be outrun by their lease, any number of times, they do not die at the same step
\* for ever while the row is there for them to take, or is theirs.
Fairness ==
    /\ WF_vars(LeaseEnds)
    /\ WF_vars(BackoffEnds)
    /\ \A w \in Workers : WF_vars(Cycle(w))
    /\ SF_vars(\E w \in Workers : Select(w) /\ Eligible)
    /\ SF_vars(\E w \in Workers : Claim(w) /\ Eligible)
    /\ SF_vars(\E w \in Workers : Verify(w) /\ Holds(w))
    /\ SF_vars(\E w \in Workers : CallProvider(w) /\ Holds(w))
    /\ SF_vars(\E w \in Workers : Resolve(w) /\ Holds(w))
    /\ SF_vars(\E w \in Workers : (Fail(w) \/ Finalize(w)) /\ Holds(w))

FairSpec == Spec /\ Fairness

------------------------------------------------------------------------------
\* Properties

\* Types, and what rows and the writes still under way agree on: a claim is kept
\* only by a row in progress or one requeued under it; a row still to be tried has
\* an attempt left, as has the worker that read it; an answer "executed" is only
\* believed of a charge the provider returned; the tax is only reversed with the
\* sale.
TypeOK ==
    /\ refund \in RefundRows
    /\ sale \in SaleRows
    /\ dispute \in DisputeStandings
    /\ charge \in {"TAKEN", "RETURNED"}
    /\ worker \in [Workers -> WorkerRows]
    /\ operator \in [Operators -> OperatorRows]

RowOK ==
    /\ ~ Exists => refund = NoRefund
    /\ refund.token # NoWorker => refund.status \in {"IN_PROGRESS", "RETRY_PENDING"}
    /\ refund.status = "IN_PROGRESS" => refund.token # NoWorker
    /\ refund.status \in Claimable \cup {"IN_PROGRESS"} => refund.attempts < MaxAttempts
    /\ refund.attempts <= MaxAttempts
    /\ refund.status = "REFUNDED" => sale.reversal = "REFUND"

SaleOK ==
    /\ sale.reversal = "REFUND" => charge = "RETURNED"
    /\ sale.taxReversal => sale.reversal = "REFUND" /\ sale.taxRecorded
    /\ charge = "RETURNED" => Exists

ProcessOK ==
    /\ \A w \in Workers :
         /\ worker[w].step \in {"VERIFY", "CALL", "RESOLVE", "WRITE"} => Exists
         /\ worker[w].step = "WRITE" => worker[w].count < MaxAttempts
         /\ worker[w].step \in {"RESOLVE", "WRITE"} /\ worker[w].outcome = "EXECUTED"
              => charge = "RETURNED"
    /\ \A o \in Operators : operator[o].step = "REQUEUE" => Exists

RefundInv == TypeOK /\ RowOK /\ SaleOK /\ ProcessOK

\* The books follow the money, whoever answers late: a row says REFUNDED only with
\* the reversal entry of a refund, and there is such an entry only when the provider
\* returned the charge; a tax reversal only beside both.
BookedAsReturned ==
    /\ refund.status = "REFUNDED" => sale.reversal = "REFUND"
    /\ sale.reversal = "REFUND" => charge = "RETURNED"
    /\ sale.taxReversal => sale.reversal = "REFUND" /\ sale.taxRecorded

\* No interleaving of late workers, recoveries and requeues brings the row beyond
\* the attempts its record may hold (a row beyond them can no longer be read).
AttemptsWithinContract == refund.attempts <= MaxAttempts

\* Refund workers and dispute events race for the one reversal entry of the sale:
\* whoever writes it first, it stays.
ReversalIsFinal ==
    [][sale.reversal # "NONE" => sale'.reversal = sale.reversal]_vars

\* A row that may be claimed and still carries a claim: no worker can take it and
\* no recovery looks at it.  Only a requeue that overtook another writer does this.
Stranded == refund.status \in Claimable /\ refund.token # NoWorker

\* Money the provider returned does not stay out of the books: the sale is reversed,
\* or the row has failed for good and calls for an operator, unless two operators
\* or a late worker stranded the row.
ReturnedMoneyIsBooked ==
    [](charge = "RETURNED" =>
         <>(\/ sale.reversal # "NONE"
            \/ refund.status = "FAILED_PERMANENT"
            \/ []Stranded))

==============================================================================
