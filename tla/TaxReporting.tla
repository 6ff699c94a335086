----------------------------- MODULE TaxReporting -----------------------------
(***************************************************************************)
(* Reporting the tax of one sale, and taking the report back after its refund: *)
(* two leased queues of one row each, the processes that work them, and the    *)
(* tax provider, which knows a transaction by its reference for good and by    *)
(* its idempotency key for a while: when it forgets, and when a calculation     *)
(* expires, is left open.                                                    *)
(*                                                                         *)
(* The row REPORT is OrderTaxTransaction, committed with the sale; the row      *)
(* REVERSE is OrderTaxReversal, committed with the refund.  A worker decides    *)
(* on a row it has read and writes it by identity alone.                      *)
(***************************************************************************)
EXTENDS Naturals, FiniteSets

CONSTANTS
    Workers,      \* tax and refund cycles that may run at the same time
    Operators,    \* requeue requests that may run at the same time
    NoWorker,     \* no claim
    MaxAttempts,  \* attempts of a row before it fails for good
    MaxRequeues   \* bound: how often a row is requeued

ASSUME NoWorkerAssumption == NoWorker \notin Workers
ASSUME AttemptsAssumption == MaxAttempts \in Nat \ {0}
ASSUME RequeuesAssumption == MaxRequeues \in Nat

VARIABLES
    sale,      \* the sale: booked, its refund, its report marked as taken back
    row,       \* the rows of the two queues
    provider,  \* references of the transactions it holds, by queue
    worker,    \* cycles in memory
    operator   \* requeue requests that have read and not yet written

vars == <<sale, row, provider, worker, operator>>

------------------------------------------------------------------------------
\* Vocabulary

Queues     == {"REPORT", "REVERSE"}
Claimable  == {"PENDING", "RETRY_PENDING"}
Statuses   == Claimable \cup {"ABSENT", "IN_PROGRESS", "DONE", "FAILED_PERMANENT"}
Transient  == {"PROVIDER_UNAVAILABLE", "PAYMENT_REFUND_NOT_COMPLETE"}
Permanent  == {"EVIDENCE_INCONSISTENT", "DUPLICATE_REFERENCE",
               "PROVIDER_MODE_NOT_PERMITTED", "ORIGINAL_TRANSACTION_NOT_FOUND"}
Failures   == Transient \cup Permanent
Requeueable == Transient \cup {"PROVIDER_MODE_NOT_PERMITTED"}

Rows == [status : Statuses, token : Workers \cup {NoWorker}, over : BOOLEAN,
         due : BOOLEAN, attempts : 0..MaxAttempts, failure : Failures \cup {"NONE"},
         requeues : 0..MaxRequeues]

\* over: its lease is over; due: its delay is over; failure: why it failed for good
\* (no other status reads it).
NoRow == [status |-> "ABSENT", token |-> NoWorker, over |-> FALSE, due |-> FALSE,
          attempts |-> 0, failure |-> "NONE", requeues |-> 0]
Fresh == [NoRow EXCEPT !.status = "PENDING", !.due = TRUE]

Sales == [booked : BOOLEAN, marked : BOOLEAN,
          refund : {"NONE", "REFUNDED", "RETRY_PENDING"}]

Idle    == [step |-> "IDLE", queue |-> "REPORT", result |-> "NONE", read |-> 0]
AtRest  == [step |-> "IDLE", queue |-> "REPORT", requeues |-> 0]

Init ==
    /\ sale = [booked |-> FALSE, marked |-> FALSE, refund |-> "NONE"]
    /\ row = [q \in Queues |-> NoRow]
    /\ provider = [q \in Queues |-> {}]
    /\ worker = [w \in Workers |-> Idle]
    /\ operator = [o \in Operators |-> AtRest]

------------------------------------------------------------------------------
\* The sale, as far as the tax goes

\* A sale without evidence of its tax owes no report: nothing is made up.
Book ==
    /\ ~ sale.booked
    /\ sale' = [sale EXCEPT !.booked = TRUE]
    /\ row' = row \/ row' = [row EXCEPT !["REPORT"] = Fresh]
    /\ UNCHANGED <<provider, worker, operator>>

\* What was never reported is not taken back.
OwesReversal == row["REPORT"].status = "DONE"

FinalizeRefund ==
    /\ sale.booked /\ sale.refund = "NONE"
    /\ sale' = [sale EXCEPT !.refund = "REFUNDED"]
    /\ row' = IF OwesReversal THEN [row EXCEPT !["REVERSE"] = Fresh] ELSE row
    /\ UNCHANGED <<provider, worker, operator>>

\* A refund worker writes its row by identity over what was final (OrderRefund).
Overwrite ==
    /\ sale.refund = "REFUNDED"
    /\ sale' = [sale EXCEPT !.refund = "RETRY_PENDING"]
    /\ UNCHANGED <<row, provider, worker, operator>>

------------------------------------------------------------------------------
\* A cycle: recovery, claim, verification, the provider call, resolution

\* No attempt is counted.
Recovered(old) == [old EXCEPT !.status = "RETRY_PENDING", !.over = FALSE, !.due = TRUE,
                              !.token = NoWorker]

Recover(q) ==
    /\ row[q].status = "IN_PROGRESS" /\ row[q].over
    /\ row' = [row EXCEPT ![q] = Recovered(row[q])]
    /\ UNCHANGED <<sale, provider, worker, operator>>

Eligible(q) == row[q].status \in Claimable /\ row[q].due /\ row[q].token = NoWorker

\* The select before it is a hint: the guarded update asserts it all again, and what it
\* has taken is read back.
Claim(w, q) ==
    /\ worker[w].step = "IDLE" /\ Eligible(q)
    /\ row' = [row EXCEPT ![q] = [@ EXCEPT !.status = "IN_PROGRESS", !.token = w,
                                           !.due = FALSE]]
    /\ worker' = [worker EXCEPT ![w] = [Idle EXCEPT !.step = "VERIFY", !.queue = q]]
    /\ UNCHANGED <<sale, provider, operator>>

\* What forbids the call, by the sale's records as they are now: an order no longer paid
\* (OrderPayment), a calculation that expired (one code stands for what no attempt
\* mends); a refund not final, a report that is not.
Refusals(q) ==
    IF q = "REPORT" THEN {"NONE", "EVIDENCE_INCONSISTENT"}
    ELSE IF sale.refund # "REFUNDED" THEN {"PAYMENT_REFUND_NOT_COMPLETE"}
    ELSE IF row["REPORT"].status # "DONE" THEN {"EVIDENCE_INCONSISTENT"} ELSE {"NONE"}

Verify(w) ==
    /\ worker[w].step = "VERIFY"
    /\ \E refusal \in Refusals(worker[w].queue) :
          worker' = [worker EXCEPT ![w] =
                        [@ EXCEPT !.step = IF refusal = "NONE" THEN "CALL" ELSE "RESOLVE",
                                  !.result = refusal]]
    /\ UNCHANGED <<sale, row, provider, operator>>

\* Variant: a reference for every attempt.
ReferencePerAttempt(attempts) == attempts

\* One reference for all attempts: the order's.
Reference(attempts) == 0

\* What it cannot do: take back what it never held.
Possible(q) == q = "REVERSE" => provider["REPORT"] # {}

\* A transaction it holds is answered again while it remembers the key, and refused
\* after; a new one may be made although its answer is lost, disagrees with the sale,
\* or comes from a mode that is not permitted.
CallProvider(w) ==
    LET q == worker[w].queue
        r == Reference(row[q].attempts)
        Answer(results) == \E result \in results :
            worker' = [worker EXCEPT ![w] = [@ EXCEPT !.step = "RESOLVE", !.result = result]]
    IN  /\ worker[w].step = "CALL"
        /\ \/ /\ Answer({"PROVIDER_UNAVAILABLE", "PROVIDER_MODE_NOT_PERMITTED"})
              /\ UNCHANGED provider
           \/ /\ r \in provider[q]
              /\ Answer({"DONE", "DUPLICATE_REFERENCE"})
              /\ UNCHANGED provider
           \/ /\ r \notin provider[q] /\ ~ Possible(q)
              /\ Answer({"ORIGINAL_TRANSACTION_NOT_FOUND"})
              /\ UNCHANGED provider
           \/ /\ r \notin provider[q] /\ Possible(q)
              /\ provider' = [provider EXCEPT ![q] = @ \cup {r}]
              /\ Answer({"DONE", "PROVIDER_UNAVAILABLE", "EVIDENCE_INCONSISTENT",
                         "PROVIDER_MODE_NOT_PERMITTED"})
        /\ UNCHANGED <<sale, row, operator>>

\* Variant: whoever has an answer writes it.
HoldsUnchecked(w) == worker[w].step = "RESOLVE"

Holds(w) == row[worker[w].queue].token = w

\* The row is read; a claim that is no longer the worker's ends here.
Resolve(w) ==
    /\ worker[w].step = "RESOLVE"
    /\ worker' = [worker EXCEPT ![w] =
                     IF Holds(w)
                     THEN [@ EXCEPT !.step = "WRITE", !.read = row[worker[w].queue].attempts]
                     ELSE Idle]
    /\ UNCHANGED <<sale, row, provider, operator>>

\* Variant: one attempt more than the contract has.
RetriesOneMore(attempts, failure) == failure \in Transient /\ attempts <= MaxAttempts

Retries(attempts, failure) == failure \in Transient /\ attempts < MaxAttempts

\* The row as it is written, by the count read before; its claim is gone.
Resolved(old, attempts, result) ==
    LET given == [old EXCEPT !.token = NoWorker, !.over = FALSE, !.due = FALSE,
                             !.attempts = attempts]
    IN  IF result = "DONE"
        THEN [given EXCEPT !.status = "DONE", !.failure = "NONE"]
        ELSE IF Retries(attempts, result)
        THEN [given EXCEPT !.status = "RETRY_PENDING", !.failure = "NONE"]
        ELSE [given EXCEPT !.status = "FAILED_PERMANENT", !.failure = result]

\* A reversal that is done marks the report, in one transaction.
Marks(q, result) == q = "REVERSE" /\ result = "DONE"

Write(w) ==
    LET q == worker[w].queue
    IN  /\ worker[w].step = "WRITE"
        /\ row' = [row EXCEPT ![q] = Resolved(row[q], worker[w].read + 1, worker[w].result)]
        /\ sale' = [sale EXCEPT !.marked = @ \/ Marks(q, worker[w].result)]
        /\ worker' = [worker EXCEPT ![w] = Idle]
        /\ UNCHANGED <<provider, operator>>

\* The process dies, or an error ends the row's turn.
Drop(w) ==
    /\ worker[w].step # "IDLE"
    /\ worker' = [worker EXCEPT ![w] = Idle]
    /\ UNCHANGED <<sale, row, provider, operator>>

Proceed(w) == Verify(w) \/ CallProvider(w) \/ Resolve(w) \/ Write(w)

------------------------------------------------------------------------------
\* Operators requeue what another attempt can mend

RequeueCheck(o, q) ==
    /\ operator[o].step = "IDLE"
    /\ row[q].status = "FAILED_PERMANENT" /\ row[q].failure \in Requeueable
    /\ row[q].requeues < MaxRequeues
    /\ operator' = [operator EXCEPT ![o] = [step |-> "REQUEUE", queue |-> q,
                                            requeues |-> row[q].requeues]]
    /\ UNCHANGED <<sale, row, provider, worker>>

Requeue(o) ==
    /\ operator[o].step = "REQUEUE"
    /\ row' = [row EXCEPT ![operator[o].queue] =
                  [@ EXCEPT !.status = "RETRY_PENDING", !.due = TRUE, !.attempts = 0,
                            !.over = FALSE, !.failure = "NONE",
                            !.requeues = operator[o].requeues + 1]]
    /\ operator' = [operator EXCEPT ![o] = AtRest]
    /\ UNCHANGED <<sale, provider, worker>>

------------------------------------------------------------------------------
\* Time

LeaseEnds(q) ==
    /\ row[q].status = "IN_PROGRESS" /\ ~ row[q].over
    /\ row' = [row EXCEPT ![q] = [@ EXCEPT !.over = TRUE]]
    /\ UNCHANGED <<sale, provider, worker, operator>>

DelayEnds(q) ==
    /\ row[q].status = "RETRY_PENDING" /\ ~ row[q].due
    /\ row' = [row EXCEPT ![q] = [@ EXCEPT !.due = TRUE]]
    /\ UNCHANGED <<sale, provider, worker, operator>>

------------------------------------------------------------------------------
Next ==
    \/ Book \/ FinalizeRefund \/ Overwrite
    \/ \E w \in Workers : (\E q \in Queues : Claim(w, q)) \/ Proceed(w) \/ Drop(w)
    \/ \E o \in Operators : (\E q \in Queues : RequeueCheck(o, q)) \/ Requeue(o)
    \/ \E q \in Queues : Recover(q) \/ LeaseEnds(q) \/ DelayEnds(q)

Spec == Init /\ [][Next]_vars

------------------------------------------------------------------------------
\* Types, and what rows, books and pending writes agree on: a row still to be tried
\* has an attempt left, as has the worker that read it; a row is done, or fails as a
\* duplicate an operator is sent to look for, only of a transaction the provider
\* holds; a reversal is owed only of what was reported and refunded.
TypeOK ==
    /\ sale \in Sales
    /\ row \in [Queues -> Rows]
    /\ provider \in [Queues -> SUBSET (0..MaxAttempts)]
    /\ worker \in [Workers -> [step : {"IDLE", "VERIFY", "CALL", "RESOLVE", "WRITE"},
                               queue : Queues, result : Failures \cup {"NONE", "DONE"},
                               read : 0..MaxAttempts]]
    /\ operator \in [Operators -> [step : {"IDLE", "REQUEUE"}, queue : Queues,
                                   requeues : 0..MaxRequeues]]

Told(q) == provider[q] # {}

RowOK(q) ==
    /\ row[q].status = "IN_PROGRESS" => row[q].token # NoWorker
    /\ row[q].token # NoWorker => row[q].status \in {"IN_PROGRESS", "RETRY_PENDING"}
    /\ row[q].status \in Claimable \cup {"IN_PROGRESS"} => row[q].attempts < MaxAttempts
    /\ row[q].status = "FAILED_PERMANENT" => row[q].failure # "NONE"
    /\ row[q].status = "DONE" \/ row[q].failure = "DUPLICATE_REFERENCE" => Told(q)

BooksOK ==
    /\ row["REPORT"].status # "ABSENT" => sale.booked
    /\ sale.refund # "NONE" => sale.booked
    /\ row["REVERSE"].status # "ABSENT" => sale.refund # "NONE" /\ Told("REPORT")
    /\ sale.marked => Told("REVERSE")
    /\ Told("REVERSE") => Told("REPORT")
    /\ \A q \in Queues : Told(q) => row[q].status # "ABSENT"

ProcessOK ==
    /\ \A w \in Workers :
         /\ worker[w].step \in {"VERIFY", "CALL", "RESOLVE", "WRITE"} =>
              row[worker[w].queue].status # "ABSENT"
         /\ worker[w].step = "WRITE" => worker[w].read < MaxAttempts
         /\ worker[w].step \in {"RESOLVE", "WRITE"} =>
              /\ worker[w].result # "NONE"
              /\ worker[w].result \in {"DONE", "DUPLICATE_REFERENCE"} => Told(worker[w].queue)
    /\ \A o \in Operators : operator[o].step = "REQUEUE" =>
          row[operator[o].queue].status # "ABSENT" /\ operator[o].requeues < MaxRequeues

TaxInv == TypeOK /\ (\A q \in Queues : RowOK(q)) /\ BooksOK /\ ProcessOK

\* Whatever retries, recoveries, lost answers and requeues do, the authority is told of
\* the sale once, and once that it came back, in that order and after the refund.
ToldOnce(q) == Cardinality(provider[q])

Ledger == INSTANCE TaxLedger WITH
    made     <- sale.booked,
    returned <- sale.refund # "NONE",
    told     <- IF ToldOnce("REPORT") > 1 \/ ToldOnce("REVERSE") > 1 THEN "TWICE"
                ELSE IF Told("REVERSE") THEN "SALE_AND_RETURN"
                ELSE IF Told("REPORT") THEN "SALE" ELSE "NOTHING"

ImplementsTaxLedger == Ledger!Spec

\* A row is settled when it is done and nobody still holds a decision about it from
\* before.  It then stays done, whoever is still calling the provider about it.
Settled(q) ==
    /\ row[q].status = "DONE"
    /\ \A w \in Workers : ~ (worker[w].step = "WRITE" /\ worker[w].queue = q)
    /\ \A o \in Operators : ~ (operator[o].step = "REQUEUE" /\ operator[o].queue = q)

DoneStaysDone == [][\A q \in Queues : Settled(q) => Settled(q)']_vars
===============================================================================
