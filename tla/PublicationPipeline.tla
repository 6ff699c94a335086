------------------------- MODULE PublicationPipeline -------------------------
(***************************************************************************)
(* The publication pipeline: a Product publication is prepared with one    *)
(* outbox item; worker cycles recover expired claims, claim an item under  *)
(* a lease, prepare a submission attempt, call the Registrar once and      *)
(* record the consequence; operators ingest the Registrar's receipts and   *)
(* take governed remediation decisions.  All of them meet only in the      *)
(* database, and every step below is one database round trip (or one       *)
(* transaction) of the code, so each may act on rows that have changed     *)
(* since it read them.                                                     *)
(*                                                                         *)
(* A lock token is a fresh random value per claim, and every claim         *)
(* increments attemptCount; the token is modelled by the claim's number.   *)
(* A submission attempt is unique per (outbox item, claim number).         *)
(***************************************************************************)
EXTENDS Naturals, FiniteSets

CONSTANTS
    Pubs,           \* publications; each has exactly one outbox item
    Workers,        \* processes running worker cycles
    Operators,      \* processes ingesting receipts or deciding remediation
    LeaseDuration,  \* length of a claim lease
    RetryDelay,     \* delay of a retry after a failure that provably never left
    SweepLimit,     \* rows one recovery sweep may take
    NoPub,          \* the null publication of an idle process
    MaxClaims,      \* bound: claims of one item
    MaxTime         \* bound: the clock

ASSUME LeaseAssumption == LeaseDuration \in Nat /\ LeaseDuration > 0
ASSUME NullAssumption == NoPub \notin Pubs
ASSUME BoundAssumption == /\ RetryDelay \in Nat
                          /\ SweepLimit \in Nat
                          /\ MaxClaims \in Nat
                          /\ MaxTime \in Nat

VARIABLES
    now,          \* the wall clock
    publication,  \* ProductPublication rows: the registration verdict
    outbox,       \* PublicationOutbox rows: the work item
    attempt,      \* PublicationSubmissionAttempt status per claim number
    receipts,     \* RegistrarReceipt rows
    sent,         \* claim numbers whose request may have left the process
    run,          \* worker cycles in progress (memory, lost in a crash)
    op            \* operator requests in progress (memory)

vars == <<now, publication, outbox, attempt, receipts, sent, run, op>>

Claims  == 1..MaxClaims
Tokens  == 0..MaxClaims      \* 0 is null
Times   == 0..MaxTime

RegistrationStates   == {"NOT_SUBMITTED", "PENDING", "ACCEPTED", "REJECTED"}
ReconciliationStates == {"NOT_REQUIRED", "PENDING", "MATCHED", "MISMATCH"}
RemediationStates    == {"NOT_REQUIRED", "REQUIRED", "RETRY_AUTHORIZED",
                         "CLOSED", "RESOLVED"}
OutboxStatuses  == {"PENDING", "RETRYABLE", "PROCESSING", "COMPLETED",
                    "DEAD_LETTER", "CANCELLED"}
AttemptStatuses == {"NONE", "PREPARED", "DISPATCHED", "RECEIPT_RECORDED",
                    "ABANDONED"}
Claimable == {"PENDING", "RETRYABLE"}
Closeable == {"PENDING", "PROCESSING", "RETRYABLE", "DEAD_LETTER"}

PublicationRows == [registration   : RegistrationStates,
                    reconciliation : ReconciliationStates,
                    remediation    : RemediationStates]

\* No lease is 0: a lease ends strictly after it is taken.
OutboxRows == [status : OutboxStatuses \cup {"ABSENT"}, token : Tokens,
               lease : Nat, claims : Tokens, availableAt : Nat,
               payload : BOOLEAN]

Receipts == [claim : Claims, status : {"ACCEPTED", "REJECTED"},
             matched : BOOLEAN]

Unsubmitted == [registration |-> "NOT_SUBMITTED",
                reconciliation |-> "NOT_REQUIRED",
                remediation |-> "NOT_REQUIRED"]

NoItem == [status |-> "ABSENT", token |-> 0, lease |-> 0, claims |-> 0,
           availableAt |-> 0, payload |-> FALSE]

\* A worker: where it stands, the instant it read before starting, the item
\* and claim it works on, the consequence the transport result calls for, and
\* the expired claims a sweep selected (0: not selected).
RunSteps == {"IDLE", "SWEEP", "CLAIM", "PREPARE", "CREATE", "DISPATCH", "SEND",
             "CHECK", "MARK", "ABANDON", "RESOLVE"}
Goals    == {"NOTHING", "RETRYABLE", "DEAD_LETTER"}
RunRows  == [step : RunSteps, at : Nat, pub : Pubs \cup {NoPub},
             claim : Tokens, goal : Goals, todo : [Pubs -> Tokens]]
Idle     == [step |-> "IDLE", at |-> 0, pub |-> NoPub,
             claim |-> 0, goal |-> "NOTHING", todo |-> [p \in Pubs |-> 0]]

\* An operator request that has read the rows and passed every check, and has
\* not yet committed.
OpSteps  == {"IDLE", "RECEIPT", "RETRY", "CLOSE"}
OpRows   == [step : OpSteps, pub : Pubs \cup {NoPub}, claim : Tokens,
             status : {"ACCEPTED", "REJECTED"}, matched : BOOLEAN,
             read : PublicationRows]
IdleOp   == [step |-> "IDLE", pub |-> NoPub,
             claim |-> 0, status |-> "REJECTED", matched |-> FALSE,
             read |-> Unsubmitted]

Init == /\ now = 0
        /\ publication = [p \in Pubs |-> Unsubmitted]
        /\ outbox   = [p \in Pubs |-> NoItem]
        /\ attempt  = [p \in Pubs |-> [n \in Claims |-> "NONE"]]
        /\ receipts = [p \in Pubs |-> {}]
        /\ sent     = [p \in Pubs |-> {}]
        /\ run = [w \in Workers |-> Idle]
        /\ op  = [o \in Operators |-> IdleOp]

rows == <<publication, outbox, attempt, receipts>>

Tick == /\ now < MaxTime
        /\ now' = now + 1
        /\ UNCHANGED <<rows, sent, run, op>>

------------------------------------------------------------------------------
\* Preparation, and the operations on an item that need no claim

\* Publication and work item are created in one transaction; repeating it for
\* the same identity returns the existing rows.
PreparePublication(p) ==
    /\ outbox[p].status = "ABSENT"
    /\ outbox' = [outbox EXCEPT ![p] =
                    [NoItem EXCEPT !.status = "PENDING", !.availableAt = now,
                                   !.payload = TRUE]]
    /\ UNCHANGED <<now, publication, attempt, receipts, sent, run, op>>

\* The item under a new status, holding neither claim nor lease.
Released(item, status) ==
    [item EXCEPT !.status = status, !.token = 0, !.lease = 0]

CancelItem(p) ==
    /\ outbox[p].status \in Claimable
    /\ outbox' = [outbox EXCEPT ![p] = Released(@, "CANCELLED")]
    /\ UNCHANGED <<now, publication, attempt, receipts, sent, run, op>>

\* Variant: an attempt whose request has left is not abandoned.
AbandonPreparedOnly(p) ==
    [n \in Claims |-> IF attempt[p][n] = "PREPARED"
                        THEN "ABANDONED" ELSE attempt[p][n]]

\* Every PREPARED or DISPATCHED attempt of the item becomes ABANDONED.
AbandonAll(p) ==
    [n \in Claims |-> IF attempt[p][n] \in {"PREPARED", "DISPATCHED"}
                        THEN "ABANDONED" ELSE attempt[p][n]]

------------------------------------------------------------------------------
\* A worker cycle: the recovery sweep

\* Variants: the lease is not looked at; its last instant is missed.
ExpiredWhateverLease(p, at) == outbox[p].status = "PROCESSING"
ExpiredStrictly(p, at) == /\ outbox[p].status = "PROCESSING"
                          /\ outbox[p].lease < at

Expired(p, at) == /\ outbox[p].status = "PROCESSING"
                  /\ outbox[p].lease <= at

SweepCandidate(p) ==
    /\ Expired(p, now)
    /\ ~(/\ publication[p].registration = "ACCEPTED"
         /\ publication[p].reconciliation = "MATCHED")

\* The sweep reads the expired claims, the oldest leases first, up to a limit.
SweepSelect(w) ==
    /\ run[w].step = "IDLE"
    /\ \E chosen \in SUBSET {p \in Pubs : SweepCandidate(p)} :
         /\ chosen # {}
         /\ Cardinality(chosen) <= SweepLimit
         /\ \A p \in {q \in Pubs : SweepCandidate(q)} \ chosen :
              /\ Cardinality(chosen) = SweepLimit
              /\ \A q \in chosen : outbox[q].lease <= outbox[p].lease
         /\ run' = [run EXCEPT ![w] = [Idle EXCEPT
                      !.step = "SWEEP", !.at = now,
                      !.todo = [p \in Pubs |->
                                  IF p \in chosen THEN outbox[p].token ELSE 0]]]
    /\ UNCHANGED <<now, rows, sent, op>>

\* Each selected row is recovered in a transaction of its own, guarded by the
\* token the sweep observed; the claim's open attempts are abandoned with it.
SweepRow(w, p) ==
    LET todo == [run[w].todo EXCEPT ![p] = 0] IN
    /\ run[w].step = "SWEEP"
    /\ run[w].todo[p] # 0
    /\ IF Expired(p, run[w].at) /\ outbox[p].token = run[w].todo[p]
         THEN /\ outbox' = [outbox EXCEPT ![p] =
                    [Released(@, "RETRYABLE") EXCEPT !.availableAt = run[w].at]]
              /\ attempt' = [attempt EXCEPT ![p] = AbandonAll(p)]
         ELSE UNCHANGED <<outbox, attempt>>
    /\ run' = [run EXCEPT ![w] = IF \A q \in Pubs : todo[q] = 0
                                   THEN Idle ELSE [@ EXCEPT !.todo = todo]]
    /\ UNCHANGED <<now, publication, receipts, sent, op>>

------------------------------------------------------------------------------
\* A worker cycle: one run over one item

Due(p, at) == /\ outbox[p].status \in Claimable
              /\ outbox[p].availableAt <= at

\* The run reads the clock once, before it claims, and selects the item that
\* has been due the longest; every instant it later presents is this one.
SelectItem(w) ==
    /\ run[w].step = "IDLE"
    /\ \E p \in Pubs :
         /\ Due(p, now)
         /\ outbox[p].claims < MaxClaims
         /\ \A q \in Pubs : Due(q, now) =>
              outbox[p].availableAt <= outbox[q].availableAt
         /\ run' = [run EXCEPT ![w] =
                      [Idle EXCEPT !.step = "CLAIM", !.at = now, !.pub = p]]
    /\ UNCHANGED <<now, rows, sent, op>>

\* The item under a new claim.
Claimed(item, at) ==
    [item EXCEPT !.status = "PROCESSING", !.token = item.claims + 1,
                 !.lease = at + LeaseDuration, !.claims = item.claims + 1]

\* The guarded update of the claim; a row that somebody else took meanwhile
\* matches nothing and the run ends in a conflict.
ClaimItem(w) ==
    LET p == run[w].pub IN
    /\ run[w].step = "CLAIM"
    /\ IF Due(p, run[w].at) /\ outbox[p].token = 0 /\ outbox[p].claims < MaxClaims
         THEN /\ outbox' = [outbox EXCEPT ![p] = Claimed(@, run[w].at)]
              /\ run' = [run EXCEPT ![w] = [@ EXCEPT
                    !.step = "PREPARE", !.claim = outbox[p].claims + 1]]
         ELSE /\ run' = [run EXCEPT ![w] = Idle]
              /\ UNCHANGED outbox
    /\ UNCHANGED <<now, publication, attempt, receipts, sent, op>>

Settled(pub) == \/ pub.remediation \in {"CLOSED", "RESOLVED"}
                \/ pub.registration = "ACCEPTED"

\* The claim is held by this token and its lease ends after the given instant.
LiveClaim(p, token, at) == /\ outbox[p].status = "PROCESSING"
                           /\ outbox[p].token = token
                           /\ outbox[p].lease > at

\* Preparing an attempt reads the publication, the item and the attempt ids ...
PrepareCheck(w) ==
    LET p == run[w].pub IN
    /\ run[w].step = "PREPARE"
    /\ run' = [run EXCEPT ![w] =
                 IF /\ ~Settled(publication[p])
                    /\ LiveClaim(p, run[w].claim, run[w].at)
                    /\ outbox[p].payload
                   THEN [@ EXCEPT !.step = "CREATE"] ELSE Idle]
    /\ UNCHANGED <<now, rows, sent, op>>

\* ... and then creates the row; only its uniqueness per claim is re-checked.
CreateAttempt(w) ==
    LET p == run[w].pub
        n == run[w].claim IN
    /\ run[w].step = "CREATE"
    /\ IF attempt[p][n] = "NONE"
         THEN /\ attempt' = [attempt EXCEPT ![p] = [@ EXCEPT ![n] = "PREPARED"]]
              /\ run' = [run EXCEPT ![w] = [@ EXCEPT !.step = "DISPATCH"]]
         ELSE /\ run' = [run EXCEPT ![w] = Idle]
              /\ UNCHANGED attempt
    /\ UNCHANGED <<now, publication, outbox, receipts, sent, op>>

DispatchCheck(w) ==
    LET p == run[w].pub IN
    /\ run[w].step = "DISPATCH"
    /\ run' = [run EXCEPT ![w] =
                 IF /\ attempt[p][run[w].claim] = "PREPARED"
                    /\ ~Settled(publication[p])
                    /\ LiveClaim(p, run[w].claim, run[w].at)
                    /\ outbox[p].payload
                   THEN [@ EXCEPT !.step = "SEND"] ELSE Idle]
    /\ UNCHANGED <<now, rows, sent, op>>

\* What one transport call can report.  A transmitted request may or may not
\* have been processed by the Registrar.
TransportResults ==
    [outcome : {"SUCCESS", "REMOTE_REJECTION", "AMBIGUOUS_DELIVERY"},
     transmitted : {TRUE}]
    \cup
    [outcome : {"RETRYABLE_TRANSPORT_FAILURE", "TERMINAL_TRANSPORT_FAILURE"},
     transmitted : BOOLEAN]

\* Variant: a terminal failure cancels the claimed item.
ConsequenceCancels(result) ==
    IF result.outcome = "TERMINAL_TRANSPORT_FAILURE" THEN "CANCELLED" ELSE "NOTHING"

\* What the run does to the item once the result is in: an item whose request
\* may have arrived is only ever dead-lettered, never rescheduled.
Consequence(result) ==
    CASE result.outcome = "RETRYABLE_TRANSPORT_FAILURE" /\ ~result.transmitted
           -> "RETRYABLE"
      [] result.outcome = "TERMINAL_TRANSPORT_FAILURE" -> "DEAD_LETTER"
      [] OTHER -> "NOTHING"

\* Exactly one transport call, outside any transaction.
Send(w) ==
    /\ run[w].step = "SEND"
    /\ \E result \in TransportResults :
         /\ sent' = IF result.transmitted
                      THEN [sent EXCEPT ![run[w].pub] = @ \cup {run[w].claim}]
                      ELSE sent
         /\ run' = [run EXCEPT ![w] = [@ EXCEPT
                      !.step = IF result.transmitted THEN "CHECK" ELSE "ABANDON",
                      !.goal = Consequence(result)]]
    /\ UNCHANGED <<now, rows, op>>

\* Marking the attempt dispatched reads the attempt and the claim ...
MarkCheck(w) ==
    LET p == run[w].pub IN
    /\ run[w].step = "CHECK"
    /\ run' = [run EXCEPT ![w] =
                 IF /\ attempt[p][run[w].claim] = "PREPARED"
                    /\ LiveClaim(p, run[w].claim, run[w].at)
                   THEN [@ EXCEPT !.step = "MARK"] ELSE Idle]
    /\ UNCHANGED <<now, rows, sent, op>>

\* ... and then updates the attempt if it is still PREPARED.
MarkDispatched(w) ==
    LET p == run[w].pub
        n == run[w].claim IN
    /\ run[w].step = "MARK"
    /\ IF attempt[p][n] = "PREPARED"
         THEN /\ attempt' = [attempt EXCEPT ![p] = [@ EXCEPT ![n] = "DISPATCHED"]]
              /\ run' = [run EXCEPT ![w] =
                           IF run[w].goal = "NOTHING" THEN Idle
                           ELSE [@ EXCEPT !.step = "RESOLVE"]]
         ELSE /\ run' = [run EXCEPT ![w] = Idle]
              /\ UNCHANGED attempt
    /\ UNCHANGED <<now, publication, outbox, receipts, sent, op>>

\* An attempt that provably never left is retired; one that somebody already
\* abandoned is left as it is.
AbandonAttempt(w) ==
    LET p == run[w].pub
        n == run[w].claim IN
    /\ run[w].step = "ABANDON"
    /\ attempt[p][n] \in {"PREPARED", "DISPATCHED", "ABANDONED"}
    /\ attempt' = [attempt EXCEPT ![p] = [@ EXCEPT ![n] = "ABANDONED"]]
    /\ run' = [run EXCEPT ![w] = [@ EXCEPT !.step = "RESOLVE"]]
    /\ UNCHANGED <<now, publication, outbox, receipts, sent, op>>

\* The item under the status its claim is resolved to.
Resolved(item, goal, at) ==
    IF goal = "RETRYABLE"
      THEN [Released(item, goal) EXCEPT !.availableAt = at + RetryDelay]
      ELSE Released(item, goal)

\* The claim is resolved only by the token that holds it.
ResolveClaim(w) ==
    LET p == run[w].pub IN
    /\ run[w].step = "RESOLVE"
    /\ IF outbox[p].status = "PROCESSING" /\ outbox[p].token = run[w].claim
         THEN outbox' = [outbox EXCEPT ![p] =
                           Resolved(@, run[w].goal, run[w].at)]
         ELSE UNCHANGED outbox
    /\ run' = [run EXCEPT ![w] = Idle]
    /\ UNCHANGED <<now, publication, attempt, receipts, sent, op>>

\* A claimed item may be completed without a receipt; its body is retained.
CompleteClaim(w) ==
    LET p == run[w].pub IN
    /\ run[w].step = "PREPARE"
    /\ IF outbox[p].status = "PROCESSING" /\ outbox[p].token = run[w].claim
         THEN outbox' = [outbox EXCEPT ![p] = Released(@, "COMPLETED")]
         ELSE UNCHANGED outbox
    /\ run' = [run EXCEPT ![w] = Idle]
    /\ UNCHANGED <<now, publication, attempt, receipts, sent, op>>

\* The worker process dies, or the run throws before its transport call; the
\* rows stay as they are.
Crash(w) == /\ run[w].step # "IDLE"
            /\ run' = [run EXCEPT ![w] = Idle]
            /\ UNCHANGED <<now, rows, sent, op>>

------------------------------------------------------------------------------
\* Registrar receipts

\* What a receipt does to the publication and, unless "NONE", to its item.
Verdict(registration, reconciliation, remediation, target) ==
    [publication |-> [registration   |-> registration,
                      reconciliation |-> reconciliation,
                      remediation    |-> remediation],
     target |-> target]

DecideOutcome(status, matched) ==
    IF ~matched
      THEN Verdict("PENDING", "MISMATCH", "REQUIRED", "NONE")
      ELSE IF status = "ACCEPTED"
             THEN Verdict("ACCEPTED", "MATCHED", "RESOLVED", "COMPLETED")
             ELSE Verdict("REJECTED", "MATCHED", "REQUIRED", "DEAD_LETTER")

\* Variant: a recorded mismatch does not stop an acceptance.
NoPriorRejection(pub, status, matched) ==
    (status = "ACCEPTED" /\ matched) =>
        /\ pub.remediation # "CLOSED"
        /\ \/ pub.remediation = "RETRY_AUTHORIZED"
           \/ pub.registration \notin {"REJECTED", "ACCEPTED"}

\* A matching acceptance may not overturn a recorded verdict, unless a retry
\* was authorised since.
NoPriorVerdictConflict(pub, status, matched) ==
    (status = "ACCEPTED" /\ matched) =>
        /\ pub.remediation # "CLOSED"
        /\ \/ pub.remediation = "RETRY_AUTHORIZED"
           \/ /\ pub.registration \notin {"REJECTED", "ACCEPTED"}
              /\ pub.reconciliation # "MISMATCH"

\* The service reads publication, item and attempt outside the transaction and
\* runs every check on what it read.  The Registrar answers what it was sent.
ReceiveReceipt(o, p, r) ==
    /\ op[o].step = "IDLE"
    /\ r.claim \in sent[p]
    /\ attempt[p][r.claim] = "DISPATCHED"
    /\ NoPriorVerdictConflict(publication[p], r.status, r.matched)
    /\ DecideOutcome(r.status, r.matched).target # "NONE" =>
          outbox[p].status = "PROCESSING"
    /\ op' = [op EXCEPT ![o] =
                [step |-> "RECEIPT", pub |-> p, claim |-> r.claim,
                 status |-> r.status, matched |-> r.matched,
                 read |-> publication[p]]]
    /\ UNCHANGED <<now, rows, sent, run>>

\* Variant: any deciding receipt disposes of the body.
DecidedDisposing(item, target) ==
    IF target = "NONE" THEN item
    ELSE [Released(item, target) EXCEPT !.payload = FALSE]

\* The item a receipt decides: released, and on acceptance without its body.
Decided(item, target) ==
    IF target = "NONE" THEN item
    ELSE [Released(item, target) EXCEPT
            !.payload = IF target = "COMPLETED" THEN FALSE ELSE @]

\* The accepted-receipt slot of the publication is unique.
SlotFree(p, status, matched) ==
    (status = "ACCEPTED" /\ matched) =>
        ~ \E r \in receipts[p] : r.status = "ACCEPTED" /\ r.matched

\* The transaction writes publication and item unconditionally and rolls back
\* unless the attempt is still DISPATCHED and the slot is free.
CommitReceipt(o) ==
    LET p == op[o].pub
        n == op[o].claim
        outcome == DecideOutcome(op[o].status, op[o].matched) IN
    /\ op[o].step = "RECEIPT"
    /\ IF attempt[p][n] = "DISPATCHED" /\ SlotFree(p, op[o].status, op[o].matched)
         THEN /\ receipts' = [receipts EXCEPT ![p] = @ \cup
                    {[claim |-> n, status |-> op[o].status,
                      matched |-> op[o].matched]}]
              /\ publication' = [publication EXCEPT ![p] = outcome.publication]
              /\ outbox' = [outbox EXCEPT ![p] = Decided(@, outcome.target)]
              /\ attempt' = [attempt EXCEPT ![p] =
                               [@ EXCEPT ![n] = "RECEIPT_RECORDED"]]
         ELSE UNCHANGED rows
    /\ op' = [op EXCEPT ![o] = IdleOp]
    /\ UNCHANGED <<now, sent, run>>

------------------------------------------------------------------------------
\* Governed remediation

\* What the service checks before it opens the transaction.
Remediable(p, action) ==
    /\ publication[p].remediation = "REQUIRED"
    /\ action = "RETRY" =>
         /\ \/ publication[p].registration = "REJECTED"
            \/ publication[p].reconciliation = "MISMATCH"
         /\ outbox[p].payload
         /\ outbox[p].status # "COMPLETED"
         /\ publication[p].registration # "ACCEPTED"
    /\ action = "CLOSE" => outbox[p].status \in Closeable

DecideRemediation(o, p, action) ==
    /\ op[o].step = "IDLE"
    /\ Remediable(p, action)
    /\ op' = [op EXCEPT ![o] = [IdleOp EXCEPT !.step = action, !.pub = p,
                                              !.read = publication[p]]]
    /\ UNCHANGED <<now, rows, sent, run>>

Remediated(pub, action) ==
    IF action = "RETRY"
      THEN [registration |-> "PENDING", reconciliation |-> "PENDING",
            remediation |-> "RETRY_AUTHORIZED"]
      ELSE [pub EXCEPT !.remediation = "CLOSED"]

RemediatedItem(item, action, at) ==
    IF action = "RETRY"
      THEN [Released(item, "RETRYABLE") EXCEPT !.availableAt = at]
      ELSE Released(item, "DEAD_LETTER")

\* The transaction is guarded by the remediation state it decided against; it
\* writes the item whatever its status now is, and abandons open attempts.
CommitRemediation(o) ==
    LET p == op[o].pub IN
    /\ op[o].step \in {"RETRY", "CLOSE"}
    /\ IF publication[p].remediation = op[o].read.remediation
         THEN /\ publication' = [publication EXCEPT ![p] =
                                   Remediated(@, op[o].step)]
              /\ \E at \in {now, now + RetryDelay} :
                   outbox' = [outbox EXCEPT ![p] =
                                RemediatedItem(@, op[o].step, at)]
              /\ attempt' = [attempt EXCEPT ![p] = AbandonAll(p)]
              /\ UNCHANGED receipts
         ELSE UNCHANGED rows
    /\ op' = [op EXCEPT ![o] = IdleOp]
    /\ UNCHANGED <<now, sent, run>>

CrashOperator(o) == /\ op[o].step # "IDLE"
                    /\ op' = [op EXCEPT ![o] = IdleOp]
                    /\ UNCHANGED <<now, rows, sent, run>>

------------------------------------------------------------------------------
Sweep(w) == SweepSelect(w) \/ \E p \in Pubs : SweepRow(w, p)

RunOne(w) == \/ SelectItem(w)     \/ ClaimItem(w)     \/ PrepareCheck(w)
             \/ CreateAttempt(w)  \/ DispatchCheck(w) \/ Send(w)
             \/ MarkCheck(w)      \/ MarkDispatched(w)
             \/ AbandonAttempt(w) \/ ResolveClaim(w)

Worker(w) == Sweep(w) \/ RunOne(w) \/ CompleteClaim(w) \/ Crash(w)

Operator(o) ==
    \/ \E p \in Pubs : \/ \E r \in Receipts : ReceiveReceipt(o, p, r)
                       \/ \E action \in {"RETRY", "CLOSE"} :
                            DecideRemediation(o, p, action)
    \/ CommitReceipt(o)
    \/ CommitRemediation(o)
    \/ CrashOperator(o)

Next == \/ Tick
        \/ \E p \in Pubs : PreparePublication(p) \/ CancelItem(p)
        \/ \E w \in Workers : Worker(w)
        \/ \E o \in Operators : Operator(o)

Spec == Init /\ [][Next]_vars

\* Fairness: time passes, a process that is in the middle of a request goes on
\* (or dies), and the worker is invoked again and again with recovery enabled.
Fairness == /\ WF_vars(Tick)
            /\ \A w \in Workers :
                 /\ WF_vars(run[w].step # "IDLE" /\ Worker(w))
                 /\ SF_vars(SweepSelect(w))
                 /\ SF_vars(\E p \in Pubs : SweepRow(w, p))

FairSpec == Spec /\ Fairness
------------------------------------------------------------------------------
\* Properties

\* Every row and every process stays within its contract's vocabulary.
TypeOK ==
    /\ now \in Nat
    /\ publication \in [Pubs -> PublicationRows]
    /\ outbox \in [Pubs -> OutboxRows]
    /\ attempt \in [Pubs -> [Claims -> AttemptStatuses]]
    /\ receipts \in [Pubs -> SUBSET Receipts]
    /\ sent \in [Pubs -> SUBSET Claims]
    /\ run \in [Workers -> RunRows]
    /\ op \in [Operators -> OpRows]

\* The outbox row contract across every interleaving: lock token and lease are
\* present exactly while the item is PROCESSING, the token is the latest
\* claim's, and the body is absent only from a COMPLETED item.
ClaimContract ==
    \A p \in Pubs :
        /\ outbox[p].status = "PROCESSING" <=> outbox[p].token # 0
        /\ outbox[p].status = "PROCESSING" <=> outbox[p].lease # 0
        /\ outbox[p].token # 0 => outbox[p].token = outbox[p].claims
        /\ ~outbox[p].payload => outbox[p].status \in {"ABSENT", "COMPLETED"}

\* An attempt a receipt could still answer belongs to the latest claim of its
\* item, which is still held or was dead-lettered after the request left, and
\* to a publication nobody has settled; so an item never has two of them.
AnswerableAttemptIsCurrent ==
    \A p \in Pubs : \A n \in Claims :
        attempt[p][n] = "DISPATCHED" =>
            /\ n = outbox[p].claims
            /\ outbox[p].status \in {"PROCESSING", "DEAD_LETTER"}
            /\ publication[p].remediation \notin {"CLOSED", "RESOLVED"}

\* A receipt transaction that can still commit decides against the verdict it
\* read: no other receipt and no decision came in between, although neither the
\* publication nor the item is guarded in the transaction.
ReceiptDecidesOnCurrentVerdict ==
    \A o \in Operators :
        op[o].step = "RECEIPT" /\ attempt[op[o].pub][op[o].claim] = "DISPATCHED"
            => publication[op[o].pub] = op[o].read

\* The capsule body is disposed of exactly when an accepted, matching receipt
\* settled the publication, and then the item is COMPLETED for good.
BodyDisposedOnlyByAcceptance ==
    \A p \in Pubs : outbox[p].status # "ABSENT" =>
        /\ ~outbox[p].payload <=> publication[p].remediation = "RESOLVED"
        /\ ~outbox[p].payload <=>
             \E r \in receipts[p] : r.status = "ACCEPTED" /\ r.matched
        /\ ~outbox[p].payload => outbox[p].status = "COMPLETED"

\* A closed publication's item is parked: no claim, no sweep and no late worker
\* brings it back.
ClosedItemIsParked ==
    \A p \in Pubs :
        publication[p].remediation = "CLOSED" => outbox[p].status = "DEAD_LETTER"

\* Lease expiry, not lock stealing: while the lease of a claim still runs, only
\* the claim's own worker or a governed retry makes the item claimable again.
StealsNothing(p) ==
    /\ outbox[p].status = "PROCESSING" /\ outbox[p].lease > now
    /\ outbox'[p].status = "RETRYABLE"
    => \/ publication'[p].remediation = "RETRY_AUTHORIZED"
       \/ \E w \in Workers : /\ run[w].step = "RESOLVE"
                             /\ run[w].pub = p
                             /\ run[w].claim = outbox[p].token
                             /\ run'[w] = Idle

LiveLeaseIsNotStolen == [][\A p \in Pubs : StealsNothing(p)]_vars

------------------------------------------------------------------------------
\* The inductive invariant

\* The rows agree: which claim an attempt belongs to, which attempts can still
\* be answered, and what a settled verdict says of the item.
ItemOK(p) ==
    LET pub == publication[p]
        item == outbox[p] IN
    /\ item.status = "ABSENT" =>
         pub = Unsubmitted /\ item.claims = 0 /\ receipts[p] = {}
    /\ item.status = "PROCESSING" <=> item.token # 0
    /\ item.status = "PROCESSING" <=> item.lease # 0
    /\ item.token # 0 => item.token = item.claims
    /\ ~item.payload => item.status \in {"ABSENT", "COMPLETED"}
    /\ item.status # "ABSENT" =>
         /\ ~item.payload <=> pub.remediation = "RESOLVED"
         /\ ~item.payload <=>
              \E r \in receipts[p] : r.status = "ACCEPTED" /\ r.matched

VerdictOK(p) ==
    LET pub == publication[p] IN
    /\ pub.registration = "REJECTED" => outbox[p].status = "DEAD_LETTER"
    /\ pub.remediation = "CLOSED" => outbox[p].status = "DEAD_LETTER"
    /\ pub.remediation = "REQUIRED" =>
         pub.registration = "REJECTED" \/ pub.reconciliation = "MISMATCH"

AttemptOK(p, n) ==
    /\ attempt[p][n] # "NONE" => n <= outbox[p].claims
    /\ attempt[p][n] = "DISPATCHED" =>
         /\ n = outbox[p].claims
         /\ outbox[p].status \in {"PROCESSING", "DEAD_LETTER"}
         /\ publication[p].remediation \notin {"CLOSED", "RESOLVED"}
         /\ publication[p].registration # "REJECTED"

RowInv == \A p \in Pubs : /\ ItemOK(p)
                          /\ VerdictOK(p)
                          /\ \A n \in Claims : AttemptOK(p, n)

\* A worker past its claim is the only one working on that claim, and what it
\* is about to write is still what the rows allow.
ClaimIsOneWorkers ==
    \A v, w \in Workers :
        run[v].claim # 0 /\ run[v].claim = run[w].claim /\ run[v].pub = run[w].pub
            => v = w

WorkerOK(w) ==
    LET p == run[w].pub
        n == run[w].claim IN
    /\ run[w].step \notin {"IDLE", "SWEEP"} => p \in Pubs
    /\ run[w].step \notin {"IDLE", "SWEEP", "CLAIM"} <=> n # 0
    /\ n # 0 => n <= outbox[p].claims
    /\ run[w].step \in {"PREPARE", "CREATE"} => attempt[p][n] = "NONE"
    /\ run[w].step = "MARK" /\ attempt[p][n] = "PREPARED" =>
         outbox[p].status = "PROCESSING" /\ outbox[p].token = n
    /\ run[w].step \in {"CHECK", "MARK"} => run[w].goal # "RETRYABLE"
    /\ run[w].step \in {"ABANDON", "RESOLVE"} => run[w].goal # "NOTHING"
    /\ run[w].step = "RESOLVE" /\ run[w].goal = "RETRYABLE" =>
         attempt[p][n] = "ABANDONED"

WorkerInv == ClaimIsOneWorkers /\ \A w \in Workers : WorkerOK(w)

\* An operator request that can still commit decides about the verdict it read.
OperatorOK(o) ==
    LET p == op[o].pub
        n == op[o].claim IN
    /\ op[o].step # "IDLE" => p \in Pubs
    /\ op[o].step = "RECEIPT" =>
         /\ n \in Claims
         /\ attempt[p][n] \in {"DISPATCHED", "RECEIPT_RECORDED", "ABANDONED"}
         /\ NoPriorVerdictConflict(op[o].read, op[o].status, op[o].matched)
         /\ attempt[p][n] = "DISPATCHED" => publication[p] = op[o].read
    /\ op[o].step \in {"RETRY", "CLOSE"} => op[o].read.remediation = "REQUIRED"

OperatorInv == \A o \in Operators : OperatorOK(o)

PipelineInv == TypeOK /\ RowInv /\ WorkerInv /\ OperatorInv

------------------------------------------------------------------------------
\* The verdict a reader of the publication row sees.
VerdictOf(p) ==
    IF outbox[p].status = "ABSENT" THEN "ABSENT"
    ELSE CASE publication[p].remediation = "NOT_REQUIRED" -> "OPEN"
           [] publication[p].remediation = "REQUIRED" ->
                IF publication[p].registration = "REJECTED"
                  THEN "REJECTED" ELSE "MISMATCH"
           [] OTHER -> publication[p].remediation

Lifecycle == INSTANCE RegistrationLifecycle WITH
                verdict  <- [p \in Pubs |-> VerdictOf(p)],
                bodyHeld <- [p \in Pubs |-> outbox[p].payload]

\* The pipeline keeps the registration lifecycle: settled publications never
\* move again, a refusal stands until somebody decides about it, and a decision
\* is taken at most once per piece of evidence.
ImplementsLifecycle == Lifecycle!Spec

\* A claim whose worker died does not strand its item: once its lease is over a
\* sweep (or whoever settles it first) takes it out of PROCESSING.
StrandedClaimIsRecovered ==
    \A p \in Pubs :
        outbox[p].status = "PROCESSING" /\ outbox[p].lease <= MaxTime
            ~> outbox[p].status # "PROCESSING"

==============================================================================
