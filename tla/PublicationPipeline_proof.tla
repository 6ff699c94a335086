---------------------- MODULE PublicationPipeline_proof ----------------------
(***************************************************************************)
(* PublicationPipeline keeps its inductive invariant PipelineInv, for any  *)
(* number of publications, workers, operators and claims.  Each action has *)
(* a lemma; the safety properties of PublicationPipeline follow, then that  *)
(* it implements the registration lifecycle and steals no live lease.       *)
(***************************************************************************)
EXTENDS PublicationPipeline, TLAPS

\* The empty database with every process idle satisfies the invariant.
LEMMA InitInv == Init => PipelineInv
BY LeaseAssumption, BoundAssumption, NullAssumption
   DEF Init, PipelineInv, TypeOK, RowInv, ItemOK, VerdictOK, AttemptOK,
       WorkerInv, ClaimIsOneWorkers, WorkerOK, OperatorInv, OperatorOK,
       RunRows, OpRows, Idle, IdleOp,
       NoItem, Unsubmitted, Claims, Tokens, PublicationRows, OutboxRows,
       Receipts, RunSteps, OpSteps, Goals, AttemptStatuses, OutboxStatuses,
       RegistrationStates, ReconciliationStates, RemediationStates

------------------------------------------------------------------------------
\* Typing

\* The null token is a token.
LEMMA NoClaimType == 0 \in Tokens
BY BoundAssumption DEF Tokens

\* An idle worker has the type of a worker.
LEMMA IdleType == Idle \in RunRows
BY BoundAssumption DEF Idle, RunRows, RunSteps, Goals, Tokens

\* An idle operator has the type of an operator.
LEMMA IdleOpType == IdleOp \in OpRows
BY BoundAssumption DEF IdleOp, OpRows, OpSteps, Tokens, Unsubmitted, PublicationRows,
   RegistrationStates, ReconciliationStates, RemediationStates

\* Releasing an item gives an item.
LEMMA ReleasedType ==
    ASSUME NEW item \in OutboxRows, NEW status \in OutboxStatuses
    PROVE  Released(item, status) \in OutboxRows
BY NoClaimType DEF Released, OutboxRows

\* Releasing an item keeps everything but its status, its token and its lease.
LEMMA ReleasedFields ==
    ASSUME NEW item \in OutboxRows, NEW status \in OutboxStatuses
    PROVE  /\ Released(item, status).status = status
           /\ Released(item, status).token = 0
           /\ Released(item, status).lease = 0
           /\ Released(item, status).claims = item.claims
           /\ Released(item, status).payload = item.payload
BY DEF Released, OutboxRows

\* Abandoning the open attempts of one item keeps the type of all attempts.
LEMMA AbandonAllType ==
    ASSUME TypeOK, NEW p \in Pubs
    PROVE  [attempt EXCEPT ![p] = AbandonAll(p)] \in [Pubs -> [Claims -> AttemptStatuses]]
BY DEF TypeOK, AbandonAll, AttemptStatuses

------------------------------------------------------------------------------
\* Steps that only move a worker or an operator

\* A step that only moves one worker keeps the invariant if that worker's new
\* state agrees with the rows and takes over nobody else's claim.
LEMMA WorkerMoves ==
    ASSUME PipelineInv, NEW w \in Workers, NEW r \in RunRows,
           UNCHANGED <<now, rows, op>>,
           UNCHANGED sent \/ sent' \in [Pubs -> SUBSET Claims],
           run' = [run EXCEPT ![w] = r],
           \/ r.claim = 0
           \/ r.claim = run[w].claim /\ r.pub = run[w].pub,
           WorkerOK(w)'
    PROVE  PipelineInv'
<1>1. TypeOK'
  BY DEF PipelineInv, TypeOK, rows
<1>2. RowInv'
  BY DEF PipelineInv, RowInv, ItemOK, VerdictOK, AttemptOK, rows
<1>3. WorkerInv'
  <2>1. ClaimIsOneWorkers'
    BY DEF PipelineInv, TypeOK, WorkerInv, ClaimIsOneWorkers
  <2>2. ASSUME NEW v \in Workers, v # w PROVE WorkerOK(v)'
    BY <2>2 DEF PipelineInv, TypeOK, WorkerInv, WorkerOK, rows
  <2> QED BY <2>1, <2>2 DEF WorkerInv
<1>4. OperatorInv'
  BY DEF PipelineInv, OperatorInv, OperatorOK, rows
<1> QED BY <1>1, <1>2, <1>3, <1>4 DEF PipelineInv

\* A step that only moves one operator keeps the invariant if what it read is
\* what the rows say.
LEMMA OperatorMoves ==
    ASSUME PipelineInv, NEW o \in Operators, NEW r \in OpRows,
           UNCHANGED <<now, rows, sent, run>>,
           op' = [op EXCEPT ![o] = r],
           OperatorOK(o)'
    PROVE  PipelineInv'
<1>1. TypeOK'
  BY DEF PipelineInv, TypeOK, rows
<1>2. RowInv'
  BY DEF PipelineInv, RowInv, ItemOK, VerdictOK, AttemptOK, rows
<1>3. WorkerInv'
  BY DEF PipelineInv, WorkerInv, ClaimIsOneWorkers, WorkerOK, rows
<1>4. OperatorInv'
  <2>1. ASSUME NEW q \in Operators, q # o PROVE OperatorOK(q)'
    BY <2>1 DEF PipelineInv, TypeOK, OperatorInv, OperatorOK, rows
  <2> QED BY <2>1 DEF OperatorInv
<1> QED BY <1>1, <1>2, <1>3, <1>4 DEF PipelineInv

\* A worker that gives up its run.
LEMMA WorkerStops ==
    ASSUME PipelineInv, NEW w \in Workers,
           UNCHANGED <<now, rows, sent, op>>, run' = [run EXCEPT ![w] = Idle]
    PROVE  PipelineInv'
<1>1. WorkerOK(w)'
  BY DEF PipelineInv, TypeOK, WorkerOK, Idle
<1> QED BY <1>1, IdleType, WorkerMoves DEF Idle

\* An operator whose request ends.
LEMMA OperatorStops ==
    ASSUME PipelineInv, NEW o \in Operators,
           UNCHANGED <<now, rows, sent, run>>, op' = [op EXCEPT ![o] = IdleOp]
    PROVE  PipelineInv'
<1>1. OperatorOK(o)'
  BY DEF PipelineInv, TypeOK, OperatorOK, IdleOp
<1> QED BY <1>1, IdleOpType, OperatorMoves

\* A worker past its claim knows its publication and its claim.
LEMMA AtClaim ==
    ASSUME PipelineInv, NEW w \in Workers,
           run[w].step \notin {"IDLE", "SWEEP", "CLAIM"}
    PROVE  run[w].pub \in Pubs /\ run[w].claim \in Claims
<1>1. run[w].pub \in Pubs /\ run[w].claim # 0
  BY DEF PipelineInv, WorkerInv, WorkerOK
<1>2. run[w].claim \in Tokens
  BY DEF PipelineInv, TypeOK, RunRows
<1> QED BY <1>1, <1>2, BoundAssumption DEF Tokens, Claims

\* No part of the invariant speaks of the clock.
LEMMA TickInv == ASSUME PipelineInv, Tick PROVE PipelineInv'
BY BoundAssumption
   DEF Tick, rows, PipelineInv, TypeOK, RowInv, ItemOK, VerdictOK, AttemptOK,
       WorkerInv, ClaimIsOneWorkers, WorkerOK, OperatorInv, OperatorOK

\* A crashed worker leaves the rows as they are.
LEMMA CrashInv == ASSUME NEW w \in Workers, PipelineInv, Crash(w)
                  PROVE  PipelineInv'
BY WorkerStops DEF Crash

\* Selecting expired claims changes nothing but the worker.
LEMMA SweepSelectInv == ASSUME NEW w \in Workers, PipelineInv, SweepSelect(w)
                        PROVE  PipelineInv'
<1>1. PICK chosen \in SUBSET Pubs :
        run' = [run EXCEPT ![w] = [Idle EXCEPT !.step = "SWEEP", !.at = now,
                  !.todo = [p \in Pubs |-> IF p \in chosen THEN outbox[p].token ELSE 0]]]
  BY DEF SweepSelect, SweepCandidate
<1> DEFINE r == [Idle EXCEPT !.step = "SWEEP", !.at = now,
                  !.todo = [p \in Pubs |-> IF p \in chosen THEN outbox[p].token ELSE 0]]
<1>2. r \in RunRows
  BY IdleType, NoClaimType DEF PipelineInv, TypeOK, OutboxRows, RunRows, RunSteps
<1>3. r.claim = 0 /\ r.step = "SWEEP"
  BY DEF Idle
<1>4. WorkerOK(w)'
  BY <1>1, <1>3 DEF PipelineInv, TypeOK, WorkerOK
<1> QED BY <1>1, <1>2, <1>3, <1>4, WorkerMoves DEF SweepSelect

\* Selecting an item holds no claim yet.
LEMMA SelectItemInv == ASSUME NEW w \in Workers, PipelineInv, SelectItem(w)
                       PROVE  PipelineInv'
<1>1. PICK p \in Pubs :
        run' = [run EXCEPT ![w] = [Idle EXCEPT !.step = "CLAIM", !.at = now, !.pub = p]]
  BY DEF SelectItem
<1> DEFINE r == [Idle EXCEPT !.step = "CLAIM", !.at = now, !.pub = p]
<1>2. r \in RunRows
  BY IdleType DEF PipelineInv, TypeOK, RunRows, RunSteps
<1>3. r.claim = 0 /\ r.step = "CLAIM" /\ r.pub = p
  BY DEF Idle
<1>4. WorkerOK(w)'
  BY <1>1, <1>3 DEF PipelineInv, TypeOK, WorkerOK
<1> QED BY <1>1, <1>2, <1>3, <1>4, WorkerMoves DEF SelectItem

\* Checking before the attempt is created keeps the claim's attempt absent.
LEMMA PrepareCheckInv == ASSUME NEW w \in Workers, PipelineInv, PrepareCheck(w)
                         PROVE  PipelineInv'
<1>1. CASE run' = [run EXCEPT ![w] = Idle]
  BY <1>1, WorkerStops DEF PrepareCheck
<1>2. CASE run' = [run EXCEPT ![w] = [@ EXCEPT !.step = "CREATE"]]
  <2> DEFINE r == [run[w] EXCEPT !.step = "CREATE"]
  <2>1. r \in RunRows /\ r.step = "CREATE" /\ r.claim = run[w].claim /\ r.pub = run[w].pub
    BY DEF PipelineInv, TypeOK, RunRows, RunSteps
  <2>2. run' = [run EXCEPT ![w] = r]
    BY <1>2
  <2>3. run'[w] = r
    BY <2>2 DEF PipelineInv, TypeOK
  <2>4. WorkerOK(w)'
    <3> HIDE DEF r
    <3> QED BY <2>1, <2>3 DEF PipelineInv, WorkerInv, WorkerOK, PrepareCheck, rows
  <2> QED BY <2>1, <2>2, <2>4, WorkerMoves DEF PrepareCheck
<1> QED BY <1>1, <1>2 DEF PrepareCheck

\* Checking before the transport call moves the worker only.
LEMMA DispatchCheckInv == ASSUME NEW w \in Workers, PipelineInv, DispatchCheck(w)
                          PROVE  PipelineInv'
<1>1. CASE run' = [run EXCEPT ![w] = Idle]
  BY <1>1, WorkerStops DEF DispatchCheck
<1>2. CASE run' = [run EXCEPT ![w] = [@ EXCEPT !.step = "SEND"]]
  <2> DEFINE r == [run[w] EXCEPT !.step = "SEND"]
  <2>1. r \in RunRows /\ r.step = "SEND" /\ r.claim = run[w].claim /\ r.pub = run[w].pub
    BY DEF PipelineInv, TypeOK, RunRows, RunSteps
  <2>2. run' = [run EXCEPT ![w] = r]
    BY <1>2
  <2>3. run'[w] = r
    BY <2>2 DEF PipelineInv, TypeOK
  <2>4. WorkerOK(w)'
    <3> HIDE DEF r
    <3> QED BY <2>1, <2>3 DEF PipelineInv, WorkerInv, WorkerOK, DispatchCheck, rows
  <2> QED BY <2>1, <2>2, <2>4, WorkerMoves DEF DispatchCheck
<1> QED BY <1>1, <1>2 DEF DispatchCheck

\* What the transport reports decides what the worker may still do: a request
\* that left is never followed by a reschedule.
LEMMA SendInv == ASSUME NEW w \in Workers, PipelineInv, Send(w)
                 PROVE  PipelineInv'
<1>1. PICK result \in TransportResults :
        /\ sent' = IF result.transmitted
                     THEN [sent EXCEPT ![run[w].pub] = @ \cup {run[w].claim}]
                     ELSE sent
        /\ run' = [run EXCEPT ![w] = [@ EXCEPT
                     !.step = IF result.transmitted THEN "CHECK" ELSE "ABANDON",
                     !.goal = Consequence(result)]]
  BY DEF Send
<1> DEFINE r == [run[w] EXCEPT
                     !.step = IF result.transmitted THEN "CHECK" ELSE "ABANDON",
                     !.goal = Consequence(result)]
<1>2. run[w].pub \in Pubs /\ run[w].claim \in Claims
  BY AtClaim DEF Send
<1>3. /\ Consequence(result) \in Goals
      /\ result.transmitted \in BOOLEAN
      /\ result.transmitted => Consequence(result) # "RETRYABLE"
      /\ ~result.transmitted => Consequence(result) # "NOTHING"
  BY DEF TransportResults, Consequence, Goals
<1>4. r \in RunRows /\ r.claim = run[w].claim /\ r.pub = run[w].pub
      /\ r.goal = Consequence(result)
      /\ r.step = IF result.transmitted THEN "CHECK" ELSE "ABANDON"
  BY <1>3 DEF PipelineInv, TypeOK, RunRows, RunSteps
<1>5. run' = [run EXCEPT ![w] = r]
  BY <1>1
<1>6. sent' \in [Pubs -> SUBSET Claims]
  BY <1>1, <1>2, <1>3 DEF PipelineInv, TypeOK
<1>7. run'[w] = r
  BY <1>5 DEF PipelineInv, TypeOK
<1>8. WorkerOK(w)'
  <2> HIDE DEF r
  <2> QED BY <1>3, <1>4, <1>7 DEF PipelineInv, WorkerInv, WorkerOK, Send, rows
<1> QED BY <1>4, <1>5, <1>6, <1>8, WorkerMoves DEF Send

\* A worker about to mark its attempt has seen it PREPARED under its own claim.
LEMMA MarkCheckInv == ASSUME NEW w \in Workers, PipelineInv, MarkCheck(w)
                      PROVE  PipelineInv'
<1>1. CASE run' = [run EXCEPT ![w] = Idle]
  BY <1>1, WorkerStops DEF MarkCheck
<1>2. CASE /\ run' = [run EXCEPT ![w] = [@ EXCEPT !.step = "MARK"]]
           /\ LiveClaim(run[w].pub, run[w].claim, run[w].at)
  <2> DEFINE r == [run[w] EXCEPT !.step = "MARK"]
  <2>1. r \in RunRows /\ r.step = "MARK" /\ r.claim = run[w].claim /\ r.pub = run[w].pub
        /\ r.goal = run[w].goal
    BY DEF PipelineInv, TypeOK, RunRows, RunSteps
  <2>2. run' = [run EXCEPT ![w] = r]
    BY <1>2
  <2>3. run'[w] = r
    BY <2>2 DEF PipelineInv, TypeOK
  <2>4. WorkerOK(w)'
    <3> HIDE DEF r
    <3> QED BY <1>2, <2>1, <2>3
            DEF PipelineInv, WorkerInv, WorkerOK, MarkCheck, LiveClaim, rows
  <2> QED BY <2>1, <2>2, <2>4, WorkerMoves DEF MarkCheck
<1> QED BY <1>1, <1>2 DEF MarkCheck

\* An operator request that is lost leaves the rows as they are.
LEMMA CrashOperatorInv == ASSUME NEW o \in Operators, PipelineInv, CrashOperator(o)
                          PROVE  PipelineInv'
BY OperatorStops DEF CrashOperator

\* A receipt that passed its checks read the verdict the rows still hold.
LEMMA ReceiveReceiptInv ==
    ASSUME NEW o \in Operators, NEW p \in Pubs, NEW r \in Receipts,
           PipelineInv, ReceiveReceipt(o, p, r)
    PROVE  PipelineInv'
<1> DEFINE q == [step |-> "RECEIPT", pub |-> p, claim |-> r.claim,
                 status |-> r.status, matched |-> r.matched, read |-> publication[p]]
<1>1. q \in OpRows
  BY BoundAssumption DEF PipelineInv, TypeOK, OpRows, OpSteps, Receipts, Claims, Tokens
<1>2. OperatorOK(o)'
  BY DEF ReceiveReceipt, rows, PipelineInv, TypeOK, OperatorOK, Receipts
<1> QED BY <1>1, <1>2, OperatorMoves DEF ReceiveReceipt

\* A decision that passed its checks read REQUIRED.
LEMMA DecideRemediationInv ==
    ASSUME NEW o \in Operators, NEW p \in Pubs, NEW action \in {"RETRY", "CLOSE"},
           PipelineInv, DecideRemediation(o, p, action)
    PROVE  PipelineInv'
<1> DEFINE q == [IdleOp EXCEPT !.step = action, !.pub = p, !.read = publication[p]]
<1>1. q \in OpRows /\ q.step = action /\ q.pub = p /\ q.read = publication[p]
  BY IdleOpType DEF PipelineInv, TypeOK, OpRows, OpSteps, IdleOp
<1>2. OperatorOK(o)'
  BY <1>1 DEF DecideRemediation, Remediable, rows, PipelineInv, TypeOK, OperatorOK
<1> QED BY <1>1, <1>2, OperatorMoves DEF DecideRemediation
------------------------------------------------------------------------------
\* Steps that change rows.  Each changes the rows of one publication: only its
\* own clauses have to be looked at again.

\* Writing the rows of one publication leaves the invariant of every other.
LEMMA OtherRows ==
    ASSUME RowInv, NEW p \in Pubs,
           \A q \in Pubs \ {p} :
             /\ publication'[q] = publication[q]
             /\ outbox'[q] = outbox[q]
             /\ attempt'[q] = attempt[q]
             /\ receipts'[q] = receipts[q],
           ItemOK(p)', VerdictOK(p)', \A n \in Claims : AttemptOK(p, n)'
    PROVE  RowInv'
<1>1. ASSUME NEW q \in Pubs, q # p
      PROVE  /\ ItemOK(q)' /\ VerdictOK(q)'
             /\ \A n \in Claims : AttemptOK(q, n)'
  BY <1>1 DEF RowInv, ItemOK, VerdictOK, AttemptOK
<1> QED BY <1>1 DEF RowInv

\* An item that changes without a new claim, and without closing one that an
\* answerable attempt or a worker about to mark it relies on.
LEMMA ItemOnly ==
    ASSUME PipelineInv, NEW p \in Pubs, NEW item \in OutboxRows,
           UNCHANGED <<now, publication, attempt, receipts, sent, run, op>>,
           outbox' = [outbox EXCEPT ![p] = item],
           item.claims = outbox[p].claims, outbox[p].status # "PROCESSING",
           ItemOK(p)', VerdictOK(p)', \A n \in Claims : AttemptOK(p, n)'
    PROVE  PipelineInv'
<1>1. TypeOK'
  BY DEF PipelineInv, TypeOK
<1>2. RowInv'
  BY OtherRows DEF PipelineInv, TypeOK
<1>3. WorkerInv'
  <2>1. ClaimIsOneWorkers'
    BY DEF PipelineInv, WorkerInv, ClaimIsOneWorkers
  <2>2. \A w \in Workers : WorkerOK(w)'
    BY DEF PipelineInv, TypeOK, WorkerInv, WorkerOK
  <2> QED BY <2>1, <2>2 DEF WorkerInv
<1>4. OperatorInv'
  BY DEF PipelineInv, OperatorInv, OperatorOK
<1> QED BY <1>1, <1>2, <1>3, <1>4 DEF PipelineInv

\* Preparing a publication creates an item that nobody works on.
LEMMA PreparePublicationInv ==
    ASSUME NEW p \in Pubs, PipelineInv, PreparePublication(p)
    PROVE  PipelineInv'
<1> DEFINE item == [NoItem EXCEPT !.status = "PENDING", !.availableAt = now, !.payload = TRUE]
<1>1. item \in OutboxRows /\ item.claims = 0 /\ item.status = "PENDING"
      /\ item.token = 0 /\ item.lease = 0 /\ item.payload = TRUE
  BY NoClaimType DEF PipelineInv, TypeOK, NoItem, OutboxRows, OutboxStatuses
<1>2. outbox' = [outbox EXCEPT ![p] = item] /\ outbox'[p] = item
  BY DEF PreparePublication, PipelineInv, TypeOK
<1>3. /\ publication[p] = Unsubmitted /\ outbox[p].claims = 0 /\ receipts[p] = {}
      /\ outbox[p].status = "ABSENT"
  BY DEF PreparePublication, PipelineInv, RowInv, ItemOK
<1> HIDE DEF item
<1>4. ItemOK(p)' /\ VerdictOK(p)'
  <2>1. publication'[p] = Unsubmitted /\ receipts'[p] = {}
    BY <1>3 DEF PreparePublication
  <2>2. VerdictOK(p)'
    BY <2>1 DEF VerdictOK, Unsubmitted
  <2>3. ItemOK(p)'
    BY <1>1, <1>2, <2>1 DEF ItemOK, Unsubmitted
  <2> QED BY <2>2, <2>3
<1>5. \A n \in Claims : AttemptOK(p, n)'
  BY <1>1, <1>2, <1>3, BoundAssumption
     DEF PreparePublication, PipelineInv, RowInv, AttemptOK, Claims
<1> QED BY <1>1, <1>2, <1>3, <1>4, <1>5, ItemOnly DEF PreparePublication

\* Cancelling takes an item that nobody holds.
LEMMA CancelItemInv ==
    ASSUME NEW p \in Pubs, PipelineInv, CancelItem(p)
    PROVE  PipelineInv'
<1> DEFINE item == Released(outbox[p], "CANCELLED")
<1>1. outbox[p] \in OutboxRows /\ outbox[p].status \in {"PENDING", "RETRYABLE"}
  BY DEF PipelineInv, TypeOK, CancelItem, Claimable
<1>2. item \in OutboxRows /\ item.claims = outbox[p].claims /\ item.status = "CANCELLED"
      /\ item.token = 0 /\ item.lease = 0 /\ item.payload = outbox[p].payload
  <2>1. item \in OutboxRows
    BY <1>1, ReleasedType DEF OutboxStatuses
  <2> QED BY <1>1, <2>1 DEF Released, OutboxRows
<1>3. outbox' = [outbox EXCEPT ![p] = item] /\ outbox'[p] = item
  BY DEF CancelItem, PipelineInv, TypeOK
<1> HIDE DEF item
<1>4. ItemOK(p)' /\ VerdictOK(p)'
  BY <1>1, <1>2, <1>3 DEF CancelItem, PipelineInv, RowInv, ItemOK, VerdictOK
<1>5. \A n \in Claims : AttemptOK(p, n)'
  BY <1>1, <1>2, <1>3 DEF CancelItem, PipelineInv, RowInv, AttemptOK
<1> QED BY <1>1, <1>2, <1>3, <1>4, <1>5, ItemOnly DEF CancelItem

------------------------------------------------------------------------------
\* Abandoning leaves no attempt that a receipt could answer, and no new one.
LEMMA AbandonAllFields ==
    ASSUME TypeOK, NEW p \in Pubs, NEW n \in Claims,
           attempt' = [attempt EXCEPT ![p] = AbandonAll(p)]
    PROVE  /\ attempt'[p][n] \notin {"PREPARED", "DISPATCHED"}
           /\ attempt'[p][n] = attempt[p][n] \/ attempt'[p][n] = "ABANDONED"
           /\ attempt'[p][n] = "NONE" <=> attempt[p][n] = "NONE"
           /\ attempt[p][n] = "ABANDONED" => attempt'[p][n] = "ABANDONED"
           /\ attempt[p][n] \in {"DISPATCHED", "RECEIPT_RECORDED", "ABANDONED"} =>
                attempt'[p][n] \in {"RECEIPT_RECORDED", "ABANDONED"}
BY DEF TypeOK, AbandonAll, AttemptStatuses

\* When the open attempts of an item are abandoned and its claim is released,
\* nothing a worker or an operator relies on is lost.
LEMMA AbandonedWorker ==
    ASSUME PipelineInv, NEW p \in Pubs, NEW item,
           outbox' = [outbox EXCEPT ![p] = item], item.claims = outbox[p].claims,
           attempt' = [attempt EXCEPT ![p] = AbandonAll(p)],
           NEW v \in Workers, run'[v] = run[v]
    PROVE  WorkerOK(v)'
<1>1. WorkerOK(v) /\ run[v] \in RunRows /\ outbox'[p] = item
  BY DEF PipelineInv, TypeOK, WorkerInv
<1>2. CASE run[v].pub = p /\ run[v].claim # 0
  <2>1. run[v].claim \in Claims
    BY <1>1, <1>2, AtClaim DEF WorkerOK
  <2> DEFINE n == run[v].claim
  <2>2. /\ attempt[p][n] = "NONE" => attempt'[p][n] = "NONE"
        /\ attempt[p][n] = "ABANDONED" => attempt'[p][n] = "ABANDONED"
        /\ attempt'[p][n] # "PREPARED"
    BY <2>1, AbandonAllFields DEF PipelineInv
  <2> QED BY <1>1, <1>2, <2>2 DEF WorkerOK
<1>3. CASE run[v].pub # p
  BY <1>1, <1>3 DEF PipelineInv, TypeOK, WorkerOK
<1>4. CASE run[v].claim = 0
  BY <1>1, <1>4 DEF WorkerOK
<1> QED BY <1>2, <1>3, <1>4

\* ... and no receipt decided against such an attempt can commit any more.
LEMMA AbandonedOperator ==
    ASSUME PipelineInv, NEW p \in Pubs,
           \A q \in Pubs \ {p} : publication'[q] = publication[q],
           attempt' = [attempt EXCEPT ![p] = AbandonAll(p)],
           NEW o \in Operators, op'[o] = op[o]
    PROVE  OperatorOK(o)'
<1>1. OperatorOK(o)
  BY DEF PipelineInv, OperatorInv
<1>2. CASE op[o].pub = p /\ op[o].step = "RECEIPT"
  <2>1. op[o].claim \in Claims
        /\ attempt[p][op[o].claim] \in {"DISPATCHED", "RECEIPT_RECORDED", "ABANDONED"}
    BY <1>1, <1>2 DEF OperatorOK
  <2>2. attempt'[p][op[o].claim] \in {"RECEIPT_RECORDED", "ABANDONED"}
    BY <2>1, AbandonAllFields DEF PipelineInv
  <2> QED BY <1>1, <1>2, <2>1, <2>2 DEF OperatorOK
<1>3. CASE op[o].pub # p
  BY <1>1, <1>3 DEF PipelineInv, TypeOK, OperatorOK
<1>4. CASE op[o].step # "RECEIPT"
  BY <1>1, <1>4 DEF OperatorOK
<1> QED BY <1>2, <1>3, <1>4

\* A recovered claim is released and its open attempts are abandoned with it.
LEMMA SweepRowInv ==
    ASSUME NEW w \in Workers, NEW p \in Pubs, PipelineInv, SweepRow(w, p)
    PROVE  PipelineInv'
<1> DEFINE todo == [run[w].todo EXCEPT ![p] = 0]
           r == IF \A q \in Pubs : todo[q] = 0 THEN Idle ELSE [run[w] EXCEPT !.todo = todo]
<1>1. r \in RunRows /\ r.claim = 0 /\ r.step \in {"IDLE", "SWEEP"}
  <2>1. run[w] \in RunRows /\ run[w].step = "SWEEP" /\ run[w].claim = 0
    BY DEF PipelineInv, TypeOK, WorkerInv, WorkerOK, SweepRow
  <2>2. todo \in [Pubs -> Tokens]
    BY <2>1, NoClaimType DEF RunRows
  <2>3. [run[w] EXCEPT !.todo = todo] \in RunRows
        /\ [run[w] EXCEPT !.todo = todo].claim = 0
        /\ [run[w] EXCEPT !.todo = todo].step = "SWEEP"
    BY <2>1, <2>2 DEF RunRows
  <2> QED BY <2>3, IdleType DEF Idle
<1>2. run' = [run EXCEPT ![w] = r]
  BY DEF SweepRow
<1> HIDE DEF r
<1>3. run'[w] = r
  BY <1>2 DEF PipelineInv, TypeOK
<1>4. WorkerOK(w)'
  BY <1>1, <1>3 DEF WorkerOK
<1>5. CASE UNCHANGED <<outbox, attempt>>
  BY <1>1, <1>2, <1>4, <1>5, WorkerMoves DEF SweepRow, rows
<1>6. CASE /\ Expired(p, run[w].at)
           /\ outbox' = [outbox EXCEPT ![p] =
                [Released(@, "RETRYABLE") EXCEPT !.availableAt = run[w].at]]
           /\ attempt' = [attempt EXCEPT ![p] = AbandonAll(p)]
  <2> DEFINE item == [Released(outbox[p], "RETRYABLE") EXCEPT !.availableAt = run[w].at]
  <2>1. outbox[p] \in OutboxRows /\ outbox[p].status = "PROCESSING"
    BY <1>6 DEF PipelineInv, TypeOK, Expired
  <2>2. item \in OutboxRows /\ item.claims = outbox[p].claims /\ item.status = "RETRYABLE"
        /\ item.token = 0 /\ item.lease = 0 /\ item.payload = outbox[p].payload
    <3>1. Released(outbox[p], "RETRYABLE") \in OutboxRows
      BY <2>1, ReleasedType DEF OutboxStatuses
    <3>2. run[w].at \in Nat
      BY DEF PipelineInv, TypeOK, RunRows
    <3> QED BY <2>1, <3>1, <3>2, ReleasedFields DEF OutboxRows, OutboxStatuses
  <2>3. outbox' = [outbox EXCEPT ![p] = item] /\ outbox'[p] = item
    BY <1>6 DEF PipelineInv, TypeOK
  <2> HIDE DEF item
  <2>4. TypeOK'
    <3>1. attempt' \in [Pubs -> [Claims -> AttemptStatuses]]
      BY <1>6, AbandonAllType DEF PipelineInv
    <3>2. outbox' \in [Pubs -> OutboxRows] /\ run' \in [Workers -> RunRows]
      BY <1>1, <1>2, <2>2, <2>3 DEF PipelineInv, TypeOK
    <3> QED BY <3>1, <3>2 DEF PipelineInv, TypeOK, SweepRow
  <2>5. \A n \in Claims : AttemptOK(p, n)'
    <3>1. ASSUME NEW n \in Claims PROVE AttemptOK(p, n)'
      BY <1>6, <2>2, <2>3, AbandonAllFields DEF PipelineInv, RowInv, AttemptOK
    <3> QED BY <3>1
  <2>6. ItemOK(p)' /\ VerdictOK(p)'
    BY <2>1, <2>2, <2>3 DEF PipelineInv, RowInv, ItemOK, VerdictOK, SweepRow
  <2>7. RowInv'
    BY <1>6, <2>3, <2>5, <2>6, OtherRows DEF SweepRow, PipelineInv, TypeOK
  <2>8. WorkerInv'
    <3>1. ClaimIsOneWorkers'
      BY <1>1, <1>2 DEF PipelineInv, TypeOK, WorkerInv, ClaimIsOneWorkers
    <3>2. ASSUME NEW v \in Workers, v # w PROVE WorkerOK(v)'
      BY <1>2, <1>6, <2>2, <2>3, <3>2, AbandonedWorker DEF PipelineInv, TypeOK
    <3> QED BY <1>4, <3>1, <3>2 DEF WorkerInv
  <2>9. OperatorInv'
    <3>1. ASSUME NEW o \in Operators PROVE OperatorOK(o)'
      BY <1>6, AbandonedOperator DEF SweepRow
    <3> QED BY <3>1 DEF OperatorInv
  <2> QED BY <2>4, <2>7, <2>8, <2>9 DEF PipelineInv
<1> QED BY <1>5, <1>6 DEF SweepRow
\* A worker's own step on an item it may have claimed: the claim is released or
\* the item is left alone, and the run is over.
LEMMA ReleaseAndStop ==
    ASSUME PipelineInv, NEW w \in Workers, NEW p \in Pubs, NEW item \in OutboxRows,
           UNCHANGED <<now, publication, attempt, receipts, sent, op>>,
           outbox' = [outbox EXCEPT ![p] = item], run' = [run EXCEPT ![w] = Idle],
           outbox[p].status = "PROCESSING",
           run[w].pub = p, run[w].claim = outbox[p].token,
           item.claims = outbox[p].claims, item.status # "PROCESSING",
           ItemOK(p)', VerdictOK(p)', \A n \in Claims : AttemptOK(p, n)'
    PROVE  PipelineInv'
<1>1. TypeOK'
  BY IdleType DEF PipelineInv, TypeOK
<1>2. RowInv'
  BY OtherRows DEF PipelineInv, TypeOK
<1>3. WorkerInv'
  <2>1. ClaimIsOneWorkers'
    BY DEF PipelineInv, TypeOK, WorkerInv, ClaimIsOneWorkers, Idle
  <2>2. ASSUME NEW v \in Workers, v # w PROVE WorkerOK(v)'
    <3>1. run'[v] = run[v] /\ WorkerOK(v)
      BY <2>2 DEF PipelineInv, TypeOK, WorkerInv
    <3>2. CASE run[v].pub # p
      BY <3>1, <3>2 DEF PipelineInv, TypeOK, WorkerOK
    <3>3. CASE run[v].pub = p /\ run[v].claim # 0
      <4>1. outbox[p].token # run[v].claim
        BY <2>2, <3>3 DEF PipelineInv, WorkerInv, ClaimIsOneWorkers
      <4>2. outbox'[p] = item
        BY DEF PipelineInv, TypeOK
      <4> QED BY <3>1, <3>3, <4>1, <4>2 DEF WorkerOK
    <3>4. CASE run[v].claim = 0
      BY <3>1, <3>4 DEF WorkerOK
    <3> QED BY <3>2, <3>3, <3>4
  <2>3. WorkerOK(w)'
    BY DEF PipelineInv, TypeOK, WorkerOK, Idle
  <2> QED BY <2>1, <2>2, <2>3 DEF WorkerInv
<1>4. OperatorInv'
  BY DEF PipelineInv, OperatorInv, OperatorOK
<1> QED BY <1>1, <1>2, <1>3, <1>4 DEF PipelineInv

\* Completing a claim needs no receipt and keeps the body.
LEMMA CompleteClaimInv == ASSUME NEW w \in Workers, PipelineInv, CompleteClaim(w)
                          PROVE  PipelineInv'
<1>1. PICK p \in Pubs : p = run[w].pub /\ run[w].claim \in Claims
  BY AtClaim DEF CompleteClaim
<1> DEFINE item == Released(outbox[p], "COMPLETED")
<1>2. CASE UNCHANGED outbox
  BY <1>2, WorkerStops DEF CompleteClaim, rows
<1>3. CASE /\ outbox[p].status = "PROCESSING" /\ outbox[p].token = run[w].claim
           /\ outbox' = [outbox EXCEPT ![p] = item]
  <2>1. item \in OutboxRows /\ item.claims = outbox[p].claims /\ item.status = "COMPLETED"
        /\ item.token = 0 /\ item.lease = 0 /\ item.payload = outbox[p].payload
    BY <1>1, ReleasedType, ReleasedFields DEF PipelineInv, TypeOK, OutboxStatuses
  <2>2. outbox'[p] = item
    BY <1>1, <1>3 DEF PipelineInv, TypeOK
  <2> HIDE DEF item
  <2>3. ItemOK(p)' /\ VerdictOK(p)'
    BY <1>1, <1>3, <2>1, <2>2 DEF CompleteClaim, PipelineInv, RowInv, ItemOK, VerdictOK
  <2>4. ASSUME NEW n \in Claims PROVE AttemptOK(p, n)'
    <3>1. attempt[p][n] # "DISPATCHED"
      BY <1>1, <1>3 DEF CompleteClaim, PipelineInv, RowInv, ItemOK, AttemptOK, WorkerInv, WorkerOK
    <3> QED BY <1>1, <2>1, <2>2, <3>1 DEF CompleteClaim, PipelineInv, RowInv, AttemptOK
  <2> QED BY <1>1, <1>3, <2>1, <2>3, <2>4, ReleaseAndStop DEF CompleteClaim
<1> QED BY <1>1, <1>2, <1>3 DEF CompleteClaim

\* The holder of a claim releases it; a token that lost it changes nothing.
LEMMA ResolveClaimInv == ASSUME NEW w \in Workers, PipelineInv, ResolveClaim(w)
                         PROVE  PipelineInv'
<1>1. PICK p \in Pubs : p = run[w].pub /\ run[w].claim \in Claims
  BY AtClaim DEF ResolveClaim
<1>2. PICK goal \in {"RETRYABLE", "DEAD_LETTER"} : goal = run[w].goal
  BY DEF ResolveClaim, PipelineInv, TypeOK, RunRows, Goals, WorkerInv, WorkerOK
<1> DEFINE item == Resolved(outbox[p], goal, run[w].at)
<1>3. CASE UNCHANGED outbox
  BY <1>3, WorkerStops DEF ResolveClaim, rows
<1>4. CASE /\ outbox[p].status = "PROCESSING" /\ outbox[p].token = run[w].claim
           /\ outbox' = [outbox EXCEPT ![p] = item]
  <2>1. item \in OutboxRows /\ item.claims = outbox[p].claims /\ item.status = goal
        /\ item.token = 0 /\ item.lease = 0 /\ item.payload = outbox[p].payload
    <3>1. outbox[p] \in OutboxRows /\ goal \in OutboxStatuses
      BY <1>1, <1>2 DEF PipelineInv, TypeOK, OutboxStatuses
    <3>2. run[w].at + RetryDelay \in Nat
      BY BoundAssumption DEF PipelineInv, TypeOK, RunRows
    <3> QED BY <3>1, <3>2, ReleasedType, ReleasedFields DEF Resolved, OutboxRows
  <2>2. outbox'[p] = item
    BY <1>1, <1>4 DEF PipelineInv, TypeOK
  <2> HIDE DEF item
  <2>3. ItemOK(p)'
    BY <1>1, <1>2, <1>4, <2>1, <2>2 DEF ResolveClaim, PipelineInv, RowInv, ItemOK
  <2>4. VerdictOK(p)'
    BY <1>1, <1>2, <1>4, <2>1, <2>2 DEF ResolveClaim, PipelineInv, RowInv, VerdictOK
  <2>5. ASSUME NEW n \in Claims PROVE AttemptOK(p, n)'
    <3>1. goal = "RETRYABLE" => attempt[p][n] # "DISPATCHED"
      <4>1. ItemOK(p) /\ AttemptOK(p, n) /\ WorkerOK(w)
        BY <1>1 DEF PipelineInv, RowInv, WorkerInv
      <4> QED BY <1>1, <1>2, <1>4, <4>1 DEF ResolveClaim, ItemOK, AttemptOK, WorkerOK
    <3>2. AttemptOK(p, n)
      BY <1>1 DEF PipelineInv, RowInv
    <3> QED BY <1>1, <1>2, <2>1, <2>2, <3>1, <3>2 DEF ResolveClaim, AttemptOK
  <2> QED BY <1>1, <1>2, <1>4, <2>1, <2>3, <2>4, <2>5, ReleaseAndStop DEF ResolveClaim
<1> QED BY <1>1, <1>2, <1>3, <1>4 DEF ResolveClaim
------------------------------------------------------------------------------
\* A new claim has a number no worker and no attempt has used.
LEMMA ClaimItemInv == ASSUME NEW w \in Workers, PipelineInv, ClaimItem(w)
                      PROVE  PipelineInv'
<1>1. PICK p \in Pubs : /\ p = run[w].pub
                       /\ run[w] \in RunRows /\ outbox[p] \in OutboxRows
  BY DEF ClaimItem, PipelineInv, TypeOK, WorkerInv, WorkerOK
<1> DEFINE n == outbox[p].claims + 1
           item == Claimed(outbox[p], run[w].at)
           r == [run[w] EXCEPT !.step = "PREPARE", !.claim = n]
<1>2. CASE UNCHANGED outbox /\ run' = [run EXCEPT ![w] = Idle]
  BY <1>2, WorkerStops DEF ClaimItem, rows
<1>3. CASE /\ Due(p, run[w].at) /\ outbox[p].claims < MaxClaims
           /\ outbox' = [outbox EXCEPT ![p] = item]
           /\ run' = [run EXCEPT ![w] = r]
  <2>1. /\ outbox[p].claims \in Nat /\ n \in Claims /\ n \in Tokens
        /\ outbox[p].status \in {"PENDING", "RETRYABLE"}
    BY <1>1, <1>3, BoundAssumption DEF OutboxRows, Tokens, Claims, Due, Claimable
  <2>2. run[w].at + LeaseDuration \in Nat /\ run[w].at + LeaseDuration # 0
    BY <1>1, LeaseAssumption DEF RunRows
  <2>3. item \in OutboxRows /\ item.claims = n /\ item.status = "PROCESSING"
        /\ item.token = n /\ item.lease # 0 /\ item.payload = outbox[p].payload
    BY <1>1, <2>1, <2>2 DEF Claimed, OutboxRows, OutboxStatuses
  <2>4. r \in RunRows /\ r.claim = n /\ r.step = "PREPARE" /\ r.pub = p
    BY <1>1, <2>1 DEF RunRows, RunSteps
  <2>5. outbox'[p] = item /\ run'[w] = r
    BY <1>1, <1>3 DEF PipelineInv, TypeOK
  <2> HIDE DEF item, r
  <2>6. TypeOK'
    BY <1>3, <2>3, <2>4 DEF ClaimItem, PipelineInv, TypeOK
  <2>7. RowInv'
    <3>1. ItemOK(p)'
      BY <1>1, <2>1, <2>3, <2>5 DEF ClaimItem, PipelineInv, RowInv, ItemOK
    <3>2. VerdictOK(p)'
      BY <1>1, <2>1, <2>3, <2>5 DEF ClaimItem, PipelineInv, RowInv, VerdictOK
    <3>3. ASSUME NEW m \in Claims PROVE AttemptOK(p, m)'
      <4>1. AttemptOK(p, m) /\ m \in Nat
        BY <1>1 DEF PipelineInv, RowInv, Claims
      <4>2. attempt[p][m] # "DISPATCHED"
        BY <2>1, <4>1 DEF AttemptOK
      <4> QED BY <2>1, <2>3, <2>5, <4>1, <4>2 DEF ClaimItem, AttemptOK
    <3> QED BY <1>1, <1>3, <3>1, <3>2, <3>3, OtherRows DEF ClaimItem, PipelineInv, TypeOK
  <2>8. WorkerInv'
    <3>1. ASSUME NEW v \in Workers, v # w
          PROVE  WorkerOK(v)' /\ (run[v].pub = p => run[v].claim # n)
                 /\ run'[v] = run[v]
      <4>1. run'[v] = run[v] /\ WorkerOK(v)
        BY <1>3, <3>1 DEF PipelineInv, TypeOK, WorkerInv
      <4>2. CASE run[v].pub # p
        BY <1>3, <4>1, <4>2 DEF ClaimItem, PipelineInv, TypeOK, WorkerOK
      <4>3. CASE run[v].pub = p /\ run[v].claim # 0
        <5>1. run[v].claim \in Claims
          BY <4>1, <4>3, AtClaim DEF WorkerOK
        <5>2. run[v].claim <= outbox[p].claims /\ run[v].claim \in Nat
          BY <4>1, <4>3, <5>1 DEF WorkerOK, Claims
        <5>3. run[v].claim # n /\ run[v].claim <= n
          BY <2>1, <5>2
        <5> QED BY <2>1, <2>3, <2>5, <4>1, <4>3, <5>3 DEF ClaimItem, WorkerOK
      <4>4. CASE run[v].claim = 0
        BY <2>1, <4>1, <4>4 DEF WorkerOK, Claims
      <4> QED BY <4>2, <4>3, <4>4
    <3>2. ClaimIsOneWorkers'
      BY <2>4, <2>5, <3>1 DEF PipelineInv, WorkerInv, ClaimIsOneWorkers
    <3>3. WorkerOK(w)'
      <4>1. attempt[p][n] = "NONE"
        BY <1>1, <2>1 DEF PipelineInv, RowInv, AttemptOK
      <4> QED BY <1>1, <2>1, <2>3, <2>4, <2>5, <4>1 DEF ClaimItem, WorkerOK, Claims
    <3> QED BY <3>1, <3>2, <3>3 DEF WorkerInv
  <2>9. OperatorInv'
    BY DEF ClaimItem, PipelineInv, OperatorInv, OperatorOK
  <2> QED BY <2>6, <2>7, <2>8, <2>9 DEF PipelineInv
<1>4. \/ UNCHANGED outbox /\ run' = [run EXCEPT ![w] = Idle]
      \/ /\ Due(p, run[w].at) /\ outbox[p].claims < MaxClaims
         /\ outbox' = [outbox EXCEPT ![p] = item]
         /\ run' = [run EXCEPT ![w] = r]
  BY <1>1 DEF ClaimItem
<1> QED BY <1>2, <1>3, <1>4

\* One worker writes the status of its own attempt.
LEMMA OwnAttempt ==
    ASSUME PipelineInv, NEW w \in Workers, NEW p \in Pubs, NEW n \in Claims,
           NEW status \in AttemptStatuses \ {"NONE"}, NEW r \in RunRows,
           UNCHANGED <<now, publication, outbox, receipts, sent, op>>,
           run[w].pub = p, run[w].claim = n,
           attempt' = [attempt EXCEPT ![p] = [@ EXCEPT ![n] = status]],
           run' = [run EXCEPT ![w] = r],
           \/ r.claim = 0
           \/ r.claim = n /\ r.pub = p,
           attempt[p][n] \in {"NONE", "PREPARED"} \/ status = "ABANDONED",
           AttemptOK(p, n)', WorkerOK(w)'
    PROVE  PipelineInv'
<1>1. TypeOK'
  BY DEF PipelineInv, TypeOK
<1>2. /\ attempt'[p][n] = status
      /\ \A q \in Pubs, m \in Claims :
            q # p \/ m # n => attempt'[q][m] = attempt[q][m]
  BY DEF PipelineInv, TypeOK
<1>3. RowInv'
  <2>1. ASSUME NEW q \in Pubs, NEW m \in Claims PROVE AttemptOK(q, m)'
    BY <1>2 DEF PipelineInv, RowInv, AttemptOK
  <2>2. ASSUME NEW q \in Pubs PROVE ItemOK(q)' /\ VerdictOK(q)'
    BY DEF PipelineInv, RowInv, ItemOK, VerdictOK
  <2> QED BY <2>1, <2>2 DEF RowInv
<1>4. WorkerInv'
  <2>1. ClaimIsOneWorkers'
    BY DEF PipelineInv, TypeOK, WorkerInv, ClaimIsOneWorkers
  <2>2. ASSUME NEW v \in Workers, v # w PROVE WorkerOK(v)'
    <3>1. run'[v] = run[v] /\ WorkerOK(v)
      BY <2>2 DEF PipelineInv, TypeOK, WorkerInv
    <3>2. CASE run[v].claim = 0
      BY <3>1, <3>2 DEF WorkerOK
    <3>3. CASE run[v].claim # 0
      <4>1. run[v].pub \in Pubs /\ run[v].claim \in Claims
        BY <3>1, <3>3, AtClaim DEF WorkerOK
      <4>2. run[v].pub # p \/ run[v].claim # n
        BY <2>2, <3>3 DEF PipelineInv, WorkerInv, ClaimIsOneWorkers
      <4> QED BY <1>2, <3>1, <4>1, <4>2 DEF WorkerOK
    <3> QED BY <3>2, <3>3
  <2> QED BY <2>1, <2>2 DEF WorkerInv
<1>5. OperatorInv'
  <2>1. ASSUME NEW o \in Operators PROVE OperatorOK(o)'
    BY <1>2 DEF PipelineInv, OperatorInv, OperatorOK
  <2> QED BY <2>1 DEF OperatorInv
<1> QED BY <1>1, <1>3, <1>4, <1>5 DEF PipelineInv

\* The new attempt belongs to the worker's own claim, current or lost.
LEMMA CreateAttemptInv == ASSUME NEW w \in Workers, PipelineInv, CreateAttempt(w)
                          PROVE  PipelineInv'
<1>1. PICK p \in Pubs, n \in Claims :
        p = run[w].pub /\ n = run[w].claim /\ run[w] \in RunRows /\ n # 0
  BY AtClaim DEF CreateAttempt, PipelineInv, TypeOK, Claims
<1> DEFINE r == [run[w] EXCEPT !.step = "DISPATCH"]
<1>2. CASE UNCHANGED attempt /\ run' = [run EXCEPT ![w] = Idle]
  BY <1>2, WorkerStops DEF CreateAttempt, rows
<1>3. CASE /\ attempt[p][n] = "NONE"
           /\ attempt' = [attempt EXCEPT ![p] = [@ EXCEPT ![n] = "PREPARED"]]
           /\ run' = [run EXCEPT ![w] = r]
  <2>1. r \in RunRows /\ r.claim = n /\ r.pub = p /\ r.step = "DISPATCH"
    BY <1>1 DEF RunRows, RunSteps
  <2>2. run'[w] = r /\ attempt'[p][n] = "PREPARED"
    BY <1>1, <1>3 DEF PipelineInv, TypeOK
  <2> HIDE DEF r
  <2>3. n <= outbox[p].claims
    BY <1>1 DEF PipelineInv, WorkerInv, WorkerOK
  <2>4. AttemptOK(p, n)'
    BY <2>2, <2>3 DEF CreateAttempt, AttemptOK
  <2>5. WorkerOK(w)'
    BY <1>1, <2>1, <2>2, <2>3 DEF CreateAttempt, WorkerOK
  <2>6. "PREPARED" \in AttemptStatuses \ {"NONE"}
    BY DEF AttemptStatuses
  <2> QED BY <1>1, <1>3, <2>1, <2>4, <2>5, <2>6, OwnAttempt DEF CreateAttempt
<1> QED BY <1>1, <1>2, <1>3 DEF CreateAttempt

\* Only an attempt of the claim that still holds the item is marked: whoever
\* took the claim abandoned the attempt with it.
LEMMA MarkDispatchedInv == ASSUME NEW w \in Workers, PipelineInv, MarkDispatched(w)
                           PROVE  PipelineInv'
<1>1. PICK p \in Pubs, n \in Claims :
        p = run[w].pub /\ n = run[w].claim /\ run[w] \in RunRows /\ n # 0
  BY AtClaim DEF MarkDispatched, PipelineInv, TypeOK, Claims
<1> DEFINE r == IF run[w].goal = "NOTHING" THEN Idle ELSE [run[w] EXCEPT !.step = "RESOLVE"]
<1>2. CASE UNCHANGED attempt /\ run' = [run EXCEPT ![w] = Idle]
  BY <1>2, WorkerStops DEF MarkDispatched, rows
<1>3. CASE /\ attempt[p][n] = "PREPARED"
           /\ attempt' = [attempt EXCEPT ![p] = [@ EXCEPT ![n] = "DISPATCHED"]]
           /\ run' = [run EXCEPT ![w] = r]
  <2>1. r \in RunRows /\ (\/ r = Idle
                          \/ /\ r.claim = n /\ r.pub = p /\ r.step = "RESOLVE"
                             /\ r.goal # "NOTHING" /\ r.goal = run[w].goal)
    BY <1>1, IdleType DEF RunRows, RunSteps
  <2>2. run'[w] = r /\ attempt'[p][n] = "DISPATCHED"
    BY <1>1, <1>3 DEF PipelineInv, TypeOK
  <2> HIDE DEF r
  <2>3. /\ n <= outbox[p].claims
        /\ outbox[p].status = "PROCESSING" /\ outbox[p].token = n
        /\ run[w].goal # "RETRYABLE"
    BY <1>1, <1>3 DEF MarkDispatched, PipelineInv, WorkerInv, WorkerOK
  <2>4. /\ n = outbox[p].claims
        /\ publication[p].remediation \notin {"CLOSED", "RESOLVED"}
        /\ publication[p].registration # "REJECTED"
    BY <1>1, <2>3 DEF PipelineInv, RowInv, ItemOK, VerdictOK
  <2>5. AttemptOK(p, n)'
    BY <2>2, <2>3, <2>4 DEF MarkDispatched, AttemptOK
  <2>6. WorkerOK(w)'
    BY <1>1, <2>1, <2>2, <2>3 DEF MarkDispatched, WorkerOK, Idle
  <2>7. "DISPATCHED" \in AttemptStatuses \ {"NONE"} /\ Idle.claim = 0
    BY DEF AttemptStatuses, Idle
  <2> QED BY <1>1, <1>3, <2>1, <2>5, <2>6, <2>7, OwnAttempt DEF MarkDispatched
<1> QED BY <1>1, <1>2, <1>3 DEF MarkDispatched

\* The worker retires an attempt that never left.
LEMMA AbandonAttemptInv == ASSUME NEW w \in Workers, PipelineInv, AbandonAttempt(w)
                           PROVE  PipelineInv'
<1>1. PICK p \in Pubs, n \in Claims :
        p = run[w].pub /\ n = run[w].claim /\ run[w] \in RunRows /\ n # 0
  BY AtClaim DEF AbandonAttempt, PipelineInv, TypeOK, Claims
<1> DEFINE r == [run[w] EXCEPT !.step = "RESOLVE"]
<1>2. r \in RunRows /\ r.claim = n /\ r.pub = p /\ r.step = "RESOLVE"
      /\ r.goal = run[w].goal /\ run' = [run EXCEPT ![w] = r]
  BY <1>1 DEF RunRows, RunSteps, AbandonAttempt
<1> HIDE DEF r
<1>3. run'[w] = r /\ attempt'[p][n] = "ABANDONED"
  BY <1>1, <1>2 DEF PipelineInv, TypeOK, AbandonAttempt
<1>4. n <= outbox[p].claims /\ run[w].goal # "NOTHING"
  BY <1>1 DEF AbandonAttempt, PipelineInv, WorkerInv, WorkerOK
<1>5. AttemptOK(p, n)'
  BY <1>3, <1>4 DEF AbandonAttempt, AttemptOK
<1>6. WorkerOK(w)'
  BY <1>1, <1>2, <1>3, <1>4 DEF AbandonAttempt, WorkerOK
<1>7. "ABANDONED" \in AttemptStatuses \ {"NONE"}
  BY DEF AttemptStatuses
<1>8. /\ UNCHANGED <<now, publication, outbox, receipts, sent, op>>
      /\ attempt' = [attempt EXCEPT ![p] = [@ EXCEPT ![n] = "ABANDONED"]]
  BY <1>1 DEF AbandonAttempt
<1> QED BY <1>1, <1>2, <1>5, <1>6, <1>7, <1>8, OwnAttempt

------------------------------------------------------------------------------
\* A receipt's verdict

\* What a receipt decides has the type of a publication row.
LEMMA DecideOutcomeType ==
    ASSUME NEW status \in {"ACCEPTED", "REJECTED"}, NEW matched \in BOOLEAN
    PROVE  /\ DecideOutcome(status, matched).publication \in PublicationRows
           /\ DecideOutcome(status, matched).target \in {"NONE", "COMPLETED", "DEAD_LETTER"}
BY DEF DecideOutcome, Verdict, PublicationRows, RegistrationStates,
       ReconciliationStates, RemediationStates

\* The three things a receipt can decide.
LEMMA DecideOutcomeCases ==
    ASSUME NEW status \in {"ACCEPTED", "REJECTED"}, NEW matched \in BOOLEAN,
           NEW pub, pub = DecideOutcome(status, matched).publication,
           NEW target, target = DecideOutcome(status, matched).target
    PROVE  \/ /\ ~matched /\ target = "NONE"
              /\ pub.registration = "PENDING" /\ pub.reconciliation = "MISMATCH"
              /\ pub.remediation = "REQUIRED"
           \/ /\ matched /\ status = "ACCEPTED" /\ target = "COMPLETED"
              /\ pub.registration = "ACCEPTED" /\ pub.remediation = "RESOLVED"
           \/ /\ matched /\ status = "REJECTED" /\ target = "DEAD_LETTER"
              /\ pub.registration = "REJECTED" /\ pub.remediation = "REQUIRED"
BY DEF DecideOutcome, Verdict

\* What a receipt does to the item, field by field.
LEMMA DecidedFields ==
    ASSUME NEW item \in OutboxRows, NEW target \in {"NONE", "COMPLETED", "DEAD_LETTER"}
    PROVE  /\ Decided(item, target) \in OutboxRows
           /\ Decided(item, target).claims = item.claims
           /\ target = "NONE" => Decided(item, target) = item
           /\ target # "NONE" => /\ Decided(item, target).status = target
                                 /\ Decided(item, target).token = 0
                                 /\ Decided(item, target).lease = 0
           /\ target = "COMPLETED" => Decided(item, target).payload = FALSE
           /\ target = "DEAD_LETTER" => Decided(item, target).payload = item.payload
<1>1. CASE target = "NONE"
  BY <1>1 DEF Decided
<1>2. CASE target # "NONE"
  <2> DEFINE rel == Released(item, target)
             payload == IF target = "COMPLETED" THEN FALSE ELSE item.payload
  <2>1. /\ rel \in OutboxRows /\ rel.status = target /\ rel.token = 0 /\ rel.lease = 0
        /\ rel.claims = item.claims /\ rel.payload = item.payload
    <3>1. target \in OutboxStatuses
      BY <1>2 DEF OutboxStatuses
    <3> QED BY <3>1, ReleasedType, ReleasedFields
  <2>2. payload \in BOOLEAN
    BY DEF OutboxRows
  <2>3. Decided(item, target) = [rel EXCEPT !.payload = payload]
    BY <1>2, <2>1 DEF Decided, OutboxRows
  <2> HIDE DEF rel, payload
  <2>4. /\ [rel EXCEPT !.payload = payload] \in OutboxRows
        /\ [rel EXCEPT !.payload = payload].status = rel.status
        /\ [rel EXCEPT !.payload = payload].token = rel.token
        /\ [rel EXCEPT !.payload = payload].lease = rel.lease
        /\ [rel EXCEPT !.payload = payload].claims = rel.claims
        /\ [rel EXCEPT !.payload = payload].payload = payload
    BY <2>1, <2>2 DEF OutboxRows
  <2> QED BY <1>2, <2>1, <2>3, <2>4 DEF payload
<1> QED BY <1>1, <1>2

\* A receipt commits only while its attempt is DISPATCHED, so the verdict it
\* decides on is current and the item is its claim's.
LEMMA CommitReceiptInv == ASSUME NEW o \in Operators, PipelineInv, CommitReceipt(o)
                          PROVE  PipelineInv'
<1>1. PICK p \in Pubs, n \in Claims, status \in {"ACCEPTED", "REJECTED"},
           matched \in BOOLEAN :
        /\ p = op[o].pub /\ n = op[o].claim
        /\ status = op[o].status /\ matched = op[o].matched
        /\ outbox[p] \in OutboxRows /\ attempt[p] \in [Claims -> AttemptStatuses]
  BY DEF CommitReceipt, PipelineInv, TypeOK, OpRows, OperatorInv, OperatorOK
<1> DEFINE pub == DecideOutcome(status, matched).publication
           target == DecideOutcome(status, matched).target
           item == Decided(outbox[p], target)
           receipt == [claim |-> n, status |-> status, matched |-> matched]
<1>2. CASE UNCHANGED rows
  BY <1>2, OperatorStops DEF CommitReceipt
<1>3. CASE /\ attempt[p][n] = "DISPATCHED"
           /\ receipts' = [receipts EXCEPT ![p] = @ \cup {receipt}]
           /\ publication' = [publication EXCEPT ![p] = pub]
           /\ outbox' = [outbox EXCEPT ![p] = item]
           /\ attempt' = [attempt EXCEPT ![p] = [@ EXCEPT ![n] = "RECEIPT_RECORDED"]]
  <2>1. /\ pub \in PublicationRows /\ target \in {"NONE", "COMPLETED", "DEAD_LETTER"}
        /\ item \in OutboxRows /\ item.claims = outbox[p].claims
        /\ receipt \in Receipts
        /\ receipt.status = status /\ receipt.matched = matched
    <3>1. /\ pub \in PublicationRows /\ target \in {"NONE", "COMPLETED", "DEAD_LETTER"}
      BY DecideOutcomeType
    <3> HIDE DEF target
    <3>2. item \in OutboxRows /\ item.claims = outbox[p].claims
      BY <1>1, <3>1, DecidedFields
    <3> QED BY <3>1, <3>2 DEF Receipts
  <2>2. \/ /\ ~matched /\ item = outbox[p]
           /\ pub.registration = "PENDING" /\ pub.reconciliation = "MISMATCH"
           /\ pub.remediation = "REQUIRED"
        \/ /\ matched /\ status = "ACCEPTED" /\ item.status = "COMPLETED"
           /\ item.token = 0 /\ item.lease = 0 /\ item.payload = FALSE
           /\ pub.registration = "ACCEPTED" /\ pub.remediation = "RESOLVED"
        \/ /\ matched /\ status = "REJECTED" /\ item.status = "DEAD_LETTER"
           /\ item.token = 0 /\ item.lease = 0 /\ item.payload = outbox[p].payload
           /\ pub.registration = "REJECTED" /\ pub.remediation = "REQUIRED"
    <3>1. \/ /\ ~matched /\ target = "NONE"
             /\ pub.registration = "PENDING" /\ pub.reconciliation = "MISMATCH"
             /\ pub.remediation = "REQUIRED"
          \/ /\ matched /\ status = "ACCEPTED" /\ target = "COMPLETED"
             /\ pub.registration = "ACCEPTED" /\ pub.remediation = "RESOLVED"
          \/ /\ matched /\ status = "REJECTED" /\ target = "DEAD_LETTER"
             /\ pub.registration = "REJECTED" /\ pub.remediation = "REQUIRED"
      BY DecideOutcomeCases
    <3> HIDE DEF target, pub
    <3>2. /\ target = "NONE" => item = outbox[p]
          /\ target # "NONE" => item.status = target /\ item.token = 0 /\ item.lease = 0
          /\ target = "COMPLETED" => item.payload = FALSE
          /\ target = "DEAD_LETTER" => item.payload = outbox[p].payload
      BY <1>1, <2>1, DecidedFields
    <3> QED BY <3>1, <3>2
  <2>3. /\ n = outbox[p].claims
        /\ outbox[p].status \in {"PROCESSING", "DEAD_LETTER"}
        /\ publication[p].remediation \notin {"CLOSED", "RESOLVED"}
        /\ publication[p].registration # "REJECTED"
        /\ ItemOK(p) /\ VerdictOK(p)
    BY <1>1, <1>3 DEF PipelineInv, RowInv, AttemptOK
  <2>4. /\ publication'[p] = pub /\ outbox'[p] = item
        /\ receipts'[p] = receipts[p] \cup {receipt}
        /\ attempt'[p][n] = "RECEIPT_RECORDED"
        /\ \A m \in Claims \ {n} : attempt'[p][m] = attempt[p][m]
        /\ \A q \in Pubs \ {p} :
             /\ publication'[q] = publication[q] /\ outbox'[q] = outbox[q]
             /\ receipts'[q] = receipts[q] /\ attempt'[q] = attempt[q]
    BY <1>1, <1>3 DEF PipelineInv, TypeOK
  <2>5. \A m \in Claims : attempt'[p][m] # "DISPATCHED"
    BY <1>1, <2>3, <2>4 DEF PipelineInv, RowInv, AttemptOK
  <2> HIDE DEF pub, item, target, receipt
  <2>6. TypeOK'
    <3>1. publication' \in [Pubs -> PublicationRows] /\ outbox' \in [Pubs -> OutboxRows]
      BY <1>3, <2>1 DEF PipelineInv, TypeOK
    <3>2. receipts' \in [Pubs -> SUBSET Receipts]
      BY <1>3, <2>1 DEF PipelineInv, TypeOK
    <3>3. attempt' \in [Pubs -> [Claims -> AttemptStatuses]]
      BY <1>1, <1>3 DEF PipelineInv, TypeOK, AttemptStatuses
    <3>4. op' \in [Operators -> OpRows]
      BY IdleOpType DEF PipelineInv, TypeOK, CommitReceipt
    <3> QED BY <3>1, <3>2, <3>3, <3>4 DEF PipelineInv, TypeOK, CommitReceipt
  <2>7. RowInv'
    <3>1. VerdictOK(p)'
      BY <2>2, <2>3, <2>4 DEF VerdictOK
    <3>2. ASSUME NEW m \in Claims PROVE AttemptOK(p, m)'
      <4>1. AttemptOK(p, m)
        BY <1>1 DEF PipelineInv, RowInv
      <4> QED BY <1>3, <2>1, <2>4, <2>5, <4>1 DEF AttemptOK
    <3>3. ItemOK(p)'
      <4>1. outbox[p].payload /\ ~ \E r \in receipts[p] : r.status = "ACCEPTED" /\ r.matched
        BY <2>3 DEF ItemOK
      <4>2. CASE matched /\ status = "ACCEPTED"
        <5>1. receipt \in receipts'[p] /\ receipt.status = "ACCEPTED" /\ receipt.matched
          BY <2>1, <2>4, <4>2
        <5> QED BY <2>2, <2>3, <2>4, <4>2, <5>1 DEF ItemOK
      <4>3. CASE ~(matched /\ status = "ACCEPTED")
        <5>1. ~ \E r \in receipts'[p] : r.status = "ACCEPTED" /\ r.matched
          BY <2>1, <2>4, <4>1, <4>3
        <5> QED BY <2>2, <2>3, <2>4, <4>1, <4>3, <5>1 DEF ItemOK
      <4> QED BY <4>2, <4>3
    <3> QED BY <1>1, <2>4, <3>1, <3>2, <3>3, OtherRows DEF PipelineInv
  <2>8. WorkerInv'
    <3>1. ClaimIsOneWorkers'
      BY DEF CommitReceipt, PipelineInv, WorkerInv, ClaimIsOneWorkers
    <3>2. ASSUME NEW v \in Workers PROVE WorkerOK(v)'
      <4>1. run'[v] = run[v] /\ WorkerOK(v)
        BY DEF CommitReceipt, PipelineInv, WorkerInv
      <4>2. CASE run[v].pub = p /\ run[v].claim # 0
        <5>1. run[v].claim \in Claims /\ AttemptOK(p, run[v].claim)
          BY <1>1, <4>1, <4>2, AtClaim DEF WorkerOK, PipelineInv, RowInv
        <5>2. run[v].step = "MARK" /\ attempt[p][run[v].claim] = "PREPARED" =>
                n = run[v].claim
          BY <2>3, <4>1, <4>2 DEF WorkerOK, ItemOK
        <5> QED BY <1>3, <2>1, <2>3, <2>4, <4>1, <4>2, <5>1, <5>2 DEF WorkerOK
      <4>3. CASE run[v].pub # p
        BY <2>4, <4>1, <4>3 DEF WorkerOK
      <4>4. CASE run[v].claim = 0
        BY <4>1, <4>4 DEF WorkerOK
      <4> QED BY <4>2, <4>3, <4>4
    <3> QED BY <3>1, <3>2 DEF WorkerInv
  <2>9. OperatorInv'
    <3>1. ASSUME NEW q \in Operators PROVE OperatorOK(q)'
      <4>1. OperatorOK(q) /\ (q # o => op'[q] = op[q])
        BY DEF CommitReceipt, PipelineInv, TypeOK, OperatorInv
      <4>2. CASE q = o
        BY <4>2 DEF CommitReceipt, PipelineInv, TypeOK, OperatorOK, IdleOp
      <4>3. CASE q # o /\ op[q].pub = p
        BY <2>4, <2>5, <4>1, <4>3 DEF OperatorOK
      <4>4. CASE q # o /\ op[q].pub # p
        BY <2>4, <4>1, <4>4 DEF OperatorOK
      <4> QED BY <4>2, <4>3, <4>4
    <3> QED BY <3>1 DEF OperatorInv
  <2> QED BY <2>6, <2>7, <2>8, <2>9 DEF PipelineInv
<1> QED BY <1>1, <1>2, <1>3 DEF CommitReceipt

------------------------------------------------------------------------------
\* A remediation decision

\* What a decision does to the publication, field by field.
LEMMA RemediatedFields ==
    ASSUME NEW pub \in PublicationRows, NEW action \in {"RETRY", "CLOSE"}
    PROVE  /\ Remediated(pub, action) \in PublicationRows
           /\ action = "RETRY" =>
                /\ Remediated(pub, action).registration = "PENDING"
                /\ Remediated(pub, action).remediation = "RETRY_AUTHORIZED"
           /\ action = "CLOSE" =>
                /\ Remediated(pub, action).registration = pub.registration
                /\ Remediated(pub, action).remediation = "CLOSED"
BY DEF Remediated, PublicationRows, RegistrationStates, ReconciliationStates, RemediationStates

\* What a decision does to the item, field by field.
LEMMA RemediatedItemFields ==
    ASSUME NEW item \in OutboxRows, NEW action \in {"RETRY", "CLOSE"}, NEW at \in Nat
    PROVE  /\ RemediatedItem(item, action, at) \in OutboxRows
           /\ RemediatedItem(item, action, at).claims = item.claims
           /\ RemediatedItem(item, action, at).token = 0
           /\ RemediatedItem(item, action, at).lease = 0
           /\ RemediatedItem(item, action, at).payload = item.payload
           /\ RemediatedItem(item, action, at).status =
                IF action = "RETRY" THEN "RETRYABLE" ELSE "DEAD_LETTER"
<1>1. CASE action = "RETRY"
  <2>1. Released(item, "RETRYABLE") \in OutboxRows
    BY ReleasedType DEF OutboxStatuses
  <2> QED BY <1>1, <2>1, ReleasedFields DEF RemediatedItem, OutboxRows, OutboxStatuses
<1>2. CASE action = "CLOSE"
  BY <1>2, ReleasedType, ReleasedFields DEF RemediatedItem, OutboxStatuses
<1> QED BY <1>1, <1>2

\* A decision abandons every open attempt, so no receipt that read the old
\* verdict can commit after it.
LEMMA CommitRemediationInv ==
    ASSUME NEW o \in Operators, PipelineInv, CommitRemediation(o)
    PROVE  PipelineInv'
<1>1. PICK p \in Pubs, action \in {"RETRY", "CLOSE"} :
        /\ p = op[o].pub /\ action = op[o].step /\ op[o].read.remediation = "REQUIRED"
        /\ publication[p] \in PublicationRows /\ outbox[p] \in OutboxRows
  BY DEF CommitRemediation, PipelineInv, TypeOK, OperatorInv, OperatorOK
<1> DEFINE pub == Remediated(publication[p], action)
<1>2. CASE UNCHANGED rows
  BY <1>2, OperatorStops DEF CommitRemediation
<1>3. ASSUME publication[p].remediation = op[o].read.remediation,
             publication' = [publication EXCEPT ![p] = pub],
             NEW at \in {now, now + RetryDelay},
             outbox' = [outbox EXCEPT ![p] = RemediatedItem(@, action, at)],
             attempt' = [attempt EXCEPT ![p] = AbandonAll(p)],
             UNCHANGED receipts
      PROVE  PipelineInv'
  <2> DEFINE item == RemediatedItem(outbox[p], action, at)
  <2>1. at \in Nat
    BY BoundAssumption DEF PipelineInv, TypeOK
  <2>2. /\ item \in OutboxRows /\ item.claims = outbox[p].claims
        /\ item.token = 0 /\ item.lease = 0 /\ item.payload = outbox[p].payload
        /\ item.status = IF action = "RETRY" THEN "RETRYABLE" ELSE "DEAD_LETTER"
    BY <1>1, <2>1, RemediatedItemFields, ZenonT(30)
  <2>3. /\ pub \in PublicationRows
        /\ action = "RETRY" =>
             pub.registration = "PENDING" /\ pub.remediation = "RETRY_AUTHORIZED"
        /\ action = "CLOSE" =>
             pub.registration = publication[p].registration /\ pub.remediation = "CLOSED"
    BY <1>1, RemediatedFields
  <2>4. /\ publication'[p] = pub /\ outbox'[p] = item
        /\ outbox' = [outbox EXCEPT ![p] = item]
        /\ \A q \in Pubs \ {p} :
             /\ publication'[q] = publication[q] /\ outbox'[q] = outbox[q]
             /\ receipts'[q] = receipts[q] /\ attempt'[q] = attempt[q]
    BY <1>1, <1>3 DEF PipelineInv, TypeOK
  <2>5. \A n \in Claims : /\ attempt'[p][n] # "DISPATCHED"
                          /\ attempt'[p][n] = "NONE" <=> attempt[p][n] = "NONE"
    BY <1>1, <1>3, AbandonAllFields DEF PipelineInv
  <2> HIDE DEF item, pub
  <2>6. TypeOK'
    <3>1. attempt' \in [Pubs -> [Claims -> AttemptStatuses]]
      BY <1>1, <1>3, AbandonAllType DEF PipelineInv
    <3>2. publication' \in [Pubs -> PublicationRows] /\ outbox' \in [Pubs -> OutboxRows]
      BY <1>3, <2>2, <2>3, <2>4 DEF PipelineInv, TypeOK
    <3>3. op' \in [Operators -> OpRows]
      BY IdleOpType DEF PipelineInv, TypeOK, CommitRemediation
    <3> QED BY <1>3, <3>1, <3>2, <3>3 DEF PipelineInv, TypeOK, CommitRemediation
  <2>7. RowInv'
    <3>1. ItemOK(p) /\ VerdictOK(p) /\ \A n \in Claims : AttemptOK(p, n)
      BY <1>1 DEF PipelineInv, RowInv
    <3>2. ItemOK(p)'
      BY <1>1, <1>3, <2>2, <2>3, <2>4, <3>1 DEF ItemOK, Unsubmitted
    <3>3. VerdictOK(p)'
      BY <1>1, <1>3, <2>2, <2>3, <2>4, <3>1 DEF VerdictOK
    <3>4. ASSUME NEW n \in Claims PROVE AttemptOK(p, n)'
      <4>1. AttemptOK(p, n) /\ outbox'[p].claims = outbox[p].claims
        BY <2>2, <2>4, <3>1
      <4>2. attempt'[p][n] # "DISPATCHED"
        BY <2>5
      <4>3. attempt'[p][n] # "NONE" => attempt[p][n] # "NONE"
        BY <2>5
      <4> QED BY <4>1, <4>2, <4>3 DEF AttemptOK
    <3> QED BY <1>1, <2>4, <3>2, <3>3, <3>4, OtherRows DEF PipelineInv
  <2>8. WorkerInv'
    <3>1. ClaimIsOneWorkers'
      BY DEF CommitRemediation, PipelineInv, WorkerInv, ClaimIsOneWorkers
    <3>2. ASSUME NEW v \in Workers PROVE WorkerOK(v)'
      BY <1>1, <1>3, <2>2, <2>4, AbandonedWorker DEF CommitRemediation
    <3> QED BY <3>1, <3>2 DEF WorkerInv
  <2>9. OperatorInv'
    <3>1. ASSUME NEW q \in Operators, q # o PROVE OperatorOK(q)'
      <4>1. op'[q] = op[q]
        BY <3>1 DEF CommitRemediation, PipelineInv, TypeOK
      <4> QED BY <1>1, <1>3, <2>4, <4>1, AbandonedOperator
    <3>2. OperatorOK(o)'
      BY DEF CommitRemediation, PipelineInv, TypeOK, OperatorOK, IdleOp
    <3> QED BY <3>1, <3>2 DEF OperatorInv
  <2> QED BY <2>6, <2>7, <2>8, <2>9 DEF PipelineInv
<1> QED BY <1>1, <1>2, <1>3 DEF CommitRemediation

------------------------------------------------------------------------------
\* The theorems

\* Every step keeps the invariant.
LEMMA NextInv == ASSUME PipelineInv, [Next]_vars PROVE PipelineInv'
<1>1. CASE UNCHANGED vars
  BY <1>1 DEF vars, PipelineInv, TypeOK, RowInv, ItemOK, VerdictOK, AttemptOK,
              WorkerInv, ClaimIsOneWorkers, WorkerOK, OperatorInv, OperatorOK
<1>2. CASE Tick
  BY <1>2, TickInv
<1>3. CASE \E p \in Pubs : PreparePublication(p) \/ CancelItem(p)
  BY <1>3, PreparePublicationInv, CancelItemInv
<1>4. ASSUME NEW w \in Workers, Sweep(w) PROVE PipelineInv'
  BY <1>4, SweepSelectInv, SweepRowInv DEF Sweep
<1>5. ASSUME NEW w \in Workers, RunOne(w) PROVE PipelineInv'
  BY <1>5, SelectItemInv, ClaimItemInv, PrepareCheckInv, CreateAttemptInv,
     DispatchCheckInv, SendInv, MarkCheckInv, MarkDispatchedInv,
     AbandonAttemptInv, ResolveClaimInv DEF RunOne
<1>6. ASSUME NEW w \in Workers, CompleteClaim(w) \/ Crash(w) PROVE PipelineInv'
  BY <1>6, CompleteClaimInv, CrashInv
<1>7. ASSUME NEW o \in Operators, Operator(o) PROVE PipelineInv'
  BY <1>7, ReceiveReceiptInv, DecideRemediationInv, CommitReceiptInv,
     CommitRemediationInv, CrashOperatorInv DEF Operator
<1> QED BY <1>1, <1>2, <1>3, <1>4, <1>5, <1>6, <1>7 DEF Next, Worker

\* The rows, the workers and the operators agree in every reachable state: the
\* inductive invariant behind everything below.
THEOREM PipelineInvariance == Spec => []PipelineInv
BY InitInv, NextInv, PTL DEF Spec

\* Lock token, lease, status and body of an item stay within the row contract
\* across every interleaving of claims, sweeps, receipts and decisions.
THEOREM ClaimContractHolds == Spec => []ClaimContract
<1>1. PipelineInv => ClaimContract
  BY DEF PipelineInv, RowInv, ItemOK, ClaimContract
<1> QED BY <1>1, PipelineInvariance, PTL

\* An attempt a receipt can still answer is its item's latest, on an item that
\* nobody rescheduled and a publication that nobody settled.
THEOREM AnswerableAttempt == Spec => []AnswerableAttemptIsCurrent
<1>1. PipelineInv => AnswerableAttemptIsCurrent
  BY DEF PipelineInv, RowInv, AttemptOK, AnswerableAttemptIsCurrent
<1> QED BY <1>1, PipelineInvariance, PTL

\* A receipt that can still commit decides on the verdict it read, although its
\* transaction guards neither the publication nor the item.
THEOREM ReceiptDecision == Spec => []ReceiptDecidesOnCurrentVerdict
<1>1. PipelineInv => ReceiptDecidesOnCurrentVerdict
  BY DEF PipelineInv, OperatorInv, OperatorOK, ReceiptDecidesOnCurrentVerdict
<1> QED BY <1>1, PipelineInvariance, PTL

\* The capsule body is disposed of by a matching acceptance and by nothing else.
THEOREM BodyDisposal == Spec => []BodyDisposedOnlyByAcceptance
<1>1. PipelineInv => BodyDisposedOnlyByAcceptance
  BY DEF PipelineInv, RowInv, ItemOK, BodyDisposedOnlyByAcceptance
<1> QED BY <1>1, PipelineInvariance, PTL

\* A closed publication's item stays dead-lettered.
THEOREM ClosedItem == Spec => []ClosedItemIsParked
<1>1. PipelineInv => ClosedItemIsParked
  BY DEF PipelineInv, RowInv, VerdictOK, ClosedItemIsParked
<1> QED BY <1>1, PipelineInvariance, PTL

------------------------------------------------------------------------------
\* The pipeline implements the registration lifecycle, and steals no live lease

\* A step that keeps the publication row, the body and the existence of every
\* item is invisible to a reader of the verdicts.
LEMMA InvisibleStep ==
    ASSUME \A q \in Pubs :
             /\ publication'[q] = publication[q]
             /\ outbox'[q].payload = outbox[q].payload
             /\ outbox'[q].status = "ABSENT" <=> outbox[q].status = "ABSENT"
    PROVE  UNCHANGED Lifecycle!vars
<1>1. \A q \in Pubs : VerdictOf(q)' = VerdictOf(q)
  BY DEF VerdictOf
<1> QED BY <1>1 DEF Lifecycle!vars

\* A step that shows in one publication only.
LEMMA VisibleStep ==
    ASSUME NEW p \in Pubs, NEW v, NEW b,
           \A q \in Pubs \ {p} :
             publication'[q] = publication[q] /\ outbox'[q] = outbox[q],
           VerdictOf(p)' = v, outbox'[p].payload = b
    PROVE  /\ [q \in Pubs |-> VerdictOf(q)]' = [[q \in Pubs |-> VerdictOf(q)] EXCEPT ![p] = v]
           /\ [q \in Pubs |-> outbox[q].payload]'
                = [[q \in Pubs |-> outbox[q].payload] EXCEPT ![p] = b]
<1>1. \A q \in Pubs \ {p} : VerdictOf(q)' = VerdictOf(q)
  BY DEF VerdictOf
<1> QED BY <1>1

\* The empty database shows no verdict and holds no body.
LEMMA LifecycleInit == Init => Lifecycle!Init
BY DEF Init, Lifecycle!Init, VerdictOf, NoItem

\* Preparing a publication is the abstract Prepare.
LEMMA PreparePublicationIsPrepare ==
    ASSUME NEW p \in Pubs, PipelineInv, PreparePublication(p)
    PROVE  Lifecycle!Prepare(p)
<1>1. /\ outbox[p].status = "ABSENT" /\ publication[p] = Unsubmitted
      /\ outbox'[p].status = "PENDING" /\ outbox'[p].payload = TRUE
      /\ publication' = publication
      /\ \A q \in Pubs \ {p} : outbox'[q] = outbox[q]
  BY DEF PreparePublication, PipelineInv, TypeOK, RowInv, ItemOK, NoItem
<1>2. VerdictOf(p) = "ABSENT" /\ VerdictOf(p)' = "OPEN"
  BY <1>1 DEF VerdictOf, Unsubmitted
<1> QED BY <1>1, <1>2, VisibleStep DEF Lifecycle!Prepare

\* A receipt that commits is an abstract Mismatch, Reject or Accept; one that
\* rolls back shows nothing.
LEMMA CommitReceiptIsVerdict ==
    ASSUME NEW o \in Operators, PipelineInv, CommitReceipt(o)
    PROVE  \/ \E p \in Pubs : \/ Lifecycle!Mismatch(p)
                              \/ Lifecycle!Reject(p)
                              \/ Lifecycle!Accept(p)
           \/ UNCHANGED Lifecycle!vars
<1>1. PICK p \in Pubs, n \in Claims, status \in {"ACCEPTED", "REJECTED"},
           matched \in BOOLEAN :
        /\ p = op[o].pub /\ n = op[o].claim
        /\ status = op[o].status /\ matched = op[o].matched
        /\ outbox[p] \in OutboxRows
        /\ NoPriorVerdictConflict(op[o].read, status, matched)
        /\ attempt[p][n] = "DISPATCHED" => publication[p] = op[o].read
  BY SMTT(20) DEF CommitReceipt, PipelineInv, TypeOK, OpRows, OperatorInv, OperatorOK
<1> DEFINE pub == DecideOutcome(status, matched).publication
           target == DecideOutcome(status, matched).target
           item == Decided(outbox[p], target)
<1>2. CASE UNCHANGED rows
  BY <1>2, InvisibleStep DEF rows
<1>3. CASE /\ attempt[p][n] = "DISPATCHED"
           /\ publication' = [publication EXCEPT ![p] = pub]
           /\ outbox' = [outbox EXCEPT ![p] = item]
  <2>1. /\ publication[p] = op[o].read
        /\ outbox[p].status \in {"PROCESSING", "DEAD_LETTER"}
        /\ publication[p].remediation \notin {"CLOSED", "RESOLVED"}
        /\ publication[p].registration # "REJECTED"
        /\ publication[p] \in PublicationRows
        /\ ItemOK(p) /\ VerdictOK(p)
    BY <1>1, <1>3 DEF PipelineInv, TypeOK, RowInv, AttemptOK
  <2>2. /\ publication'[p] = pub /\ outbox'[p] = item
        /\ \A q \in Pubs \ {p} :
             publication'[q] = publication[q] /\ outbox'[q] = outbox[q]
    BY <1>1, <1>3 DEF PipelineInv, TypeOK
  <2>3. outbox[p].payload = TRUE
    BY <1>1, <2>1 DEF ItemOK, OutboxRows
  <2>4. VerdictOf(p) \in {"OPEN", "MISMATCH", "RETRY_AUTHORIZED"}
    BY <2>1 DEF VerdictOf, PublicationRows, RemediationStates
  <2>5. target \in {"NONE", "COMPLETED", "DEAD_LETTER"}
    BY <1>1, DecideOutcomeType
  <2>6. CASE ~matched
    <3>1. /\ target = "NONE" /\ pub.registration = "PENDING" /\ pub.remediation = "REQUIRED"
      BY <2>6 DEF DecideOutcome, Verdict
    <3>2. item = outbox[p]
      BY <3>1 DEF Decided
    <3>3. VerdictOf(p)' = "MISMATCH" /\ outbox'[p].payload = TRUE
      BY <2>1, <2>2, <2>3, <3>1, <3>2 DEF VerdictOf
    <3>4. Lifecycle!Mismatch(p)
      BY <1>1, <2>2, <2>3, <2>4, <3>3, VisibleStep DEF Lifecycle!Mismatch
    <3> QED BY <1>1, <3>4
  <2>7. CASE matched /\ status = "REJECTED"
    <3>1. /\ target = "DEAD_LETTER" /\ pub.registration = "REJECTED"
          /\ pub.remediation = "REQUIRED"
      BY <2>7 DEF DecideOutcome, Verdict
    <3>2. item.status = "DEAD_LETTER" /\ item.payload = TRUE
      BY <1>1, <2>3, <2>5, <3>1, DecidedFields
    <3>3. VerdictOf(p)' = "REJECTED" /\ outbox'[p].payload = TRUE
      BY <2>2, <3>1, <3>2 DEF VerdictOf
    <3>4. Lifecycle!Reject(p)
      BY <1>1, <2>2, <2>3, <2>4, <3>3, VisibleStep DEF Lifecycle!Reject
    <3> QED BY <1>1, <3>4
  <2>8. CASE matched /\ status = "ACCEPTED"
    <3>1. target = "COMPLETED" /\ pub.remediation = "RESOLVED"
      BY <2>8 DEF DecideOutcome, Verdict
    <3>2. item.status = "COMPLETED" /\ item.payload = FALSE
      BY <1>1, <2>5, <3>1, DecidedFields
    <3>3. VerdictOf(p)' = "RESOLVED" /\ outbox'[p].payload = FALSE
      BY <2>2, <3>1, <3>2 DEF VerdictOf
    <3>4. VerdictOf(p) \in {"OPEN", "RETRY_AUTHORIZED"}
      <4>1. publication[p].remediation # "REQUIRED"
        BY <1>1, <2>1, <2>8 DEF VerdictOK, NoPriorVerdictConflict
      <4>2. publication[p].remediation \in {"NOT_REQUIRED", "RETRY_AUTHORIZED"}
        BY <2>1, <4>1 DEF PublicationRows, RemediationStates
      <4> QED BY <2>1, <4>2 DEF VerdictOf
    <3>5. Lifecycle!Accept(p)
      BY <1>1, <2>2, <3>3, <3>4, VisibleStep DEF Lifecycle!Accept
    <3> QED BY <1>1, <3>5
  <2> QED BY <1>1, <2>6, <2>7, <2>8
<1> QED BY <1>1, <1>2, <1>3 DEF CommitReceipt

\* A decision that commits is the abstract Decide.
LEMMA CommitRemediationIsDecide ==
    ASSUME NEW o \in Operators, PipelineInv, CommitRemediation(o)
    PROVE  \/ \E p \in Pubs : Lifecycle!Decide(p)
           \/ UNCHANGED Lifecycle!vars
<1>1. PICK p \in Pubs, action \in {"RETRY", "CLOSE"} :
        /\ p = op[o].pub /\ action = op[o].step /\ op[o].read.remediation = "REQUIRED"
        /\ publication[p] \in PublicationRows /\ outbox[p] \in OutboxRows /\ ItemOK(p)
  BY DEF CommitRemediation, PipelineInv, TypeOK, RowInv, OperatorInv, OperatorOK
<1> DEFINE pub == Remediated(publication[p], action)
<1>2. CASE UNCHANGED rows
  BY <1>2, InvisibleStep DEF rows
<1>3. ASSUME publication[p].remediation = op[o].read.remediation,
             publication' = [publication EXCEPT ![p] = pub],
             NEW at \in {now, now + RetryDelay},
             outbox' = [outbox EXCEPT ![p] = RemediatedItem(@, action, at)]
      PROVE  Lifecycle!Decide(p)
  <2> DEFINE item == RemediatedItem(outbox[p], action, at)
  <2>1. at \in Nat
    BY BoundAssumption DEF PipelineInv, TypeOK
  <2>2. item.payload = outbox[p].payload /\ item.status \in {"RETRYABLE", "DEAD_LETTER"}
    BY <1>1, <2>1, RemediatedItemFields
  <2>3. pub.remediation \in {"RETRY_AUTHORIZED", "CLOSED"}
    BY <1>1, RemediatedFields
  <2>4. /\ publication'[p] = pub /\ outbox'[p] = item
        /\ \A q \in Pubs \ {p} :
             publication'[q] = publication[q] /\ outbox'[q] = outbox[q]
    BY <1>1, <1>3 DEF PipelineInv, TypeOK
  <2>5. outbox[p].status # "ABSENT"
    BY <1>1, <1>3 DEF ItemOK, Unsubmitted
  <2>6. VerdictOf(p) \in {"MISMATCH", "REJECTED"}
    BY <1>1, <1>3, <2>5 DEF VerdictOf
  <2>7. VerdictOf(p)' = pub.remediation
    BY <2>2, <2>3, <2>4 DEF VerdictOf
  <2> HIDE DEF item, pub
  <2>8. /\ [q \in Pubs |-> VerdictOf(q)]'
             = [[q \in Pubs |-> VerdictOf(q)] EXCEPT ![p] = pub.remediation]
        /\ [q \in Pubs |-> outbox[q].payload]'
             = [[q \in Pubs |-> outbox[q].payload] EXCEPT ![p] = outbox[p].payload]
    BY <2>2, <2>4, <2>7, VisibleStep
  <2>9. [q \in Pubs |-> outbox[q].payload]' = [q \in Pubs |-> outbox[q].payload]
    BY <2>8
  <2> QED BY <2>3, <2>6, <2>8, <2>9 DEF Lifecycle!Decide
<1> QED BY <1>1, <1>2, <1>3 DEF CommitRemediation

\* Every other step is invisible.
LEMMA ReleaseIsInvisible ==
    ASSUME TypeOK, NEW p \in Pubs, NEW item,
           publication' = publication, outbox' = [outbox EXCEPT ![p] = item],
           item.payload = outbox[p].payload,
           item.status # "ABSENT", outbox[p].status # "ABSENT"
    PROVE  UNCHANGED Lifecycle!vars
<1>1. outbox'[p] = item /\ \A q \in Pubs \ {p} : outbox'[q] = outbox[q]
  BY DEF TypeOK
<1> QED BY <1>1, InvisibleStep

\* Claims, sweeps and resolutions of an item show in no verdict.
LEMMA ItemStepIsInvisible ==
    ASSUME PipelineInv, NEW w \in Workers, NEW p \in Pubs,
           \/ CancelItem(p) \/ SweepRow(w, p) \/ ClaimItem(w)
           \/ ResolveClaim(w) \/ CompleteClaim(w)
    PROVE  UNCHANGED Lifecycle!vars
<1>1. CASE UNCHANGED <<publication, outbox>>
  BY <1>1, InvisibleStep
<1>2. \A q \in Pubs : outbox[q] \in OutboxRows
  BY DEF PipelineInv, TypeOK
<1>3. run[w].pub \in Pubs \/ run[w].step \in {"IDLE", "SWEEP"}
  BY DEF PipelineInv, WorkerInv, WorkerOK
<1>4. CASE CancelItem(p)
  <2>1. Released(outbox[p], "CANCELLED").payload = outbox[p].payload
        /\ Released(outbox[p], "CANCELLED").status = "CANCELLED"
    BY <1>2, ReleasedFields DEF OutboxStatuses
  <2> QED BY <1>4, <2>1, ReleaseIsInvisible DEF CancelItem, Claimable, PipelineInv
<1>5. CASE SweepRow(w, p) /\ ~UNCHANGED outbox
  <2> DEFINE item == [Released(outbox[p], "RETRYABLE") EXCEPT !.availableAt = run[w].at]
  <2>1. item.payload = outbox[p].payload /\ item.status = "RETRYABLE"
    BY <1>2, ReleasedType, ReleasedFields DEF OutboxStatuses, OutboxRows
  <2>2. outbox[p].status = "PROCESSING" /\ outbox' = [outbox EXCEPT ![p] = item]
        /\ publication' = publication
    BY <1>5 DEF SweepRow, Expired
  <2> HIDE DEF item
  <2> QED BY <2>1, <2>2, ReleaseIsInvisible DEF PipelineInv
<1>6. CASE ClaimItem(w) /\ ~UNCHANGED outbox
  <2> DEFINE q == run[w].pub
             item == Claimed(outbox[q], run[w].at)
  <2>1. q \in Pubs
    BY <1>3, <1>6 DEF ClaimItem
  <2>2. item.payload = outbox[q].payload /\ item.status = "PROCESSING"
    BY <1>2, <2>1 DEF Claimed, OutboxRows
  <2>3. outbox[q].status \in {"PENDING", "RETRYABLE"}
        /\ outbox' = [outbox EXCEPT ![q] = item] /\ publication' = publication
    BY <1>6 DEF ClaimItem, Due, Claimable
  <2> HIDE DEF item
  <2> QED BY <2>1, <2>2, <2>3, ReleaseIsInvisible DEF PipelineInv
<1>7. CASE ResolveClaim(w) /\ ~UNCHANGED outbox
  <2> DEFINE q == run[w].pub
             item == Resolved(outbox[q], run[w].goal, run[w].at)
  <2>1. q \in Pubs /\ run[w].goal \in {"RETRYABLE", "DEAD_LETTER"}
    BY <1>7, AtClaim DEF ResolveClaim, PipelineInv, TypeOK, RunRows, Goals, WorkerInv, WorkerOK
  <2>2. item.payload = outbox[q].payload /\ item.status = run[w].goal
    <3>1. run[w].goal \in OutboxStatuses
      BY <2>1 DEF OutboxStatuses
    <3> QED BY <1>2, <2>1, <3>1, ReleasedType, ReleasedFields DEF Resolved, OutboxRows
  <2>3. outbox[q].status = "PROCESSING"
        /\ outbox' = [outbox EXCEPT ![q] = item] /\ publication' = publication
    BY <1>7 DEF ResolveClaim
  <2> HIDE DEF item
  <2> QED BY <2>1, <2>2, <2>3, ReleaseIsInvisible DEF PipelineInv
<1>8. CASE CompleteClaim(w) /\ ~UNCHANGED outbox
  <2> DEFINE q == run[w].pub
             item == Released(outbox[q], "COMPLETED")
  <2>1. q \in Pubs
    BY <1>8, AtClaim DEF CompleteClaim
  <2>2. item.payload = outbox[q].payload /\ item.status = "COMPLETED"
    BY <1>2, <2>1, ReleasedFields DEF OutboxStatuses
  <2>3. outbox[q].status = "PROCESSING"
        /\ outbox' = [outbox EXCEPT ![q] = item] /\ publication' = publication
    BY <1>8 DEF CompleteClaim
  <2> HIDE DEF item
  <2> QED BY <2>1, <2>2, <2>3, ReleaseIsInvisible DEF PipelineInv
<1>9. UNCHANGED publication
  BY DEF CancelItem, SweepRow, ClaimItem, ResolveClaim, CompleteClaim
<1> QED BY <1>1, <1>4, <1>5, <1>6, <1>7, <1>8, <1>9

\* Every step of the pipeline is a step of the lifecycle or a stutter.
LEMMA LifecycleStep ==
    ASSUME PipelineInv, [Next]_vars
    PROVE  Lifecycle!Next \/ UNCHANGED Lifecycle!vars
<1>1. CASE UNCHANGED <<publication, outbox>>
  BY <1>1, InvisibleStep
<1>2. ASSUME NEW p \in Pubs, PreparePublication(p) PROVE Lifecycle!Next
  BY <1>2, PreparePublicationIsPrepare DEF Lifecycle!Next
<1>3. ASSUME NEW p \in Pubs, CancelItem(p) PROVE UNCHANGED Lifecycle!vars
  <2>1. outbox[p] \in OutboxRows
    BY DEF PipelineInv, TypeOK
  <2>2. Released(outbox[p], "CANCELLED").payload = outbox[p].payload
        /\ Released(outbox[p], "CANCELLED").status = "CANCELLED"
    BY <2>1, ReleasedFields DEF OutboxStatuses
  <2> QED BY <1>3, <2>2, ReleaseIsInvisible DEF CancelItem, Claimable, PipelineInv
<1>4. ASSUME NEW w \in Workers, Worker(w) PROVE UNCHANGED Lifecycle!vars
  <2>1. ASSUME NEW p \in Pubs, SweepRow(w, p) PROVE UNCHANGED Lifecycle!vars
    BY <2>1, ItemStepIsInvisible
  <2>2. CASE ResolveClaim(w) \/ CompleteClaim(w) \/ ClaimItem(w)
    <3>1. CASE Pubs = {}
      BY <3>1, InvisibleStep
    <3>2. CASE Pubs # {}
      BY <2>2, <3>2, ItemStepIsInvisible
    <3> QED BY <3>1, <3>2
  <2>3. CASE UNCHANGED <<publication, outbox>>
    BY <2>3, InvisibleStep
  <2> QED BY <1>4, <2>1, <2>2, <2>3
          DEF Worker, Sweep, RunOne, SweepSelect, SelectItem, PrepareCheck,
              CreateAttempt, DispatchCheck, Send, MarkCheck, MarkDispatched,
              AbandonAttempt, Crash, rows
<1>5. ASSUME NEW o \in Operators, Operator(o)
      PROVE  Lifecycle!Next \/ UNCHANGED Lifecycle!vars
  <2>1. CASE CommitReceipt(o)
    BY <2>1, CommitReceiptIsVerdict DEF Lifecycle!Next
  <2>2. CASE CommitRemediation(o)
    BY <2>2, CommitRemediationIsDecide DEF Lifecycle!Next
  <2>3. CASE UNCHANGED <<publication, outbox>>
    BY <2>3, InvisibleStep
  <2> QED BY <1>5, <2>1, <2>2, <2>3
          DEF Operator, ReceiveReceipt, DecideRemediation, CrashOperator, rows
<1> QED BY <1>1, <1>2, <1>3, <1>4, <1>5 DEF Next, Tick, vars, rows

\* The pipeline keeps the registration lifecycle: each initial state is one of
\* its initial states, and each step one of its steps or a stutter.
THEOREM Refinement == Spec => ImplementsLifecycle
<1>1. Spec => Lifecycle!Init /\ [][Lifecycle!Next]_(Lifecycle!vars)
  BY LifecycleInit, LifecycleStep, PipelineInvariance, PTL DEF Spec
<1> QED BY <1>1 DEF ImplementsLifecycle, Lifecycle!Spec

------------------------------------------------------------------------------
\* The instant a run presents to the database was read in the past.
ClockInv == \A w \in Workers : run[w].at <= now

\* A worker that takes up no instant but the present one acts in the past.
LEMMA WorkerKeepsClock ==
    ASSUME TypeOK, ClockInv, NEW w \in Workers, NEW r, now' = now,
           run' = [run EXCEPT ![w] = r], r.at \in {0, now, run[w].at}
    PROVE  ClockInv'
<1>1. now \in Nat /\ \A v \in Workers : run[v].at \in Nat
  BY DEF TypeOK, RunRows
<1>2. ASSUME NEW v \in Workers PROVE run'[v].at \in {0, now, run[v].at}
  BY DEF TypeOK
<1> QED BY <1>1, <1>2 DEF ClockInv

\* No worker acts at an instant that is still to come.
LEMMA WorkerClock ==
    ASSUME TypeOK, ClockInv, NEW w \in Workers, Worker(w)
    PROVE  ClockInv'
<1>1. Idle.at = 0 /\ Idle \in RunRows
  BY IdleType DEF Idle
<1>2. run[w] \in RunRows /\ now \in Nat
  BY DEF TypeOK
<1>3. CASE SweepSelect(w)
  <2>1. PICK todo :
          run' = [run EXCEPT ![w] = [Idle EXCEPT !.step = "SWEEP", !.at = now, !.todo = todo]]
    BY <1>3 DEF SweepSelect
  <2>2. [Idle EXCEPT !.step = "SWEEP", !.at = now, !.todo = todo].at = now
    BY <1>1 DEF RunRows
  <2> QED BY <1>3, <2>1, <2>2, WorkerKeepsClock DEF SweepSelect
<1>4. ASSUME NEW p \in Pubs, SweepRow(w, p) PROVE ClockInv'
  <2> DEFINE todo == [run[w].todo EXCEPT ![p] = 0]
  <2>1. run' = [run EXCEPT ![w] = Idle]
        \/ run' = [run EXCEPT ![w] = [run[w] EXCEPT !.todo = todo]]
    BY <1>4 DEF SweepRow
  <2>2. [run[w] EXCEPT !.todo = todo].at = run[w].at
    BY <1>2 DEF RunRows
  <2> QED BY <1>1, <1>4, <2>1, <2>2, WorkerKeepsClock DEF SweepRow
<1>5. CASE SelectItem(w)
  <2>1. PICK p \in Pubs :
          run' = [run EXCEPT ![w] = [Idle EXCEPT !.step = "CLAIM", !.at = now, !.pub = p]]
    BY <1>5 DEF SelectItem
  <2>2. [Idle EXCEPT !.step = "CLAIM", !.at = now, !.pub = p].at = now
    BY <1>1 DEF RunRows
  <2> QED BY <1>5, <2>1, <2>2, WorkerKeepsClock DEF SelectItem
<1>6. CASE ClaimItem(w)
  <2> DEFINE r == [run[w] EXCEPT !.step = "PREPARE", !.claim = outbox[run[w].pub].claims + 1]
  <2>1. run' = [run EXCEPT ![w] = Idle] \/ run' = [run EXCEPT ![w] = r]
    BY <1>6 DEF ClaimItem
  <2>2. r.at = run[w].at
    BY <1>2 DEF RunRows
  <2> QED BY <1>1, <1>6, <2>1, <2>2, WorkerKeepsClock DEF ClaimItem
<1>7. CASE Send(w)
  <2>1. PICK s, g : run' = [run EXCEPT ![w] = [run[w] EXCEPT !.step = s, !.goal = g]]
    BY <1>7 DEF Send
  <2>2. [run[w] EXCEPT !.step = s, !.goal = g].at = run[w].at
    BY <1>2 DEF RunRows
  <2> QED BY <1>7, <2>1, <2>2, WorkerKeepsClock DEF Send
<1>8. ASSUME NEW s \in RunSteps, now' = now,
             \/ run' = [run EXCEPT ![w] = Idle]
             \/ run' = [run EXCEPT ![w] = [run[w] EXCEPT !.step = s]]
      PROVE  ClockInv'
  <2>1. [run[w] EXCEPT !.step = s].at = run[w].at
    BY <1>2 DEF RunRows
  <2> QED BY <1>1, <1>8, <2>1, WorkerKeepsClock
<1>9. CASE PrepareCheck(w)
  BY <1>8, <1>9 DEF PrepareCheck, RunSteps
<1>10. CASE CreateAttempt(w)
  BY <1>8, <1>10 DEF CreateAttempt, RunSteps
<1>11. CASE DispatchCheck(w)
  BY <1>8, <1>11 DEF DispatchCheck, RunSteps
<1>12. CASE MarkCheck(w)
  BY <1>8, <1>12 DEF MarkCheck, RunSteps
<1>13. CASE MarkDispatched(w)
  BY <1>8, <1>13 DEF MarkDispatched, RunSteps
<1>14. CASE AbandonAttempt(w)
  BY <1>8, <1>14 DEF AbandonAttempt, RunSteps
<1>15. CASE ResolveClaim(w) \/ CompleteClaim(w) \/ Crash(w)
  BY <1>8, <1>15 DEF ResolveClaim, CompleteClaim, Crash, RunSteps
<1> QED BY <1>3, <1>4, <1>5, <1>6, <1>7, <1>9, <1>10, <1>11, <1>12, <1>13,
           <1>14, <1>15 DEF Worker, Sweep, RunOne

\* The instant a worker presents has passed.
LEMMA ClockInvariance == Spec => []ClockInv
<1>1. Init => ClockInv
  BY DEF Init, ClockInv, Idle
<1>2. ASSUME PipelineInv, ClockInv, [Next]_vars PROVE ClockInv'
  <2>1. TypeOK
    BY <1>2 DEF PipelineInv
  <2>2. ASSUME NEW w \in Workers, Worker(w) PROVE ClockInv'
    BY <1>2, <2>1, <2>2, WorkerClock
  <2>3. CASE UNCHANGED run /\ now' \in {now, now + 1}
    <3>1. now \in Nat /\ \A w \in Workers : run[w].at \in Nat
      BY <2>1 DEF TypeOK, RunRows
    <3> QED BY <1>2, <2>3, <3>1 DEF ClockInv
  <2> QED BY <1>2, <2>2, <2>3
          DEF Next, Tick, PreparePublication, CancelItem, Operator,
              ReceiveReceipt, DecideRemediation, CommitReceipt,
              CommitRemediation, CrashOperator, vars
<1> QED BY <1>1, <1>2, PipelineInvariance, PTL DEF Spec

\* A sweep releases only a claim whose lease is over by the clock.
LEMMA SweepStealsNothing ==
    ASSUME TypeOK, ClockInv, NEW w \in Workers, NEW q \in Pubs, SweepRow(w, q),
           NEW p \in Pubs
    PROVE  StealsNothing(p)
<1>1. CASE outbox'[p] = outbox[p]
  BY <1>1 DEF StealsNothing
<1>2. CASE outbox'[p] # outbox[p]
  <2>1. p = q /\ outbox[p].lease <= run[w].at
    BY <1>2 DEF SweepRow, Expired, TypeOK
  <2>2. run[w].at <= now /\ run[w].at \in Nat /\ now \in Nat /\ outbox[p].lease \in Nat
    BY DEF ClockInv, TypeOK, RunRows, OutboxRows
  <2> QED BY <2>1, <2>2 DEF StealsNothing
<1> QED BY <1>1, <1>2

\* A worker releases only the claim whose token it holds.
LEMMA WorkerStealsNothing ==
    ASSUME PipelineInv, ClockInv, NEW w \in Workers, Worker(w), NEW p \in Pubs
    PROVE  StealsNothing(p)
<1>1. TypeOK /\ outbox[p] \in OutboxRows
  BY DEF PipelineInv, TypeOK
<1>2. ASSUME NEW q \in Pubs, SweepRow(w, q) PROVE StealsNothing(p)
  BY <1>1, <1>2, SweepStealsNothing
<1>3. CASE ResolveClaim(w)
  <2>1. CASE outbox'[p] = outbox[p]
    BY <2>1 DEF StealsNothing
  <2>2. CASE outbox'[p] # outbox[p]
    <3>1. run[w].pub = p /\ run[w].claim = outbox[p].token /\ run[w].step = "RESOLVE"
      BY <1>1, <1>3, <2>2 DEF ResolveClaim, TypeOK
    <3>2. run'[w] = Idle
      BY <1>1, <1>3 DEF ResolveClaim, TypeOK
    <3> QED BY <3>1, <3>2 DEF StealsNothing
  <2> QED BY <2>1, <2>2
<1>4. CASE CompleteClaim(w)
  <2>1. CASE outbox'[p] = outbox[p]
    BY <2>1 DEF StealsNothing
  <2>2. CASE outbox'[p] # outbox[p]
    <3>1. outbox'[p] = Released(outbox[p], "COMPLETED")
      BY <1>1, <1>4, <2>2 DEF CompleteClaim, TypeOK
    <3>2. outbox'[p].status = "COMPLETED"
      BY <1>1, <3>1, ReleasedFields DEF OutboxStatuses
    <3> QED BY <3>2 DEF StealsNothing
  <2> QED BY <2>1, <2>2
<1>5. CASE ClaimItem(w)
  <2>1. CASE outbox'[p] = outbox[p]
    BY <2>1 DEF StealsNothing
  <2>2. CASE outbox'[p] # outbox[p]
    <3>1. run[w].pub = p /\ outbox[p].status # "PROCESSING"
      BY <1>1, <1>5, <2>2 DEF ClaimItem, TypeOK, Due, Claimable
    <3> QED BY <3>1 DEF StealsNothing
  <2> QED BY <2>1, <2>2
<1>6. CASE UNCHANGED outbox
  BY <1>6 DEF StealsNothing
<1> QED BY <1>2, <1>3, <1>4, <1>5, <1>6
        DEF Worker, Sweep, RunOne, SweepSelect, SelectItem, PrepareCheck,
            CreateAttempt, DispatchCheck, Send, MarkCheck, MarkDispatched,
            AbandonAttempt, Crash, rows

\* An operator reschedules an item only by authorising a retry.
LEMMA OperatorStealsNothing ==
    ASSUME PipelineInv, NEW o \in Operators, Operator(o), NEW p \in Pubs
    PROVE  StealsNothing(p)
<1>1. TypeOK /\ outbox[p] \in OutboxRows /\ publication[p] \in PublicationRows /\ now \in Nat
  BY DEF PipelineInv, TypeOK
<1>2. CASE outbox'[p] = outbox[p]
  BY <1>2 DEF StealsNothing
<1>3. CASE CommitReceipt(o) /\ outbox'[p] # outbox[p]
  <2>1. PICK status \in {"ACCEPTED", "REJECTED"}, matched \in BOOLEAN :
          outbox'[p] = Decided(outbox[p], DecideOutcome(status, matched).target)
    BY <1>1, <1>3 DEF CommitReceipt, TypeOK, OpRows, rows
  <2>2. PICK target \in {"NONE", "COMPLETED", "DEAD_LETTER"} :
          target = DecideOutcome(status, matched).target
    BY DecideOutcomeType
  <2>3. outbox'[p] = Decided(outbox[p], target)
    BY <2>1, <2>2
  <2>4. target # "NONE" /\ outbox'[p].status = target
    <3>1. /\ target = "NONE" => Decided(outbox[p], target) = outbox[p]
          /\ target # "NONE" => Decided(outbox[p], target).status = target
      BY <1>1, <2>2, DecidedFields
    <3> QED BY <1>3, <2>3, <3>1
  <2> QED BY <2>2, <2>4 DEF StealsNothing
<1>4. CASE CommitRemediation(o) /\ outbox'[p] # outbox[p]
  <2>1. /\ op[o].pub = p /\ op[o].step \in {"RETRY", "CLOSE"}
        /\ publication' = [publication EXCEPT ![p] = Remediated(@, op[o].step)]
        /\ \E at \in {now, now + RetryDelay} :
             outbox' = [outbox EXCEPT ![p] = RemediatedItem(@, op[o].step, at)]
    BY <1>1, <1>4 DEF CommitRemediation, TypeOK, rows
  <2>2. PICK at \in Nat : outbox'[p] = RemediatedItem(outbox[p], op[o].step, at)
    BY <1>1, <2>1, BoundAssumption DEF TypeOK
  <2>3. publication'[p] = Remediated(publication[p], op[o].step)
    BY <1>1, <2>1 DEF TypeOK
  <2>4. CASE op[o].step = "RETRY"
    BY <1>1, <2>3, <2>4, RemediatedFields DEF StealsNothing
  <2>5. CASE op[o].step = "CLOSE"
    <3>1. outbox'[p] = RemediatedItem(outbox[p], "CLOSE", at)
      BY <2>2, <2>5
    <3>2. RemediatedItem(outbox[p], "CLOSE", at).status = "DEAD_LETTER"
      BY <1>1 DEF RemediatedItem, Released, OutboxRows
    <3> QED BY <3>1, <3>2 DEF StealsNothing
  <2> QED BY <2>1, <2>4, <2>5
<1> QED BY <1>2, <1>3, <1>4
        DEF Operator, ReceiveReceipt, DecideRemediation, CrashOperator, rows

\* While a claim's lease runs, only its own worker or a governed retry makes the
\* item claimable again.
THEOREM NoStolenLease == Spec => LiveLeaseIsNotStolen
<1>1. ASSUME PipelineInv, ClockInv, [Next]_vars, NEW p \in Pubs
      PROVE  StealsNothing(p)
  <2>1. ASSUME NEW q \in Pubs, PreparePublication(q) \/ CancelItem(q) PROVE StealsNothing(p)
    BY <1>1, <2>1 DEF PreparePublication, CancelItem, Claimable, StealsNothing, PipelineInv, TypeOK
  <2>2. CASE UNCHANGED outbox
    BY <2>2 DEF StealsNothing
  <2> QED BY <1>1, <2>1, <2>2, WorkerStealsNothing, OperatorStealsNothing
          DEF Next, Tick, rows, vars
<1>2. PipelineInv /\ ClockInv /\ [Next]_vars => [\A p \in Pubs : StealsNothing(p)]_vars
  BY <1>1
<1>3. Spec => [][\A p \in Pubs : StealsNothing(p)]_vars
  BY <1>2, PipelineInvariance, ClockInvariance, PTL DEF Spec
<1> QED BY <1>3 DEF LiveLeaseIsNotStolen
==============================================================================
