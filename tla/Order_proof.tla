---------------------------- MODULE Order_proof ----------------------------
(***************************************************************************)
(* An order is refunded and an order is paid, for any numbers of workers,  *)
(* operators and webhook requests and any events of the provider: first    *)
(* RefundInv and what follows from it in OrderRefund, one lemma per        *)
(* action; then the inductive invariant of OrderPayment and its safety     *)
(* properties.                                                             *)
(***************************************************************************)
EXTENDS OrderPayment, OrderRefund, TLAPS

------------------------------------------------------------------------------
\* Requests

\* An operator that only read leaves everything else as it was.
LEMMA OperatorMoves ==
    ASSUME RefundInv, NEW o \in Operators, NEW row \in OperatorRows,
           row.step = "REQUEUE" => Exists,
           operator' = [operator EXCEPT ![o] = row],
           UNCHANGED <<refund, sale, dispute, charge, worker>>
    PROVE  RefundInv'
BY DEF RefundInv, TypeOK, RowOK, SaleOK, ProcessOK, Exists

LEMMA RequestCheckStep ==
    ASSUME RefundInv, NEW o \in Operators, RequestCheck(o)
    PROVE  RefundInv'
<1> PICK row \in OperatorRows : row = [operator[o] EXCEPT !.step = "CREATE"]
    BY DEF RefundInv, TypeOK, OperatorRows
<1> row.step = "CREATE"
    BY DEF RefundInv, TypeOK, OperatorRows
<1> operator' = [operator EXCEPT ![o] = row]
    BY DEF RequestCheck
<1> QED
    BY OperatorMoves DEF RequestCheck

LEMMA CreateStep ==
    ASSUME RefundInv, NEW o \in Operators, Create(o)
    PROVE  RefundInv'
<1>1. CASE Exists
    BY <1>1, OperatorMoves DEF Create, AtRest, OperatorRows
<1>2. CASE ~ Exists
    <2> USE <1>2, NoWorkerAssumption, AttemptsAssumption
    <2>1. refund = NoRefund /\ refund' = [NoRefund EXCEPT !.status = "PENDING", !.due = TRUE]
        BY DEF Create, RefundInv, RowOK
    <2>2. TypeOK'
        BY <2>1 DEF Create, RefundInv, TypeOK, NoRefund, RefundRows, AtRest,
                    OperatorRows, Statuses
    <2>3. RowOK' /\ SaleOK' /\ ProcessOK'
        BY <2>1 DEF Create, RefundInv, TypeOK, RowOK, SaleOK, ProcessOK, Exists,
                    NoRefund, AtRest, Claimable
    <2> QED
        BY <2>2, <2>3 DEF RefundInv
<1> QED
    BY <1>1, <1>2

LEMMA RequeueCheckStep ==
    ASSUME RefundInv, NEW o \in Operators, RequeueCheck(o)
    PROVE  RefundInv'
<1> PICK row \in OperatorRows : row = [step |-> "REQUEUE", requeues |-> refund.requeues]
    BY DEF RefundInv, TypeOK, OperatorRows, RefundRows
<1> Exists
    BY DEF RequeueCheck, Exists
<1> operator' = [operator EXCEPT ![o] = row]
    BY DEF RequeueCheck
<1> QED
    BY OperatorMoves DEF RequeueCheck

LEMMA RequeueStep ==
    ASSUME RefundInv, NEW o \in Operators, Requeue(o)
    PROVE  RefundInv'
<1> USE AttemptsAssumption
<1>1. Exists /\ refund \in RefundRows /\ operator[o].requeues \in Nat
    BY DEF Requeue, RefundInv, ProcessOK, TypeOK, OperatorRows
<1>2. PICK n \in Nat : n = operator[o].requeues + 1
    BY <1>1
<1>3. PICK row : row = [refund EXCEPT !.status = "RETRY_PENDING", !.due = TRUE,
                                      !.attempts = 0, !.requeues = n]
    OBVIOUS
<1>4. /\ row \in RefundRows
      /\ row.status = "RETRY_PENDING"
      /\ row.attempts = 0
    BY <1>1, <1>3 DEF RefundRows, Statuses
<1>5. refund' = row
    BY <1>2, <1>3 DEF Requeue, Requeued
<1>6. TypeOK'
    BY <1>4, <1>5 DEF Requeue, RefundInv, TypeOK, AtRest, OperatorRows
<1>7. RowOK' /\ SaleOK' /\ ProcessOK'
    BY <1>1, <1>4, <1>5 DEF Requeue, RefundInv, TypeOK, RowOK, SaleOK, ProcessOK, Exists,
                      Claimable, AtRest
<1> QED
    BY <1>6, <1>7 DEF RefundInv

LEMMA DropRequestStep ==
    ASSUME RefundInv, NEW o \in Operators, DropRequest(o)
    PROVE  RefundInv'
BY OperatorMoves DEF DropRequest, AtRest, OperatorRows

------------------------------------------------------------------------------
\* Cycles

LEMMA IdleWorker == Idle \in WorkerRows /\ Idle.step = "IDLE"
BY DEF Idle, WorkerRows, WorkerSteps, Outcomes, Failures, Transient

\* A worker that only moves keeps the invariant if what it is to write fits.
LEMMA WorkerMoves ==
    ASSUME RefundInv, NEW w \in Workers, NEW row \in WorkerRows,
           row.step \in {"VERIFY", "CALL", "RESOLVE", "WRITE"} => Exists,
           row.step = "WRITE" => row.count < MaxAttempts,
           row.step \in {"RESOLVE", "WRITE"} /\ row.outcome = "EXECUTED"
             => charge = "RETURNED",
           worker' = [worker EXCEPT ![w] = row],
           UNCHANGED <<refund, sale, dispute, charge, operator>>
    PROVE  RefundInv'
BY DEF RefundInv, TypeOK, RowOK, SaleOK, ProcessOK, Exists

LEMMA RecoverStep ==
    ASSUME RefundInv, NEW w \in Workers, Recover(w)
    PROVE  RefundInv'
<1> USE NoWorkerAssumption
<1>1. refund' \in RefundRows
    BY DEF Recover, Recovered, RefundInv, TypeOK, RefundRows, Statuses
<1>2. /\ refund'.attempts = refund.attempts
      /\ \/ refund' = refund
         \/ /\ refund.status = "IN_PROGRESS"
            /\ refund'.status = "RETRY_PENDING"
            /\ refund'.token = NoWorker
    BY DEF Recover, Recovered, RefundInv, TypeOK, RefundRows
<1>3. TypeOK'
    BY <1>1 DEF Recover, RefundInv, TypeOK, WorkerRows, WorkerSteps
<1>4. RowOK' /\ SaleOK'
    BY <1>2 DEF Recover, RefundInv, TypeOK, RowOK, SaleOK, Exists, Claimable
<1>5. ProcessOK'
    BY <1>2 DEF Recover, RefundInv, TypeOK, ProcessOK, Exists, WorkerRows
<1> QED
    BY <1>3, <1>4, <1>5 DEF RefundInv

LEMMA SelectStep ==
    ASSUME RefundInv, NEW w \in Workers, Select(w)
    PROVE  RefundInv'
<1> PICK row : row = [worker[w] EXCEPT !.step = IF Eligible THEN "CLAIM" ELSE "IDLE"]
    OBVIOUS
<1> row \in WorkerRows /\ row.step \in {"CLAIM", "IDLE"}
    BY DEF RefundInv, TypeOK, WorkerRows, WorkerSteps
<1> worker' = [worker EXCEPT ![w] = row]
    BY DEF Select
<1> QED
    BY WorkerMoves DEF Select

LEMMA ClaimStep ==
    ASSUME RefundInv, NEW w \in Workers, Claim(w)
    PROVE  RefundInv'
<1> USE NoWorkerAssumption
<1>1. refund' \in RefundRows
    BY DEF Claim, Claimed, RefundInv, TypeOK, RefundRows, Statuses
<1>2. /\ refund'.attempts = refund.attempts
      /\ \/ /\ ~ Eligible
            /\ refund' = refund
         \/ /\ Eligible
            /\ refund.status \in Claimable
            /\ refund'.status = "IN_PROGRESS"
            /\ refund'.token = w
    BY DEF Claim, Claimed, Eligible, RefundInv, TypeOK, RefundRows
<1>3. TypeOK'
    BY <1>1 DEF Claim, RefundInv, TypeOK, WorkerRows, WorkerSteps
<1>4. RowOK' /\ SaleOK'
    BY <1>2 DEF Claim, RefundInv, TypeOK, RowOK, SaleOK, Exists, Claimable
<1>5. Exists => Exists'
    BY <1>2 DEF Exists, Claimable
<1>6. worker'[w].step = "VERIFY" => Exists'
    BY <1>2 DEF Claim, Exists, RefundInv, TypeOK, WorkerRows
<1>7. ProcessOK'
    BY <1>5, <1>6 DEF Claim, RefundInv, TypeOK, ProcessOK, WorkerRows
<1> QED
    BY <1>3, <1>4, <1>7 DEF RefundInv

LEMMA VerifyStep ==
    ASSUME RefundInv, NEW w \in Workers, Verify(w)
    PROVE  RefundInv'
<1> PICK row : /\ worker' = [worker EXCEPT ![w] = row]
               /\ \/ row = [worker[w] EXCEPT !.step = "CALL"]
                  \/ row = [worker[w] EXCEPT !.step = "RESOLVE", !.outcome = Permanent]
    BY DEF Verify
<1> row \in WorkerRows
    BY DEF RefundInv, TypeOK, WorkerRows, WorkerSteps, Outcomes, Failures
<1> Exists
    BY DEF Verify, RefundInv, ProcessOK
<1> \/ row.step = "CALL"
    \/ row.step = "RESOLVE" /\ row.outcome = "PERMANENT"
    BY DEF RefundInv, TypeOK, WorkerRows, Permanent
<1> QED
    BY WorkerMoves DEF Verify

LEMMA CallProviderStep ==
    ASSUME RefundInv, NEW w \in Workers, CallProvider(w)
    PROVE  RefundInv'
<1>1. PICK outcome \in Outcomes, after \in {"TAKEN", "RETURNED"} :
         /\ charge = "RETURNED" => after = "RETURNED"
         /\ outcome = "EXECUTED" => after = "RETURNED"
         /\ charge' = after
         /\ worker' = [worker EXCEPT ![w] = [worker[w] EXCEPT !.step = "RESOLVE",
                                                              !.outcome = outcome]]
    BY DEF CallProvider
<1>2. Exists
    BY DEF CallProvider, RefundInv, ProcessOK
<1>3. TypeOK'
    BY <1>1 DEF CallProvider, RefundInv, TypeOK, WorkerRows, WorkerSteps
<1>4. RowOK' /\ SaleOK'
    BY <1>1, <1>2 DEF CallProvider, RefundInv, RowOK, SaleOK, Exists
<1>5. worker'[w].step = "RESOLVE" /\ (worker'[w].outcome = "EXECUTED" => charge' = "RETURNED")
    BY <1>1 DEF RefundInv, TypeOK, WorkerRows
<1>6. \A v \in Workers \ {w} : worker'[v] = worker[v]
    BY <1>1 DEF RefundInv, TypeOK
<1>7. ProcessOK'
    BY <1>1, <1>2, <1>5, <1>6 DEF CallProvider, RefundInv, ProcessOK, Exists
<1> QED
    BY <1>3, <1>4, <1>7 DEF RefundInv

LEMMA ResolveStep ==
    ASSUME RefundInv, NEW w \in Workers, Resolve(w)
    PROVE  RefundInv'
<1>1. CASE Holds(w)
    <2> PICK row : row = [worker[w] EXCEPT !.step = "WRITE", !.count = refund.attempts]
        OBVIOUS
    <2> row \in WorkerRows /\ row.step = "WRITE" /\ row.count = refund.attempts
            /\ row.outcome = worker[w].outcome
        BY DEF RefundInv, TypeOK, WorkerRows, WorkerSteps, RefundRows
    <2> Exists
        BY DEF Resolve, RefundInv, ProcessOK
    <2> refund.attempts < MaxAttempts
        BY <1>1, NoWorkerAssumption DEF RefundInv, RowOK, Holds, Claimable
    <2> row.outcome = "EXECUTED" => charge = "RETURNED"
        BY DEF Resolve, RefundInv, ProcessOK
    <2> worker' = [worker EXCEPT ![w] = row]
        BY <1>1 DEF Resolve
    <2> QED
        BY WorkerMoves DEF Resolve
<1>2. CASE ~ Holds(w)
    <2> worker' = [worker EXCEPT ![w] = Idle]
        BY <1>2 DEF Resolve
    <2> QED
        BY WorkerMoves, IdleWorker DEF Resolve
<1> QED
    BY <1>1, <1>2

LEMMA FailStep ==
    ASSUME RefundInv, NEW w \in Workers, Fail(w)
    PROVE  RefundInv'
<1> USE NoWorkerAssumption, AttemptsAssumption, IdleWorker
<1>1. /\ worker[w].count \in Nat /\ worker[w].count < MaxAttempts
      /\ worker[w].outcome \in Failures
      /\ Exists
    BY DEF Fail, RefundInv, ProcessOK, TypeOK, WorkerRows, Outcomes
<1>2. PICK n \in Nat : n = worker[w].count + 1
    BY <1>1
<1>3. refund' = Failed(refund, n, worker[w].outcome)
    BY <1>2 DEF Fail
<1>4. refund' \in RefundRows
    BY <1>1, <1>3 DEF Failed, RefundInv, TypeOK, RefundRows, Statuses
<1>5. /\ refund'.token = NoWorker
      /\ refund'.attempts = n
      /\ refund'.status \in {"FAILED_PERMANENT", "RETRY_PENDING"}
      /\ refund'.status = "RETRY_PENDING" => n < MaxAttempts
    BY <1>3 DEF Failed, RefundInv, TypeOK, RefundRows
<1>6. TypeOK'
    BY <1>4 DEF Fail, RefundInv, TypeOK
<1>7. RowOK' /\ SaleOK'
    BY <1>1, <1>2, <1>5 DEF Fail, RefundInv, RowOK, SaleOK, Exists, Claimable
<1>8. ProcessOK'
    BY <1>5 DEF Fail, RefundInv, TypeOK, ProcessOK, Exists
<1> QED
    BY <1>6, <1>7, <1>8 DEF RefundInv

LEMMA FinalizeStep ==
    ASSUME RefundInv, NEW w \in Workers, Finalize(w)
    PROVE  RefundInv'
<1> USE NoWorkerAssumption, AttemptsAssumption, IdleWorker
<1>1. CASE Reversible
    <2>1. /\ worker[w].count \in Nat /\ worker[w].count < MaxAttempts
          /\ charge = "RETURNED"
        BY DEF Finalize, RefundInv, ProcessOK, TypeOK, WorkerRows
    <2>2. /\ sale' \in SaleRows
          /\ sale'.reversal = "REFUND"
          /\ sale'.taxReversal => sale'.taxRecorded
        BY <1>1 DEF Finalize, RefundInv, TypeOK, SaleRows
    <2>3. PICK n \in Nat : n = worker[w].count + 1 /\ n <= MaxAttempts
        BY <2>1
    <2>4. refund' = [refund EXCEPT !.status = "REFUNDED", !.attempts = n,
                                   !.token = NoWorker, !.over = FALSE, !.due = FALSE]
        BY <1>1, <2>3 DEF Finalize
    <2>5. /\ refund' \in RefundRows
          /\ refund'.status = "REFUNDED"
          /\ refund'.token = NoWorker
          /\ refund'.attempts <= MaxAttempts
        BY <2>3, <2>4 DEF RefundInv, TypeOK, RefundRows, Statuses
    <2>6. TypeOK'
        BY <2>2, <2>5 DEF Finalize, RefundInv, TypeOK
    <2>7. RowOK' /\ SaleOK'
        BY <2>1, <2>2, <2>5 DEF Finalize, RowOK, SaleOK, Exists, Claimable
    <2>8. ProcessOK'
        BY <2>5 DEF Finalize, RefundInv, TypeOK, ProcessOK, Exists
    <2> QED
        BY <2>6, <2>7, <2>8 DEF RefundInv
<1>2. CASE ~ Reversible
    BY <1>2, WorkerMoves DEF Finalize
<1> QED
    BY <1>1, <1>2

LEMMA DropStep ==
    ASSUME RefundInv, NEW w \in Workers, Drop(w)
    PROVE  RefundInv'
BY WorkerMoves, IdleWorker DEF Drop

------------------------------------------------------------------------------
\* What else happens to the sale

LEMMA LeaseEndsStep == RefundInv /\ LeaseEnds => RefundInv'
BY DEF LeaseEnds, RefundInv, TypeOK, RowOK, SaleOK, ProcessOK, Exists, RefundRows

LEMMA BackoffEndsStep == RefundInv /\ BackoffEnds => RefundInv'
BY DEF BackoffEnds, RefundInv, TypeOK, RowOK, SaleOK, ProcessOK, Exists, RefundRows,
       Claimable

LEMMA RecordTaxStep == RefundInv /\ RecordTax => RefundInv'
BY DEF RecordTax, RefundInv, TypeOK, RowOK, SaleOK, ProcessOK, Exists, SaleRows

LEMMA DisputeStep ==
    ASSUME RefundInv, NEW standing \in Standings, DisputeMoves(standing)
    PROVE  RefundInv'
<1>1. /\ sale' \in SaleRows
      /\ \/ sale' = sale
         \/ sale.reversal = "NONE" /\ sale' = [sale EXCEPT !.reversal = "CHARGEBACK"]
    BY DEF DisputeMoves, Reversible, RefundInv, TypeOK, SaleRows
<1>2. dispute' \in DisputeStandings
    BY StandingsAssumption DEF DisputeMoves, DisputeStandings
<1> QED
    BY <1>1, <1>2 DEF DisputeMoves, RefundInv, TypeOK, RowOK, SaleOK, ProcessOK, Exists,
                      SaleRows

------------------------------------------------------------------------------
\* Theorems

LEMMA InitInv == Init => RefundInv
BY AttemptsAssumption, IdleWorker
   DEF Init, RefundInv, TypeOK, RowOK, SaleOK, ProcessOK, Exists, NoRefund, RefundRows,
       SaleRows, DisputeStandings, AtRest, OperatorRows, Statuses, Claimable

LEMMA StepInv == RefundInv /\ [Next]_vars => RefundInv'
<1> SUFFICES ASSUME RefundInv, [Next]_vars
             PROVE  RefundInv'
    OBVIOUS
<1>1. CASE UNCHANGED vars
    BY <1>1 DEF vars, RefundInv, TypeOK, RowOK, SaleOK, ProcessOK, Exists
<1>2. ASSUME NEW o \in Operators, Request(o) \/ DropRequest(o)
      PROVE  RefundInv'
    BY <1>2, RequestCheckStep, CreateStep, RequeueCheckStep, RequeueStep, DropRequestStep
       DEF Request
<1>3. ASSUME NEW w \in Workers, Cycle(w) \/ Drop(w)
      PROVE  RefundInv'
    BY <1>3, RecoverStep, SelectStep, ClaimStep, VerifyStep, CallProviderStep,
       ResolveStep, FailStep, FinalizeStep, DropStep
       DEF Cycle
<1>4. CASE LeaseEnds \/ BackoffEnds \/ RecordTax
    BY <1>4, LeaseEndsStep, BackoffEndsStep, RecordTaxStep
<1>5. ASSUME NEW standing \in Standings, DisputeMoves(standing)
      PROVE  RefundInv'
    BY <1>5, DisputeStep
<1> QED
    BY <1>1, <1>2, <1>3, <1>4, <1>5 DEF Next

\* The rows of a refund and what its workers and operators are about to write fit
\* together in every reachable state.
THEOREM RefundInvariance == Spec => []RefundInv
<1> QED
    BY InitInv, StepInv, PTL DEF Spec

\* The books never say more than the money: a refunded row has its reversal entry, a
\* reversal by refund has the provider's answer, a tax reversal has both.
THEOREM BooksFollowMoney == Spec => []BookedAsReturned
<1>1. RefundInv => BookedAsReturned
    BY DEF RefundInv, RowOK, SaleOK, BookedAsReturned
<1> QED
    BY <1>1, RefundInvariance, PTL

\* Late workers, recoveries and requeues never bring the row beyond its attempts.
THEOREM AttemptsAreBounded == Spec => []AttemptsWithinContract
<1>1. RefundInv => AttemptsWithinContract
    BY DEF RefundInv, RowOK, AttemptsWithinContract
<1> QED
    BY <1>1, RefundInvariance, PTL

\* Whoever reverses the sale first, a refund or a chargeback, no step of anybody
\* changes it.
THEOREM ReversalStands == Spec => ReversalIsFinal
<1>1. RefundInv /\ [Next]_vars => [sale.reversal # "NONE" => sale'.reversal = sale.reversal]_vars
    <2> SUFFICES ASSUME RefundInv, Next, sale.reversal # "NONE"
                 PROVE  sale'.reversal = sale.reversal
        OBVIOUS
    <2>1. ASSUME NEW o \in Operators, Request(o) \/ DropRequest(o)
          PROVE  sale' = sale
        BY <2>1 DEF Request, RequestCheck, Create, RequeueCheck, Requeue, DropRequest
    <2>2. ASSUME NEW w \in Workers, Cycle(w) \/ Drop(w)
          PROVE  sale' = sale
        BY <2>2 DEF Cycle, Recover, Select, Claim, Verify, CallProvider, Resolve, Fail,
                    Finalize, Reversible, Drop
    <2>3. CASE LeaseEnds \/ BackoffEnds \/ RecordTax
        BY <2>3 DEF LeaseEnds, BackoffEnds, RecordTax, RefundInv, TypeOK, SaleRows
    <2>4. ASSUME NEW standing \in Standings, DisputeMoves(standing)
          PROVE  sale' = sale
        BY <2>4 DEF DisputeMoves, Reversible
    <2> QED
        BY <2>1, <2>2, <2>3, <2>4 DEF Next
<1> QED
    BY <1>1, RefundInvariance, PTL DEF Spec, ReversalIsFinal

------------------------------------------------------------------------------
\* The payment of the order

USE DEF Goes, Ends

\* What a request in flight needs of the order: a session and, when its decision is
\* written, the record of it.
RequestRowOK(row) ==
    /\ row.step # "IDLE" => order.session
    /\ row.step = "SELL" => row.event.kind = "SUCCEEDED"
    /\ row.step = "FAIL" => row.event.kind = "FAILED"
    /\ row.step \in {"CANCEL", "CANCEL_WRITE"} => row.event.kind = "ABANDONED"
    /\ row.step \in Finished => Recorded(row.event)
    /\ row.step \in Finished /\ row.done = "SALE_RECORDED" => booking # NoRef

LEMMA HandlerRowsOK == HandlerOK <=> \A h \in Handlers : RequestRowOK(handler[h])
  BY DEF HandlerOK, RequestRowOK

\* Idle is a row of its type and asks nothing of the order.
LEMMA IdleOK == IdleHandler \in HandlerRows /\ RequestRowOK(IdleHandler)
<1>1. (CHOOSE e \in Events : TRUE) \in Events
  BY EventsAssumption
<1> QED
  BY <1>1 DEF IdleHandler, HandlerRows, HandlerSteps, Dispositions, RequestRowOK, Finished

\* A step that changes nothing but one request's row keeps the invariant when the
\* new row is in order.
LEMMA RowStep ==
  ASSUME OrderInv, NEW h \in Handlers, NEW row \in HandlerRows, RequestRowOK(row),
         handler' = [handler EXCEPT ![h] = row],
         UNCHANGED <<order, booking, notices, events>>
  PROVE  OrderInv'
<1>1. PaymentTypeOK'
  BY DEF OrderInv, PaymentTypeOK
<1>2. OrderOK'
  BY DEF OrderInv, OrderOK, Recorded
<1>3. HandlerOK'
  <2> SUFFICES ASSUME NEW g \in Handlers
               PROVE  RequestRowOK(handler[g])'
    BY DEF HandlerOK, RequestRowOK
  <2>1. RequestRowOK(handler'[g])
    BY HandlerRowsOK DEF OrderInv, PaymentTypeOK
  <2> QED
    BY <2>1 DEF RequestRowOK, Recorded
<1> QED
  BY <1>1, <1>2, <1>3 DEF OrderInv

\* Giving up a request keeps the invariant.
LEMMA EndStep ==
  ASSUME OrderInv, NEW h \in Handlers, Ends(h),
         UNCHANGED <<order, booking, notices, events>>
  PROVE  OrderInv'
  BY IdleOK, RowStep

\* A finished request: its row, as Finishes writes it.
FinishedRow(h, disposition) ==
    [handler[h] EXCEPT !.step = "CONFIRM",
                       !.done = IF handler[h].wasPaid
                                  THEN "ALREADY_RECORDED" ELSE disposition]

LEMMA FinishesWrites ==
  ASSUME OrderInv, NEW h \in Handlers, NEW disposition \in Dispositions,
         Finishes(h, disposition)
  PROVE  /\ handler' = [handler EXCEPT ![h] = FinishedRow(h, disposition)]
         /\ FinishedRow(h, disposition) \in HandlerRows
         /\ FinishedRow(h, disposition).step = "CONFIRM"
         /\ FinishedRow(h, disposition).event = handler[h].event
         /\ FinishedRow(h, disposition).done \in {"ALREADY_RECORDED", disposition}
  BY DEF Finishes, FinishedRow, OrderInv, PaymentTypeOK, HandlerRows, HandlerSteps, Dispositions

\* A step that decides the order as request h was to: the sale it had stays, the
\* papers and the session too, and h has recorded its event.
LEMMA DecidingStep ==
  ASSUME OrderInv, NEW h \in Handlers, NEW disposition \in Dispositions,
         Finishes(h, disposition),
         NEW to \in {"PAID", "PAYMENT_FAILED", "CANCELLED"},
         order' = [order EXCEPT !.lifecycle = to],
         booking' \in Refs \cup {NoRef},
         booking # NoRef => booking' = booking,
         to = "PAID" => booking' # NoRef,
         disposition = "SALE_RECORDED" => booking' # NoRef,
         handler[h].event.kind = "SUCCEEDED" => booking' = handler[h].event.ref,
         handler[h].step # "IDLE",
         UNCHANGED <<notices, events>>
  PROVE  OrderInv'
<1>1. /\ handler' = [handler EXCEPT ![h] = FinishedRow(h, disposition)]
      /\ FinishedRow(h, disposition) \in HandlerRows
      /\ FinishedRow(h, disposition).step = "CONFIRM"
      /\ FinishedRow(h, disposition).event = handler[h].event
      /\ FinishedRow(h, disposition).done \in {"ALREADY_RECORDED", disposition}
  BY FinishesWrites
<1>2. PaymentTypeOK'
  BY <1>1 DEF OrderInv, PaymentTypeOK, OrderRows, Lifecycles
<1>3. order.session /\ RequestRowOK(handler[h])
  BY HandlerRowsOK DEF OrderInv, RequestRowOK
<1>4. /\ order'.lifecycle = to /\ order'.session = order.session
      /\ order'.papers = order.papers /\ order'.ended = order.ended
  BY DEF OrderInv, PaymentTypeOK, OrderRows
<1>5. ASSUME NEW e \in Events, Recorded(e)
      PROVE  Recorded(e)'
  BY <1>4, <1>5, EventsAssumption DEF Recorded
<1>6. OrderOK'
  BY <1>3, <1>4, <1>5 DEF OrderInv, OrderOK
<1>7. HandlerOK'
  <2> SUFFICES ASSUME NEW g \in Handlers
               PROVE  RequestRowOK(handler[g])'
    BY DEF HandlerOK, RequestRowOK
  <2>1. CASE g = h
    <3>1. handler'[g] = FinishedRow(h, disposition)
      BY <1>1, <2>1 DEF OrderInv, PaymentTypeOK
    <3>2. Recorded(handler[h].event)'
      BY <1>1, <1>4, <3>1 DEF Recorded
    <3> QED
      BY <1>1, <1>3, <1>4, <3>1, <3>2 DEF RequestRowOK, Finished, Recorded
  <2>2. CASE g # h
    <3>1. handler'[g] = handler[g] /\ RequestRowOK(handler[g]) /\ handler[g].event \in Events
      BY <1>1, <2>2, HandlerRowsOK DEF OrderInv, PaymentTypeOK, HandlerRows
    <3> QED
      BY <1>3, <1>4, <1>5, <3>1 DEF RequestRowOK
  <2> QED
    BY <2>1, <2>2
<1> QED
  BY <1>2, <1>6, <1>7 DEF OrderInv

------------------------------------------------------------------------------
\* Init and the actions, one by one

LEMMA PaymentInitInv == PaymentInit => OrderInv
<1> SUFFICES ASSUME PaymentInit PROVE OrderInv
  OBVIOUS
<1>1. PaymentTypeOK
  <2>1. order \in OrderRows
    BY DEF PaymentInit, OrderRows, Lifecycles
  <2> QED
    BY <2>1, IdleOK DEF PaymentInit, PaymentTypeOK
<1>2. OrderOK
  BY DEF PaymentInit, OrderOK
<1>3. HandlerOK
  <2>1. \A h \in Handlers : handler[h] = IdleHandler
    BY DEF PaymentInit
  <2> QED
    BY <2>1, IdleOK, HandlerRowsOK
<1> QED
  BY <1>1, <1>2, <1>3 DEF OrderInv

\* The checkout's steps come before the session, hence before any request.
LEMMA CheckoutInv ==
  ASSUME OrderInv, Place \/ WritePaper \/ Initiate \/ EndCheckout
  PROVE  OrderInv'
<1> USE DEF OrderInv, OrderOK, HandlerOK, Recorded
<1>1. CASE Place
  BY <1>1 DEF Place, PaymentTypeOK, OrderRows, Lifecycles, Finished
<1>2. CASE WritePaper
  <2>1. NextPaper(order.papers) \in Papers
    BY DEF NextPaper, Papers
  <2>2. order' \in OrderRows /\ order'.lifecycle = order.lifecycle
        /\ order'.session = order.session /\ order'.ended = order.ended
    BY <1>2, <2>1 DEF WritePaper, PaymentTypeOK, OrderRows
  <2>3. ~ order.session
    BY <1>2 DEF WritePaper
  <2> QED
    BY <1>2, <2>2, <2>3 DEF WritePaper, PaymentTypeOK, Finished
<1>3. CASE Initiate
  BY <1>3 DEF Initiate, Payable, PaymentTypeOK, OrderRows, Finished
<1>4. CASE EndCheckout
  BY <1>4 DEF EndCheckout, PaymentTypeOK, OrderRows, Finished
<1> QED
  BY <1>1, <1>2, <1>3, <1>4

\* A first read that finds nothing left to record finds the order decided, and no
\* success among such events.
LEMMA DeliverInv ==
  ASSUME OrderInv, NEW h \in Handlers, NEW e \in Events, Deliver(h, e)
  PROVE  OrderInv'
<1> DEFINE step == IF AlreadyRecorded(e) THEN "CONFIRM"
                   ELSE IF e.kind = "ABANDONED" THEN "CANCEL" ELSE "RECORD"
           row == [IdleHandler EXCEPT !.event = e, !.wasPaid = (order.lifecycle = "PAID"),
                               !.step = step]
<1>1. /\ row.step = step /\ row.event = e /\ row.done = "ALREADY_RECORDED"
      /\ row \in HandlerRows
  BY IdleOK DEF HandlerRows, HandlerSteps, IdleHandler
<1>2. order.session /\ order.lifecycle # "NONE"
  BY DEF Deliver, OrderInv, OrderOK
<1>3. AlreadyRecorded(e) => Recorded(e)
  BY <1>2 DEF AlreadyRecorded, Recorded
<1>4. RequestRowOK(row)
  BY <1>1, <1>2, <1>3 DEF RequestRowOK, Finished
<1> HIDE DEF row, step
<1>5. handler' = [handler EXCEPT ![h] = row]
  BY DEF Deliver, row, step
<1>6. PaymentTypeOK'
  BY <1>1, <1>5 DEF Deliver, OrderInv, PaymentTypeOK
<1>7. OrderOK'
  BY <1>2 DEF Deliver, OrderInv, OrderOK, PaymentTypeOK, Recorded
<1>8. HandlerOK'
  <2> SUFFICES ASSUME NEW g \in Handlers
               PROVE  RequestRowOK(handler[g])'
    BY DEF HandlerOK, RequestRowOK
  <2>1. RequestRowOK(handler'[g])
    BY <1>4, <1>5, HandlerRowsOK DEF OrderInv, PaymentTypeOK
  <2> QED
    BY <2>1 DEF RequestRowOK, Recorded, Deliver
<1> QED
  BY <1>6, <1>7, <1>8 DEF OrderInv

LEMMA HandlerTyped ==
  ASSUME OrderInv, NEW h \in Handlers
  PROVE  /\ handler[h] \in HandlerRows /\ handler[h].event \in Events
         /\ RequestRowOK(handler[h])
  BY HandlerRowsOK DEF OrderInv, PaymentTypeOK, HandlerRows

\* A request that only goes on to another step.
LEMMA GoStep ==
  ASSUME OrderInv, NEW h \in Handlers, NEW step \in HandlerSteps, Goes(h, step),
         RequestRowOK([handler[h] EXCEPT !.step = step]),
         UNCHANGED <<order, booking, notices, events>>
  PROVE  OrderInv'
<1>1. [handler[h] EXCEPT !.step = step] \in HandlerRows
  BY HandlerTyped DEF HandlerRows
<1>2. handler' = [handler EXCEPT ![h] = [handler[h] EXCEPT !.step = step]]
  OBVIOUS
<1> QED
  BY <1>1, <1>2, RowStep

LEMMA RecordInv ==
  ASSUME OrderInv, NEW h \in Handlers, Record(h)
  PROVE  OrderInv'
<1>1. /\ handler[h].step = "RECORD" /\ handler[h] \in HandlerRows
      /\ order.session /\ UNCHANGED <<order, booking, notices, events>>
  BY HandlerTyped DEF Record, RequestRowOK
<1>2. CASE Ends(h)
  BY <1>1, <1>2, EndStep
<1>3. CASE order.lifecycle = "PAID" /\ Replays(handler[h].event)
           /\ Finishes(h, "SALE_RECORDED")
  <2>1. Recorded(handler[h].event) /\ booking # NoRef
    BY <1>3 DEF Recorded, Replays, OrderInv, OrderOK
  <2>2. /\ handler' = [handler EXCEPT ![h] = FinishedRow(h, "SALE_RECORDED")]
        /\ FinishedRow(h, "SALE_RECORDED") \in HandlerRows
        /\ FinishedRow(h, "SALE_RECORDED").step = "CONFIRM"
        /\ FinishedRow(h, "SALE_RECORDED").event = handler[h].event
    BY <1>3, FinishesWrites DEF Dispositions
  <2>3. RequestRowOK(FinishedRow(h, "SALE_RECORDED"))
    BY <1>1, <2>1, <2>2 DEF RequestRowOK, Finished
  <2> QED
    BY <1>1, <2>2, <2>3, RowStep
<1>4. CASE handler[h].event.kind = "SUCCEEDED" /\ Goes(h, "SELL")
  <2>1. RequestRowOK([handler[h] EXCEPT !.step = "SELL"])
    BY <1>1, <1>4 DEF RequestRowOK, Finished, HandlerRows
  <2> QED
    BY <1>1, <1>4, <2>1, GoStep DEF HandlerSteps
<1>5. CASE handler[h].event.kind = "FAILED" /\ Goes(h, "FAIL")
  <2>1. RequestRowOK([handler[h] EXCEPT !.step = "FAIL"])
    BY <1>1, <1>5 DEF RequestRowOK, Finished, HandlerRows
  <2> QED
    BY <1>1, <1>5, <2>1, GoStep DEF HandlerSteps
<1> QED
  BY <1>2, <1>3, <1>4, <1>5 DEF Record

LEMMA CancelInv ==
  ASSUME OrderInv, NEW h \in Handlers, Cancel(h)
  PROVE  OrderInv'
<1>1. /\ handler[h].step = "CANCEL" /\ handler[h] \in HandlerRows
      /\ order.session /\ handler[h].event.kind = "ABANDONED"
      /\ UNCHANGED <<order, booking, notices, events>>
  BY HandlerTyped DEF Cancel, RequestRowOK
<1>2. RequestRowOK([handler[h] EXCEPT !.step = "CANCEL_WRITE"])
  BY <1>1 DEF RequestRowOK, Finished, HandlerRows
<1> QED
  BY <1>1, <1>2, GoStep, EndStep DEF Cancel, HandlerSteps

LEMMA WriteInv ==
  ASSUME OrderInv, NEW h \in Handlers, Writes(h)
  PROVE  OrderInv'
<1>1. RequestRowOK(handler[h]) /\ handler[h].event \in Events
  BY HandlerTyped
<1>2. handler[h].event.kind = "SUCCEEDED" =>
        handler[h].event.ref \in Refs /\ handler[h].event.ref # NoRef
  BY <1>1, EventsAssumption
<1>3. CASE Sell(h)
  <2>1. CASE Accountable /\ Bookable
    BY <1>1, <1>2, <1>3, <2>1, DecidingStep
       DEF Sell, Bookable, RequestRowOK, Dispositions
  <2>2. CASE ~ (Accountable /\ Bookable)
    BY <1>3, <2>2, EndStep DEF Sell
  <2> QED
    BY <2>1, <2>2
<1>4. CASE RecordFailure(h)
  BY <1>1, <1>4, DecidingStep DEF RecordFailure, RequestRowOK, Dispositions, OrderInv, PaymentTypeOK
<1>5. CASE CancelWrite(h)
  BY <1>1, <1>5, DecidingStep DEF CancelWrite, RequestRowOK, Dispositions, OrderInv, PaymentTypeOK
<1> QED
  BY <1>3, <1>4, <1>5 DEF Writes

LEMMA FinishingInv ==
  ASSUME OrderInv, NEW h \in Handlers, Finishing(h)
  PROVE  OrderInv'
<1>1. handler[h] \in HandlerRows /\ handler[h].event \in Events /\ RequestRowOK(handler[h])
  BY HandlerTyped
<1> USE DEF OrderInv
<1>2. CASE Confirm(h)
  <2> USE DEF Confirm
  <2>1. order' \in OrderRows /\ order'.lifecycle = order.lifecycle
        /\ order'.session = order.session /\ order'.ended = order.ended
        /\ order'.papers = order.papers
    BY <1>2 DEF PaymentTypeOK, OrderRows
  <2>2. handler' \in [Handlers -> HandlerRows]
    BY <1>1, <1>2 DEF PaymentTypeOK, HandlerRows, HandlerSteps
  <2>3. PaymentTypeOK' /\ OrderOK'
    BY <1>2, <2>1, <2>2 DEF PaymentTypeOK, OrderOK, Recorded
  <2>4. ASSUME NEW g \in Handlers PROVE RequestRowOK(handler[g])'
    BY <1>1, <1>2, <2>1, HandlerRowsOK DEF RequestRowOK, Recorded, Finished, PaymentTypeOK, HandlerRows
  <2> QED
    BY <2>3, <2>4 DEF HandlerOK, RequestRowOK
<1>3. CASE Notify(h)
  <2> USE DEF Notify
  <2>1. PICK committed \in Commitments(handler[h].done) : notices' = notices \cup committed
    BY <1>3
  <2>2. committed \subseteq Notices
    BY <2>1 DEF Commitments, Notices
  <2>3. "RECEIPT" \in committed => booking # NoRef
    <3>1. "RECEIPT" \in committed => handler[h].done = "SALE_RECORDED"
      BY <2>1 DEF Commitments
    <3> QED
      BY <1>1, <1>3, <3>1 DEF RequestRowOK, Finished
  <2>4. handler' \in [Handlers -> HandlerRows]
    BY <1>1, <1>3 DEF PaymentTypeOK, HandlerRows, HandlerSteps
  <2>5. PaymentTypeOK' /\ OrderOK'
    BY <1>3, <2>1, <2>2, <2>3, <2>4 DEF PaymentTypeOK, OrderOK, Recorded
  <2>6. ASSUME NEW g \in Handlers PROVE RequestRowOK(handler[g])'
    BY <1>1, <1>3, HandlerRowsOK DEF RequestRowOK, Recorded, Finished, PaymentTypeOK, HandlerRows
  <2> QED
    BY <2>5, <2>6 DEF HandlerOK, RequestRowOK
<1>4. CASE Respond(h)
  <2> USE DEF Respond
  <2>1. Recorded(handler[h].event) /\ order.session
    BY <1>1, <1>4 DEF RequestRowOK, Finished
  <2>2. handler' \in [Handlers -> HandlerRows]
    BY <1>4, IdleOK DEF PaymentTypeOK
  <2>3. PaymentTypeOK' /\ OrderOK'
    BY <1>1, <1>4, <2>1, <2>2 DEF PaymentTypeOK, OrderOK, Recorded
  <2>4. ASSUME NEW g \in Handlers PROVE RequestRowOK(handler[g])'
    <3>1. RequestRowOK(handler'[g])
      BY <1>4, IdleOK, HandlerRowsOK DEF PaymentTypeOK
    <3> QED
      BY <1>4, <3>1 DEF RequestRowOK, Recorded
  <2> QED
    BY <2>3, <2>4 DEF HandlerOK, RequestRowOK
<1> QED
  BY <1>2, <1>3, <1>4 DEF Finishing

------------------------------------------------------------------------------
\* The theorems

LEMMA NextInv == OrderInv /\ [PaymentNext]_paymentVars => OrderInv'
<1> SUFFICES ASSUME OrderInv, [PaymentNext]_paymentVars
             PROVE  OrderInv'
  OBVIOUS
<1>1. CASE Place \/ WritePaper \/ Initiate \/ EndCheckout
  BY <1>1, CheckoutInv
<1>2. ASSUME NEW h \in Handlers, NEW e \in Events, Deliver(h, e) PROVE OrderInv'
  BY <1>2, DeliverInv
<1>3. ASSUME NEW h \in Handlers, Reads(h) PROVE OrderInv'
  BY <1>3, RecordInv, CancelInv DEF Reads
<1>4. ASSUME NEW h \in Handlers, Writes(h) PROVE OrderInv'
  BY <1>4, WriteInv
<1>5. ASSUME NEW h \in Handlers, Finishing(h) PROVE OrderInv'
  BY <1>5, FinishingInv
<1>6. ASSUME NEW h \in Handlers, Interrupt(h) PROVE OrderInv'
  BY <1>6, EndStep DEF Interrupt
<1>7. CASE UNCHANGED paymentVars
  BY <1>7 DEF paymentVars, OrderInv, PaymentTypeOK, OrderOK, HandlerOK, Recorded
<1> QED
  BY <1>1, <1>2, <1>3, <1>4, <1>5, <1>6, <1>7 DEF PaymentNext

\* The inductive invariant of orders and requests, for any number of requests and
\* any events, contradictory or not.
THEOREM OrderInvariance == PaymentSpec => []OrderInv
  BY PaymentInitInv, NextInv, PTL DEF PaymentSpec

\* The provider is only told "received" of what the order has recorded: an
\* acknowledged success is the booked sale.
THEOREM AcknowledgementsAreTrue == PaymentSpec => []AcknowledgedIsRecorded
<1>1. OrderInv => AcknowledgedIsRecorded
  BY DEF OrderInv, OrderOK, AcknowledgedIsRecorded
<1> QED
  BY <1>1, OrderInvariance, PTL

\* PAID only with a sale, a receipt only of a sale, and no sale of a buyer whose
\* terms, identity and tax are not on record.
THEOREM BooksAreComplete == PaymentSpec => []PaidIsBookedAndExplained
<1>1. OrderInv => PaidIsBookedAndExplained
  BY DEF OrderInv, OrderOK, PaidIsBookedAndExplained
<1> QED
  BY <1>1, OrderInvariance, PTL

\* One order, one sale: whatever is redelivered and whoever overlaps, the booked
\* reference stays.
THEOREM SaleStays == PaymentSpec => SaleIsFinal
<1>1. [PaymentNext]_paymentVars => [booking # NoRef => booking' = booking]_paymentVars
  <2> SUFFICES ASSUME [PaymentNext]_paymentVars, booking # NoRef
               PROVE  booking' = booking
    BY DEF paymentVars
  <2>1. ASSUME NEW h \in Handlers, Writes(h) PROVE booking' = booking
    BY <2>1 DEF Writes, Sell, RecordFailure, CancelWrite, Bookable
  <2> QED
    BY <2>1 DEF PaymentNext, paymentVars, Place, WritePaper, Initiate, EndCheckout, Deliver, Reads,
                Record, Cancel, Finishing, Confirm, Notify, Respond, Interrupt
<1> QED
  BY <1>1, PTL DEF PaymentSpec, SaleIsFinal

\* A paid order with no failure or cancellation decided before stays paid, whatever
\* is delivered from then on.
THEOREM PaidStays == PaymentSpec => PaidStaysPaid
<1>1. OrderInv /\ [PaymentNext]_paymentVars => [Settled => Settled']_paymentVars
  <2> SUFFICES ASSUME OrderInv, [PaymentNext]_paymentVars, Settled
               PROVE  Settled'
    BY DEF paymentVars
  <2> DEFINE Safe == {"IDLE", "RECORD", "SELL", "CANCEL", "CONFIRM", "NOTIFY", "RESPOND"}
  <2>1. ASSUME order'.lifecycle = "PAID", NEW h \in Handlers, NEW row \in HandlerRows,
               handler' = [handler EXCEPT ![h] = row], row.step \in Safe
        PROVE  Settled'
    BY <2>1 DEF Settled, OrderInv, PaymentTypeOK
  <2>2. order.lifecycle = "PAID" /\ order \in OrderRows
    BY DEF Settled, OrderInv, PaymentTypeOK
  <2>3. ASSUME NEW h \in Handlers, Ends(h), order' = order
        PROVE  Settled'
    <3>1. IdleHandler \in HandlerRows /\ IdleHandler.step \in Safe
      BY IdleOK DEF IdleHandler
    <3> QED
      BY <2>1, <2>2, <2>3, <3>1
  <2>4. ASSUME NEW h \in Handlers, NEW step \in Safe, Goes(h, step),
               order'.lifecycle = "PAID"
        PROVE  Settled'
    <3>1. /\ [handler[h] EXCEPT !.step = step] \in HandlerRows
          /\ [handler[h] EXCEPT !.step = step].step = step
      BY HandlerTyped DEF HandlerRows, HandlerSteps
    <3>2. handler' = [handler EXCEPT ![h] = [handler[h] EXCEPT !.step = step]]
      BY <2>4
    <3> HIDE DEF Safe
    <3> QED
      BY <2>1, <2>4, <3>1, <3>2
  <2>5. ASSUME NEW h \in Handlers, Finishes(h, "SALE_RECORDED"),
               order'.lifecycle = "PAID"
        PROVE  Settled'
    <3>1. /\ handler' = [handler EXCEPT ![h] = FinishedRow(h, "SALE_RECORDED")]
          /\ FinishedRow(h, "SALE_RECORDED") \in HandlerRows
          /\ FinishedRow(h, "SALE_RECORDED").step \in Safe
      BY <2>5, FinishesWrites DEF Dispositions
    <3> QED
      BY <2>1, <2>5, <3>1
  <2>6. ASSUME NEW h \in Handlers, NEW e \in Events, Deliver(h, e)
        PROVE  Settled'
    <3> DEFINE step == IF AlreadyRecorded(e) THEN "CONFIRM"
                       ELSE IF e.kind = "ABANDONED" THEN "CANCEL" ELSE "RECORD"
               row  == [IdleHandler EXCEPT !.event = e,
                                    !.wasPaid = (order.lifecycle = "PAID"),
                                    !.step = step]
    <3>1. row \in HandlerRows /\ row.step = step
      BY IdleOK DEF HandlerRows, HandlerSteps, IdleHandler
    <3>2. step \in Safe
      OBVIOUS
    <3>3. handler' = [handler EXCEPT ![h] = row] /\ order' = order
      BY <2>6 DEF Deliver
    <3> HIDE DEF row, step, Safe
    <3> QED
      BY <2>1, <2>2, <3>1, <3>2, <3>3
  <2>7. ASSUME NEW h \in Handlers, Reads(h)
        PROVE  Settled'
    <3>1. order' = order
      BY <2>7 DEF Reads, Record, Cancel
    <3>2. \/ Ends(h)
          \/ Finishes(h, "SALE_RECORDED")
      BY <2>2, <2>7 DEF Reads, Record, Cancel, Cancellable, ValidTransition
    <3> QED
      BY <2>2, <2>3, <2>5, <3>1, <3>2
  <2>8. ASSUME NEW h \in Handlers, Writes(h)
        PROVE  Settled'
    <3>1. Sell(h)
      BY <2>8 DEF Writes, RecordFailure, CancelWrite, Settled
    <3>2. order'.lifecycle = "PAID"
      BY <2>2, <3>1 DEF Sell, OrderRows
    <3> QED
      BY <2>2, <2>3, <2>5, <3>1, <3>2 DEF Sell
  <2>9. ASSUME NEW h \in Handlers, Finishing(h)
        PROVE  Settled'
    <3>1. order'.lifecycle = "PAID"
      BY <2>2, <2>9 DEF Finishing, Confirm, Notify, Respond, OrderRows
    <3>2. \/ Goes(h, "NOTIFY") \/ Goes(h, "RESPOND")
          \/ Ends(h) /\ order' = order
      BY <2>9 DEF Finishing, Confirm, Notify, Respond
    <3> QED
      BY <2>3, <2>4, <3>1, <3>2
  <2>10. CASE Place \/ WritePaper \/ Initiate \/ EndCheckout
    BY <2>2, <2>10 DEF Place, WritePaper, Initiate, EndCheckout, Settled, OrderRows
  <2>11. ASSUME NEW h \in Handlers, Interrupt(h) PROVE Settled'
    BY <2>3, <2>11 DEF Interrupt
  <2>12. CASE UNCHANGED paymentVars
    BY <2>12 DEF paymentVars, Settled
  <2> QED
    BY <2>6, <2>7, <2>8, <2>9, <2>10, <2>11, <2>12 DEF PaymentNext
<1> QED
  BY <1>1, OrderInvariance, PTL DEF PaymentSpec, PaidStaysPaid

==============================================================================
