# A TLA+ model of Monacado

Monacado is a TypeScript marketplace on MySQL (through Prisma): sellers author
Products, Offers and Listings, Product capsules are registered with an external
Registrar, buyers pay through Stripe checkout, and refunds, disputes, taxes,
notifications and participant governance hang off the resulting order. There is
no in-process concurrency worth the name: every hard behaviour comes from several
processes (route handlers, webhook deliveries, operator scripts, worker cycles)
meeting in the database, each reading rows, deciding, and writing later, and from
external services that deliver late, twice or never.

The database matters to every module: no transaction sets an isolation level, so
MySQL's default REPEATABLE READ applies and a plain read inside or outside a
transaction is a snapshot that locks nothing. What the code can rely on are
guarded updates (`updateMany` whose WHERE re-asserts the precondition), unique
indexes, locking reads, and the atomicity of one transaction. A snapshot is taken
at the first plain read and waiting for a lock does not renew it, so a plain read
under a lock may still show what was true before the wait. The models therefore
split a handler at exactly those points: a read-and-check step and a commit step,
or one step per guarded update; an act is a single step only where a lock comes
before its first read.

## 1. Inventory

| Component | State | Operations | Interacts with | Hard behaviour | What makes it correct |
| --- | --- | --- | --- | --- | --- |
| **Publication pipeline** (`server/product/publication-*`, `submission-attempt-service`, `registrar-receipt-service`, `server/registrar`) | ProductPublication, PublicationOutbox, PublicationSubmissionAttempt, RegistrarReceipt, PublicationRemediation | prepare, cancel, claim, recover expired, prepare/mark/abandon attempt, send, resolve claim, record receipt, retry/close | worker cycles and operators share rows; HTTP to the Registrar | crashes under a lease, ambiguous delivery, stale reads before unguarded writes, late receipts | one live claim per item, only the current claim's attempt is answerable, verdicts never silently overturned, a stranded claim is recovered |
| **Worker cycle evidence** (`publication-worker-run-repository`, `publication-worker-cycle-service`, `server/operations`) | PublicationWorkerRun | start, complete, fail, abandon stale; status, health and monitoring reads | wraps the pipeline's cycles; monitoring classifies its rows | crash between start and finish, late finish after abandonment | a run is finished once; a vanished run is eventually reported, never silently "completed" |
| **Product authoring** (`product-node`, `product-source-record`, lifecycle, activation, suspension, tax classification, resale) | Product, ProductNode, versions, acts | create, new version, transition, suspend, classify | locked `FOR UPDATE` by offers and listings | version races | one current version; suspension dominates |
| **Offers and promotions** (`offer-service`, `promotion-authorization-service`, `promoted-listing-service`, `checkout-service`) | Offer, OfferVersion, end acts, PromotionAuthorization, PromotionOfferAcceptance | draft, revise, activate, pause, withdraw, promote, authorize, accept, bind a checkout | every act locks the product; a checkout reads without locks | terms revised under a checkout, instants taken before a lock, cycles that end and begin anew | one live offer; a sale rests on an acceptance of its own cycle and terms |
| **Storefronts and listings** (`storefront-service`, `listing-service`, `promoted-listing-service`) | Storefront, Listing, their version rows, governance seats | open, revise, expose, appoint, suspend a seat; place, price, activate, withdraw | read at checkout; depend on Product and participant standing | counts and roles read from a snapshot older than the lock | history without lost versions, one super owner, one placement per product |
| **Orders and checkout** (`order-service`, `payments/executable-checkout-service`, Stripe adapter and webhook) | Order, TransactionEconomicSnapshot, TransactionSettlement, ProceedsObligation, PurchaseEvidence, OrderBuyerSnapshot | place, initiate payment, finalise a confirmed payment, cancel, claim by guest | Stripe events, at least once and in any order; the notification outbox | duplicate and concurrent webhook deliveries, reads before unguarded writes, crash between commit and notice | one sale per order, PAID exactly with its economic snapshot, a sale never downgraded |
| **Refunds and reversals** (`order-refund-service`, `refund-processor`, `refund-operations`, `transaction-reversal-service`) | OrderRefund, OrderRefundLine, TransactionReversal, ProceedsRecoveryException | request, submit, record outcome, retry, reconcile | Stripe refunds; proceeds | ambiguous provider results, concurrent refunds against one balance | never refunds more than was paid; one reversal per settled refund |
| **Disputes** (`transaction-dispute-service`, evidence, chargeback fees) | TransactionDispute, events, evidence preparations, fees | open, update from events, prepare and submit evidence, close | Stripe dispute events; proceeds claims; the refund | events reordered, repeated, delivered by two requests at once | the sale is reversed once; a fee is charged once, and only for a loss; every claim at stake has its exception |
| **Tax recording** (`server/tax`) | OrderTaxEvidence, OrderTaxTransaction, OrderTaxReversal | record evidence, submit, reconcile, reverse, requeue | Stripe Tax; orders and refunds | submission retried after an ambiguous answer, keys the provider forgets, stale writes by identity | the authority is told of the sale once, and once that it came back |
| **Notifications and outbound email** (`server/notifications`, `notification-obligation-service`) | NotificationObligation, NotificationDelivery, OutboundEmailDelivery, EmailSuppression, ProviderEmailEvent | oblige, enqueue, lease and dispatch, record provider events, suppress | every business handler; email provider | at-least-once dispatch, bounced address racing a send | an obligation is delivered at most once per lease; nothing is sent to a suppressed address |
| **Participants and governance** (`participant-*`, activation, payment account, restriction, suspension, reconsideration, closure, commerce approval) | MarketplaceParticipant, role assignments, restrictions, suspensions, closures | register, activate, restrict, lift, suspend, reconsider, close | gates offers, listings, orders and payouts | overlapping governed acts | one open suspension; a closed participant never acts |
| **Risk** (`server/risk`, seller risk review) | policies, reviews, trigger reasons | evaluate, open a review, resolve | participants, orders, disputes | concurrent evaluations | one open review per participant and policy |
| **Accounts** (`server/account`) | Account, sessions, entitlements, verification and reset challenges | sign up, sign in (throttled), verify, reset, govern entitlements | every route | single-use challenges | a challenge is consumed once |
| **Policies and contacts** (`server/policy`) | MarketplacePolicy versions, acceptances, email contacts | publish, accept, verify | checkout binds versions | a version published during checkout | an order is bound to the version in force |
| **Contracts, routes, pages** (`contracts/`, `app/`) | none | validate, map, render | everything | none | pure |

## 2. Plan

Order of work, the most important behaviour first.

| Module | Models | State |
| --- | --- | --- |
| `PublicationPipeline`, abstract `RegistrationLifecycle` | registration of products (section 3) | modelled, checked, invariant and refinement proved |
| `OutboundEmail`, abstract `MessageDelivery` | the outbound email queue (section 4) | modelled, checked; safety and refinement proved |
| `OrderRefund` | the refund of one sale, against disputes and tax reports (section 5) | modelled, checked, safety proved |
| `OrderPayment` | checkout, webhook deliveries and the sale (section 6) | modelled, checked, safety proved |
| `SaleDispute` | dispute events, fees, claims on the proceeds and their exceptions, beside the refund (section 7) | modelled, checked; all properties proved |
| `TaxReporting`, abstract `TaxLedger` | the two tax queues of a sale (section 8) | modelled, checked; invariant, settled rows and refinement proved |
| `ParticipantStanding` | review, restriction, suspension, reconsideration, closure (section 9) | modelled, checked; all properties proved |
| `PromotedSale` | offers, promotions, authorization, acceptance, the promoted checkout (section 10) | modelled, checked; all properties proved |
| `StorefrontGovernance`, `StorefrontListings`, abstract `RecordHistory` | storefronts, seats and listings (section 11) | modelled, checked; all properties and both refinements proved |
| `WorkerRunEvidence` | run rows around the pipeline's cycles, late finish against abandonment | planned |
| `AccountChallenges`, `EmailContacts` | single-use challenges under concurrent consumption, replacement of an address | planned |
| `PolicyVersions` | versions published while checkouts bind them | planned |

Abstract specifications: `RegistrationLifecycle`, `MessageDelivery`, `TaxLedger` and
`RecordHistory` are implemented by the modules beside them. The refund's row promises
less than a message does: an operator's requeue is written by identity over whatever the
row has become (section 5), so what is claimed of it is `BookedAsReturned` and no history
of the row.

Every property that a run checks is stated by a theorem, but for four: the liveness
properties `StrandedClaimIsRecovered`, `CommittedIsSettled`, `ReturnedMoneyIsBooked` and
`OutcomeIsDecided` rest on fairness and stay with TLC.

A module's theorems are in `<module>_proof`. Those of the two modules about one order's
payment and refund share `Order_proof`, those about a sale's terms and its disputes share
`Sale_proof`; `OrderPayment` and `SaleDispute` name their `PaymentInit`, `DisputeNext` and
the like for that, so that both can be extended together. Neither half of these uses
anything of the other. All proofs rest on the named assumptions of the modules alone.

Runs keep every instance to two or three processes and one or two rows per table:
the races are pairwise, and a third process adds no new pair of steps.

## 3. The publication pipeline

### State and code

| Variable | Code |
| --- | --- |
| `now` | the wall clock the cycle's `TimeProvider` reads |
| `publication` | ProductPublication: `registrationState`, `reconciliationState`, `remediationState` |
| `outbox` | PublicationOutbox: status, lock token (modelled by the claim number: fresh per claim), lease, `attemptCount`, `availableAt`, whether the capsule body is retained |
| `attempt` | PublicationSubmissionAttempt status, one per (item, claim) |
| `receipts` | RegistrarReceipt rows |
| `sent` | ghost: claims whose request may have left the process; the Registrar answers only those |
| `run` | a worker cycle in memory: the step it is at, the instant it read, its claim |
| `op` | an operator's request that has read its rows and not yet committed |

| Action | Code |
| --- | --- |
| `PreparePublication`, `CancelItem` | `ProductPublicationService.prepareProductPublication`, `cancelPublicationOutbox` |
| `SweepSelect`, `SweepRow` | `recoverExpiredPublicationOutboxClaims`: the select, then one transaction per row |
| `SelectItem`, `ClaimItem` | `claimNextPublicationOutbox`: the select, then the guarded update |
| `PrepareCheck`, `CreateAttempt` | `preparePublicationSubmissionAttempt`: reads, then the create |
| `DispatchCheck`, `Send` | `sendPreparedPublicationAttempt` and the transport's classified outcome |
| `MarkCheck`, `MarkDispatched`, `AbandonAttempt` | attempt marking after the call |
| `ResolveClaim`, `CompleteClaim` | `resolveClaim` under mark retryable, dead letter, completed |
| `ReceiveReceipt`, `CommitReceipt` | `recordRegistrarReceipt`: reads and checks, then the transaction |
| `DecideRemediation`, `CommitRemediation` | `remediateProductPublication`: reads and checks, then the transaction |
| `Crash`, `CrashOperator` | a process dies, or throws before its next write |

The run's consequence is decided when the result of the transport call is known
(`Consequence`), since the code acts on nothing else afterwards. A receipt's
identity comparison is one bit, `matched`. Replays with identical inputs, which the
services answer from the existing rows, write nothing and are stutters.
`markPublicationOutboxCompleted` has no caller in `src/server` besides scripts and
tests; `CompleteClaim` models what the repository offers.

### Abstract specification

`RegistrationLifecycle` knows only the verdict of each publication and whether its
capsule body is held: prepared once; a mismatch or refusal calls for a decision; an
acceptance never overturns adverse evidence nobody decided about; closed and
resolved are final; a body is disposed of only by an acceptance. `VerdictOf` is the
refinement mapping.

### Runs

| Run | Instance | Shows |
| --- | --- | --- |
| `pipeline` | 1 publication, 2 workers, 2 operators, 2 claims, clock 0..2, symmetric processes | the invariants, no stolen live lease, the refinement |
| `recovery` | 2 publications, 1 worker, 1 operator, sweep limit 1, fair | a stranded claim is recovered |

Bounds: `MaxClaims` = 2 lets a claim expire, be recovered and be taken again while
the first worker is still alive, which is every race of two claims; `MaxTime` = 2
with `LeaseDuration` = 1 lets a lease expire before, at and after the instant a
process read. One publication suffices for safety (rows of different publications
are written independently; the theorems hold for any number); the recovery run takes
two so that they compete for the sweep's limit. The system may stop for good when
the clock and the claims are used up, so deadlock is not checked.

Fairness (`FairSpec`): time passes; a process in the middle of a request goes on or
dies; worker cycles with recovery enabled are invoked again and again (the operations
documents require scheduled invocation), hence strong fairness on starting a sweep and
on a sweep's rows, which a crash may interrupt any number of times but not forever.
No fairness is assumed for operators, receipts, or claims.

### Noticed

Where the code departs from what is written about it; no property claims otherwise.

* Ambiguity resends. `docs/PRODUCT_PUBLICATION_WORKER_OPERATIONS_TRACK.md:49-50` says
  an item whose delivery cannot be disproven is never retried. A worker that dies
  after its request went out leaves the item PROCESSING, and the sweep retries it once
  its lease is over (`publication-outbox-repository.ts:273`): the request is sent
  again, under an idempotency key.
* A receipt's transaction writes the item without the status it read
  (`registrar-receipt-service.ts:253`), so a dead-lettered item can become COMPLETED,
  an edge the contract's table does not have (`product-publication-outbox.ts:34-43`).
* An authorised retry that fails terminally before anything is sent leaves a
  publication that no receipt, sweep or decision moves any more
  (`publication-remediation-service.ts:183`).

### Proofs

`PublicationPipeline_proof` proves `Spec => []PipelineInv` for every value of the
constants under `LeaseAssumption`, `NullAssumption` and `BoundAssumption`. The
properties alone are not inductive: that a receipt decides on the current verdict
needs (a) only the latest claim's attempt can be DISPATCHED, (b) whoever changes the
verdict either abandons every open attempt or consumes the one attempt the receipt
answers, and (c) a worker about to mark its attempt still holds the claim. `ItemOK`,
`VerdictOK` and `AttemptOK` say what the rows agree on, `WorkerOK` and `OperatorOK`
what a pending write may rely on. One lemma per action; lemmas such as `WorkerMoves`
(a step that only moves a worker), `ItemOnly` and `ReleaseAndStop` carry what several
actions share. The safety properties are consequences; two of them, `ClaimContract` and
`ClosedItemIsParked`, follow so directly from the invariant that no run repeats them.

The same module proves the refinement (`Refinement`: every commit maps
to one abstract action, every other step to a stutter) and that no live lease is
stolen (`NoStolenLease`, which also needs that a worker's instant has passed).

Only model-checked: recovery under fairness.

## 4. Outbound email

### State and code

| Variable | Code |
| --- | --- |
| `delivery` | OutboundEmailDelivery: status, lock token (the number of the claim), lease, due instant, attempt count; one row per message (the unique dedupe key) |
| `worker` | a dispatch cycle or a send-now call in memory: its step, the instant it was given, the rows and counts it read, the message it is on |
| `suppressed` | messages whose address is under a standing suppression |
| `claims`, `sent`, `accepted` | claims made per row; ghosts: claims whose request went out, and was taken |
| `now` | the wall clock |

| Action | Code |
| --- | --- |
| `Enqueue` | `enqueueEmailDelivery`: an existing row is returned unchanged |
| `StartCycle`, `RecoverRow` | `recoverStaleEmailClaims`: the select, then a guarded update per row that counts the attempt |
| `SelectDue`, `SendNow`, `ClaimBatch`, `ReadBack` | `claimDueEmailDeliveries`: the select, one guarded update for the batch, the rows read back by token |
| `Prepare`, `Send` | `dispatchClaimedEmailDelivery`: rendering and the suppression check, then the provider call |
| `ReadAttempts`, `ResolveDelivery` | the outcome: the count is read, then written if the claim still holds |
| `Suppress`, `LiftSuppression` | provider events and address verification |
| `Abort` | the process dies, or a database error is thrown out of its cycle |

The clock is a sliding window: `Tick` counts up to `Window`, and then shifts every
recorded instant back by one instead, so that runs of any length have finitely many
states. Only the order of instants and their distances up to the window are told
apart, which is all the code compares. `DeliveryTime` is the longest a live worker
takes from one message to the next; time does not pass while a worker is overdue.

### Runs and bounds

| Run | Instance | Shows |
| --- | --- | --- |
| `email` | 1 message, 2 workers, 2 attempts, lease 1, window 1, slow workers, fair | invariant, the promise of `MessageDelivery`, no outcome over another claim, no stolen lease; whoever dies, a committed message ends |

Two attempts let a worker outlive the claim after its own; a third worker or attempt
adds no pair of steps, and the theorems hold for any number of both. A cycle writes
each row by itself, so one message shows every race; that one message waits for the
room another takes in a cycle is not run. `DeliveryTime` 4 is four leases: it leaves
a worker time to be outrun by anything.

Fairness (`FairSpec`): time passes; a cycle is invoked again and again (the scheduled
job) and gets through each of its steps sometimes although processes die, hence
strong fairness of starting, recovering, selecting and claiming; a worker that holds
rows goes on or dies. Nothing obliges a handler, a provider event or a send-now call.

### Noticed

* The retry policy says its lease is longer than any send should take, so that a live
  worker is never raced (`outbound-email.ts:276-277`). One lease is stamped on a whole
  batch that is sent one message at a time (`email-dispatcher.ts:214`), so a live worker
  can reach a late message of its batch after the lease and send what another worker
  already recovered.
* The suppression list is read and then the provider is called
  (`email-dispatcher.ts:150`): an address that bounces in between is written to once more.

* A message has five attempts and a delay is
only ever taken between two of them, so the policy's fifth delay (three hours) is never
  used and the attempts span about eighty minutes, not the four and a half hours its
  comment names.

### Proofs

`OutboundEmail_proof` proves `Spec => []DeliveryInv` for any number of messages,
workers and attempts, any lease, delays and window, and from it the safety
properties. That tries are bounded is not inductive: a try belongs to a claim, so
the proof needs that every claim counts as exactly one attempt (`RowOK`: claims made
equal attempts counted, plus one while claimed), which needs in turn that whoever
recovers or resolves a claim writes the count it read while that claim was already
the row's last (`WorkerOK`). `RowChange` says once what a changed row must keep;
`AtRest` that a terminal row admits no write. No live lease is stolen because a
sweep's instant is never later than the clock.

`MessageDelivery` is what somebody who commits to a message may rely on: at most
MaxAttempts claims, one after the other; requests only under a claim the message had, a
late worker's under an older one; delivered on the word of its last claim or given up, and
never claimed again. `DeliveryRefinement` first reduces every step to five ways of moving
a message (`Moves`; a batch moves several at once), then shows each to be a step of the
promise (`MovesKeepPromise`): that a try is left, and that what is delivered was accepted
under the last claim, is what `DeliveryInv` says before and after. Bounded tries are a
consequence and proved on their own as well.

Only model-checked: settlement.

## 5. The refund of a sale

### State and code

| Variable | Code |
| --- | --- |
| `refund` | OrderRefund: status, claim, whether its lease or its delay is over, attempts, last failure, requeues |
| `sale` | the settlement with its TransactionReversal (by a refund or a chargeback), whether OrderTaxTransaction says recorded, whether an OrderTaxReversal is committed |
| `dispute` | TransactionDispute's standing |
| `charge` | the provider's side: TAKEN, or RETURNED by this refund |
| `worker`, `operator` | a refund cycle in memory; a request or requeue between its read and its write |

| Action | Code |
| --- | --- |
| `RequestCheck`, `Create` | `requestOrderRefund`: eligibility, then the row under its unique index |
| `RequeueCheck`, `Requeue` | `requeueRefundWork`: read and refusals, then a write by identity |
| `Recover`, `Select`, `Claim` | `recoverStaleRefundClaims`, `claimDueRefunds` |
| `Verify` | re-verification of the evidence and of eligibility before the call |
| `CallProvider` | the Stripe refund under one idempotency key for all attempts |
| `Resolve`, `Fail`, `Finalize` | the outcome: the holder check, then a write by identity or the finalising transaction |
| `RecordTax`, `DisputeMoves` | the tax recorder and dispute events, as far as they touch the sale |
| `LeaseEnds`, `BackoffEnds`, `Drop`, `DropRequest` | time and crashes |

A refund is of the whole order and an order has one row, one charge and one
settlement, so the module has one of each. Two booleans stand for the clock: whether
the lease is over and whether the row is due. A lock token is the worker's name, since
a worker gives up one claim before it takes the next. Refusals that cannot change
after the sale (amounts, currency, a missing settlement) are left out: they hold for
good from the first read.

### Runs and bounds

| Run | Instance | Shows |
| --- | --- | --- |
| `refund` | 2 workers, 1 operator, 2 attempts, 1 requeue, a lost dispute, fair | invariant, books follow the money, returned money is booked |

Two attempts tell the last from one before; one requeue lets a row come back under a
worker that still holds it. Of the dispute's standings only LOST writes anything a
refund could race for, which is why the large run has no other; a second operator can
only requeue twice what the bound lets it requeue once. The theorems hold for any
number of both.

Fairness (`FairSpec`): time passes, cycles are invoked again and again, and workers do
not die, or are outrun, at the same step for ever while the row is theirs to take or
to keep. `ReturnedMoneyIsBooked` names the one state in which nobody comes back to the
row: a requeue that overtook another writer leaves a claimable row that still carries
a claim, which the claim's query does not select and the recovery's does not either.

### Noticed

* A refund requested before a dispute opened is to meet the same refusal when it is
  executed (`order-refund-service.ts:402-407`). The eligibility check names disputes
  only when no refund row exists (415-416), and at execution one always does.
* A refunded sale whose tax reversal was never committed is called impossible
  (`order-refund-service.ts:924-927`). When the tax is reported after the refund was
  finalised (1044 reads the report as it is then), nothing commits to reversing it.
* Recovery counts no attempt (815), although the comments say that a crash costs one: a
  finalisation that is refused every time is tried for ever.

### Proofs

`Order_proof` proves `Spec => []RefundInv` and three safety properties (that
attempts stay within the contract and a reversal is for good are proved and not run) for
any number of workers, operators, attempts and requeues. `RowOK` says what a row's
status promises about its claim and its attempts, `SaleOK` what the books promise
about the money, `ProcessOK` what a pending write may rely on: a worker about to
write read a count with an attempt left, and an answer "executed" is only held of a
charge that was returned, which is what makes a late finalisation harmless.

Not modelled: the queue that carries out a committed tax reversal, proceeds and their
recovery exceptions (sections 7 and 8 have both), notices. Only model-checked: liveness.

## 6. Checkout and payment

### State and code

| Variable | Code |
| --- | --- |
| `order` | Order's lifecycle; whether the sale can be booked at all from what the order bound; the papers committed before the payment (bound terms with the disclosed contact, buyer snapshot, tax evidence); whether a session exists; whether the checkout is over; whose details the buyer snapshot has |
| `booking` | what one transaction writes of a sale, as the provider reference it was booked for |
| `notices` | the messages committed to in the outbox |
| `events` | the provider's events: not yet sent, due until acknowledged, acknowledged |
| `handler` | webhook requests under way: the step, the event, whether the order was PAID at first, the disposition |

| Action | Code |
| --- | --- |
| `Place`, `WritePaper`, `Initiate`, `EndCheckout` | `beginCheckout`: `placeOrder`, the writes of `beginCheckout` in their order, `initiateOrderPayment` and the session; a checkout that stops anywhere is not resumed |
| `Deliver` | the webhook up to the first read of `finalizeConfirmedPayment` |
| `Record` | `recordPaymentResult`: the second read, replay and conflict |
| `Sell` | `recordCompletedSale`'s transaction, with its two refusals: the sale cannot be accounted for (`Accountable`), or it is booked already (`Bookable`) |
| `RecordFailure`, `Cancel`, `CancelWrite` | `recordPaymentFailure`; `cancelOrder`'s read, then its write |
| `Confirm`, `Notify`, `Respond` | `confirmBuyerSnapshot`, `dispatchNotices`, the 200 |
| `Interrupt` | the request dies, throws before its decision is written, or its answer is lost |

Each handler reads the order twice and then writes it by its identity alone, so three
steps of it may lie between any steps of another. What serialises two sales is the
unique snapshot of an order, whose violation rolls the second sale back.

The transaction computes the sale again from the listing version, the policy and the
promoted binding that the order bound. A corrupt binding
(`transaction-accounting-service.ts:316-339`), a price below what is retained (373-504,
`listing-source.ts:475-500`) and another figure than the quote's (`order-service.ts:665`)
refuse it. None of these rows ever changes, so `order.accountable` is chosen once, when the order is
placed: of an order that is not accountable every successful payment is refused, at every
delivery, and the provider never gets its 200.

### Runs and bounds

| Run | Instance | Shows |
| --- | --- | --- |
| `payment` | 2 requests; two different successes, a failure and an expiry, each delivered any number of times; fair; the order accountable or not | invariant, acknowledgements are true, one sale for good, late events never downgrade it, an outcome that can be recorded is decided |

`Events` bounds what the provider may say of one order; the run lets it contradict
itself in every way the code tells apart (a second successful charge, a failure and an
expiry besides). Three requests add no pair of steps. A checkout may stop for good
with its order pending, so deadlock is not checked.

Fairness (`PaymentFairSpec`): a request goes on or dies; the provider delivers what was not
acknowledged again and again, each event whatever becomes of the others; and requests do
not all die before the same read or the same write for ever. All of it is asked of events
that can be recorded (`Recordable`): a success of an order that is not accountable is
delivered and refused for ever without using up what the others are owed.

`OutcomeIsDecided` therefore claims no more than the code gives: while an event that can
be recorded is due, the order does not stay pending. The success of an order whose sale
cannot be booked is no such event; that order stays pending, charged and unbooked, unless
a failure or an expiry decides it. The run includes both kinds of order.

`PaidStaysPaid` says what the code guarantees of the comment "a late expiry cannot
downgrade a sale": once no request from before still holds a decision to fail or to
cancel, the order stays PAID. A decision taken before the sale still lands after it,
because both are written by the order's identity alone; the sale itself stays
(`SaleIsFinal`), and its order then reads CANCELLED or PAYMENT_FAILED.

### Noticed

A receipt is said to be owed from the instant the sale is booked
(`transactional-notice-service.ts:593-597`). It is committed to afterwards, by the one
request that booked the sale, which swallows a failure to do so
(`stripe-webhook-route-handler.ts:455, 480-482`); every redelivery finds the sale
recorded and owes nothing.

A checkout of a seller's own listing takes the frozen price as it stands: the amount
Monacado retains is computed only when the sale is booked
(`transaction-accounting-service.ts:373-504`), and a price below it is refused there
(`listing-source.ts:475-500`). The order of such a listing can be opened and charged, and
its sale cannot be booked. Prices are not modelled; the `payment` run has such orders as
those that are not accountable.

### Proofs

`Order_proof` proves `PaymentSpec => []OrderInv` for any number of requests and any
set of events, and four safety properties from it (`PaidIsBookedAndExplained`, a part of
the invariant, is not run by itself). Acknowledgements are true only
because of what a request carries from its decision to its answer: a request past its
decision has recorded its event (`Recorded`), and no other request can make that false
again: a decided order never becomes undecided, a sale keeps its reference.
`RowStep` carries every step that only moves a request, `DecidingStep` the three
that write a decision.

Not modelled: pricing and the gates before an order exists (they write nothing), a
guest's claim of an order, proceeds and review eligibility, dispute events of the same
webhook (section 7). Only model-checked: that a recordable outcome is decided.

## 7. Disputes, claims on the proceeds and what a loss costs

### State and code

| Variable | Code |
| --- | --- |
| `events` | what the provider has to tell of the charge's disputes: status, instant, whether the amount is the whole sale's, whether the event is unacceptable (live mode, other currency) |
| `db` | the committed rows: settlement, TransactionDispute and its event ledger, ChargebackFee, TransactionReversal, ProceedsObligation, ProceedsRecoveryException |
| `delivery` | a webhook request: the event and everything its transaction decided on the rows it read |
| `refund` | the refund that competes for the sale's one reversal, with the exceptions it is going to raise |
| `operator` | the payout gate, or work on an exception, between its read and its write |
| `outdated` | ghost: a request has written on rows that had changed since it read them |

| Action | Code |
| --- | --- |
| `Book` | `recordCompletedSale`, as far as a dispute reads it |
| `Deliver`, `Commit`, `Fail` | `recordDisputeObservation`: reads and decisions (`Decision`), the writes past the unique indexes, the rollback |
| `RequestRefund`, `BeginFinalize`, `Finalize` | eligibility, and the finalising transaction of the refund |
| `PayoutCheck`, `Payout` | `advanceProceedsObligation` |
| `ExceptionCheck`, `AdvanceException` | `advanceProceedsRecoveryException` |

One transaction is two steps because its plain reads are a snapshot and its writes go
by identity: only a unique index (event, dispute, reversal; one exception per claim
and cause, whose violation is swallowed) sees what was committed in between. The two
operators' functions have no caller in `src` besides tests; the model runs them as
the services offer them.

### Runs and bounds

| Run | Instance | Shows |
| --- | --- | --- |
| `dispute` | 1 dispute in 4 scenarios or 2 at once, 2 symmetric deliveries, 1 claim, 1 operator, 2 fee versions | invariant; no event is refused for ever; unless requests overtook each other, the books reconcile; fees and the reversal are final |

The scenarios are the cases the code tells apart: won; lost in full, with a word of
the provider at the same instant that comes late; lost in part; first told by an event
that cannot be accepted; and two disputes of the sale that are open together. Each event
is told in any order and any number of times. One claim suffices since claims are written
independently; the theorems hold for any number of disputes, claims, events and requests.

`UnracedBooksReconcile` says what the books owe, and what is left for `reconcileDispute` to
find in them, until a request has written over a change it had not seen (`outdated`). The
books: every eligible or paid claim of a sale whose money went back or is contested has
its exception, where `AtIssue` is an open dispute or a loss that is booked
(`ClaimsAtStakeAreCovered`); a dispute that was won or closed has no exception of its own
left to work on; a loss has reversed the sale unless its amount is not the whole sale's.

The report says more than that, and `Finds` states its four findings about these rows as the code
does (`dispute-reconciliation-service.ts:163-165, 184-196, 203-207`). Three of them it raises
without any race, and `FindingsAreExplained` says exactly when:

| Finding | Left by the code, undisturbed |
| --- | --- |
| `LOST_WITHOUT_ACCOUNTING_REVERSAL` | only a dispute lost for a part of the amount (`NOT_EXPRESSIBLE`), which reverses nothing |
| `PROCEEDS_STILL_PAYOUT_ELIGIBLE` | a claim eligible before it was contested: nothing takes it back, but it has its exception; or after a partial loss |
| `PAID_PROCEEDS_LACK_RECOVERY` | another dispute of the sale raised the one exception a claim can have, and the report asks for its own; or a payout after a partial loss, which nothing holds and nothing covers |
| `WON_STALE_RECOVERY_EXCEPTION` | never |

`DISPUTE_WON_STALE_HOLD`, which the report raises for a won dispute while another of the sale is
open, and the findings about attribution, refunds in flight, fees and settlement states
are not modelled. Once requests have overtaken each other, the report is what finds the
difference; the two properties that matter most, `ConsequencesAreFinal` and that only a
loss costs (proved), hold all the same.

### Noticed

* Two deliveries may write over a decided dispute: the older one decided before and
  writes by identity (`transaction-dispute-service.ts:611-619, 779-781`), an edge the
  contract does not have (`transaction-dispute.ts:140-145`).
* A later event of a lost dispute finds its own reversal and records that the sale was
  already reversed by a refund (719).
* A second dispute of a sale finds only the RESOLVED exception of the first and raises
  none; a dispute first told before the sale was booked is never attributed to it.
* A dispute lost for a part of the amount holds no claim, although the delivery reports
  the pending ones as held (`heldObligationIds`, `transaction-dispute-service.ts:95,
  664-673`): the gate asks for a reversal or an open dispute
  (`order-service.ts:943-958`) and finds neither. The claim becomes eligible and is paid, and
  only the report says that it has no recovery.
* Two writes of one claim can put ELIGIBLE over PAID (`order-service.ts:961`).

### Proofs

`Sale_proof` proves `DisputeSpec => []DisputeInv`: `RowsAreTold` (what a row, a fee or
a chargeback says has its event in the ledger) is not inductive without
`WritesAreTold`, which says that what a delivery has decided stays justified until it
commits. It also proves that no event is refused for ever, that only a loss costs, and
that consequences are final.

`UnracedReconciliation` states `UnracedBooksReconcile` for any disputes of one sale. That
needs `ReconcileInv`, which adds three facts: a delivery that no longer applies raises,
closes and reverses nothing (`IdleWritesNothing`); a payout about to be written is one of
the contract's moves (`PayoutsAdvance`), so what is paid was eligible and what becomes
eligible has passed the gate; and only a booked sale has disputes attributed to it (`AttributedIsBooked`).
`Undisturbed` is the step the argument turns on: what commits while `outdated` stays
FALSE was decided on the rows as they are, so `CommitCovers`, `CommitOwesNothing` and
`CommitBooksLosses` can read the decision on the current state. `BooksExplainFindings` reads
what the report finds off the books. Payouts and work on
exceptions are shown to stop reconciling only where they set `outdated`.

Not modelled: funds movement and tax labels of a dispute, remediation codes (reset by
any later event), evidence deadlines and its submission, notices.

## 8. The tax of a sale

### State and code

| Variable | Code |
| --- | --- |
| `sale` | booked; its refund final, or written over; the report marked as taken back |
| `row` | OrderTaxTransaction (`REPORT`) and OrderTaxReversal (`REVERSE`): status, claim, lease, delay, attempts, failure, requeues |
| `provider` | the references of the transactions it holds, by queue |
| `worker`, `operator` | a cycle in memory; a requeue between its read and its write |

| Action | Code |
| --- | --- |
| `Book`, `FinalizeRefund`, `Overwrite` | the obligations committed with the sale and with the refund, and the refund row written over by a late refund worker |
| `Recover`, `Claim` | the recovery of stale claims and the guarded claim of either queue |
| `Verify`, `CallProvider` | what the sale's records forbid, then the provider's transaction |
| `Resolve`, `Write` | the holder check, then the write by identity |
| `RequeueCheck`, `Requeue` | an operator's requeue |

The provider is external: a reference it holds is answered again while it remembers
the idempotency key and refused as a duplicate after, a new transaction may be made
although its answer is lost or is refused. When it forgets, and when a calculation
expires, is left open.

### Runs and bounds

| Run | Instance | Shows |
| --- | --- | --- |
| `tax` | 2 workers, 1 operator, 2 attempts, 1 requeue | invariant; the refinement of `TaxLedger`; a row that is done and that nobody still writes stays done |

`TaxLedger` knows what the authority was told: the sale once, and once that it came
back, in that order and after the refund was final. Two attempts tell the last from one
before; one requeue lets a row come back under a worker that still holds a decision.

That a row ends is not claimed: two requeues that overlap a claim can leave a claimable
row that still carries a claim, which neither the claim's query nor the recovery's
selects.

### Noticed

* Recovery counts no attempt although the comments say a crash costs one.
* A failing write decided before can put a recorded row back to its retry; the reversal
  then finds no report and fails for good (EVIDENCE_INCONSISTENT).
* A tax reported after its refund was finalised is never taken back (section 5).

### Proofs

`TaxReporting_proof` shows `TaxInv` inductive (`TaxInvariance`): a row of the table is
`Sound`, a worker's job `Fits` and an operator's is `Fitting`, and lemmas for a step of
one row (`RowMoves`), of one worker (`WorkerMoves`) and of one operator carry what the
actions share. The worker's job has to say that its answer is of a transaction the
provider holds, because the row may have been recovered and claimed again since.
`SettledForGood` rests on the token: a done row has none, so no late worker holds it.
`TaxRefinement` needs one fact more, `Single`: the provider holds no reference but the
order's. Then a call that changes the provider is the abstract `Report` or `Reverse`,
and every other step is `Make`, `Return` or a stutter.

Not modelled: quoting the tax before the sale, the reconciliation report (both only
read or write nothing of the queues).

## 9. The standing of a participant

### State and code

| Variable | Code |
| --- | --- |
| `party` | MarketplaceParticipant's status, the role under review, the latest activation review, its closure |
| `restricted` | scopes with an active restriction |
| `suspension` | the active suspension, the status before it, its reconsideration |
| `request` | acts that have read and not yet committed |
| `raced` | ghost: an act was committed on facts another act had changed |

| Action | Code |
| --- | --- |
| `Advance` | `advanceParticipantStatus` and the profile's own moves |
| `Submit`, `Decide` | submission for activation and its review |
| `Restrict`, `Lift` | restrictions by scope and the convergence of the status |
| `Suspend`, `Reinstate` | suspension and its lifting |
| `Appeal`, `Assign`, `Rule` | the reconsideration of a suspension |
| `Close` | closure |
| `Commit`, `Abandon` | the writes, guarded or by identity; a refusal, a rollback, a crash |

### Runs and bounds

| Run | Instance | Shows |
| --- | --- | --- |
| `standing` | 2 acts at a time, 2 scopes, symmetric | nobody trades, or is suspended from trading, whose role no review activated; the status agrees with the rows unless acts raced; a review is decided once |

Restrictions and their lifting are written to run side by side (the status converges by
guarded statements), so they do not count as a race: the property says that they may
overlap each other at will. Two scopes make the last and the last but one.

### Noticed

* A rejected review leaves the participant UNDER_REVIEW with nothing left to decide
  (`activation-service.ts:402`, against the comment at 318-321); only closure is left.
* CLOSED is called terminal (`lifecycle.ts:42`); a status decided before the closure
  (`participant-closure-service.ts:185`) and written by identity lands after it.

### Proofs

`ParticipantStanding_proof` has two invariants. `ActsInv` adds to `StandingInv` what any
act in memory is, however stale (`Decided`: only a closure closes, only an approval
admits, a decision that is not void still finds its review undecided). `Unraced` says that
an act nothing but its likes has overtaken is `Current`: it would decide the same now.
Each act is shown to be `Fresh` when it has read (`AskReads`), a commit keeps `ActsInv`
(`CommitStep`), and the commit of a current act leaves a status that tells the rows
(`CommitTells`, one case per act). `StandingInvariance`, `StatusTells` and `DecidedOnce`
follow for any number of acts and scopes.

Not modelled: profile and role grants, prerequisites of an approval (refusals),
reconsideration of a restriction (the same code as a suspension's), payment accounts
(`recordObservedProviderState` reads and writes unguarded,
`payment-account-service.ts:246-265`) and commerce approvals (kept apart by a unique
index).

## 10. The promoted sale

### State and code

| Variable | Code |
| --- | --- |
| `clock` | the wall clock |
| `offers`, `holder` | the product's offers with their versions, promotions and end acts; the row that holds its one live place |
| `cycles`, `accepted` | PromotionAuthorization cycles; PromotionOfferAcceptance |
| `checkout` | a buyer's checkout: how far it is and what it has read |

| Action | Code |
| --- | --- |
| `CreateOffer`, `ReviseOfferTerms`, `ActivateOffer`, `PauseOrResumeOffer`, `WithdrawOffer` | `offer-service` |
| `SchedulePromotion`, `ReplacePromotion`, `EndPromotion` | the same, for promotions |
| `RequestAuthorization`, `MoveAuthorization`, `AcceptPackage` | the promoter's cycles and consent |
| `ReadOffer` ... `ReadVersion` | `prepareCheckout` through `readPromotedListingCommerceIn`, one read after another |
| `PlaceOrder`, `RecordSale` | the order's binding; `readPromotedBindingTerms` when the sale is recorded |

Every act locks the product before it reads, so it is one step; but its instant was
taken before it waited (`Lag` bounds how long). Nothing is written when a window opens
or closes: the rows mean something else at another instant. A checkout runs outside a
transaction and locks nothing.

### Runs and bounds

| Run | Instance | Shows |
| --- | --- | --- |
| `promoted_sale` | 1 buyer, instants 0..2, windows of 1, lag 1, 2 offers, 3 versions, 2 cycles, 2 acceptances | one live offer; a pending promotion rests on the standing terms; a sale on an acceptance of its own cycle and offer; an undisturbed checkout is covered |
| `torn_binding` | instants 0..1, 1 offer, 2 versions | the disagreement below |

Checkouts write nothing another reads, so one suffices. Three instants hold a window's
opening, its end and an act decided in the other; three versions a revision, a promotion
and one more; two offers and cycles the end of one and its successor. The bounds leave
nothing to do in the end, so deadlock is not checked.

### Finding

`torn_binding`: an order's acceptance and the version that sets its amounts are to be
one coherent fact. They are read apart, so terms revised in between leave an order whose
version its acceptance does not cover; paid for, its sale is refused as corrupt
(`transaction-accounting-service.ts:325-330`).

Noticed besides: with a lagging instant, a promotion that has just begun can still be
replaced as one that has not. That an accepted package rests on the standing terms of
its promotion is kept by a foreign key, not by the service.

### Proofs

`Sale_proof` proves the four properties for any number of buyers, any windows, lags and
bounds (`BoundsAssumption`: they are natural numbers, and a window is not empty). They
follow from `SaleInv`, which adds to `PromotedSaleInv` one thing of each offer and two of
each checkout:

* `OfferOK`: an offer's row names versions that it has, its promotion is one that was
  made from terms, and while it is pending those are the standing ones. That is stated of
  offers that are over as well, because the acts do not tell them apart when they write.
* `ReadsOK`, of any checkout however stale: the rows it read were rows of an offer that
  exists, and the acceptance it will bind was given.
* `CurrentOK`, of one that nothing has overtaken: what it read is what the rows say, at
  the instant it asked for; so its offer holds the place and is active, its cycle is the
  last and approved, and an acceptance covers its terms.

`OfferChange` carries every act that rewrites one offer and `PromoterActStep` those that
touch none, on the fact that offers, versions and acceptances only grow (`Grown`). An act
that is late decides at an instant gone by; a promotion that was over then is over now
(`Pending` never comes back by itself), which is why `PendingRestsOnStanding` holds for
every `Lag`. `CoveringIsCoherent` is the last step of `UndisturbedIsCovered`: terms read
and accepted together name a version the acceptance covers. Without "not overtaken" this
is what the finding above refutes.

Not modelled: amounts, readiness of the participants, the product's standing and the
resale switch (each a refusal), a seller's own listing at checkout, the views.

## 11. Storefronts and listings

### State and code

| Variable | Code |
| --- | --- |
| `shop`, `listing` | Storefront and Listing: the label of the current version; visibility; type, product, whether priced |
| `version` | their version rows by label: the version each names as its predecessor, and its lifecycle |
| `seat` | governance assignments: role, status (SUSPENDED and REVOKED are one: they differ by a date), and the mark that fills the storefront's one place in the index of super owners |
| `request` | what a transaction has read and decided |
| `crossed`, `strayed`, `overtaken` | ghosts: a status was set by a role that had changed; a version carries a label not chosen to follow one in use; a listing became active after a request's first read |

| Action | Code |
| --- | --- |
| `BeginOpen`, `Open` | `openOwnedDraftStorefront` |
| `BeginRevise`, `Revise` (storefronts) | `createStorefrontSourceVersion`, every lifecycle move, exposure and presentation, under any free label |
| `BeginAppoint`, `Appoint` | `assignStorefrontGovernanceInTx` |
| `BeginSetStatus`, `SetStatus` | `setGovernanceAssignmentStatus` |
| `BeginCreate`, `Create` | a seller's placement, a promoter's listing |
| `BeginRevise`, `Revise` (listings) | `createListingSourceVersion`: every move of a seller's listing, the uncounted activation included, or another price, under any free label |
| `BeginPrice`, `BeginWithdraw`, `Revise` (listings) | `setPromotedListingPrice`, `withdrawPromotedListing` through `writeNextVersionIn` |
| `BeginActivate`, `Activate` | the activation of a promoted listing |
| `Refuse` | any refusal, rollback or crash |

**Labels.** `createStorefrontSourceVersion` and `createListingSourceVersion` insert the label
their caller gives them and move the pointer by identity (`storefront-service.ts:1016,
1035`, `listing-service.ts:1448, 1467`); what stands against a second writer is the
unique label. A presentation edit, a go-live, a seller's withdrawal and price compute it as the successor
of the one that was current before the transaction began (1118, 1172;
1092, 1245); closing, suspending and narrowing a storefront have no such caller and take
the label they are given (`submitStorefrontSourceVersion`). The models let a revision
carry any label that is free when it begins, and record in `strayed` the rows where one
did not follow a label in use.

`RecordHistory` is what both promise to a reader of the history whatever the labels: no
version is rewritten or given another's label, each moves as the lifecycle allows from the
version it names, and the row points to the last one written. As long as every label
follows one in use, the versions are also one line: none is lost under one decided before
it, and what is closed or withdrawn stays so. One made-up label ends that for its row.

### Runs and bounds

| Run | Instance | Shows |
| --- | --- | --- |
| `governance` | 2 storefronts, 2 members, 2 symmetric requests, allowance 1, 3 labels | the allowance is never raced; one super owner, unless a role changed under a status; the history |
| `listings` | 2 listings, 2 products, 2 symmetric requests, allowance 1, 3 labels | one placement per product; a promoter's activation that nothing overtook finds room; the history |

Races are of two requests, over one record or two that compete for an allowance of one.
Two members are the super owner and the successor. Three labels let a record be created,
revised by two requests at once, under the same label or different ones, in line or
not. When the labels are used up a listing can only be left alone, so `listings` does not
check deadlock.

### Noticed

* Opening counts under the owner's lock with a locking read
  (`storefront-service.ts:1283-1287`) and is safe. A promoter's activation locks too, but
  counts with a plain read from a snapshot older than its locks
  (`promoted-listing-service.ts:305, 674-682`, `listing-source.ts:942-947`), so two that
  overlap can both take the last place, against the comments at 29-31 and 269-271.
* A seller's activation through `createListingSourceVersion` counts nothing
  (`listing-service.ts:1396-1443`; the comment at 1418-1432 leaves the allowance to a later
  gate), though its listing counts for the promoters. So the allowance as such is not
  kept, overlap or none, and no property claims it: `PromotionFindsRoom` is about the
  step that does count.
* A label that a caller makes up can write the history out of order, as the comment
  before `nextListingSourceRecordVersion` says: with labels that differ, a go-live that
  saw the storefront open is written over CLOSED, and a move decided before a withdrawal
  brings the listing back. The functions that would be called so
  (`submitStorefrontSourceVersion`, `createListingSourceVersion` itself) have no route.
* `setGovernanceAssignmentStatus` (1373-1431) sets the super owner's mark by the role it
  read. If the role changed meanwhile, a storefront can have two active super owners or
  an ADMIN that holds the mark, against `schema.prisma:2517-2524` and
  `docs/STOREFRONT_PERSISTENCE.md:79`: hence `crossed`.
* `createDraftStorefront` has no route either.

### Proofs

`StorefrontGovernance_proof` strengthens `GovernanceInv` by `ShopOK` (nothing is there
before a storefront is opened; it points to one of its versions, and while it has not
strayed its labels are `1..n` with the last one current; no two seats are marked, and
where no role was crossed the mark says who is super owner) and `RequestOK` (a pending
revision is a move from a version that is there for good, and in line its label is not
beyond the next). `RevisesOne` then gives the two halves of `GovernanceRefinement`: whatever
its label, what passes the index is a new version made from one that exists; and in line,
a free label that is not beyond the next is the next, so the version was made from the
last. `SeatStep` carries both ways of writing a seat. It assumes finitely many
storefronts, at least one, and room for one version.

`StorefrontListings_proof` proves `ListingInv`, the promoter's room and the history for any
number of requests, listings and products and any allowance. `PlacesInv` adds `ListingOK`
and `DecisionOK`, the same two facts of listings and pending writes, and `StillRoom`: an
activation that no other listing's has overtaken, a seller's included, still finds fewer
active listings than the allowance. `WritesNext` is what `RevisesOne` is there; `WriteStep`
carries every write of a version. It assumes finitely many listings, at least one,
products, an allowance in `Nat` and room for one version (`ListingAssumption`).

Left out: refusals by standing, readiness, approval, an unverified address or a missing
authority; such a request ends as any refused one.

## 12. Not modelled

| Part | Why |
| --- | --- |
| Worker cycle evidence, operations status | run rows are written around the cycles and read by reports only; planned |
| Product authoring and classification | versioned rows under row locks, what `RecordHistory` describes; the rest is validation |
| Accounts, sessions, challenges, throttling; email contacts | apart from the marketplace's rules; planned. A challenge read as PENDING is consumed unguarded (`email-verification-service.ts:401`), so two requests with one token both succeed |
| Notification obligations and notices | upserts by a unique key that end in `Enqueue`; their state is the email queue's |
| Policies and acceptances | rows others read and bind; planned |
| Risk | pure reads over counts; a review advises those who restrict or suspend |
| Dispute evidence, fee policies | one provider call behind an operator's command; the fee's version is read in `SaleDispute` |
| Commerce approval, payment accounts | facts that make other services refuse |
| Contracts, mappers, routes, pages | pure, or one call of a service above; the transition tables and retry policies among them are part of the modules that use them |

The contracts are the larger half of the code: validation, canonical hashing and policy
texts without state. A model of them would repeat them line by line.
