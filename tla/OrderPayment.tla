---------------------------- MODULE OrderPayment ----------------------------
(***************************************************************************)
(* One order from its checkout to its sale.  The checkout places the order,   *)
(* commits what must be known before anybody is charged, and opens a payment  *)
(* session at the provider.  From then on only the provider's events decide:   *)
(* they arrive at least once, in any order and several at a time, and each     *)
(* delivery is one webhook request that reads the order, decides, and writes   *)
(* later what it decided.                                                     *)
(*                                                                         *)
(* What one transaction writes of a completed sale (snapshot, settlement with  *)
(* the provider's reference, proceeds, tax obligation, purchase evidence) is   *)
(* one value: the reference it was booked for.                                 *)
(***************************************************************************)
EXTENDS FiniteSets

CONSTANTS
    Handlers,   \* webhook requests that may run at the same time
    Refs,       \* the provider's references of successful payments
    NoRef,      \* no sale is booked; an event that is no success
    Events      \* bound: the events the provider may deliver of this order

Kinds == {"SUCCEEDED", "FAILED", "ABANDONED"}

ASSUME NoRefAssumption == NoRef \notin Refs
ASSUME EventsAssumption ==
    /\ Events \subseteq [kind : Kinds, ref : Refs \cup {NoRef}]
    /\ Events # {}
    /\ \A e \in Events : e.kind = "SUCCEEDED" <=> e.ref # NoRef

VARIABLES
    order,     \* the Order row and what the checkout committed beside it
    booking,   \* the reference of the booked sale
    notices,   \* the messages committed to in the outbox
    events,    \* each event: NEW, DUE until it is acknowledged, ACKED
    handler    \* the webhook requests under way

paymentVars == <<order, booking, notices, events, handler>>

------------------------------------------------------------------------------
\* Vocabulary

Lifecycles == {"NONE", "PENDING_PAYMENT", "PAID", "PAYMENT_FAILED", "CANCELLED"}

ValidTransition(from, to) ==
    \/ from = "PENDING_PAYMENT" /\ to \in {"PAID", "PAYMENT_FAILED", "CANCELLED"}
    \/ from = "PAYMENT_FAILED" /\ to = "CANCELLED"

\* What is on record before a payment: the bound terms with the disclosed contact,
\* who is buying, why that tax is charged.
Papers == {"TERMS", "BUYER", "TAX"}

\* ended: the checkout request is over, or has died.  accountable: what was bound at
\* placement yields the quoted figures again.
OrderRows == [lifecycle : Lifecycles, papers : SUBSET Papers,
              session : BOOLEAN, ended : BOOLEAN, accountable : BOOLEAN,
              details : {"BUYER_SUPPLIED", "PROVIDER_CONFIRMED"}]

Dispositions == {"SALE_RECORDED", "FAILURE_RECORDED", "ORDER_EXPIRED",
                 "ALREADY_RECORDED"}
Notices      == {"RECEIPT", "SALE_NOTICE", "FAILURE_NOTICE", "EXPIRY_NOTICE"}

\* A webhook request: its step, its event, whether it first found the order PAID,
\* what came of it.
HandlerSteps == {"IDLE", "RECORD", "SELL", "FAIL", "CANCEL", "CANCEL_WRITE",
                 "CONFIRM", "NOTIFY", "RESPOND"}
HandlerRows  == [step : HandlerSteps, event : Events, wasPaid : BOOLEAN,
                 done : Dispositions]
IdleHandler  == [step |-> "IDLE", event |-> CHOOSE e \in Events : TRUE,
                 wasPaid |-> FALSE, done |-> "ALREADY_RECORDED"]

PaymentInit ==
    /\ order = [lifecycle |-> "NONE", papers |-> {}, session |-> FALSE,
                ended |-> FALSE, accountable |-> TRUE, details |-> "BUYER_SUPPLIED"]
    /\ booking = NoRef
    /\ notices = {}
    /\ events = [e \in Events |-> "NEW"]
    /\ handler = [h \in Handlers |-> IdleHandler]

------------------------------------------------------------------------------
\* The checkout, one write after the other

\* Pricing, the gates and the tax calculation write nothing; a refusal leaves no
\* order behind.  What the gates read apart may not be one coherent binding, and nobody
\* asks before the payment whether the price covers what is retained of it.
Place ==
    /\ ~ order.ended
    /\ order.lifecycle = "NONE"
    /\ \E accountable \in BOOLEAN :
         order' = [order EXCEPT !.lifecycle = "PENDING_PAYMENT", !.accountable = accountable]
    /\ UNCHANGED <<booking, notices, events, handler>>

\* The paper that is written next.
NextPaper(papers) == IF "TERMS" \notin papers THEN "TERMS"
                 ELSE IF "BUYER" \notin papers THEN "BUYER" ELSE "TAX"

WritePaper ==
    /\ ~ order.ended
    /\ order.lifecycle = "PENDING_PAYMENT"
    /\ order.papers # Papers
    /\ order' = [order EXCEPT !.papers = order.papers \cup {NextPaper(order.papers)}]
    /\ UNCHANGED <<booking, notices, events, handler>>

Payable == order.papers = Papers

\* The session exists at the provider, whether or not the checkout hears of it.
Initiate ==
    /\ ~ order.ended
    /\ order.lifecycle = "PENDING_PAYMENT"
    /\ Payable
    /\ order' = [order EXCEPT !.session = TRUE, !.ended = TRUE]
    /\ UNCHANGED <<booking, notices, events, handler>>

\* A gate refuses, a round trip throws or the process dies: nothing resumes it.
EndCheckout ==
    /\ ~ order.ended
    /\ order' = [order EXCEPT !.ended = TRUE]
    /\ UNCHANGED <<booking, notices, events, handler>>

------------------------------------------------------------------------------
\* A webhook request decides

\* Variant: an expiry is taken as recorded whatever the order says.
TakenAsRecorded(e) == e.kind = "ABANDONED"

\* The first read: what has nothing left to record.
AlreadyRecorded(e) ==
    \/ e.kind = "ABANDONED" /\ order.lifecycle # "PENDING_PAYMENT"
    \/ e.kind = "FAILED" /\ order.lifecycle = "PAYMENT_FAILED"

\* The provider delivers an event again until it is acknowledged, and may then.
Deliver(h, e) ==
    /\ handler[h].step = "IDLE"
    /\ order.session
    /\ events' = [events EXCEPT ![e] = IF @ = "NEW" THEN "DUE" ELSE @]
    /\ handler' = [handler EXCEPT ![h] =
         [IdleHandler EXCEPT !.event = e,
            !.wasPaid = (order.lifecycle = "PAID"),
            !.step = IF AlreadyRecorded(e) THEN "CONFIRM"
                     ELSE IF e.kind = "ABANDONED" THEN "CANCEL" ELSE "RECORD"]]
    /\ UNCHANGED <<order, booking, notices>>

Goes(h, step) == handler' = [handler EXCEPT ![h].step = step]
Ends(h)       == handler' = [handler EXCEPT ![h] = IdleHandler]

\* A replay is reported as recorded now by a request that first found the order
\* unpaid.
Finishes(h, disposition) ==
    handler' = [handler EXCEPT ![h].step = "CONFIRM",
                               ![h].done = IF handler[h].wasPaid
                                             THEN "ALREADY_RECORDED" ELSE disposition]

\* Variant: the reference of a replay is not compared.
ReplaysAny(e) == e.kind = "SUCCEEDED"

Replays(e) == e.kind = "SUCCEEDED" /\ booking = e.ref

\* The second read.  A contradiction is answered as a conflict: the event stays due.
Record(h) ==
    LET e == handler[h].event IN
    /\ handler[h].step = "RECORD"
    /\ \/ /\ order.lifecycle = "PAID"
          /\ IF Replays(e) THEN Finishes(h, "SALE_RECORDED") ELSE Ends(h)
       \/ /\ order.lifecycle # "PAID"
          /\ e.kind = "SUCCEEDED"
          /\ IF ValidTransition(order.lifecycle, "PAID") THEN Goes(h, "SELL") ELSE Ends(h)
       \/ /\ order.lifecycle # "PAID"
          /\ e.kind = "FAILED"
          /\ IF ValidTransition(order.lifecycle, "PAYMENT_FAILED")
               THEN Goes(h, "FAIL") ELSE Ends(h)
    /\ UNCHANGED <<order, booking, notices, events>>

\* Variant: a second snapshot replaces the first.
BookableAgain == TRUE

\* The snapshot's order is unique: a second booking is rolled back as a whole.
Bookable == booking = NoRef

\* The transaction computes the sale again, from the versions that the order bound: a
\* corrupt binding, a price below what is retained or another figure than the quote's
\* refuses it.  None of them changes, so the next delivery is refused as well.
Accountable == order.accountable

\* The sale's transaction.  The order row is written by its identity alone; a refused
\* sale leaves the order pending and the event due.
Sell(h) ==
    /\ handler[h].step = "SELL"
    /\ IF Accountable /\ Bookable
         THEN /\ booking' = handler[h].event.ref
              /\ order' = [order EXCEPT !.lifecycle = "PAID"]
              /\ Finishes(h, "SALE_RECORDED")
         ELSE /\ Ends(h)
              /\ UNCHANGED <<order, booking>>
    /\ UNCHANGED <<notices, events>>

\* Written by the order's identity alone, whatever it has become since.
RecordFailure(h) ==
    /\ handler[h].step = "FAIL"
    /\ order' = [order EXCEPT !.lifecycle = "PAYMENT_FAILED"]
    /\ Finishes(h, "FAILURE_RECORDED")
    /\ UNCHANGED <<booking, notices, events>>

\* Variant: whatever the order's state.
CancellableAlways == TRUE

Cancellable == ValidTransition(order.lifecycle, "CANCELLED")

\* The cancellation's transaction reads a snapshot of the row, which locks nothing ...
Cancel(h) ==
    /\ handler[h].step = "CANCEL"
    /\ IF Cancellable THEN Goes(h, "CANCEL_WRITE") ELSE Ends(h)
    /\ UNCHANGED <<order, booking, notices, events>>

\* ... and writes the row by its identity alone.
CancelWrite(h) ==
    /\ handler[h].step = "CANCEL_WRITE"
    /\ order' = [order EXCEPT !.lifecycle = "CANCELLED"]
    /\ Finishes(h, "ORDER_EXPIRED")
    /\ UNCHANGED <<booking, notices, events>>

------------------------------------------------------------------------------
\* What follows a decision, none of which may fail the request

\* The buyer's details give way to those the payment confirmed, if it names any and
\* the write lands.  (A request that recorded a sale then runs a cycle of the tax
\* queue, which touches nothing here.)
Confirm(h) ==
    /\ handler[h].step = "CONFIRM"
    /\ \E details \in {order.details, "PROVIDER_CONFIRMED"} :
         order' = [order EXCEPT !.details = details]
    /\ Goes(h, "NOTIFY")
    /\ UNCHANGED <<booking, notices, events>>

\* What the enqueues of a disposition may leave committed: each message is a write
\* of its own and a failure ends the series, in silence.
Commitments(disposition) ==
    IF disposition = "SALE_RECORDED"
      THEN {{}, {"RECEIPT"}, {"RECEIPT", "SALE_NOTICE"}}
    ELSE IF disposition = "FAILURE_RECORDED" THEN {{}, {"FAILURE_NOTICE"}}
    ELSE IF disposition = "ORDER_EXPIRED" THEN {{}, {"EXPIRY_NOTICE"}}
    ELSE {{}}

Notify(h) ==
    /\ handler[h].step = "NOTIFY"
    /\ \E committed \in Commitments(handler[h].done) :
         notices' = notices \cup committed
    /\ Goes(h, "RESPOND")
    /\ UNCHANGED <<order, booking, events>>

Respond(h) ==
    /\ handler[h].step = "RESPOND"
    /\ events' = [events EXCEPT ![handler[h].event] = "ACKED"]
    /\ Ends(h)
    /\ UNCHANGED <<order, booking, notices>>

\* The process dies, a round trip throws before the decision is written, or the
\* answer is lost.
Interrupt(h) ==
    /\ handler[h].step # "IDLE"
    /\ Ends(h)
    /\ UNCHANGED <<order, booking, notices, events>>

------------------------------------------------------------------------------
Reads(h)    == Record(h) \/ Cancel(h)
Writes(h)   == Sell(h) \/ RecordFailure(h) \/ CancelWrite(h)
Finishing(h) == Confirm(h) \/ Notify(h) \/ Respond(h)

PaymentNext ==
    \/ Place \/ WritePaper \/ Initiate \/ EndCheckout
    \/ \E h \in Handlers :
         \/ \E e \in Events : Deliver(h, e)
         \/ Reads(h) \/ Writes(h) \/ Finishing(h)
         \/ Interrupt(h)

PaymentSpec == PaymentInit /\ [][PaymentNext]_paymentVars

\* A success is recordable of an order that can be accounted for; a failure or an expiry
\* always is.
Recordable(e) == e.kind = "SUCCEEDED" => order.accountable

\* A request under way goes on or dies; each event that is due is delivered again and
\* again, whatever becomes of the others; and its requests do not all die at the same
\* point.
PaymentFairness ==
    /\ \A h \in Handlers : WF_paymentVars(Reads(h) \/ Writes(h) \/ Finishing(h))
    /\ SF_paymentVars(\E h \in Handlers, e \in Events :
                        events[e] = "DUE" /\ Recordable(e) /\ Deliver(h, e))
    /\ SF_paymentVars(\E h \in Handlers : Recordable(handler[h].event) /\ Reads(h))
    /\ SF_paymentVars(\E h \in Handlers : Recordable(handler[h].event) /\ Writes(h))

PaymentFairSpec == PaymentSpec /\ PaymentFairness

------------------------------------------------------------------------------
\* Properties

PaymentTypeOK ==
    /\ order \in OrderRows
    /\ booking \in Refs \cup {NoRef}
    /\ notices \subseteq Notices
    /\ events \in [Events -> {"NEW", "DUE", "ACKED"}]
    /\ handler \in [Handlers -> HandlerRows]

Finished == {"CONFIRM", "NOTIFY", "RESPOND"}

\* An event as far as the order can have recorded it: the order is decided, and a
\* success is the one the sale was booked for.
Recorded(e) ==
    /\ order.lifecycle \notin {"NONE", "PENDING_PAYMENT"}
    /\ e.kind = "SUCCEEDED" => booking = e.ref

OrderOK ==
    /\ order.session => order.papers = Papers /\ order.ended
    /\ order.lifecycle = "NONE" => ~ order.session
    /\ order.lifecycle \notin {"NONE", "PENDING_PAYMENT"} => order.session
    /\ order.lifecycle = "PAID" => booking # NoRef
    /\ booking # NoRef => order.lifecycle \notin {"NONE", "PENDING_PAYMENT"}
    /\ "RECEIPT" \in notices => booking # NoRef
    /\ \A e \in Events : /\ events[e] # "NEW" => order.session
                         /\ events[e] = "ACKED" => Recorded(e)

HandlerOK ==
    \A h \in Handlers :
        /\ handler[h].step # "IDLE" => order.session
        /\ handler[h].step = "SELL" => handler[h].event.kind = "SUCCEEDED"
        /\ handler[h].step = "FAIL" => handler[h].event.kind = "FAILED"
        /\ handler[h].step \in {"CANCEL", "CANCEL_WRITE"} =>
             handler[h].event.kind = "ABANDONED"
        /\ handler[h].step \in Finished => Recorded(handler[h].event)
        /\ handler[h].step \in Finished /\ handler[h].done = "SALE_RECORDED" =>
             booking # NoRef

OrderInv == PaymentTypeOK /\ OrderOK /\ HandlerOK

\* The provider is only told "received" of what the order has recorded: an
\* acknowledged success is the booked sale, and no other's; an acknowledged failure
\* or expiry left a decided order.
AcknowledgedIsRecorded ==
    \A e \in Events : events[e] = "ACKED" => Recorded(e)

\* The books of a paid order: PAID only with a sale, a receipt only of a sale, and
\* nobody is charged whose terms, identity and tax are not on record.
PaidIsBookedAndExplained ==
    /\ order.lifecycle = "PAID" => booking # NoRef
    /\ "RECEIPT" \in notices => booking # NoRef
    /\ booking # NoRef => order.papers = Papers

\* One order, one sale: no redelivery, no overlapping request and no second charge
\* replaces the sale that was booked.
SaleIsFinal == [][booking # NoRef => booking' = booking]_paymentVars

\* Once an order is paid and no request from before is still about to write its
\* failure or its cancellation, it is paid for good: an expiry that comes late, or
\* again, cannot downgrade a sale.
Settled == /\ order.lifecycle = "PAID"
           /\ \A h \in Handlers : handler[h].step \notin {"FAIL", "CANCEL_WRITE"}

PaidStaysPaid == [][Settled => Settled']_paymentVars

\* Whatever dies on the way, and however often a success that cannot be booked comes
\* again, an order of which the provider has something to say that can be recorded does
\* not stay pending.  (A charged order that cannot be accounted for, and of which nothing
\* else is said, does: every delivery is refused and nothing else looks for it.)
OutcomeIsDecided ==
    (\E e \in Events : events[e] = "DUE" /\ Recordable(e)) ~> order.lifecycle # "PENDING_PAYMENT"

==============================================================================
