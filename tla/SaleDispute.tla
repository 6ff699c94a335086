----------------------------- MODULE SaleDispute -----------------------------
(***************************************************************************)
(* What happens to one sale after it was booked: disputes the payment         *)
(* provider reports, the parties' claims on the proceeds as they are paid     *)
(* out, the refund that competes with a chargeback, and the exceptions, fees  *)
(* and reversal these leave.                                                 *)
(*                                                                         *)
(* A delivery of a provider event is one database transaction: it decides on  *)
(* the rows as they were at its first read (REPEATABLE READ) and writes them   *)
(* later, by identity; only a unique index makes it fail as a whole.  So are   *)
(* the payout gate, the finalisation of the refund and the work on an          *)
(* exception.                                                              *)
(***************************************************************************)
EXTENDS Naturals, FiniteSets

CONSTANTS
    Disputes,    \* the provider's disputes of the charge
    Claims,      \* the proceeds obligations of the sale: seller, promoter
    Deliveries,  \* webhook requests that may run at the same time
    Operators,   \* requests of operators that may run at the same time
    Scenarios,   \* the sets of events the provider may have to tell
    MaxPolicy    \* bound: versions of the chargeback fee, 0 standing for none

ASSUME PolicyAssumption == MaxPolicy \in Nat

VARIABLES
    events,    \* what the provider tells of the disputes
    db,        \* the rows, as last committed
    delivery,  \* the webhook requests: the event and the rows as read
    refund,    \* the refund of the sale
    operator,  \* the operators' requests
    outdated   \* whether a request has written on rows that had changed since read

disputeVars == <<events, db, delivery, refund, operator, outdated>>

------------------------------------------------------------------------------
\* Vocabulary

Decided  == {"WON", "LOST", "CLOSED"}
Open     == {"OPEN", "NEEDS_RESPONSE", "UNDER_REVIEW", "MANUAL_REMEDIATION_REQUIRED"}
Statuses == Decided \cup Open

Becomes ==
    [s \in Statuses |->
        IF s \in Decided THEN {s}
        ELSE IF s = "MANUAL_REMEDIATION_REQUIRED" THEN {s} \cup Decided
        ELSE IF s = "OPEN" THEN Statuses
        ELSE Statuses \ {"OPEN"}]

\* What the provider says in an event: of which dispute, its status, its instant,
\* whether the amount is the buyer's whole total, and whether the event cannot be
\* accepted (live mode, or another currency).
Events == [dispute : Disputes, status : Statuses, at : Nat, full : BOOLEAN,
           foreign : BOOLEAN]

ASSUME ScenarioAssumption == Scenarios \subseteq SUBSET Events

Effects == {"NONE", "REVERSED_BY_THIS_DISPUTE", "ALREADY_REVERSED_BY_REFUND",
            "NOT_EXPRESSIBLE"}
DisputeRows == [status : Statuses \cup {"ABSENT"}, at : Nat, attributed : BOOLEAN,
                effect : Effects, reversed : BOOLEAN]
NoDispute   == [status |-> "ABSENT", at |-> 0, attributed |-> FALSE,
                effect |-> "NONE", reversed |-> FALSE]

ClaimStates == {"PENDING", "ELIGIBLE", "PAID"}
Causes      == {"REFUND", "DISPUTE"}

\* One exception for a claim and a cause; "by" is the dispute that raised it.
ExceptionRows == [status : {"ABSENT", "OPEN", "ACKNOWLEDGED", "RESOLVED"},
                  by : Disputes \cup {"REFUND"}]
Unresolved    == {"OPEN", "ACKNOWLEDGED"}
NoException   == [status |-> "ABSENT", by |-> "REFUND"]

Databases == [booked : BOOLEAN,
              dispute : [Disputes -> DisputeRows],
              ledger : SUBSET Events,
              fee : [Disputes -> 0..MaxPolicy],
              reversal : {"NONE", "REFUND", "CHARGEBACK"},
              claim : [Claims -> ClaimStates],
              exception : [Claims -> [Causes -> ExceptionRows]]]

NoEvent == [dispute |-> "NONE", status |-> "OPEN", at |-> 0, full |-> FALSE,
            foreign |-> FALSE]

EmptyDatabase == [booked |-> FALSE,
                  dispute |-> [d \in Disputes |-> NoDispute],
                  ledger |-> {},
                  fee |-> [d \in Disputes |-> 0],
                  reversal |-> "NONE",
                  claim |-> [c \in Claims |-> "PENDING"],
                  exception |-> [c \in Claims |-> [k \in Causes |-> NoException]]]

Writes == [event : Events \cup {NoEvent}, replay : BOOLEAN, applies : BOOLEAN,
           known : BOOLEAN, row : DisputeRows, raise : SUBSET Claims,
           close : SUBSET Claims, fee : 0..MaxPolicy, reverse : BOOLEAN]
NoWrite == [event |-> NoEvent, replay |-> TRUE, applies |-> FALSE, known |-> FALSE,
            row |-> NoDispute, raise |-> {}, close |-> {}, fee |-> 0,
            reverse |-> FALSE]
Ready == [step |-> "IDLE", write |-> NoWrite]
Rest  == [step |-> "IDLE", claim |-> "NONE", from |-> "NONE", to |-> "NONE"]

DisputeInit ==
    /\ events \in Scenarios
    /\ db = EmptyDatabase
    /\ delivery = [h \in Deliveries |-> Ready]
    /\ refund = [step |-> "NONE", raise |-> {}]
    /\ operator = [o \in Operators |-> Rest]
    /\ outdated = FALSE

------------------------------------------------------------------------------
\* The sale is booked: its settlement exists, with a claim for every party

Book ==
    /\ ~ db.booked
    /\ db' = [db EXCEPT !.booked = TRUE]
    /\ UNCHANGED <<events, delivery, refund, operator, outdated>>

------------------------------------------------------------------------------
\* A provider event: what a delivery decides on the rows it reads

Known(e)    == db.dispute[e.dispute].status # "ABSENT"
Replay(e)   == e \in db.ledger /\ Known(e)
TooOld(e)   == Known(e) /\ e.at < db.dispute[e.dispute].at
Applies(e)  == ~ Replay(e) /\ ~ TooOld(e)

\* An event that cannot be accepted, or of a sale that is not booked, asks for a
\* human.
Reported(e) ==
    IF e.foreign \/ ~ db.booked THEN "MANUAL_REMEDIATION_REQUIRED" ELSE e.status

NextStatus(e) ==
    LET old == db.dispute[e.dispute].status
    IN  IF ~ Known(e) \/ Reported(e) \in Becomes[old] THEN Reported(e) ELSE old

\* Variant: a dispute that is open already costs what a lost one does.
LosesWhenOpened(e) == Applies(e) /\ db.booked /\ NextStatus(e) \notin {"WON", "CLOSED"}

Loses(e)    == Applies(e) /\ db.booked /\ NextStatus(e) = "LOST"

Resolves(e) == Applies(e) /\ db.booked /\ NextStatus(e) \in {"WON", "CLOSED"}
Contests(e) == Applies(e) /\ db.booked /\ ~ Resolves(e)

\* Variant: the chargeback is written whether or not the sale is reversed.
ReversesAgain(e) == Loses(e) /\ e.full

Reverses(e) == Loses(e) /\ db.reversal = "NONE" /\ e.full

NextEffect(e) ==
    LET old == db.dispute[e.dispute]
    IN  IF Resolves(e) THEN IF old.reversed THEN old.effect ELSE "NONE"
        ELSE IF ~ Loses(e) THEN old.effect
        ELSE IF Reverses(e) THEN "REVERSED_BY_THIS_DISPUTE"
        ELSE IF db.reversal # "NONE" THEN "ALREADY_REVERSED_BY_REFUND"
        ELSE "NOT_EXPRESSIBLE"

\* The sale a dispute belongs to is looked up when its row is created, and its row
\* is not attributed later.
NextRow(e) ==
    LET old == db.dispute[e.dispute]
    IN  IF ~ Applies(e) THEN old
        ELSE [status     |-> NextStatus(e),
              at         |-> e.at,
              attributed |-> IF Known(e) THEN old.attributed ELSE db.booked,
              effect     |-> NextEffect(e),
              reversed   |-> old.reversed \/ Reverses(e)]

\* Variant: only what was already paid out.
AlreadyPaid == {c \in Claims : db.claim[c] = "PAID"}

Payable == {c \in Claims : db.claim[c] \in {"ELIGIBLE", "PAID"}}

OpenExceptionsOf(d) ==
    {c \in Claims : /\ db.exception[c]["DISPUTE"].by = d
                    /\ db.exception[c]["DISPUTE"].status \in Unresolved}

\* What the transaction will write, by the rows it reads and the version of the fee
\* that is active: nothing of a replay, only the ledger's entry of an event older
\* than the last one.
Decision(e, version) ==
    [event   |-> e,
     replay  |-> Replay(e),
     applies |-> Applies(e),
     known   |-> Known(e),
     row     |-> NextRow(e),
     raise   |-> IF Contests(e) THEN Payable ELSE {},
     close   |-> IF Resolves(e) THEN OpenExceptionsOf(e.dispute) ELSE {},
     fee     |-> IF Loses(e) THEN version ELSE 0,
     reverse |-> Reverses(e)]

\* Exceptions as they stand after the transaction: a second one of one claim and
\* cause is swallowed, closing is by identity.
Raise(claims, cause, who) ==
    [c \in Claims |->
        IF c \in claims /\ db.exception[c][cause] = NoException
        THEN [db.exception[c] EXCEPT ![cause] = [status |-> "OPEN", by |-> who]]
        ELSE db.exception[c]]

Close(claims) ==
    [c \in Claims |->
        IF c \in claims THEN [db.exception[c] EXCEPT !["DISPUTE"].status = "RESOLVED"]
        ELSE db.exception[c]]

\* Variant: the fee is written again by every event of a lost dispute.
AssessAgain(d, version) ==
    [f \in Disputes |-> IF f = d /\ version # 0 THEN version ELSE db.fee[f]]

\* One loss, one fee: at the version that was active, none without one.
Assess(d, version) ==
    [f \in Disputes |-> IF f = d /\ db.fee[f] = 0 THEN version ELSE db.fee[f]]

\* What a unique index refuses: the event or the dispute written meanwhile, or a
\* second reversal.
Refused(w) ==
    \/ ~ w.replay /\ w.event \in db.ledger
    \/ w.applies /\ ~ w.known /\ Known(w.event)
    \/ w.reverse /\ db.reversal # "NONE"

Written(w) ==
    LET d == w.event.dispute
    IN  [db EXCEPT
            !.ledger = @ \cup {w.event},
            !.dispute[d] = IF w.applies THEN w.row ELSE db.dispute[d],
            !.exception = IF w.close # {} THEN Close(w.close)
                          ELSE Raise(w.raise, "DISPUTE", d),
            !.fee = Assess(d, w.fee),
            !.reversal = IF w.reverse THEN "CHARGEBACK" ELSE db.reversal]

\* The provider tells an event when it will, again and in any order.
Deliver(h, e) ==
    /\ delivery[h].step = "IDLE"
    /\ \E version \in 0..MaxPolicy :
          delivery' = [delivery EXCEPT ![h] = [step  |-> "COMMIT",
                                               write |-> Decision(e, version)]]
    /\ UNCHANGED <<events, db, refund, operator, outdated>>

Commit(h) ==
    LET w == delivery[h].write
    IN  /\ delivery[h].step = "COMMIT"
        /\ ~ Refused(w)
        /\ db' = Written(w)
        /\ outdated' = (outdated \/ (w.applies /\ w # Decision(w.event, w.fee)))
        /\ delivery' = [delivery EXCEPT ![h] = Ready]
        /\ UNCHANGED <<events, refund, operator>>

\* The transaction is rolled back, by a unique index or because the process died;
\* the provider gets no success for an answer.
Fail(h) ==
    /\ delivery[h].step = "COMMIT"
    /\ delivery' = [delivery EXCEPT ![h] = Ready]
    /\ UNCHANGED <<events, db, refund, operator, outdated>>

------------------------------------------------------------------------------
\* The refund: requested unless the sale is disputed, executed, then finalised

Blocking == {d \in Disputes : db.dispute[d].attributed
                              /\ db.dispute[d].status \in Open \cup {"LOST"}}

RequestRefund ==
    /\ refund.step = "NONE"
    /\ db.booked /\ db.reversal = "NONE" /\ Blocking = {}
    /\ refund' = [refund EXCEPT !.step = "REQUESTED"]
    /\ UNCHANGED <<events, db, delivery, operator, outdated>>

BeginFinalize ==
    /\ refund.step = "REQUESTED"
    /\ refund' = [step |-> "FINALIZE", raise |-> Payable]
    /\ UNCHANGED <<events, db, delivery, operator, outdated>>

\* A sale that was reversed meanwhile refuses the whole transaction.
Finalize ==
    /\ refund.step = "FINALIZE"
    /\ \/ /\ db.reversal = "NONE"
          /\ db' = [db EXCEPT !.reversal = "REFUND",
                              !.exception = Raise(refund.raise, "REFUND", "REFUND")]
          /\ refund' = [step |-> "DONE", raise |-> {}]
          /\ outdated' = (outdated \/ refund.raise # Payable)
       \/ /\ refund' = [step |-> "REQUESTED", raise |-> {}]
          /\ UNCHANGED <<db, outdated>>
    /\ UNCHANGED <<events, delivery, operator>>

------------------------------------------------------------------------------
\* Operators: the payout gate, and work on exceptions

Advances == [PENDING |-> {"ELIGIBLE"}, ELIGIBLE |-> {"PAID"}, PAID |-> {}]

\* Variant: the gate does not ask for disputes.
HeldByReversal == db.reversal # "NONE"

\* Nothing holds a claim but a reversal or an open dispute of the sale; a claim
\* already eligible is paid whatever has happened.
Held == \/ db.reversal # "NONE"
        \/ \E d \in Disputes : db.dispute[d].attributed /\ db.dispute[d].status \in Open

PayoutCheck(o, c) ==
    /\ operator[o].step = "IDLE"
    /\ db.booked
    /\ \E to \in Advances[db.claim[c]] :
          /\ to = "ELIGIBLE" => ~ Held
          /\ operator' = [operator EXCEPT ![o] = [step |-> "PAYOUT", claim |-> c,
                                                  from |-> db.claim[c], to |-> to]]
    /\ UNCHANGED <<events, db, delivery, refund, outdated>>

\* Written by identity alone.
Payout(o) ==
    /\ operator[o].step = "PAYOUT"
    /\ db' = [db EXCEPT !.claim[operator[o].claim] = operator[o].to]
    /\ outdated' = \/ outdated
                   \/ operator[o].from # db.claim[operator[o].claim]
                   \/ operator[o].to = "ELIGIBLE" /\ Held
    /\ operator' = [operator EXCEPT ![o] = Rest]
    /\ UNCHANGED <<events, delivery, refund>>

ExceptionMoves == [OPEN |-> {"ACKNOWLEDGED", "RESOLVED"},
                   ACKNOWLEDGED |-> {"RESOLVED"}, RESOLVED |-> {}, ABSENT |-> {}]

ExceptionCheck(o, c, k) ==
    /\ operator[o].step = "IDLE"
    /\ \E to \in ExceptionMoves[db.exception[c][k].status] :
          operator' = [operator EXCEPT ![o] = [step |-> k, claim |-> c, to |-> to,
                                               from |-> db.exception[c][k].status]]
    /\ UNCHANGED <<events, db, delivery, refund, outdated>>

AdvanceException(o) ==
    /\ operator[o].step \in Causes
    /\ db' = [db EXCEPT !.exception[operator[o].claim][operator[o].step].status =
                            operator[o].to]
    /\ outdated' = \/ outdated
                   \/ operator[o].from #
                          db.exception[operator[o].claim][operator[o].step].status
    /\ operator' = [operator EXCEPT ![o] = Rest]
    /\ UNCHANGED <<events, delivery, refund>>

------------------------------------------------------------------------------
DisputeNext ==
    \/ Book
    \/ \E h \in Deliveries : (\E e \in events : Deliver(h, e)) \/ Commit(h) \/ Fail(h)
    \/ RequestRefund \/ BeginFinalize \/ Finalize
    \/ \E o \in Operators :
          \/ \E c \in Claims : PayoutCheck(o, c)
          \/ Payout(o)
          \/ \E c \in Claims, k \in Causes : ExceptionCheck(o, c, k)
          \/ AdvanceException(o)

DisputeSpec == DisputeInit /\ [][DisputeNext]_disputeVars

------------------------------------------------------------------------------
DisputeTypeOK ==
    /\ events \in Scenarios
    /\ db \in Databases
    /\ delivery \in [Deliveries -> [step : {"IDLE", "COMMIT"}, write : Writes]]
    /\ refund \in [step : {"NONE", "REQUESTED", "FINALIZE", "DONE"}, raise : SUBSET Claims]
    /\ operator \in
          [Operators ->
              {Rest}
              \cup [step : {"PAYOUT"}, claim : Claims, from : ClaimStates, to : ClaimStates]
              \cup [step : Causes, claim : Claims, to : {"ACKNOWLEDGED", "RESOLVED"},
                    from : {"OPEN", "ACKNOWLEDGED"}]]
    /\ outdated \in BOOLEAN

LossTold(d) == \E e \in db.ledger : e.dispute = d /\ e.status = "LOST" /\ ~ e.foreign

\* The ledger accounts for the rows: what it holds the provider has told, of disputes
\* that are known; a loss, a fee and a chargeback have the event that told the loss.
RowsAreTold ==
    /\ db.ledger \subseteq events
    /\ \A e \in db.ledger : Known(e)
    /\ \A d \in Disputes :
          db.dispute[d].status = "LOST" \/ db.fee[d] # 0 => LossTold(d)
    /\ db.reversal = "CHARGEBACK" => \E d \in Disputes : LossTold(d)

\* What a delivery has decided stays justified until it commits.
WriteIsTold(w) ==
    LET e == w.event
    IN  /\ e \in events
        /\ w.replay => e \in db.ledger
        /\ w.applies => ~ w.replay /\ w.row.status # "ABSENT"
        /\ w.known \/ ~ w.applies => Known(e)
        /\ (w.applies /\ w.row.status = "LOST") \/ w.fee # 0 \/ w.reverse =>
              LossTold(e.dispute) \/ (e.status = "LOST" /\ ~ e.foreign)

WritesAreTold ==
    \A h \in Deliveries : delivery[h].step = "COMMIT" => WriteIsTold(delivery[h].write)

\* Rows, ledger and what the deliveries are about to write fit together at any
\* moment, whatever overtook what.
DisputeInv == DisputeTypeOK /\ RowsAreTold /\ WritesAreTold

Covered(c, k) == db.exception[c][k] # NoException

\* The provider may still take the money, or has taken it and the books say so.
AtIssue(d) ==
    LET row == db.dispute[d] IN
    /\ row.attributed
    /\ \/ row.status \in Open
       \/ row.status = "LOST" /\ row.effect # "NOT_EXPRESSIBLE"

\* Every claim that can be or has been paid, of a sale whose money went back or is
\* contested, has the exception an operator works from.
ClaimsAtStakeAreCovered ==
    \A c \in Claims :
        db.claim[c] \in {"ELIGIBLE", "PAID"} =>
            /\ db.reversal = "REFUND" => Covered(c, "REFUND")
            /\ db.reversal = "CHARGEBACK" \/ (\E d \in Disputes : AtIssue(d)) =>
                  Covered(c, "DISPUTE")

\* A dispute that cost nobody anything leaves no exception of its own to work on.
WonDisputesOweNothing ==
    \A d \in Disputes, c \in Claims :
        /\ db.dispute[d].status \in {"WON", "CLOSED"}
        /\ db.exception[c]["DISPUTE"].by = d
        => db.exception[c]["DISPUTE"].status \notin Unresolved

\* A lost dispute has reversed the sale, unless its amount is not the whole sale's,
\* and only a dispute that stays lost has charged the sale back.
LossesAreBooked ==
    /\ \A d \in Disputes :
          db.dispute[d].status = "LOST" =>
              db.reversal # "NONE" \/ db.dispute[d].effect = "NOT_EXPRESSIBLE"
    /\ db.reversal = "CHARGEBACK" => \E d \in Disputes : db.dispute[d].status = "LOST"

\* What reconcileDispute finds of an attributed dispute in the rows modelled here.
Finds(d, finding) ==
    LET row == db.dispute[d]
        live == row.status \in Open
    IN
    /\ row.attributed
    /\ \/ /\ finding = "LOST_WITHOUT_REVERSAL"
          /\ row.status = "LOST" /\ db.reversal = "NONE"
          /\ row.effect # "ALREADY_REVERSED_BY_REFUND"
       \/ /\ finding = "PROCEEDS_STILL_ELIGIBLE"
          /\ live \/ row.status = "LOST"
          /\ \E c \in Claims : db.claim[c] = "ELIGIBLE"
       \/ /\ finding = "PAID_PROCEEDS_LACK_RECOVERY"
          /\ live \/ row.status = "LOST"
          /\ \E c \in Claims : db.claim[c] = "PAID" /\ db.exception[c]["DISPUTE"].by # d
       \/ /\ finding = "WON_STALE_RECOVERY_EXCEPTION"
          /\ row.status = "WON"
          /\ OpenExceptionsOf(d) # {}

\* What the code leaves for that report to find, and nothing else: a partial loss, which
\* reverses nothing and holds no payout; a claim that was eligible already when it was
\* contested; a paid claim whose exception another dispute of the sale had raised.  The
\* last two have the exception that an operator works from.
FindingsAreExplained ==
    \A d \in Disputes :
        LET partial == db.dispute[d].status = "LOST" /\ db.dispute[d].effect = "NOT_EXPRESSIBLE"
        IN
        /\ Finds(d, "LOST_WITHOUT_REVERSAL") => partial
        /\ Finds(d, "PROCEEDS_STILL_ELIGIBLE") \/ Finds(d, "PAID_PROCEEDS_LACK_RECOVERY") =>
              partial \/ \A c \in Claims : db.claim[c] \in {"ELIGIBLE", "PAID"} => Covered(c, "DISPUTE")
        /\ ~ Finds(d, "WON_STALE_RECOVERY_EXCEPTION")

\* While no request has written on rows that had changed since it read them, in whatever
\* order the provider tells its events and however often: claims at stake have their
\* exceptions, won disputes owe nothing, losses are booked, and reconcileDispute finds
\* nothing but what the code leaves by design.
UnracedBooksReconcile ==
    ~ outdated => /\ ClaimsAtStakeAreCovered
                  /\ WonDisputesOweNothing
                  /\ LossesAreBooked
                  /\ FindingsAreExplained

\* Raced or not, a seller is charged a fee, and a sale charged back, only for a loss
\* the provider has told.
OnlyALossCosts ==
    /\ \A d \in Disputes :
          db.fee[d] # 0 => \E e \in db.ledger : e.dispute = d /\ e.status = "LOST"
    /\ db.reversal = "CHARGEBACK" =>
          \E e \in db.ledger : e.status = "LOST" /\ ~ e.foreign

\* Raced or not, a fee keeps the version it was assessed at, and what reversed the
\* sale is not replaced: refund and chargeback are never both booked.
ConsequencesAreFinal ==
    [][/\ \A d \in Disputes : db.fee[d] # 0 => db'.fee[d] = db.fee[d]
       /\ db.reversal # "NONE" => db'.reversal = db.reversal]_disputeVars

\* Raced or not, and whatever the sale has been through: a delivery that reads and
\* commits undisturbed records its event.  The provider, which repeats an event
\* until a delivery of it succeeds, is not refused for ever.
NoEventIsRefusedForEver == \A e \in events : ~ Refused(Decision(e, MaxPolicy))
===============================================================================
