---------------------------- MODULE OutboundEmail ----------------------------
(***************************************************************************)
(* The outbound email queue: business handlers commit to sending a message *)
(* once, dispatch cycles recover claims whose lease is over, claim a batch *)
(* of due messages under one lease and send them one after the other.      *)
(* Every step below is one database round trip or one provider call.       *)
(*                                                                         *)
(* A lock token is a fresh random value per claim; the token on a row is   *)
(* modelled by the number of the claim on that row.                        *)
(***************************************************************************)
EXTENDS Naturals, FiniteSets

CONSTANTS
    Messages,       \* logical messages, one row each (the unique dedupe key)
    Workers,        \* processes dispatching: scheduled cycles, send-now calls
    NoMessage,      \* the message of a worker that is not on one
    MaxAttempts,    \* EMAIL_RETRY_POLICY.maxAttempts
    LeaseDuration,  \* EMAIL_RETRY_POLICY.claimLeaseSeconds
    Backoff,        \* EMAIL_RETRY_POLICY.backoffSeconds, per attempt made
    CycleLimit,     \* rows a cycle recovers, and rows it claims
    DeliveryTime,   \* the longest a live worker takes from one message to the
                    \* next, or from the start of its cycle to the first
    Window          \* bound: how far back instants are told apart

ASSUME PolicyAssumption == /\ MaxAttempts \in Nat \ {0}
                           /\ LeaseDuration \in Nat \ {0}
                           /\ Backoff \in [1..MaxAttempts -> Nat]
ASSUME NullAssumption == NoMessage \notin Messages
ASSUME BoundAssumption == /\ CycleLimit \in Nat
                          /\ DeliveryTime \in Nat
                          /\ Window \in Nat

VARIABLES
    now,         \* the wall clock
    delivery,    \* OutboundEmailDelivery rows
    worker,      \* cycles in progress (memory, lost when the process dies)
    suppressed,  \* messages whose address is under a standing suppression
    claims,      \* how many times each row was claimed
    sent,        \* claims whose request was handed to the provider
    accepted     \* claims whose request the provider took

vars == <<now, delivery, worker, suppressed, claims, sent, accepted>>
ghosts == <<sent, accepted>>

Statuses == {"ABSENT", "PENDING", "IN_PROGRESS", "DELIVERED", "RETRY_PENDING",
             "PERMANENTLY_FAILED"}
Claimable == {"PENDING", "RETRY_PENDING"}
Terminal  == {"DELIVERED", "PERMANENTLY_FAILED"}
Outcomes  == {"ACCEPTED", "TRANSIENT", "PERMANENT"}

DeliveryRows == [status : Statuses, token : Nat, lease : Nat, due : Nat,
                 attempts : Nat]
NoDelivery   == [status |-> "ABSENT", token |-> 0, lease |-> 0, due |-> 0,
                 attempts |-> 0]

\* A worker: where it stands, the instant its cycle was given, the rows it has
\* read or holds (by token, 0: not) with the attempt counts it read, the message
\* it is on, the instant it was done with the one before, and the outcome it is
\* about to record.
WorkerSteps == {"IDLE", "RECOVER", "SELECT", "CLAIM", "READ", "DISPATCH",
                "SEND", "RECORD", "RESOLVE"}
WorkerRows == [step : WorkerSteps, at : Nat, rows : [Messages -> Nat],
               count : [Messages -> Nat], msg : Messages \cup {NoMessage},
               since : Nat, outcome : Outcomes]
None == [m \in Messages |-> 0]
Idle == [step |-> "IDLE", at |-> 0, rows |-> None, count |-> None,
         msg |-> NoMessage, since |-> 0, outcome |-> "TRANSIENT"]

Init == /\ now = 0
        /\ delivery = [m \in Messages |-> NoDelivery]
        /\ worker = [w \in Workers |-> Idle]
        /\ suppressed = {}
        /\ claims = [m \in Messages |-> 0]
        /\ sent = [m \in Messages |-> {}]
        /\ accepted = [m \in Messages |-> {}]

------------------------------------------------------------------------------
\* Time.  Past the window the whole of time slides: only the order of instants
\* matters, and instants older than the window are its start.
Earlier(t) == IF t > 0 THEN t - 1 ELSE 0

AgedRow(row) == [row EXCEPT !.lease = Earlier(@), !.due = Earlier(@)]
AgedWorker(wk) == [wk EXCEPT !.at = Earlier(@), !.since = Earlier(@)]

Tick ==
    /\ \A w \in Workers : worker[w].step # "IDLE" =>
         now < worker[w].since + DeliveryTime
    /\ IF now < Window
         THEN now' = now + 1 /\ UNCHANGED <<delivery, worker>>
         ELSE /\ delivery' = [m \in Messages |-> AgedRow(delivery[m])]
              /\ worker' = [w \in Workers |-> AgedWorker(worker[w])]
              /\ UNCHANGED now
    /\ UNCHANGED <<suppressed, claims, ghosts>>

------------------------------------------------------------------------------
\* Handlers, the provider's webhook and address verification

\* Committing to a message again returns the existing row unchanged.
Enqueued(row) ==
    IF row.status = "ABSENT"
      THEN [NoDelivery EXCEPT !.status = "PENDING", !.due = now]
      ELSE row

Enqueue(m) ==
    /\ delivery' = [delivery EXCEPT ![m] = Enqueued(@)]
    /\ UNCHANGED <<now, worker, suppressed, claims, ghosts>>

\* A hard bounce or a complaint suppresses an address; proving control of it
\* lifts the suppression.  Several messages may go to one address.
Suppress(S) ==
    /\ suppressed' = suppressed \cup S
    /\ UNCHANGED <<now, delivery, worker, claims, ghosts>>

LiftSuppression(S) ==
    /\ suppressed' = suppressed \ S
    /\ UNCHANGED <<now, delivery, worker, claims, ghosts>>

------------------------------------------------------------------------------
\* What one attempt does to a row

\* The next attempt, or the end of the message when the attempts are spent.
\* Variant: one attempt too many.
FailedOneMore(row, attempts, at) ==
    IF attempts > MaxAttempts
      THEN [NoDelivery EXCEPT !.status = "PERMANENTLY_FAILED",
                              !.attempts = attempts]
      ELSE [NoDelivery EXCEPT !.status = "RETRY_PENDING",
                              !.attempts = attempts,
                              !.due = at + Backoff[attempts]]

Failed(row, attempts, at) ==
    IF attempts >= MaxAttempts
      THEN [NoDelivery EXCEPT !.status = "PERMANENTLY_FAILED",
                              !.attempts = attempts]
      ELSE [NoDelivery EXCEPT !.status = "RETRY_PENDING",
                              !.attempts = attempts,
                              !.due = at + Backoff[attempts]]

Resolved(row, attempts, outcome, at) ==
    IF outcome = "TRANSIENT" THEN Failed(row, attempts, at)
    ELSE [NoDelivery EXCEPT
            !.status = IF outcome = "ACCEPTED" THEN "DELIVERED"
                       ELSE "PERMANENTLY_FAILED",
            !.attempts = attempts]

------------------------------------------------------------------------------
\* A cycle: recovery

\* Variant: the lease is not looked at.
StaleWhateverLease(m, at) == delivery[m].status = "IN_PROGRESS"

Stale(m, at) == /\ delivery[m].status = "IN_PROGRESS"
                /\ delivery[m].lease <= at

\* At most CycleLimit of the rows in S, those first whose instant is the earliest.
FirstOf(S, instant) ==
    {chosen \in SUBSET S :
        /\ Cardinality(chosen) <= CycleLimit
        /\ \A m \in S \ chosen :
             /\ Cardinality(chosen) = CycleLimit
             /\ \A c \in chosen : instant[c] <= instant[m]}

\* A cycle is given the present instant, once, and reads the stale claims.
StartCycle(w) ==
    /\ worker[w].step = "IDLE"
    /\ \E chosen \in FirstOf({m \in Messages : Stale(m, now)},
                            [m \in Messages |-> delivery[m].lease]) :
         worker' = [worker EXCEPT ![w] = [Idle EXCEPT
             !.step  = IF chosen = {} THEN "SELECT" ELSE "RECOVER",
             !.at    = now,
             !.since = now,
             !.rows  = [m \in Messages |->
                          IF m \in chosen THEN delivery[m].token ELSE 0],
             !.count = [m \in Messages |->
                          IF m \in chosen THEN delivery[m].attempts ELSE 0]]]
    /\ UNCHANGED <<now, delivery, suppressed, claims, ghosts>>

\* Variants: the token the sweep read is not asked for, or none is.
RecoverableAnyClaim(w, m) == Stale(m, worker[w].at)
RecoverableUnlocked(w, m) == /\ Stale(m, worker[w].at)
                             /\ delivery[m].token = 0
Recoverable(w, m) == /\ Stale(m, worker[w].at)
                     /\ delivery[m].token = worker[w].rows[m]

AfterRecovery(w, m) ==
    Failed(delivery[m], worker[w].count[m] + 1, worker[w].at)

\* Each stale row is recovered by a guarded update; the attempt counts.
RecoverRow(w, m) ==
    LET rest == [worker[w].rows EXCEPT ![m] = 0] IN
    /\ worker[w].step = "RECOVER"
    /\ worker[w].rows[m] # 0
    /\ delivery' = IF Recoverable(w, m)
                     THEN [delivery EXCEPT ![m] = AfterRecovery(w, m)]
                     ELSE delivery
    /\ worker' = [worker EXCEPT ![w] =
                    [@ EXCEPT !.rows = rest, !.count[m] = 0,
                              !.step = IF rest = None THEN "SELECT" ELSE "RECOVER"]]
    /\ UNCHANGED <<now, suppressed, claims, ghosts>>

------------------------------------------------------------------------------
\* A cycle: the claim

Due(m, at) == /\ delivery[m].status \in Claimable
              /\ delivery[m].due <= at

Selecting(w, at, since, chosen) ==
    worker' = [worker EXCEPT ![w] =
                 IF chosen = {} THEN Idle
                 ELSE [Idle EXCEPT !.step = "CLAIM", !.at = at, !.since = since,
                         !.rows = [m \in Messages |->
                                     IF m \in chosen THEN 1 ELSE 0]]]

\* The select is a hint: it only names candidates for the update.
SelectDue(w) ==
    /\ worker[w].step = "SELECT"
    /\ \E chosen \in FirstOf({m \in Messages : Due(m, worker[w].at)},
                            [m \in Messages |-> delivery[m].due]) :
         Selecting(w, worker[w].at, worker[w].since, chosen)
    /\ UNCHANGED <<now, delivery, suppressed, claims, ghosts>>

\* A handler that has just committed to some messages tries these, and only
\* these, at once; it recovers nothing.
SendNow(w, only) ==
    /\ worker[w].step = "IDLE"
    /\ Selecting(w, now, now, {m \in only : Due(m, now)})
    /\ UNCHANGED <<now, delivery, suppressed, claims, ghosts>>

\* Variant: the update trusts the select.
ClaimableCandidates(w) == {m \in Messages : worker[w].rows[m] # 0}

\* The rows the guarded update still finds due and unclaimed.
ClaimableRows(w) ==
    {m \in Messages : /\ worker[w].rows[m] # 0
                      /\ Due(m, worker[w].at)
                      /\ delivery[m].token = 0}

\* One update stamps the token and the lease on all of them.
ClaimBatch(w) ==
    LET batch == ClaimableRows(w) IN
    /\ worker[w].step = "CLAIM"
    /\ delivery' = [m \in Messages |->
                      IF m \in batch
                        THEN [delivery[m] EXCEPT
                                !.status = "IN_PROGRESS",
                                !.token = claims[m] + 1,
                                !.lease = worker[w].at + LeaseDuration]
                        ELSE delivery[m]]
    /\ claims' = [m \in Messages |->
                    IF m \in batch THEN claims[m] + 1 ELSE claims[m]]
    /\ worker' = [worker EXCEPT ![w] =
                    IF batch = {} THEN Idle
                    ELSE [@ EXCEPT !.step = "READ",
                            !.rows = [m \in Messages |->
                              IF m \in batch THEN claims[m] + 1 ELSE 0]]]
    /\ UNCHANGED <<now, suppressed, ghosts>>

\* The rows that carry the token are read back.
ReadBack(w) ==
    LET held == [m \in Messages |->
                   IF delivery[m].token = worker[w].rows[m]
                     THEN worker[w].rows[m] ELSE 0] IN
    /\ worker[w].step = "READ"
    /\ worker' = [worker EXCEPT ![w] =
                    IF held = None THEN Idle
                    ELSE [@ EXCEPT !.step = "DISPATCH", !.rows = held]]
    /\ UNCHANGED <<now, delivery, suppressed, claims, ghosts>>

------------------------------------------------------------------------------
\* A cycle: one message after the other

\* The message is rendered from the authoritative rows, which may fail, and the
\* suppression list is asked; only then may it go out.  The claim is not read
\* again.
Prepare(w, m) ==
    /\ worker[w].step = "DISPATCH"
    /\ worker[w].rows[m] # 0
    /\ \E resolved \in BOOLEAN, failure \in {"TRANSIENT", "PERMANENT"} :
         worker' = [worker EXCEPT ![w] = [@ EXCEPT
             !.msg = m,
             !.step = IF resolved /\ m \notin suppressed THEN "SEND" ELSE "RECORD",
             !.outcome = IF resolved THEN "PERMANENT" ELSE failure]]
    /\ UNCHANGED <<now, delivery, suppressed, claims, ghosts>>

\* One provider call.  A request whose answer was lost may have been taken.
Send(w) ==
    LET m == worker[w].msg
        c == worker[w].rows[m] IN
    /\ worker[w].step = "SEND"
    /\ \E outcome \in Outcomes, taken \in BOOLEAN :
         /\ outcome = "ACCEPTED" => taken
         /\ outcome = "PERMANENT" => ~taken
         /\ worker' = [worker EXCEPT ![w] =
                         [@ EXCEPT !.step = "RECORD", !.outcome = outcome]]
         /\ accepted' = IF taken THEN [accepted EXCEPT ![m] = @ \cup {c}]
                        ELSE accepted
    /\ sent' = [sent EXCEPT ![m] = @ \cup {c}]
    /\ UNCHANGED <<now, delivery, suppressed, claims>>

\* Recording the outcome reads the attempt count ...
ReadAttempts(w) ==
    LET m == worker[w].msg IN
    /\ worker[w].step = "RECORD"
    /\ worker' = [worker EXCEPT ![w] =
                    [@ EXCEPT !.step = "RESOLVE",
                              !.count[m] = delivery[m].attempts]]
    /\ UNCHANGED <<now, delivery, suppressed, claims, ghosts>>

\* Variant: whoever holds the row, the outcome is written.
HoldsAny(w, m) == delivery[m].status = "IN_PROGRESS"

Holds(w, m) == /\ delivery[m].status = "IN_PROGRESS"
               /\ delivery[m].token = worker[w].rows[m]

\* ... and writes the row if this claim still holds it; otherwise the conflict
\* is counted and the cycle goes on with the next message.
ResolveDelivery(w) ==
    LET m == worker[w].msg
        rest == [worker[w].rows EXCEPT ![m] = 0] IN
    /\ worker[w].step = "RESOLVE"
    /\ delivery' = IF Holds(w, m)
                     THEN [delivery EXCEPT ![m] =
                             Resolved(@, worker[w].count[m] + 1,
                                      worker[w].outcome, worker[w].at)]
                     ELSE delivery
    /\ worker' = [worker EXCEPT ![w] =
                    IF rest = None THEN Idle
                    ELSE [Idle EXCEPT !.step = "DISPATCH", !.rows = rest,
                                      !.at = worker[w].at, !.since = now]]
    /\ UNCHANGED <<now, suppressed, claims, ghosts>>

\* A process dies, or a database error is thrown out of its cycle.
Abort(w) ==
    /\ worker[w].step # "IDLE"
    /\ worker' = [worker EXCEPT ![w] = Idle]
    /\ UNCHANGED <<now, delivery, suppressed, claims, ghosts>>

------------------------------------------------------------------------------
Dispatch(w) ==
    \/ \E m \in Messages : Prepare(w, m)
    \/ Send(w)
    \/ ReadAttempts(w)
    \/ ResolveDelivery(w)

Cycle(w) ==
    \/ StartCycle(w)
    \/ \E m \in Messages : RecoverRow(w, m)
    \/ SelectDue(w)
    \/ \E only \in SUBSET Messages : SendNow(w, only)
    \/ ClaimBatch(w)
    \/ ReadBack(w)

Next ==
    \/ Tick
    \/ \E m \in Messages : Enqueue(m)
    \/ \E S \in SUBSET Messages : Suppress(S) \/ LiftSuppression(S)
    \/ \E w \in Workers : Cycle(w) \/ Dispatch(w) \/ Abort(w)

Spec == Init /\ [][Next]_vars

\* Time passes, cycles are invoked again and again (the scheduled job), and a
\* process that dies over and over still gets through each step of a cycle
\* sometimes.  Nothing obliges a handler, a webhook or a send-now call.

Fairness ==
    /\ WF_vars(Tick)
    /\ \A w \in Workers :
         /\ SF_vars(StartCycle(w))
         /\ \A m \in Messages : SF_vars(RecoverRow(w, m))
         /\ SF_vars(SelectDue(w))
         /\ SF_vars(ClaimBatch(w))
         /\ WF_vars(ReadBack(w) \/ Dispatch(w))

FairSpec == Spec /\ Fairness

------------------------------------------------------------------------------
TypeOK ==
    /\ now \in Nat
    /\ delivery \in [Messages -> DeliveryRows]
    /\ worker \in [Workers -> WorkerRows]
    /\ suppressed \in SUBSET Messages
    /\ claims \in [Messages -> Nat]
    /\ sent \in [Messages -> SUBSET Nat]
    /\ accepted \in [Messages -> SUBSET Nat]

\* One message, up to MaxAttempts tries: however many workers lose their claims,
\* die or resume late, no message is handed to the provider more often.
BoundedTries ==
    \A m \in Messages : sent[m] \subseteq 1..MaxAttempts

\* A row says DELIVERED only on the word of the last claim's own request: a late
\* worker never writes its outcome over a claim somebody else took since.
DeliveredByLastClaim ==
    \A m \in Messages :
        delivery[m].status = "DELIVERED" => claims[m] \in accepted[m]

\* Nothing moves a terminal row: no late worker, no sweep, and no handler that
\* commits to the message again.
TerminalIsFinal ==
    [][\A m \in Messages : delivery[m].status \in Terminal =>
          delivery'[m] = delivery[m]]_vars

\* Lease expiry, not lock stealing: a claim whose lease still runs ends only by
\* its own worker's resolution.
LiveClaimIsNotStolen ==
    [][\A m \in Messages :
         /\ delivery[m].status = "IN_PROGRESS" /\ delivery[m].lease > now
         /\ delivery'[m].status # "IN_PROGRESS"
         => \E w \in Workers : /\ worker[w].step = "RESOLVE"
                               /\ worker[w].msg = m
                               /\ worker[w].rows[m] = delivery[m].token
                               /\ worker'[w] # worker[w]]_vars

\* Bounded at-least-once: a message somebody committed to ends as DELIVERED or
\* PERMANENTLY_FAILED, whatever dies on the way.
CommittedIsSettled ==
    \A m \in Messages :
        delivery[m].status # "ABSENT" ~> delivery[m].status \in Terminal

\* What is told of a row to whoever committed to the message.
StateOf == [ABSENT |-> "NONE", PENDING |-> "WAITING", RETRY_PENDING |-> "WAITING",
            IN_PROGRESS |-> "CLAIMED", DELIVERED |-> "DELIVERED",
            PERMANENTLY_FAILED |-> "FAILED"]

Promise == INSTANCE MessageDelivery WITH
    message <- [m \in Messages |-> [state    |-> StateOf[delivery[m].status],
                                    claims   |-> claims[m],
                                    sent     |-> sent[m],
                                    accepted |-> accepted[m]]]

\* Recoveries, late resolutions and crashes included, the queue claims, sends and
\* settles a message as MessageDelivery promises.
ImplementsDelivery == Promise!Spec

------------------------------------------------------------------------------
\* The inductive invariant

\* Every claim counts as exactly one attempt, once it is over; and the row
\* contract of token and claim.
RowOK(m) ==
    LET row == delivery[m] IN
    /\ row.status = "IN_PROGRESS" <=> row.token # 0
    /\ row.token # 0 => row.token = claims[m]
    /\ claims[m] = IF row.status = "IN_PROGRESS"
                     THEN row.attempts + 1 ELSE row.attempts
    /\ row.status \in Claimable \cup {"ABSENT", "IN_PROGRESS"} =>
         row.attempts < MaxAttempts
    /\ row.attempts <= MaxAttempts
    /\ row.status \in {"ABSENT", "PENDING"} => row.attempts = 0
    /\ sent[m] \subseteq 1..claims[m]
    /\ row.status = "DELIVERED" => claims[m] \in accepted[m]

Holding == {"READ", "DISPATCH", "SEND", "RECORD", "RESOLVE"}

\* What a worker is about to write still fits the row it would write.
WorkerOK(wk) ==
    /\ wk.at <= now
    /\ wk.step \in Holding \cup {"RECOVER"} =>
         \A m \in Messages : wk.rows[m] <= claims[m]
    /\ wk.step = "RECOVER" => \A m \in Messages :
         wk.rows[m] # 0 /\ delivery[m].token = wk.rows[m] =>
            wk.count[m] = delivery[m].attempts
    /\ wk.step \in {"SEND", "RECORD", "RESOLVE"} =>
         wk.msg \in Messages /\ wk.rows[wk.msg] # 0
    /\ wk.step \in {"RECORD", "RESOLVE"} /\ wk.outcome = "ACCEPTED" =>
         wk.rows[wk.msg] \in accepted[wk.msg]
    /\ wk.step = "RESOLVE" /\ delivery[wk.msg].token = wk.rows[wk.msg] =>
         wk.count[wk.msg] = delivery[wk.msg].attempts

DeliveryInv == /\ TypeOK
               /\ \A m \in Messages : RowOK(m)
               /\ \A w \in Workers : WorkerOK(worker[w])

==============================================================================
