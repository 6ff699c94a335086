------------------------- MODULE OutboundEmail_proof -------------------------
(***************************************************************************)
(* OutboundEmail keeps DeliveryInv for any number of messages, workers and *)
(* attempts; that tries are bounded, that a row is DELIVERED on its last   *)
(* claim's word, that terminal rows are final, that no live claim is       *)
(* stolen and that the queue implements MessageDelivery follow.            *)
(***************************************************************************)
EXTENDS OutboundEmail, TLAPS

USE DEF Statuses, Claimable, Terminal, Outcomes, WorkerSteps, Holding

------------------------------------------------------------------------------
\* Typing

\* The absent row is a row.
LEMMA NoDeliveryType == NoDelivery \in DeliveryRows
BY DEF NoDelivery, DeliveryRows

\* An idle worker is a worker, and holds nothing.
LEMMA IdleType == /\ Idle \in WorkerRows
                  /\ None \in [Messages -> Nat]
BY DEF Idle, None, WorkerRows

\* The empty database satisfies the invariant.
LEMMA InitInv == Init => DeliveryInv
<1> SUFFICES ASSUME Init PROVE DeliveryInv
  OBVIOUS
<1>1. TypeOK
  BY NoDeliveryType, IdleType DEF Init, TypeOK
<1>2. \A m \in Messages : RowOK(m)
  BY PolicyAssumption DEF Init, RowOK, NoDelivery
<1>3. \A w \in Workers : WorkerOK(worker[w])
  BY DEF Init, WorkerOK, Idle
<1> QED BY <1>1, <1>2, <1>3 DEF DeliveryInv

\* The row after a failed attempt: free, with the attempts made, and claimable
\* only while attempts remain.
LEMMA FailedRow ==
    ASSUME NEW row \in DeliveryRows, NEW attempts \in Nat \ {0}, NEW at \in Nat
    PROVE  /\ Failed(row, attempts, at) \in DeliveryRows
           /\ Failed(row, attempts, at).token = 0
           /\ Failed(row, attempts, at).attempts = attempts
           /\ Failed(row, attempts, at).status \in
                {"RETRY_PENDING", "PERMANENTLY_FAILED"}
           /\ Failed(row, attempts, at).status = "RETRY_PENDING" =>
                attempts < MaxAttempts
<1>1. CASE attempts >= MaxAttempts
  BY <1>1, PolicyAssumption DEF Failed, NoDelivery, DeliveryRows
<1>2. CASE ~(attempts >= MaxAttempts)
  <2>1. attempts \in 1..MaxAttempts /\ attempts < MaxAttempts
    BY <1>2, PolicyAssumption
  <2>2. at + Backoff[attempts] \in Nat
    BY <2>1, PolicyAssumption
  <2> QED BY <1>2, <2>1, <2>2 DEF Failed, NoDelivery, DeliveryRows
<1> QED BY <1>1, <1>2

------------------------------------------------------------------------------
\* What a change of rows leaves true of the workers, and the reverse

\* What may happen to a row without a worker noticing: its claim and count stay,
\* it is released, or it is claimed anew.
Kept(m) == \/ /\ delivery'[m].token = delivery[m].token
              /\ delivery'[m].attempts = delivery[m].attempts
           \/ delivery'[m].token = 0
           \/ delivery'[m].token > claims[m]

\* A worker that does not move still fits the rows when they only change so.
LEMMA WorkerKept ==
    ASSUME TypeOK, TypeOK', NEW wk \in WorkerRows, WorkerOK(wk),
           wk.at <= now',
           \A m \in Messages : claims[m] <= claims'[m],
           \A m \in Messages : accepted[m] \subseteq accepted'[m],
           \A m \in Messages : Kept(m)
    PROVE  WorkerOK(wk)'
<1> USE DEF WorkerRows
<1>1. wk.step \in Holding \cup {"RECOVER"} =>
        \A m \in Messages : wk.rows[m] <= claims'[m]
  BY DEF WorkerOK, TypeOK
<1>2. wk.step = "RECOVER" => \A m \in Messages :
         wk.rows[m] # 0 /\ delivery'[m].token = wk.rows[m] =>
            wk.count[m] = delivery'[m].attempts
  BY DEF WorkerOK, TypeOK, Kept
<1>3. wk.step = "RESOLVE" /\ delivery'[wk.msg].token = wk.rows[wk.msg] =>
         wk.count[wk.msg] = delivery'[wk.msg].attempts
  BY DEF WorkerOK, TypeOK, Kept
<1> QED BY <1>1, <1>2, <1>3 DEF WorkerOK

\* A step that only moves one worker, to a state that fits the rows, keeps the
\* invariant.
LEMMA WorkerMoves ==
    ASSUME DeliveryInv, NEW w \in Workers, NEW wk \in WorkerRows,
           worker' = [worker EXCEPT ![w] = wk],
           UNCHANGED <<now, delivery, suppressed, claims, accepted>>,
           sent' \in [Messages -> SUBSET Nat],
           \A m \in Messages : sent'[m] \subseteq 1..claims[m],
           WorkerOK(wk)
    PROVE  DeliveryInv'
<1>1. TypeOK'
  BY DEF DeliveryInv, TypeOK
<1>2. \A m \in Messages : RowOK(m)'
  BY DEF DeliveryInv, RowOK
<1>3. \A v \in Workers : WorkerOK(worker[v])'
  <2> TAKE v \in Workers
  <2>1. WorkerOK(worker'[v])
    BY DEF DeliveryInv, TypeOK
  <2> QED BY <2>1 DEF WorkerOK
<1> QED BY <1>1, <1>2, <1>3 DEF DeliveryInv

\* The same for a step that touches no ghost either.
LEMMA WorkerOnly ==
    ASSUME DeliveryInv, NEW w \in Workers, NEW wk \in WorkerRows,
           worker' = [worker EXCEPT ![w] = wk],
           UNCHANGED <<now, delivery, suppressed, claims, ghosts>>,
           WorkerOK(wk)
    PROVE  DeliveryInv'
<1>1. /\ sent' \in [Messages -> SUBSET Nat]
      /\ \A m \in Messages : sent'[m] \subseteq 1..claims[m]
      /\ UNCHANGED <<now, delivery, suppressed, claims, accepted>>
  BY DEF DeliveryInv, TypeOK, RowOK, ghosts
<1> QED BY <1>1, WorkerMoves

\* An idle worker fits any rows.
LEMMA IdleOK == TypeOK => WorkerOK(Idle)
BY DEF TypeOK, WorkerOK, Idle

------------------------------------------------------------------------------
\* Time, handlers and the suppression list

\* Sliding an instant keeps it natural and moves it back.
LEMMA EarlierNat == \A t \in Nat : Earlier(t) \in Nat /\ Earlier(t) <= t
BY DEF Earlier

\* The clock keeps the invariant: within the window no row or worker moves, and
\* past it claims, counts and steps do not.
LEMMA TickInv == DeliveryInv /\ Tick => DeliveryInv'
<1> SUFFICES ASSUME DeliveryInv, Tick PROVE DeliveryInv'
  OBVIOUS
<1>0. UNCHANGED <<suppressed, claims, sent, accepted>>
  BY DEF Tick, ghosts
<1>1. CASE now < Window
  <2>1. now' = now + 1 /\ UNCHANGED <<delivery, worker>>
    BY <1>1 DEF Tick
  <2>2. TypeOK'
    BY <1>0, <2>1 DEF DeliveryInv, TypeOK
  <2>3. \A m \in Messages : RowOK(m)'
    BY <1>0, <2>1 DEF DeliveryInv, RowOK
  <2>4. ASSUME NEW w \in Workers PROVE WorkerOK(worker[w])'
    <3>1. worker[w] \in WorkerRows /\ worker[w].at \in Nat
      BY DEF DeliveryInv, TypeOK, WorkerRows
    <3>2. worker[w].at <= now'
      BY <2>1, <3>1 DEF DeliveryInv, TypeOK, WorkerOK
    <3>3. WorkerOK(worker[w])
      BY DEF DeliveryInv
    <3> QED BY <1>0, <2>1, <3>2, <3>3 DEF WorkerOK
  <2> QED BY <2>2, <2>3, <2>4 DEF DeliveryInv
<1>2. CASE ~(now < Window)
  <2>1. /\ now' = now
        /\ delivery' = [m \in Messages |-> AgedRow(delivery[m])]
        /\ worker' = [w \in Workers |-> AgedWorker(worker[w])]
    BY <1>2 DEF Tick
  <2>2. \A m \in Messages :
          /\ delivery'[m] \in DeliveryRows
          /\ delivery'[m].status = delivery[m].status
          /\ delivery'[m].token = delivery[m].token
          /\ delivery'[m].attempts = delivery[m].attempts
    BY <2>1, EarlierNat DEF DeliveryInv, TypeOK, AgedRow, DeliveryRows
  <2>3. \A w \in Workers :
          /\ worker'[w] \in WorkerRows
          /\ worker'[w].at \in Nat /\ worker'[w].at <= worker[w].at
          /\ worker'[w].step = worker[w].step /\ worker'[w].rows = worker[w].rows
          /\ worker'[w].count = worker[w].count /\ worker'[w].msg = worker[w].msg
          /\ worker'[w].outcome = worker[w].outcome
    BY <2>1, EarlierNat DEF DeliveryInv, TypeOK, AgedWorker, WorkerRows
  <2>4. TypeOK'
    BY <1>0, <2>1, <2>2, <2>3 DEF DeliveryInv, TypeOK
  <2>5. \A m \in Messages : RowOK(m)'
    BY <1>0, <2>2 DEF DeliveryInv, RowOK
  <2>6. ASSUME NEW w \in Workers PROVE WorkerOK(worker[w])'
    <3>1. worker[w] \in WorkerRows /\ WorkerOK(worker[w])
      BY DEF DeliveryInv, TypeOK
    <3>2. worker[w].at \in Nat /\ worker[w].at <= now /\ now \in Nat
      BY <3>1 DEF WorkerOK, WorkerRows, DeliveryInv, TypeOK
    <3>3. worker'[w].at <= now'
      BY <2>1, <2>3, <3>2
    <3>4. worker[w].step \in {"SEND", "RECORD", "RESOLVE"} =>
            worker[w].msg \in Messages
      BY <3>1 DEF WorkerOK
    <3> QED BY <1>0, <2>2, <2>3, <3>1, <3>3, <3>4 DEF WorkerOK
  <2> QED BY <2>4, <2>5, <2>6 DEF DeliveryInv
<1> QED BY <1>1, <1>2

\* A step that leaves the workers and every row but one alone keeps the
\* invariant if that row is kept for the workers and satisfies RowOK.
LEMMA OneRow ==
    ASSUME DeliveryInv, NEW m \in Messages, NEW row \in DeliveryRows,
           delivery' = [delivery EXCEPT ![m] = row],
           UNCHANGED <<now, suppressed, claims, ghosts>>,
           \/ row.token = delivery[m].token /\ row.attempts = delivery[m].attempts
           \/ row.token = 0,
           RowOK(m)',
           worker' \in [Workers -> WorkerRows],
           \A w \in Workers : WorkerOK(worker'[w])
    PROVE  DeliveryInv'
<1> USE DEF ghosts
<1>1. TypeOK'
  BY DEF DeliveryInv, TypeOK
<1>2. ASSUME NEW n \in Messages PROVE RowOK(n)'
  <2>1. CASE n = m
    BY <2>1
  <2>2. CASE n # m
    <3>1. delivery'[n] = delivery[n]
      BY <2>2 DEF DeliveryInv, TypeOK
    <3> QED BY <3>1 DEF DeliveryInv, RowOK
  <2> QED BY <2>1, <2>2
<1>3. \A n \in Messages : Kept(n)
  BY DEF DeliveryInv, TypeOK, Kept
<1>4. ASSUME NEW w \in Workers PROVE WorkerOK(worker[w])'
  <2>1. worker'[w] \in WorkerRows /\ WorkerOK(worker'[w])
    OBVIOUS
  <2>2. \A n \in Messages : claims[n] <= claims'[n] /\ accepted[n] \subseteq accepted'[n]
    BY DEF DeliveryInv, TypeOK
  <2>3. worker'[w].at <= now'
    BY <2>1 DEF WorkerOK
  <2>4. PICK wk \in WorkerRows : wk = worker'[w]
    BY <2>1
  <2>5. WorkerOK(wk)'
    BY <1>1, <1>3, <2>1, <2>2, <2>3, <2>4, WorkerKept DEF DeliveryInv
  <2> QED BY <2>4, <2>5 DEF WorkerOK
<1> QED BY <1>1, <1>2, <1>4 DEF DeliveryInv

\* Committing to a message keeps the invariant, the first time and every other.
LEMMA EnqueueInv ==
    ASSUME DeliveryInv, NEW m \in Messages, Enqueue(m) PROVE DeliveryInv'
<1>1. /\ Enqueued(delivery[m]) \in DeliveryRows
      /\ Enqueued(delivery[m]).token = delivery[m].token
      /\ Enqueued(delivery[m]).attempts = delivery[m].attempts
      /\ \/ Enqueued(delivery[m]).status = delivery[m].status
         \/ delivery[m].status = "ABSENT" /\ Enqueued(delivery[m]).status = "PENDING"
  BY DEF DeliveryInv, TypeOK, RowOK, Enqueued, NoDelivery, DeliveryRows
<1>2. delivery' = [delivery EXCEPT ![m] = Enqueued(delivery[m])]
  BY DEF Enqueue
<1>3. UNCHANGED <<now, worker, suppressed, claims, sent, accepted>>
  BY DEF Enqueue, ghosts
<1>4. RowOK(m)'
  BY <1>1, <1>2, <1>3 DEF DeliveryInv, TypeOK, RowOK
<1>5. worker' \in [Workers -> WorkerRows] /\ \A w \in Workers : WorkerOK(worker'[w])
  BY <1>3 DEF DeliveryInv, TypeOK
<1> QED BY <1>1, <1>2, <1>3, <1>4, <1>5, OneRow DEF ghosts

\* The suppression list touches no row and no worker.
LEMMA SuppressionInv ==
    ASSUME DeliveryInv, NEW S \in SUBSET Messages,
           Suppress(S) \/ LiftSuppression(S)
    PROVE  DeliveryInv'
<1>1. UNCHANGED <<now, delivery, worker, claims, sent, accepted>>
  BY DEF Suppress, LiftSuppression, ghosts
<1>2. suppressed' \in SUBSET Messages
  BY DEF DeliveryInv, TypeOK, Suppress, LiftSuppression
<1> QED BY <1>1, <1>2 DEF DeliveryInv, TypeOK, RowOK, WorkerOK

------------------------------------------------------------------------------
\* A cycle: recovery and claim

\* Starting a cycle keeps the invariant: the sweep's reads are current.
LEMMA StartCycleInv ==
    ASSUME DeliveryInv, NEW w \in Workers, StartCycle(w) PROVE DeliveryInv'
<1>1. PICK chosen \in FirstOf({m \in Messages : Stale(m, now)},
                              [m \in Messages |-> delivery[m].lease]) :
        worker' = [worker EXCEPT ![w] = [Idle EXCEPT
             !.step  = IF chosen = {} THEN "SELECT" ELSE "RECOVER",
             !.at    = now,
             !.since = now,
             !.rows  = [m \in Messages |->
                          IF m \in chosen THEN delivery[m].token ELSE 0],
             !.count = [m \in Messages |->
                          IF m \in chosen THEN delivery[m].attempts ELSE 0]]]
  BY DEF StartCycle
<1>2. PICK wk : wk = [Idle EXCEPT
             !.step  = IF chosen = {} THEN "SELECT" ELSE "RECOVER",
             !.at    = now,
             !.since = now,
             !.rows  = [m \in Messages |->
                          IF m \in chosen THEN delivery[m].token ELSE 0],
             !.count = [m \in Messages |->
                          IF m \in chosen THEN delivery[m].attempts ELSE 0]]
  OBVIOUS
<1>3. \A m \in Messages : /\ delivery[m] \in DeliveryRows
                          /\ delivery[m].token \in Nat /\ delivery[m].attempts \in Nat
                          /\ delivery[m].token <= claims[m]
  BY DEF DeliveryInv, TypeOK, DeliveryRows, RowOK
<1>4. /\ wk \in WorkerRows
      /\ wk.step \in {"SELECT", "RECOVER"} /\ wk.at = now
      /\ wk.rows  = [m \in Messages |->
                          IF m \in chosen THEN delivery[m].token ELSE 0]
      /\ wk.count = [m \in Messages |->
                          IF m \in chosen THEN delivery[m].attempts ELSE 0]
  BY <1>2, <1>3, IdleType DEF WorkerRows, Idle, DeliveryInv, TypeOK
<1>5. WorkerOK(wk)
  BY <1>3, <1>4 DEF WorkerOK, DeliveryInv, TypeOK
<1> QED BY <1>1, <1>2, <1>4, <1>5, WorkerOnly DEF StartCycle

\* Recovering a row keeps the invariant: the token is still the one the sweep
\* read, so the attempt count it read is current.
LEMMA RecoverRowInv ==
    ASSUME DeliveryInv, NEW w \in Workers, NEW m \in Messages, RecoverRow(w, m)
    PROVE  DeliveryInv'
<1> DEFINE rest == [worker[w].rows EXCEPT ![m] = 0]
<1>1. PICK wk : wk = [worker[w] EXCEPT
               !.rows = rest, !.count[m] = 0,
               !.step = IF rest = None THEN "SELECT" ELSE "RECOVER"]
  OBVIOUS
<1>2. worker[w] \in WorkerRows /\ WorkerOK(worker[w]) /\ delivery[m] \in DeliveryRows
      /\ RowOK(m) /\ claims[m] \in Nat
  BY DEF DeliveryInv, TypeOK
<1>3. /\ worker' = [worker EXCEPT ![w] = wk]
      /\ worker[w].step = "RECOVER" /\ worker[w].rows[m] # 0
      /\ UNCHANGED <<now, suppressed, claims, ghosts>>
  BY <1>1 DEF RecoverRow, DeliveryInv, TypeOK
<1>4. /\ wk \in WorkerRows /\ wk.at = worker[w].at /\ wk.step \in {"RECOVER", "SELECT"}
      /\ \A n \in Messages : wk.rows[n] = IF n = m THEN 0 ELSE worker[w].rows[n]
      /\ \A n \in Messages : wk.count[n] = IF n = m THEN 0 ELSE worker[w].count[n]
  BY <1>1, <1>2, <1>3 DEF WorkerRows
<1>5. WorkerOK(wk)
  BY <1>2, <1>3, <1>4 DEF WorkerOK, DeliveryInv, TypeOK
<1>6. CASE ~Recoverable(w, m)
  <2>1. delivery' = delivery
    BY <1>6 DEF RecoverRow
  <2> QED BY <1>3, <1>4, <1>5, <2>1, WorkerOnly
<1>7. CASE Recoverable(w, m)
  <2>1. delivery[m].status = "IN_PROGRESS" /\ delivery[m].token = worker[w].rows[m]
    BY <1>7 DEF Recoverable, Stale
  <2>2. worker[w].count[m] = delivery[m].attempts /\ delivery[m].attempts \in Nat
    BY <1>2, <1>3, <2>1 DEF WorkerOK, DeliveryRows
  <2>3. PICK row : row = AfterRecovery(w, m)
    OBVIOUS
  <2>4. /\ row \in DeliveryRows /\ row.token = 0
        /\ row.attempts = delivery[m].attempts + 1
        /\ row.status \in {"RETRY_PENDING", "PERMANENTLY_FAILED"}
        /\ row.status = "RETRY_PENDING" => delivery[m].attempts + 1 < MaxAttempts
    <3>1. delivery[m].attempts + 1 \in Nat \ {0} /\ worker[w].at \in Nat
      BY <1>2, <2>2 DEF WorkerRows
    <3>2. row = Failed(delivery[m], delivery[m].attempts + 1, worker[w].at)
      BY <2>2, <2>3 DEF AfterRecovery
    <3> QED BY <1>2, <3>1, <3>2, FailedRow
  <2>5. delivery' = [delivery EXCEPT ![m] = row]
    BY <1>7, <2>3 DEF RecoverRow
  <2>6. RowOK(m)'
    BY <1>2, <1>3, <2>1, <2>2, <2>4, <2>5, PolicyAssumption
       DEF RowOK, DeliveryInv, TypeOK, ghosts
  <2>7. worker' \in [Workers -> WorkerRows] /\ \A v \in Workers : WorkerOK(worker'[v])
    BY <1>3, <1>4, <1>5 DEF DeliveryInv, TypeOK
  <2> QED BY <1>3, <2>4, <2>5, <2>6, <2>7, OneRow
<1> QED BY <1>6, <1>7

\* Selecting due rows keeps the invariant: the candidates promise nothing.
LEMMA SelectingInv ==
    ASSUME DeliveryInv, NEW w \in Workers, NEW at \in Nat, NEW since \in Nat,
           at <= now, NEW chosen, Selecting(w, at, since, chosen),
           UNCHANGED <<now, delivery, suppressed, claims, ghosts>>
    PROVE  DeliveryInv'
<1>1. CASE chosen = {}
  BY <1>1, IdleType, IdleOK, WorkerOnly DEF Selecting, DeliveryInv
<1>2. CASE chosen # {}
  <2>1. PICK wk : wk = [Idle EXCEPT !.step = "CLAIM", !.at = at, !.since = since,
                         !.rows = [m \in Messages |->
                                     IF m \in chosen THEN 1 ELSE 0]]
    OBVIOUS
  <2>2. wk \in WorkerRows /\ wk.step = "CLAIM" /\ wk.at = at
    BY <2>1 DEF WorkerRows, Idle, None
  <2>3. WorkerOK(wk)
    BY <2>2 DEF WorkerOK
  <2> QED BY <1>2, <2>1, <2>2, <2>3, WorkerOnly DEF Selecting
<1> QED BY <1>1, <1>2

\* The cycle's select and the send-now select keep the invariant.
LEMMA SelectInv ==
    ASSUME DeliveryInv, NEW w \in Workers,
           SelectDue(w) \/ \E only \in SUBSET Messages : SendNow(w, only)
    PROVE  DeliveryInv'
<1>0. /\ now \in Nat /\ worker[w].at \in Nat /\ worker[w].since \in Nat
      /\ worker[w].at <= now
  BY DEF DeliveryInv, TypeOK, WorkerRows, WorkerOK
<1>1. CASE SelectDue(w)
  <2>1. PICK chosen : Selecting(w, worker[w].at, worker[w].since, chosen)
    BY <1>1 DEF SelectDue
  <2> QED BY <1>0, <1>1, <2>1, SelectingInv DEF SelectDue
<1>2. CASE \E only \in SUBSET Messages : SendNow(w, only)
  <2>1. PICK chosen : Selecting(w, now, now, chosen)
    BY <1>2 DEF SendNow
  <2>2. UNCHANGED <<now, delivery, suppressed, claims, ghosts>>
    BY <1>2 DEF SendNow
  <2> QED BY <1>0, <2>1, <2>2, SelectingInv
<1> QED BY <1>1, <1>2

\* Claiming a batch keeps the invariant: each row claimed gets a number above all
\* its earlier claims, and had attempts left.
LEMMA ClaimBatchInv ==
    ASSUME DeliveryInv, NEW w \in Workers, ClaimBatch(w) PROVE DeliveryInv'
<1>1. PICK batch : batch = ClaimableRows(w)
  OBVIOUS
<1>2. \A m \in batch : /\ m \in Messages
                       /\ delivery[m].status \in Claimable
                       /\ delivery[m].token = 0
  BY <1>1 DEF ClaimableRows, Due
<1>3. PICK wk : wk = IF batch = {} THEN Idle
                     ELSE [worker[w] EXCEPT !.step = "READ",
                            !.rows = [m \in Messages |->
                              IF m \in batch THEN claims[m] + 1 ELSE 0]]
  OBVIOUS
<1>4. /\ delivery' = [m \in Messages |->
                      IF m \in batch
                        THEN [delivery[m] EXCEPT
                                !.status = "IN_PROGRESS",
                                !.token = claims[m] + 1,
                                !.lease = worker[w].at + LeaseDuration]
                        ELSE delivery[m]]
      /\ claims' = [m \in Messages |->
                    IF m \in batch THEN claims[m] + 1 ELSE claims[m]]
      /\ worker' = [worker EXCEPT ![w] = wk]
      /\ UNCHANGED <<now, suppressed, sent, accepted>>
  BY <1>1, <1>3 DEF ClaimBatch, ghosts
<1>5. worker[w] \in WorkerRows /\ WorkerOK(worker[w]) /\ worker[w].at \in Nat
  BY DEF DeliveryInv, TypeOK, WorkerRows
<1>6. \A m \in Messages : /\ claims[m] \in Nat /\ claims'[m] \in Nat
                          /\ claims[m] <= claims'[m]
  <2>1. claims \in [Messages -> Nat]
    BY DEF DeliveryInv, TypeOK
  <2>2. claims' = [m \in Messages |->
                    IF m \in batch THEN claims[m] + 1 ELSE claims[m]]
    BY <1>4
  <2> QED BY <2>1, <2>2
<1>7. \A m \in batch : /\ delivery'[m] \in DeliveryRows
                       /\ delivery'[m].status = "IN_PROGRESS"
                       /\ delivery'[m].token = claims[m] + 1
                       /\ delivery'[m].attempts = delivery[m].attempts
                       /\ claims'[m] = claims[m] + 1
  <2> TAKE m \in batch
  <2>1. m \in Messages /\ delivery[m] \in DeliveryRows /\ claims[m] + 1 \in Nat
        /\ worker[w].at + LeaseDuration \in Nat
    BY <1>2, <1>5, <1>6, PolicyAssumption DEF DeliveryInv, TypeOK
  <2>2. delivery'[m] = [delivery[m] EXCEPT !.status = "IN_PROGRESS",
                                           !.token = claims[m] + 1,
                                           !.lease = worker[w].at + LeaseDuration]
        /\ claims'[m] = claims[m] + 1
    BY <1>4, <2>1
  <2> QED BY <2>1, <2>2 DEF DeliveryRows
<1>8. \A m \in Messages \ batch : delivery'[m] = delivery[m] /\ claims'[m] = claims[m]
  BY <1>4
<1>9. wk \in WorkerRows
  <2>1. [m \in Messages |-> IF m \in batch THEN claims[m] + 1 ELSE 0]
          \in [Messages -> Nat]
    BY <1>6
  <2> QED BY <1>3, <1>5, <2>1, IdleType DEF WorkerRows
<1>10. TypeOK'
  <2>1. delivery' \in [Messages -> DeliveryRows]
    BY <1>4, <1>7, <1>8 DEF DeliveryInv, TypeOK
  <2>2. claims' \in [Messages -> Nat]
    BY <1>4, <1>6
  <2> QED BY <1>4, <1>9, <2>1, <2>2 DEF DeliveryInv, TypeOK
<1>11. ASSUME NEW m \in Messages PROVE RowOK(m)'
  <2>1. CASE m \in batch
    <3>1. /\ delivery[m].status \in Claimable /\ delivery[m].token = 0 /\ RowOK(m)
          /\ delivery[m].attempts \in Nat
      BY <1>2, <2>1 DEF DeliveryInv, TypeOK, DeliveryRows
    <3>2. claims[m] = delivery[m].attempts /\ delivery[m].attempts < MaxAttempts
          /\ sent[m] \subseteq 1..claims[m]
      BY <3>1 DEF RowOK
    <3>3. sent'[m] \subseteq 1..claims'[m]
      <4>1. sent' = sent /\ claims'[m] = claims[m] + 1 /\ claims[m] \in Nat
        BY <1>4, <1>6, <1>7, <2>1
      <4>2. 1..claims[m] \subseteq 1..(claims[m] + 1)
        BY <4>1
      <4> QED BY <3>2, <4>1, <4>2
    <3> QED BY <1>6, <1>7, <2>1, <3>1, <3>2, <3>3, PolicyAssumption DEF RowOK
  <2>2. CASE m \notin batch
    BY <1>4, <1>8, <2>2 DEF DeliveryInv, RowOK
  <2> QED BY <2>1, <2>2
<1>12. \A m \in Messages : Kept(m)
  BY <1>6, <1>7, <1>8 DEF Kept
<1>13. ASSUME NEW v \in Workers PROVE WorkerOK(worker[v])'
  <2>1. CASE v = w
    <3>1. worker'[v] = wk
      BY <1>4, <2>1 DEF DeliveryInv, TypeOK
    <3>2. CASE batch = {}
      <4>1. WorkerOK(Idle)'
        BY <1>10 DEF TypeOK, WorkerOK, Idle
      <4> QED BY <1>3, <3>1, <3>2, <4>1 DEF WorkerOK
    <3>3. CASE batch # {}
      <4>1. /\ wk.step = "READ" /\ wk.at = worker[w].at
            /\ \A m \in Messages : wk.rows[m] = IF m \in batch THEN claims[m] + 1 ELSE 0
        BY <1>3, <1>5, <3>3 DEF WorkerRows
      <4>2. wk.at <= now'
        BY <1>4, <1>5, <4>1 DEF WorkerOK
      <4>3. \A m \in Messages : wk.rows[m] <= claims'[m]
        BY <1>6, <1>7, <4>1
      <4> QED BY <3>1, <4>1, <4>2, <4>3 DEF WorkerOK
    <3> QED BY <3>2, <3>3
  <2>2. CASE v # w
    <3>1. worker'[v] = worker[v] /\ worker[v] \in WorkerRows /\ WorkerOK(worker[v])
      BY <1>4, <2>2 DEF DeliveryInv, TypeOK
    <3>2. PICK vk \in WorkerRows : vk = worker[v]
      BY <3>1
    <3>3. vk.at <= now'
      BY <1>4, <3>1, <3>2 DEF WorkerOK
    <3>4. WorkerOK(vk)'
      BY <1>4, <1>6, <1>10, <1>12, <3>1, <3>2, <3>3, WorkerKept DEF DeliveryInv
    <3> QED BY <3>1, <3>2, <3>4 DEF WorkerOK
  <2> QED BY <2>1, <2>2
<1> QED BY <1>10, <1>11, <1>13 DEF DeliveryInv

\* Reading the batch back keeps the invariant: rows lost meanwhile are dropped.
LEMMA ReadBackInv ==
    ASSUME DeliveryInv, NEW w \in Workers, ReadBack(w) PROVE DeliveryInv'
<1>1. PICK held : held = [m \in Messages |->
                   IF delivery[m].token = worker[w].rows[m]
                     THEN worker[w].rows[m] ELSE 0]
  OBVIOUS
<1>2. PICK wk : wk = IF held = None THEN Idle
                     ELSE [worker[w] EXCEPT !.step = "DISPATCH", !.rows = held]
  OBVIOUS
<1>3. worker[w] \in WorkerRows /\ WorkerOK(worker[w]) /\ worker[w].step = "READ"
      /\ claims \in [Messages -> Nat]
  BY DEF DeliveryInv, TypeOK, ReadBack
<1>4. held \in [Messages -> Nat] /\ \A m \in Messages : held[m] <= claims[m]
  BY <1>1, <1>3 DEF WorkerRows, WorkerOK
<1>5. wk \in WorkerRows
  BY <1>2, <1>3, <1>4, IdleType DEF WorkerRows
<1>6. WorkerOK(wk)
  <2>1. CASE held = None
    BY <1>2, <2>1, IdleOK DEF DeliveryInv
  <2>2. CASE held # None
    <3>1. wk.step = "DISPATCH" /\ wk.at = worker[w].at /\ wk.rows = held
      BY <1>2, <1>3, <2>2 DEF WorkerRows
    <3> QED BY <1>3, <1>4, <3>1 DEF WorkerOK
  <2> QED BY <2>1, <2>2
<1> QED BY <1>1, <1>2, <1>5, <1>6, WorkerOnly DEF ReadBack

------------------------------------------------------------------------------
\* A cycle: one message after the other

\* Rendering a message and asking the suppression list keeps the invariant.
LEMMA PrepareInv ==
    ASSUME DeliveryInv, NEW w \in Workers, NEW m \in Messages, Prepare(w, m)
    PROVE  DeliveryInv'
<1>1. PICK resolved \in BOOLEAN, failure \in {"TRANSIENT", "PERMANENT"} :
         worker' = [worker EXCEPT ![w] = [worker[w] EXCEPT
             !.msg = m,
             !.step = IF resolved /\ m \notin suppressed THEN "SEND" ELSE "RECORD",
             !.outcome = IF resolved THEN "PERMANENT" ELSE failure]]
  BY DEF Prepare, DeliveryInv, TypeOK
<1>2. PICK wk : wk = [worker[w] EXCEPT
             !.msg = m,
             !.step = IF resolved /\ m \notin suppressed THEN "SEND" ELSE "RECORD",
             !.outcome = IF resolved THEN "PERMANENT" ELSE failure]
  OBVIOUS
<1>3. worker[w] \in WorkerRows /\ WorkerOK(worker[w]) /\ worker[w].step = "DISPATCH"
      /\ worker[w].rows[m] # 0
  BY DEF DeliveryInv, TypeOK, Prepare
<1>4. /\ wk \in WorkerRows /\ wk.step \in {"SEND", "RECORD"} /\ wk.msg = m
      /\ wk.rows = worker[w].rows /\ wk.at = worker[w].at /\ wk.outcome # "ACCEPTED"
  BY <1>2, <1>3 DEF WorkerRows
<1>5. WorkerOK(wk)
  BY <1>3, <1>4 DEF WorkerOK
<1>6. /\ UNCHANGED <<now, delivery, suppressed, claims, accepted>>
      /\ sent' \in [Messages -> SUBSET Nat]
      /\ \A n \in Messages : sent'[n] \subseteq 1..claims[n]
  BY DEF Prepare, DeliveryInv, TypeOK, RowOK, ghosts
<1> QED BY <1>1, <1>2, <1>4, <1>5, <1>6, WorkerMoves

\* A provider call keeps the invariant: the claim it is made under was given out,
\* and an ACCEPTED outcome is the provider's word on that claim.
LEMMA SendInv == ASSUME DeliveryInv, NEW w \in Workers, Send(w) PROVE DeliveryInv'
<1>1. PICK m : m = worker[w].msg
  OBVIOUS
<1>2. PICK c : c = worker[w].rows[m]
  OBVIOUS
<1>3. PICK outcome \in Outcomes, taken \in BOOLEAN :
         /\ outcome = "ACCEPTED" => taken
         /\ worker' = [worker EXCEPT ![w] =
                         [worker[w] EXCEPT !.step = "RECORD", !.outcome = outcome]]
         /\ accepted' = IF taken THEN [accepted EXCEPT ![m] = accepted[m] \cup {c}]
                        ELSE accepted
  BY <1>1, <1>2 DEF Send, DeliveryInv, TypeOK
<1>4. PICK wk : wk = [worker[w] EXCEPT !.step = "RECORD", !.outcome = outcome]
  OBVIOUS
<1>5. worker[w] \in WorkerRows /\ WorkerOK(worker[w]) /\ worker[w].step = "SEND"
  BY DEF DeliveryInv, TypeOK, Send
<1>6. m \in Messages /\ c \in Nat /\ c # 0 /\ c <= claims[m] /\ claims[m] \in Nat
  BY <1>1, <1>2, <1>5 DEF WorkerOK, WorkerRows, DeliveryInv, TypeOK
<1>7. /\ wk \in WorkerRows /\ wk.step = "RECORD" /\ wk.msg = m /\ wk.rows[m] = c
      /\ wk.rows = worker[w].rows /\ wk.at = worker[w].at /\ wk.outcome = outcome
  BY <1>1, <1>2, <1>4, <1>5 DEF WorkerRows
<1>8. sent' = [sent EXCEPT ![m] = sent[m] \cup {c}]
      /\ UNCHANGED <<now, delivery, suppressed, claims>>
  BY <1>1, <1>2 DEF Send, DeliveryInv, TypeOK
<1>9. TypeOK'
  BY <1>3, <1>4, <1>6, <1>7, <1>8 DEF DeliveryInv, TypeOK
<1>10. \A n \in Messages : accepted[n] \subseteq accepted'[n]
  BY <1>3, <1>6 DEF DeliveryInv, TypeOK
<1>11. \A n \in Messages : RowOK(n)'
  <2> TAKE n \in Messages
  <2>1. sent'[n] \subseteq 1..claims'[n]
    BY <1>6, <1>8 DEF DeliveryInv, TypeOK, RowOK
  <2> QED BY <1>8, <1>10, <2>1 DEF DeliveryInv, RowOK
<1>12. ASSUME NEW v \in Workers PROVE WorkerOK(worker[v])'
  <2>1. CASE v = w
    <3>1. worker'[v] = wk
      BY <1>3, <1>4, <2>1 DEF DeliveryInv, TypeOK
    <3>2. outcome = "ACCEPTED" => c \in accepted'[m]
      BY <1>3, <1>6 DEF DeliveryInv, TypeOK
    <3> QED BY <1>5, <1>6, <1>7, <1>8, <3>1, <3>2 DEF WorkerOK
  <2>2. CASE v # w
    <3>1. worker'[v] = worker[v] /\ worker[v] \in WorkerRows /\ WorkerOK(worker[v])
      BY <1>3, <2>2 DEF DeliveryInv, TypeOK
    <3>2. worker[v].step \in {"SEND", "RECORD", "RESOLVE"} => worker[v].msg \in Messages
      BY <3>1 DEF WorkerOK
    <3> QED BY <1>8, <1>10, <3>1, <3>2 DEF WorkerOK
  <2> QED BY <2>1, <2>2
<1> QED BY <1>9, <1>11, <1>12 DEF DeliveryInv

\* Reading the attempt count keeps the invariant: what is read is current.
LEMMA ReadAttemptsInv ==
    ASSUME DeliveryInv, NEW w \in Workers, ReadAttempts(w) PROVE DeliveryInv'
<1>1. PICK m : m = worker[w].msg
  OBVIOUS
<1>2. PICK wk : wk = [worker[w] EXCEPT !.step = "RESOLVE",
                                          !.count[m] = delivery[m].attempts]
  OBVIOUS
<1>3. worker[w] \in WorkerRows /\ WorkerOK(worker[w]) /\ worker[w].step = "RECORD"
  BY DEF DeliveryInv, TypeOK, ReadAttempts
<1>4. m \in Messages /\ delivery[m].attempts \in Nat
  BY <1>1, <1>3 DEF WorkerOK, DeliveryInv, TypeOK, DeliveryRows
<1>5. /\ wk \in WorkerRows /\ wk.step = "RESOLVE" /\ wk.msg = m
      /\ wk.rows = worker[w].rows /\ wk.at = worker[w].at
      /\ wk.outcome = worker[w].outcome /\ wk.count[m] = delivery[m].attempts
  BY <1>1, <1>2, <1>3, <1>4 DEF WorkerRows
<1>6. WorkerOK(wk)
  BY <1>1, <1>3, <1>5 DEF WorkerOK
<1>7. worker' = [worker EXCEPT ![w] = wk]
  BY <1>1, <1>2 DEF ReadAttempts, DeliveryInv, TypeOK
<1> QED BY <1>5, <1>6, <1>7, WorkerOnly DEF ReadAttempts

\* The worker that goes on to the next message fits the rows.
LEMMA ResolveDeliveryInv ==
    ASSUME DeliveryInv, NEW w \in Workers, ResolveDelivery(w) PROVE DeliveryInv'
<1>1. PICK m : m = worker[w].msg
  OBVIOUS
<1>2. PICK rest : rest = [worker[w].rows EXCEPT ![m] = 0]
  OBVIOUS
<1>3. PICK wk : wk = IF rest = None THEN Idle
                     ELSE [Idle EXCEPT !.step = "DISPATCH", !.rows = rest,
                                       !.at = worker[w].at, !.since = now]
  OBVIOUS
<1>4. worker[w] \in WorkerRows /\ WorkerOK(worker[w]) /\ worker[w].step = "RESOLVE"
  BY DEF DeliveryInv, TypeOK, ResolveDelivery
<1>5. /\ m \in Messages /\ worker[w].rows[m] # 0 /\ now \in Nat
      /\ delivery[m] \in DeliveryRows /\ RowOK(m) /\ claims \in [Messages -> Nat]
  BY <1>1, <1>4 DEF WorkerOK, DeliveryInv, TypeOK
<1>6. rest \in [Messages -> Nat] /\ \A n \in Messages : rest[n] <= claims[n]
  BY <1>2, <1>4, <1>5 DEF WorkerRows, WorkerOK
<1>7. wk \in WorkerRows
  BY <1>3, <1>4, <1>5, <1>6, IdleType DEF WorkerRows, Idle
<1>8. WorkerOK(wk)
  <2>1. CASE rest = None
    BY <1>3, <2>1, IdleOK DEF DeliveryInv
  <2>2. CASE rest # None
    <3>1. wk.step = "DISPATCH" /\ wk.at = worker[w].at /\ wk.rows = rest
      BY <1>3, <2>2 DEF Idle
    <3> QED BY <1>4, <1>6, <3>1 DEF WorkerOK
  <2> QED BY <2>1, <2>2
<1>9. worker' = [worker EXCEPT ![w] = wk] /\ UNCHANGED <<now, suppressed, claims, ghosts>>
  BY <1>1, <1>2, <1>3 DEF ResolveDelivery
<1>10. CASE ~Holds(w, m)
  <2>1. delivery' = delivery
    BY <1>1, <1>10 DEF ResolveDelivery
  <2> QED BY <1>7, <1>8, <1>9, <2>1, WorkerOnly
<1>11. CASE Holds(w, m)
  <2>1. delivery[m].status = "IN_PROGRESS" /\ delivery[m].token = worker[w].rows[m]
    BY <1>11 DEF Holds
  <2>2. worker[w].count[m] = delivery[m].attempts /\ delivery[m].attempts \in Nat
    BY <1>1, <1>4, <1>5, <2>1 DEF WorkerOK, DeliveryRows
  <2>3. worker[w].outcome = "ACCEPTED" => claims[m] \in accepted[m]
    BY <1>1, <1>4, <1>5, <2>1 DEF WorkerOK, RowOK
  <2>4. PICK row : row = Resolved(delivery[m], worker[w].count[m] + 1,
                                  worker[w].outcome, worker[w].at)
    OBVIOUS
  <2>5. /\ row \in DeliveryRows /\ row.token = 0
        /\ row.attempts = delivery[m].attempts + 1
        /\ row.status \in {"DELIVERED", "RETRY_PENDING", "PERMANENTLY_FAILED"}
        /\ row.status = "RETRY_PENDING" => delivery[m].attempts + 1 < MaxAttempts
        /\ row.status = "DELIVERED" => worker[w].outcome = "ACCEPTED"
    <3>1. PICK n : n = delivery[m].attempts + 1
      OBVIOUS
    <3>2. n \in Nat \ {0} /\ worker[w].at \in Nat /\ worker[w].outcome \in Outcomes
      BY <1>4, <2>2, <3>1 DEF WorkerRows
    <3>3. row = Resolved(delivery[m], n, worker[w].outcome, worker[w].at)
      BY <2>2, <2>4, <3>1
    <3>4. /\ row \in DeliveryRows /\ row.token = 0 /\ row.attempts = n
          /\ row.status \in {"DELIVERED", "RETRY_PENDING", "PERMANENTLY_FAILED"}
          /\ row.status = "RETRY_PENDING" => n < MaxAttempts
          /\ row.status = "DELIVERED" => worker[w].outcome = "ACCEPTED"
      <4>1. CASE worker[w].outcome = "ACCEPTED"
        BY <3>2, <3>3, <4>1 DEF Resolved, NoDelivery, DeliveryRows
      <4>2. CASE worker[w].outcome = "PERMANENT"
        BY <3>2, <3>3, <4>2 DEF Resolved, NoDelivery, DeliveryRows
      <4>3. CASE worker[w].outcome = "TRANSIENT"
        <5>1. row = Failed(delivery[m], n, worker[w].at)
          BY <3>3, <4>3 DEF Resolved
        <5> QED BY <1>5, <3>2, <5>1, FailedRow
      <4> QED BY <3>2, <4>1, <4>2, <4>3
    <3> QED BY <3>1, <3>4
  <2>6. delivery' = [delivery EXCEPT ![m] = row]
    BY <1>1, <1>11, <2>4 DEF ResolveDelivery, DeliveryInv, TypeOK
  <2>7. RowOK(m)'
    BY <1>5, <1>9, <2>1, <2>2, <2>3, <2>5, <2>6, PolicyAssumption
       DEF RowOK, DeliveryInv, TypeOK, ghosts
  <2>8. worker' \in [Workers -> WorkerRows] /\ \A v \in Workers : WorkerOK(worker'[v])
    BY <1>7, <1>8, <1>9 DEF DeliveryInv, TypeOK
  <2> QED BY <1>5, <1>9, <2>5, <2>6, <2>7, <2>8, OneRow
<1> QED BY <1>10, <1>11

\* A process that dies leaves its claims behind and keeps the invariant.
LEMMA AbortInv == ASSUME DeliveryInv, NEW w \in Workers, Abort(w) PROVE DeliveryInv'
BY IdleType, IdleOK, WorkerOnly DEF Abort, DeliveryInv

------------------------------------------------------------------------------
\* A step that changes nothing keeps the invariant.
LEMMA StutterInv == DeliveryInv /\ UNCHANGED vars => DeliveryInv'
BY DEF vars, DeliveryInv, TypeOK, RowOK, WorkerOK

\* Every step keeps the invariant.
LEMMA StepInv == DeliveryInv /\ [Next]_vars => DeliveryInv'
<1> SUFFICES ASSUME DeliveryInv, [Next]_vars PROVE DeliveryInv'
  OBVIOUS
<1>1. CASE Tick
  BY <1>1, TickInv
<1>2. CASE \E m \in Messages : Enqueue(m)
  BY <1>2, EnqueueInv
<1>3. CASE \E S \in SUBSET Messages : Suppress(S) \/ LiftSuppression(S)
  BY <1>3, SuppressionInv
<1>4. ASSUME NEW w \in Workers, Cycle(w) PROVE DeliveryInv'
  BY <1>4, StartCycleInv, RecoverRowInv, SelectInv, ClaimBatchInv, ReadBackInv
     DEF Cycle
<1>5. ASSUME NEW w \in Workers, Dispatch(w) PROVE DeliveryInv'
  BY <1>5, PrepareInv, SendInv, ReadAttemptsInv, ResolveDeliveryInv DEF Dispatch
<1>6. ASSUME NEW w \in Workers, Abort(w) PROVE DeliveryInv'
  BY <1>6, AbortInv
<1>7. CASE UNCHANGED vars
  BY <1>7, StutterInv
<1> QED BY <1>1, <1>2, <1>3, <1>4, <1>5, <1>6, <1>7 DEF Next

\* The inductive invariant holds in every reachable state: rows and claims agree,
\* each claim counts once, and what a worker is about to write fits its row.
THEOREM DeliveryInvariance == Spec => []DeliveryInv
BY InitInv, StepInv, PTL DEF Spec

\* No message is handed to the provider more often than the policy allows.
THEOREM TriesAreBounded == Spec => []BoundedTries
<1>1. DeliveryInv => BoundedTries
  <2> SUFFICES ASSUME DeliveryInv, NEW m \in Messages
               PROVE  sent[m] \subseteq 1..MaxAttempts
    BY DEF BoundedTries
  <2>0. /\ delivery[m].attempts \in Nat /\ delivery[m].status \in Statuses
        /\ RowOK(m) /\ claims[m] \in Nat
    BY DEF DeliveryInv, TypeOK, DeliveryRows
  <2>1. claims[m] \in Nat /\ claims[m] <= MaxAttempts
    BY <2>0, PolicyAssumption DEF RowOK
  <2> QED BY <2>1, PolicyAssumption DEF DeliveryInv, RowOK
<1> QED BY <1>1, DeliveryInvariance, PTL

\* A row says DELIVERED only on the word of its last claim's own request.
THEOREM DeliveredOnItsWord == Spec => []DeliveredByLastClaim
<1>1. DeliveryInv => DeliveredByLastClaim
  BY DEF DeliveryInv, RowOK, DeliveredByLastClaim
<1> QED BY <1>1, DeliveryInvariance, PTL

------------------------------------------------------------------------------
\* What one step does to one row

\* A terminal row carries no instant that time could move.
AtRest(row) == row.status \in Terminal => row.lease = 0 /\ row.due = 0

\* The ways a row changes: it ages, it is committed to, it is claimed, or a
\* claim on it ends.
RowChange(m) ==
    \/ delivery'[m] = delivery[m]
    \/ delivery'[m] = AgedRow(delivery[m])
    \/ /\ delivery[m].status \in {"ABSENT"} \cup Claimable
       /\ delivery'[m].status \notin Terminal
    \/ delivery[m].status = "IN_PROGRESS" /\ AtRest(delivery'[m])

\* The end of an attempt, successful or not, leaves a row at rest if terminal.
LEMMA EndedAtRest ==
    \A row, attempts, outcome, at :
        /\ AtRest(Failed(row, attempts, at))
        /\ AtRest(Resolved(row, attempts, outcome, at))
BY DEF AtRest, Failed, Resolved, NoDelivery

\* Every step changes every row in one of these ways.
LEMMA RowChanges == ASSUME DeliveryInv, Next, NEW m \in Messages PROVE RowChange(m)
<1>0. delivery \in [Messages -> DeliveryRows]
  BY DEF DeliveryInv, TypeOK
<1>1. CASE Tick
  BY <1>0, <1>1 DEF Tick, RowChange
<1>2. ASSUME NEW n \in Messages, Enqueue(n) PROVE RowChange(m)
  BY <1>0, <1>2 DEF Enqueue, Enqueued, NoDelivery, RowChange
<1>3. ASSUME NEW S \in SUBSET Messages, Suppress(S) \/ LiftSuppression(S)
      PROVE  RowChange(m)
  BY <1>3 DEF Suppress, LiftSuppression, RowChange
<1>4. ASSUME NEW w \in Workers, NEW n \in Messages, RecoverRow(w, n)
      PROVE  RowChange(m)
  <2>1. CASE Recoverable(w, n)
    <3>1. delivery' = [delivery EXCEPT ![n] = AfterRecovery(w, n)]
      BY <1>4, <2>1 DEF RecoverRow
    <3>2. AtRest(AfterRecovery(w, n)) /\ delivery[n].status = "IN_PROGRESS"
      BY <2>1, EndedAtRest DEF AfterRecovery, Recoverable, Stale
    <3> QED BY <1>0, <3>1, <3>2 DEF RowChange
  <2>2. CASE ~Recoverable(w, n)
    BY <1>4, <2>2 DEF RecoverRow, RowChange
  <2> QED BY <2>1, <2>2
<1>5. ASSUME NEW w \in Workers, ClaimBatch(w) PROVE RowChange(m)
  <2>1. PICK batch : batch = ClaimableRows(w)
    OBVIOUS
  <2>2. delivery' = [n \in Messages |->
                      IF n \in batch
                        THEN [delivery[n] EXCEPT
                                !.status = "IN_PROGRESS",
                                !.token = claims[n] + 1,
                                !.lease = worker[w].at + LeaseDuration]
                        ELSE delivery[n]]
    BY <1>5, <2>1 DEF ClaimBatch
  <2>3. m \in batch => delivery[m].status \in Claimable
    BY <2>1 DEF ClaimableRows, Due
  <2>4. m \in batch => delivery'[m].status = "IN_PROGRESS"
    BY <1>0, <2>2 DEF DeliveryRows
  <2>5. m \notin batch => delivery'[m] = delivery[m]
    BY <2>2
  <2> QED BY <2>3, <2>4, <2>5 DEF RowChange
<1>6. ASSUME NEW w \in Workers, ResolveDelivery(w) PROVE RowChange(m)
  <2>1. PICK n : n = worker[w].msg
    OBVIOUS
  <2>2. CASE Holds(w, n)
    <3>1. PICK row : row = Resolved(delivery[n], worker[w].count[n] + 1,
                                    worker[w].outcome, worker[w].at)
      OBVIOUS
    <3>2. n \in Messages =>
            delivery' = [delivery EXCEPT ![n] = row]
      BY <1>0, <1>6, <2>1, <2>2, <3>1 DEF ResolveDelivery
    <3>3. AtRest(row) /\ delivery[n].status = "IN_PROGRESS"
      BY <2>2, <3>1, EndedAtRest DEF Holds
    <3>4. n \in Messages
      BY <1>6, <2>1 DEF DeliveryInv, WorkerOK, ResolveDelivery
    <3> QED BY <1>0, <3>2, <3>3, <3>4 DEF RowChange
  <2>3. CASE ~Holds(w, n)
    BY <1>6, <2>1, <2>3 DEF ResolveDelivery, RowChange
  <2> QED BY <2>2, <2>3
<1>7. ASSUME NEW w \in Workers,
             \/ StartCycle(w) \/ SelectDue(w) \/ ReadBack(w)
             \/ \E only \in SUBSET Messages : SendNow(w, only)
             \/ \E n \in Messages : Prepare(w, n)
             \/ Send(w) \/ ReadAttempts(w) \/ Abort(w)
      PROVE  RowChange(m)
  BY <1>7 DEF StartCycle, SelectDue, SendNow, ReadBack, Prepare, Send,
              ReadAttempts, Abort, RowChange
<1> QED BY <1>1, <1>2, <1>3, <1>4, <1>5, <1>6, <1>7 DEF Next, Cycle, Dispatch

\* Aging leaves a row at rest alone and keeps its status.
LEMMA AgedAtRest ==
    ASSUME NEW row \in DeliveryRows, AtRest(row)
    PROVE  /\ AtRest(AgedRow(row))
           /\ row.status \in Terminal => AgedRow(row) = row
<1>1. CASE row.status \in Terminal
  <2>1. row.lease = 0 /\ row.due = 0 /\ Earlier(0) = 0
    BY <1>1 DEF AtRest, Earlier
  <2>2. AgedRow(row) = [row EXCEPT !.lease = 0, !.due = 0]
    BY <2>1 DEF AgedRow
  <2>3. [row EXCEPT !.lease = 0, !.due = 0] = row
    BY <2>1 DEF DeliveryRows
  <2> QED BY <2>2, <2>3
<1>2. CASE row.status \notin Terminal
  <2>1. AgedRow(row).status = row.status
    BY DEF AgedRow, DeliveryRows
  <2> QED BY <1>2, <2>1 DEF AtRest
<1> QED BY <1>1, <1>2

RowsAtRest == \A m \in Messages : AtRest(delivery[m])

\* Terminal rows are at rest in every reachable state.
LEMMA AlwaysAtRest == Spec => []RowsAtRest
<1>1. Init => RowsAtRest
  BY DEF Init, RowsAtRest, AtRest, NoDelivery
<1>2. DeliveryInv /\ RowsAtRest /\ [Next]_vars => RowsAtRest'
  <2> SUFFICES ASSUME DeliveryInv, RowsAtRest, [Next]_vars, NEW m \in Messages
               PROVE  AtRest(delivery'[m])
    BY DEF RowsAtRest, AtRest
  <2>1. delivery[m] \in DeliveryRows /\ AtRest(delivery[m])
    BY DEF DeliveryInv, TypeOK, RowsAtRest
  <2>2. CASE Next
    <3>1. RowChange(m)
      BY <2>2, RowChanges
    <3>2. CASE delivery'[m].status \notin Terminal
      BY <3>2 DEF AtRest
    <3> QED BY <2>1, <3>1, <3>2, AgedAtRest DEF RowChange
  <2>3. CASE UNCHANGED vars
    BY <2>1, <2>3 DEF vars
  <2> QED BY <2>2, <2>3
<1> QED BY <1>1, <1>2, DeliveryInvariance, PTL DEF Spec

\* Nothing moves a terminal row: not a late worker, not a sweep, not a handler
\* that commits to the message again.
THEOREM TerminalRowsAreFinal == Spec => TerminalIsFinal
<1>1. DeliveryInv /\ RowsAtRest /\ [Next]_vars =>
        [\A m \in Messages : delivery[m].status \in Terminal =>
            delivery'[m] = delivery[m]]_vars
  <2> SUFFICES ASSUME DeliveryInv, RowsAtRest, Next, NEW m \in Messages,
                      delivery[m].status \in Terminal
               PROVE  delivery'[m] = delivery[m]
    OBVIOUS
  <2>1. RowChange(m)
    BY RowChanges
  <2>2. delivery[m] \in DeliveryRows /\ AtRest(delivery[m])
    BY DEF DeliveryInv, TypeOK, RowsAtRest
  <2>3. AgedRow(delivery[m]) = delivery[m]
    BY <2>2, AgedAtRest
  <2> QED BY <2>1, <2>3 DEF RowChange
<1> QED BY <1>1, DeliveryInvariance, AlwaysAtRest, PTL DEF Spec, TerminalIsFinal

------------------------------------------------------------------------------
\* Lease expiry, not lock stealing

\* A row leaves IN_PROGRESS only in a recovery or in a resolution.
LEMMA ClaimEnds ==
    ASSUME DeliveryInv, Next, NEW m \in Messages,
           delivery[m].status = "IN_PROGRESS", delivery'[m].status # "IN_PROGRESS"
    PROVE  \E w \in Workers :
              \/ RecoverRow(w, m) /\ Recoverable(w, m)
              \/ ResolveDelivery(w) /\ worker[w].msg = m /\ Holds(w, m)
<1>0. delivery \in [Messages -> DeliveryRows]
  BY DEF DeliveryInv, TypeOK
<1>1. CASE Tick
  <2>1. delivery'[m] = delivery[m] \/ delivery'[m] = AgedRow(delivery[m])
    BY <1>1 DEF Tick
  <2> QED BY <1>0, <2>1 DEF AgedRow, DeliveryRows
<1>2. ASSUME NEW n \in Messages, Enqueue(n) PROVE FALSE
  BY <1>0, <1>2 DEF Enqueue, Enqueued
<1>3. ASSUME NEW S \in SUBSET Messages, Suppress(S) \/ LiftSuppression(S)
      PROVE  FALSE
  BY <1>3 DEF Suppress, LiftSuppression
<1>4. ASSUME NEW w \in Workers, NEW n \in Messages, RecoverRow(w, n)
      PROVE  n = m /\ Recoverable(w, m)
  BY <1>0, <1>4 DEF RecoverRow
<1>5. ASSUME NEW w \in Workers, ClaimBatch(w) PROVE FALSE
  <2>1. m \notin ClaimableRows(w)
    BY DEF ClaimableRows, Due
  <2>2. delivery'[m] = delivery[m]
    BY <1>5, <2>1 DEF ClaimBatch
  <2> QED BY <2>2
<1>6. ASSUME NEW w \in Workers, ResolveDelivery(w)
      PROVE  worker[w].msg = m /\ Holds(w, m)
  BY <1>0, <1>6 DEF ResolveDelivery
<1>7. ASSUME NEW w \in Workers,
             \/ StartCycle(w) \/ SelectDue(w) \/ ReadBack(w)
             \/ \E only \in SUBSET Messages : SendNow(w, only)
             \/ \E n \in Messages : Prepare(w, n)
             \/ Send(w) \/ ReadAttempts(w) \/ Abort(w)
      PROVE  FALSE
  BY <1>7 DEF StartCycle, SelectDue, SendNow, ReadBack, Prepare, Send,
              ReadAttempts, Abort
<1>8. PICK w \in Workers :
        \/ \E n \in Messages : RecoverRow(w, n)
        \/ ResolveDelivery(w)
  BY <1>1, <1>2, <1>3, <1>5, <1>7 DEF Next, Cycle, Dispatch
<1> QED BY <1>4, <1>6, <1>8

\* A claim whose lease still runs ends only by its own worker's resolution: the
\* sweep's instant is never ahead of the clock.
THEOREM LiveClaimsAreKept == Spec => LiveClaimIsNotStolen
<1>1. DeliveryInv /\ [Next]_vars =>
        [\A m \in Messages :
           /\ delivery[m].status = "IN_PROGRESS" /\ delivery[m].lease > now
           /\ delivery'[m].status # "IN_PROGRESS"
           => \E w \in Workers : /\ worker[w].step = "RESOLVE"
                                 /\ worker[w].msg = m
                                 /\ worker[w].rows[m] = delivery[m].token
                                 /\ worker'[w] # worker[w]]_vars
  <2> SUFFICES ASSUME DeliveryInv, Next, NEW m \in Messages,
                      delivery[m].status = "IN_PROGRESS", delivery[m].lease > now,
                      delivery'[m].status # "IN_PROGRESS"
               PROVE  \E w \in Workers : /\ worker[w].step = "RESOLVE"
                                         /\ worker[w].msg = m
                                         /\ worker[w].rows[m] = delivery[m].token
                                         /\ worker'[w] # worker[w]
    OBVIOUS
  <2>1. PICK w \in Workers :
              \/ RecoverRow(w, m) /\ Recoverable(w, m)
              \/ ResolveDelivery(w) /\ worker[w].msg = m /\ Holds(w, m)
    BY ClaimEnds
  <2>2. ~Recoverable(w, m)
    <3>1. /\ worker[w].at <= now /\ worker[w].at \in Nat /\ now \in Nat
          /\ delivery[m].lease \in Nat
      BY DEF DeliveryInv, TypeOK, WorkerOK, WorkerRows, DeliveryRows
    <3> QED BY <3>1 DEF Recoverable, Stale
  <2>3. ResolveDelivery(w) /\ worker[w].msg = m /\ Holds(w, m)
    BY <2>1, <2>2
  <2>4. worker[w].step = "RESOLVE" /\ worker[w].rows[m] = delivery[m].token
    BY <2>3 DEF ResolveDelivery, Holds
  <2>5. worker'[w].step # "RESOLVE"
    BY <2>3 DEF ResolveDelivery, DeliveryInv, TypeOK, Idle
  <2>6. worker'[w] # worker[w]
    BY <2>4, <2>5
  <2> QED BY <2>3, <2>4, <2>6
<1> QED BY <1>1, DeliveryInvariance, PTL DEF Spec, LiveClaimIsNotStolen
------------------------------------------------------------------------------
\* What the queue promises

\* The ways a step moves a message, as far as it is told of: nothing, a commitment, a
\* claim, the end of a claim, a request that goes out under a claim.
Moved(m) ==
    \/ /\ delivery'[m].status = delivery[m].status
       /\ UNCHANGED <<claims[m], sent[m], accepted[m]>>
    \/ /\ delivery[m].status = "ABSENT" /\ delivery'[m].status = "PENDING"
       /\ UNCHANGED <<claims[m], sent[m], accepted[m]>>
    \/ /\ delivery[m].status \in Claimable /\ delivery'[m].status = "IN_PROGRESS"
       /\ claims'[m] = claims[m] + 1
       /\ UNCHANGED <<sent[m], accepted[m]>>
    \/ /\ delivery[m].status = "IN_PROGRESS"
       /\ delivery'[m].status \in {"RETRY_PENDING"} \cup Terminal
       /\ UNCHANGED <<claims[m], sent[m], accepted[m]>>
    \/ /\ delivery'[m].status = delivery[m].status
       /\ UNCHANGED claims[m]
       /\ \E c \in 1..claims[m], taken \in BOOLEAN :
             /\ sent'[m] = sent[m] \cup {c}
             /\ accepted'[m] = IF taken THEN accepted[m] \cup {c} ELSE accepted[m]

\* The end of an attempt frees the row for another or ends the message.
LEMMA EndedStatus ==
    \A row, attempts, outcome, at :
        /\ Failed(row, attempts, at).status \in {"RETRY_PENDING"} \cup Terminal
        /\ Resolved(row, attempts, outcome, at).status \in {"RETRY_PENDING"} \cup Terminal
BY DEF Failed, Resolved, NoDelivery, Terminal

\* A claim moves every message of its batch and no other.
LEMMA ClaimMoves ==
    ASSUME DeliveryInv, NEW w \in Workers, ClaimBatch(w), NEW m \in Messages
    PROVE  Moved(m)
<1>1. PICK batch : batch = ClaimableRows(w)
  OBVIOUS
<1>2. /\ delivery' = [n \in Messages |->
                      IF n \in batch
                        THEN [delivery[n] EXCEPT
                                !.status = "IN_PROGRESS",
                                !.token = claims[n] + 1,
                                !.lease = worker[w].at + LeaseDuration]
                        ELSE delivery[n]]
      /\ claims' = [n \in Messages |-> IF n \in batch THEN claims[n] + 1 ELSE claims[n]]
      /\ UNCHANGED <<sent, accepted>>
  BY <1>1 DEF ClaimBatch, ghosts
<1>3. delivery[m] \in DeliveryRows
  BY DEF DeliveryInv, TypeOK
<1>4. CASE m \in batch
  <2>1. delivery[m].status \in Claimable
    BY <1>1, <1>4 DEF ClaimableRows, Due
  <2>2. delivery'[m].status = "IN_PROGRESS"
    BY <1>2, <1>3, <1>4 DEF DeliveryRows
  <2> QED BY <1>2, <1>4, <2>1, <2>2 DEF Moved
<1>5. CASE m \notin batch
  BY <1>2, <1>5 DEF Moved
<1> QED BY <1>4, <1>5

\* A request goes out under a claim its message has had.
LEMMA SendMoves ==
    ASSUME DeliveryInv, NEW w \in Workers, Send(w), NEW m \in Messages
    PROVE  Moved(m)
<1>1. PICK n, c : n = worker[w].msg /\ c = worker[w].rows[n]
  OBVIOUS
<1>2. /\ worker[w] \in WorkerRows /\ WorkerOK(worker[w]) /\ worker[w].step = "SEND"
      /\ sent \in [Messages -> SUBSET Nat] /\ accepted \in [Messages -> SUBSET Nat]
      /\ claims \in [Messages -> Nat]
  BY DEF DeliveryInv, TypeOK, Send
<1>3. n \in Messages /\ c \in 1..claims[n]
  BY <1>1, <1>2 DEF WorkerOK, WorkerRows, Holding
<1>4. PICK taken \in BOOLEAN :
        /\ accepted' = IF taken THEN [accepted EXCEPT ![n] = @ \cup {c}] ELSE accepted
        /\ sent' = [sent EXCEPT ![n] = @ \cup {c}]
        /\ UNCHANGED <<delivery, claims>>
  BY <1>1 DEF Send
<1>5. CASE m = n
  <2>1. sent'[m] = sent[m] \cup {c}
        /\ accepted'[m] = IF taken THEN accepted[m] \cup {c} ELSE accepted[m]
    BY <1>2, <1>4, <1>5
  <2> QED BY <1>3, <1>4, <1>5, <2>1 DEF Moved
<1>6. CASE m # n
  BY <1>2, <1>4, <1>6 DEF Moved
<1> QED BY <1>5, <1>6

\* A step that writes one row moves its message and no other.
LEMMA RowMoves ==
    ASSUME DeliveryInv, NEW n \in Messages, NEW row,
           delivery' = [delivery EXCEPT ![n] = row],
           UNCHANGED <<claims, ghosts>>,
           \/ row.status = delivery[n].status
           \/ delivery[n].status = "ABSENT" /\ row.status = "PENDING"
           \/ /\ delivery[n].status = "IN_PROGRESS"
              /\ row.status \in {"RETRY_PENDING"} \cup Terminal,
           NEW m \in Messages
    PROVE  Moved(m)
<1>1. delivery'[m] = IF m = n THEN row ELSE delivery[m]
  BY DEF DeliveryInv, TypeOK
<1> QED BY <1>1 DEF Moved, ghosts

\* Every step moves every message in one of these ways.
LEMMA Moves == ASSUME DeliveryInv, Next, NEW m \in Messages PROVE Moved(m)
<1>0. delivery \in [Messages -> DeliveryRows]
  BY DEF DeliveryInv, TypeOK
<1>1. CASE Tick
  <2>1. delivery'[m] = delivery[m] \/ delivery'[m] = AgedRow(delivery[m])
    BY <1>1 DEF Tick
  <2>2. delivery'[m].status = delivery[m].status
    BY <1>0, <2>1 DEF AgedRow, DeliveryRows
  <2> QED BY <1>1, <2>2 DEF Tick, Moved, ghosts
<1>2. ASSUME NEW n \in Messages, Enqueue(n) PROVE Moved(m)
  <2>1. /\ delivery' = [delivery EXCEPT ![n] = Enqueued(delivery[n])]
        /\ UNCHANGED <<claims, ghosts>>
    BY <1>2 DEF Enqueue
  <2>2. \/ Enqueued(delivery[n]).status = delivery[n].status
        \/ delivery[n].status = "ABSENT" /\ Enqueued(delivery[n]).status = "PENDING"
    BY DEF Enqueued, NoDelivery
  <2> QED BY <2>1, <2>2, RowMoves
<1>3. ASSUME NEW w \in Workers, NEW n \in Messages, RecoverRow(w, n) PROVE Moved(m)
  <2>1. CASE Recoverable(w, n)
    <3>1. /\ delivery' = [delivery EXCEPT ![n] = AfterRecovery(w, n)]
          /\ UNCHANGED <<claims, ghosts>>
      BY <1>3, <2>1 DEF RecoverRow
    <3>2. /\ delivery[n].status = "IN_PROGRESS"
          /\ AfterRecovery(w, n).status \in {"RETRY_PENDING"} \cup Terminal
      BY <2>1, EndedStatus DEF AfterRecovery, Recoverable, Stale
    <3> QED BY <3>1, <3>2, RowMoves
  <2>2. CASE ~Recoverable(w, n)
    BY <1>3, <2>2 DEF RecoverRow, Moved, ghosts
  <2> QED BY <2>1, <2>2
<1>4. ASSUME NEW w \in Workers, ResolveDelivery(w) PROVE Moved(m)
  <2>1. PICK n : n = worker[w].msg
    OBVIOUS
  <2>2. n \in Messages
    BY <1>4, <2>1 DEF DeliveryInv, WorkerOK, ResolveDelivery
  <2>3. CASE Holds(w, n)
    <3>1. PICK row : row = Resolved(delivery[n], worker[w].count[n] + 1,
                                    worker[w].outcome, worker[w].at)
      OBVIOUS
    <3>2. delivery' = [delivery EXCEPT ![n] = row] /\ UNCHANGED <<claims, ghosts>>
      BY <1>0, <1>4, <2>1, <2>2, <2>3, <3>1 DEF ResolveDelivery
    <3>3. /\ delivery[n].status = "IN_PROGRESS"
          /\ row.status \in {"RETRY_PENDING"} \cup Terminal
      BY <2>3, <3>1, EndedStatus DEF Holds
    <3> QED BY <2>2, <3>2, <3>3, RowMoves
  <2>4. CASE ~Holds(w, n)
    BY <1>4, <2>1, <2>4 DEF ResolveDelivery, Moved, ghosts
  <2> QED BY <2>3, <2>4
<1>5. ASSUME \/ \E S \in SUBSET Messages : Suppress(S) \/ LiftSuppression(S)
             \/ \E w \in Workers :
                   \/ StartCycle(w) \/ SelectDue(w) \/ ReadBack(w)
                   \/ \E only \in SUBSET Messages : SendNow(w, only)
                   \/ \E n \in Messages : Prepare(w, n)
                   \/ ReadAttempts(w) \/ Abort(w)
      PROVE  Moved(m)
  BY <1>5 DEF Suppress, LiftSuppression, StartCycle, SelectDue, SendNow, ReadBack,
              Prepare, ReadAttempts, Abort, Moved, ghosts
<1> QED
  BY <1>1, <1>2, <1>3, <1>4, <1>5, ClaimMoves, SendMoves DEF Next, Cycle, Dispatch

\* Each of these ways is a step of the promise: a claim finds a try left, what is
\* given back has one left, and what is delivered was accepted under its last claim.
LEMMA MovesKeepPromise ==
    ASSUME DeliveryInv, DeliveryInv', NEW m \in Messages, Moved(m),
           NEW old, old = [state |-> StateOf[delivery[m].status], claims |-> claims[m],
                           sent |-> sent[m], accepted |-> accepted[m]],
           NEW new, new = [state |-> StateOf'[delivery'[m].status], claims |-> claims'[m],
                           sent |-> sent'[m], accepted |-> accepted'[m]]
    PROVE  new = old \/ Promise!Step(old, new)
<1>1. /\ delivery[m].status \in Statuses /\ delivery'[m].status \in Statuses
      /\ RowOK(m) /\ RowOK(m)' /\ claims[m] \in Nat /\ delivery[m].attempts \in Nat
      /\ delivery'[m].attempts \in Nat
  BY DEF DeliveryInv, TypeOK, DeliveryRows
<1>2. /\ StateOf["ABSENT"] = "NONE" /\ StateOf["PENDING"] = "WAITING"
      /\ StateOf["RETRY_PENDING"] = "WAITING" /\ StateOf["IN_PROGRESS"] = "CLAIMED"
      /\ StateOf["DELIVERED"] = "DELIVERED" /\ StateOf["PERMANENTLY_FAILED"] = "FAILED"
      /\ StateOf' = StateOf
  BY DEF StateOf
<1>3. CASE /\ delivery'[m].status = delivery[m].status
           /\ UNCHANGED <<claims[m], sent[m], accepted[m]>>
  BY <1>2, <1>3
<1>4. CASE /\ delivery[m].status = "ABSENT" /\ delivery'[m].status = "PENDING"
           /\ UNCHANGED <<claims[m], sent[m], accepted[m]>>
  <2>1. Promise!Commit(old, new)
    BY <1>2, <1>4 DEF Promise!Commit
  <2> QED BY <2>1 DEF Promise!Step
<1>5. CASE /\ delivery[m].status \in Claimable /\ delivery'[m].status = "IN_PROGRESS"
           /\ claims'[m] = claims[m] + 1
           /\ UNCHANGED <<sent[m], accepted[m]>>
  <2>1. old.state = "WAITING" /\ claims[m] < MaxAttempts
    BY <1>1, <1>2, <1>5 DEF Claimable, RowOK
  <2>2. new = [old EXCEPT !.state = "CLAIMED", !.claims = old.claims + 1]
    <3>1. new.state = "CLAIMED" /\ new.claims = old.claims + 1
          /\ new.sent = old.sent /\ new.accepted = old.accepted
      BY <1>2, <1>5
    <3> QED BY <3>1
  <2>3. Promise!Claim(old, new)
    BY <2>1, <2>2 DEF Promise!Claim
  <2> QED BY <2>3 DEF Promise!Step
<1>6. CASE /\ delivery[m].status = "IN_PROGRESS"
           /\ delivery'[m].status \in {"RETRY_PENDING"} \cup Terminal
           /\ UNCHANGED <<claims[m], sent[m], accepted[m]>>
  <2>1. CASE delivery'[m].status = "RETRY_PENDING"
    <3>1. claims[m] < MaxAttempts
      BY <1>1, <1>6, <2>1 DEF RowOK, Claimable
    <3>2. Promise!GiveBack(old, new)
      BY <1>2, <1>6, <2>1, <3>1 DEF Promise!GiveBack
    <3> QED BY <3>2 DEF Promise!Step
  <2>2. CASE delivery'[m].status = "DELIVERED"
    <3>1. claims[m] \in accepted[m]
      BY <1>1, <1>6, <2>2 DEF RowOK
    <3>2. Promise!Deliver(old, new)
      BY <1>2, <1>6, <2>2, <3>1 DEF Promise!Deliver
    <3> QED BY <3>2 DEF Promise!Step
  <2>3. CASE delivery'[m].status = "PERMANENTLY_FAILED"
    <3>1. Promise!GiveUp(old, new)
      BY <1>2, <1>6, <2>3 DEF Promise!GiveUp
    <3> QED BY <3>1 DEF Promise!Step
  <2> QED BY <1>6, <2>1, <2>2, <2>3 DEF Terminal
<1>7. CASE /\ delivery'[m].status = delivery[m].status
           /\ UNCHANGED claims[m]
           /\ \E c \in 1..claims[m], taken \in BOOLEAN :
                 /\ sent'[m] = sent[m] \cup {c}
                 /\ accepted'[m] = IF taken THEN accepted[m] \cup {c} ELSE accepted[m]
  <2>1. PICK c \in 1..claims[m], taken \in BOOLEAN :
                 /\ sent'[m] = sent[m] \cup {c}
                 /\ accepted'[m] = IF taken THEN accepted[m] \cup {c} ELSE accepted[m]
    BY <1>7
  <2>2. new = [old EXCEPT !.sent = @ \cup {c},
                          !.accepted = IF taken THEN @ \cup {c} ELSE @]
    <3>1. new.state = old.state /\ new.claims = old.claims
          /\ new.sent = old.sent \cup {c}
          /\ new.accepted = IF taken THEN old.accepted \cup {c} ELSE old.accepted
      BY <1>2, <1>7, <2>1
    <3>2. CASE taken
      BY <3>1, <3>2
    <3>3. CASE ~taken
      BY <3>1, <3>3
    <3> QED BY <3>2, <3>3
  <2>3. Promise!Send(old, new)
    BY <2>1, <2>2 DEF Promise!Send
  <2> QED BY <2>3 DEF Promise!Step
<1> QED BY <1>3, <1>4, <1>5, <1>6, <1>7 DEF Moved

\* The queue, with its leases, sweeps, batches and late workers, does for each message
\* what MessageDelivery promises: at most MaxAttempts claims, requests under a claim
\* only, an end that rests on the last claim and is final.
THEOREM DeliveryRefinement == Spec => ImplementsDelivery
<1>1. Init => Promise!Init
  <2> SUFFICES ASSUME Init PROVE Promise!Init
    OBVIOUS
  <2>1. \A m \in Messages :
          /\ StateOf[delivery[m].status] = "NONE" /\ claims[m] = 0
          /\ sent[m] = {} /\ accepted[m] = {}
    BY DEF Init, NoDelivery, StateOf
  <2> QED BY <2>1 DEF Promise!Init, Promise!None
<1>2. DeliveryInv /\ DeliveryInv' /\ [Next]_vars => [Promise!Next]_(Promise!vars)
  <2> SUFFICES ASSUME DeliveryInv, DeliveryInv', [Next]_vars
               PROVE  [Promise!Next]_(Promise!vars)
    OBVIOUS
  <2>1. CASE UNCHANGED vars
    BY <2>1 DEF vars, ghosts, Promise!vars, StateOf
  <2>2. CASE Next
    <3>1. \A m \in Messages : Moved(m)
      BY <2>2, Moves
    <3> DEFINE Told == [m \in Messages |-> [state    |-> StateOf[delivery[m].status],
                                            claims   |-> claims[m],
                                            sent     |-> sent[m],
                                            accepted |-> accepted[m]]]
    <3>2. ASSUME NEW m \in Messages
          PROVE  Told'[m] = Told[m] \/ Promise!Step(Told[m], Told'[m])
      BY <3>1, MovesKeepPromise
    <3>3. Told' = [m \in Messages |-> Told'[m]]
      OBVIOUS
    <3> QED BY <3>2, <3>3 DEF Promise!Next
  <2> QED BY <2>1, <2>2
<1> QED
  BY <1>1, <1>2, DeliveryInvariance, PTL DEF Spec, ImplementsDelivery, Promise!Spec

==============================================================================
