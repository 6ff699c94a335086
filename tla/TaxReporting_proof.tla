-------------------------- MODULE TaxReporting_proof --------------------------
(***************************************************************************)
(* TaxInv holds in every state of TaxReporting, for any workers, operators     *)
(* and bounds; a settled row stays settled; and the two queues tell the         *)
(* authority what TaxLedger says they tell.  One lemma per action, then the     *)
(* theorems.                                                                *)
(***************************************************************************)
EXTENDS TaxReporting, FiniteSetTheorems, TLAPS

------------------------------------------------------------------------------
\* A row

WorkerRows == [step : {"IDLE", "VERIFY", "CALL", "RESOLVE", "WRITE"},
               queue : Queues, result : Failures \cup {"NONE", "DONE"},
               read : 0..MaxAttempts]

OperatorRows == [step : {"IDLE", "REQUEUE"}, queue : Queues, requeues : 0..MaxRequeues]

\* What RowOK says of a row of the queue q.
Sound(r, q) ==
    /\ r.status = "IN_PROGRESS" => r.token # NoWorker
    /\ r.token # NoWorker => r.status \in {"IN_PROGRESS", "RETRY_PENDING"}
    /\ r.status \in Claimable \cup {"IN_PROGRESS"} => r.attempts < MaxAttempts
    /\ r.status = "FAILED_PERMANENT" => r.failure # "NONE"
    /\ r.status = "DONE" \/ r.failure = "DUPLICATE_REFERENCE" => Told(q)

Owed(q) == row[q].status # "ABSENT"

LEMMA QueuesAre == "REPORT" \in Queues /\ "REVERSE" \in Queues /\ \A q \in Queues : q = "REPORT" \/ q = "REVERSE"
BY DEF Queues

LEMMA AbsentRow ==
    NoRow \in Rows /\ NoRow.status = "ABSENT" /\ \A q \in Queues : Sound(NoRow, q)
BY NoWorkerAssumption, AttemptsAssumption, RequeuesAssumption
   DEF NoRow, Rows, Statuses, Claimable, Sound

LEMMA FreshRow ==
    Fresh \in Rows /\ Fresh.status = "PENDING" /\ \A q \in Queues : Sound(Fresh, q)
<1>1. PICK old : old = NoRow
    OBVIOUS
<1>2. old \in Rows /\ old.token = NoWorker /\ old.attempts = 0 /\ old.failure = "NONE"
    BY <1>1, AbsentRow DEF NoRow
<1>3. PICK new : new = [old EXCEPT !.status = "PENDING", !.due = TRUE]
    OBVIOUS
<1>4. /\ new \in Rows /\ new.status = "PENDING"
      /\ new.token = NoWorker /\ new.attempts = 0 /\ new.failure = "NONE"
    BY <1>2, <1>3 DEF Rows, Statuses, Claimable
<1>5. Fresh = new
    BY <1>1, <1>3 DEF Fresh
<1> QED
    BY <1>4, <1>5, AttemptsAssumption DEF Sound, Claimable

LEMMA IdleWorker == Idle \in WorkerRows /\ Idle.step = "IDLE"
BY AttemptsAssumption DEF Idle, WorkerRows, Queues

LEMMA IdleOperator == AtRest \in OperatorRows /\ AtRest.step = "IDLE"
BY RequeuesAssumption DEF AtRest, OperatorRows, Queues

LEMMA Types ==
    ASSUME TaxInv
    PROVE  /\ \A q \in Queues : row[q] \in Rows
           /\ \A w \in Workers : worker[w] \in WorkerRows
           /\ \A o \in Operators : operator[o] \in OperatorRows
BY DEF TaxInv, TypeOK, WorkerRows, OperatorRows

------------------------------------------------------------------------------
\* What a step of a row, of a worker and of an operator has to keep

\* A row that was owed is replaced by a sound one.
LEMMA RowMoves ==
    ASSUME TaxInv, NEW q \in Queues, NEW new \in Rows, Owed(q),
           new.status # "ABSENT", Sound(new, q),
           row' = [row EXCEPT ![q] = new], UNCHANGED provider
    PROVE  /\ row' \in [Queues -> Rows]
           /\ \A p \in Queues : RowOK(p)' /\ (Owed(p)' <=> Owed(p))
<1>1. row \in [Queues -> Rows]
    BY DEF TaxInv, TypeOK
<1>2. row'[q] = new /\ \A p \in Queues \ {q} : row'[p] = row[p]
    BY <1>1
<1>3. \A p \in Queues : RowOK(p)
    BY DEF TaxInv
<1>4. \A p \in Queues : Told(p)' <=> Told(p)
    BY DEF Told
<1>5. RowOK(q)'
    BY <1>2, <1>4 DEF RowOK, Sound
<1>6. \A p \in Queues \ {q} : RowOK(p)'
    BY <1>2, <1>3, <1>4 DEF RowOK
<1> QED
    BY <1>1, <1>2, <1>5, <1>6 DEF Owed

\* The books do not depend on what became of an owed row.
LEMMA BooksStay ==
    ASSUME BooksOK, \A p \in Queues : Owed(p)' <=> Owed(p), UNCHANGED <<sale, provider>>
    PROVE  BooksOK'
BY QueuesAre DEF BooksOK, Owed, Told

\* Nor do the processes' pending writes.
LEMMA ProcessesStay ==
    ASSUME ProcessOK, \A p \in Queues : Owed(p)' <=> Owed(p), TypeOK,
           UNCHANGED <<provider, worker, operator>>
    PROVE  ProcessOK'
BY DEF ProcessOK, Owed, Told, TypeOK

\* What ProcessOK says of a worker and of an operator.
Fits(job) ==
    /\ job.step # "IDLE" => Owed(job.queue)
    /\ job.step = "WRITE" => job.read < MaxAttempts
    /\ job.step \in {"RESOLVE", "WRITE"} =>
         /\ job.result # "NONE"
         /\ job.result \in {"DONE", "DUPLICATE_REFERENCE"} => Told(job.queue)

Fitting(job) ==
    job.step = "REQUEUE" => Owed(job.queue) /\ job.requeues < MaxRequeues

LEMMA ProcessesFit ==
    ASSUME TaxInv
    PROVE  (\A w \in Workers : Fits(worker[w])) /\ (\A o \in Operators : Fitting(operator[o]))
BY Types DEF TaxInv, ProcessOK, Fits, Fitting, Owed, WorkerRows, OperatorRows

LEMMA WorkerMoves ==
    ASSUME TaxInv, NEW w \in Workers, NEW job \in WorkerRows, Fits(job),
           worker' = [worker EXCEPT ![w] = job],
           UNCHANGED <<sale, row, provider, operator>>
    PROVE  TaxInv'
<1>1. TypeOK'
    BY DEF TaxInv, TypeOK, WorkerRows
<1>2. worker'[w] = job /\ \A v \in Workers \ {w} : worker'[v] = worker[v]
    BY DEF TaxInv, TypeOK
<1>3. ProcessOK'
    BY <1>2 DEF TaxInv, ProcessOK, Fits, Owed, Told
<1>4. (\A q \in Queues : RowOK(q)') /\ BooksOK'
    BY DEF TaxInv, RowOK, BooksOK, Told
<1> QED
    BY <1>1, <1>3, <1>4 DEF TaxInv

LEMMA OperatorMoves ==
    ASSUME TaxInv, NEW o \in Operators, NEW job \in OperatorRows, Fitting(job),
           operator' = [operator EXCEPT ![o] = job],
           UNCHANGED <<sale, row, provider, worker>>
    PROVE  TaxInv'
<1>1. TypeOK'
    BY DEF TaxInv, TypeOK, OperatorRows
<1>2. operator'[o] = job /\ \A p \in Operators \ {o} : operator'[p] = operator[p]
    BY DEF TaxInv, TypeOK
<1>3. ProcessOK'
    BY <1>2 DEF TaxInv, ProcessOK, Fitting, Owed, Told
<1>4. (\A q \in Queues : RowOK(q)') /\ BooksOK'
    BY DEF TaxInv, RowOK, BooksOK, Told
<1> QED
    BY <1>1, <1>3, <1>4 DEF TaxInv

------------------------------------------------------------------------------
\* The sale

\* An obligation is written where there was none.
LEMMA Obliges ==
    ASSUME TaxInv, NEW q \in Queues, ~ Owed(q), row' = [row EXCEPT ![q] = Fresh],
           UNCHANGED <<provider, worker, operator>>
    PROVE  /\ row' \in [Queues -> Rows]
           /\ \A p \in Queues : RowOK(p)'
           /\ Owed(q)' /\ \A p \in Queues \ {q} : Owed(p)' <=> Owed(p)
           /\ ProcessOK'
<1>1. row \in [Queues -> Rows]
    BY DEF TaxInv, TypeOK
<1>2. row' \in [Queues -> Rows]
    BY <1>1, FreshRow
<1>3. row'[q] = Fresh /\ \A p \in Queues \ {q} : row'[p] = row[p]
    BY <1>1
<1>4. RowOK(q)'
    BY <1>3, FreshRow DEF RowOK, Sound, Told
<1>5. \A p \in Queues \ {q} : RowOK(p)'
    BY <1>3 DEF TaxInv, RowOK, Told
<1>6. Owed(q)' /\ \A p \in Queues \ {q} : Owed(p)' <=> Owed(p)
    BY <1>3, FreshRow DEF Owed
<1>7. \A p \in Queues : Owed(p) => Owed(p)'
    BY <1>6
<1>8. ProcessOK'
    BY <1>7, Types DEF TaxInv, ProcessOK, Owed, Told, WorkerRows, OperatorRows
<1> QED
    BY <1>2, <1>4, <1>5, <1>6, <1>8

LEMMA BookStep == TaxInv /\ Book => TaxInv'
<1> SUFFICES ASSUME TaxInv, Book
             PROVE  TaxInv'
    OBVIOUS
<1>1. ~ Owed("REPORT") /\ ~ Owed("REVERSE") /\ ~ sale.booked
    BY DEF TaxInv, BooksOK, Book, Owed
<1>2. /\ sale' \in Sales /\ sale'.booked
      /\ sale'.refund = sale.refund /\ sale'.marked = sale.marked
    BY DEF Book, TaxInv, TypeOK, Sales
<1>3. CASE row' = row
    <2>1. TypeOK'
        BY <1>2, <1>3 DEF Book, TaxInv, TypeOK
    <2>2. (\A q \in Queues : RowOK(q)') /\ ProcessOK'
        BY <1>3 DEF Book, TaxInv, RowOK, ProcessOK, Told
    <2>3. BooksOK'
        BY <1>2, <1>3 DEF Book, TaxInv, BooksOK, Told
    <2> QED
        BY <2>1, <2>2, <2>3 DEF TaxInv
<1>4. CASE row' = [row EXCEPT !["REPORT"] = Fresh]
    <2>1. /\ row' \in [Queues -> Rows]
          /\ \A p \in Queues : RowOK(p)'
          /\ Owed("REPORT")' /\ ~ Owed("REVERSE")'
          /\ ProcessOK'
        BY <1>1, <1>4, Obliges, QueuesAre DEF Book
    <2>2. TypeOK'
        BY <1>2, <2>1 DEF Book, TaxInv, TypeOK
    <2>3. BooksOK'
        BY <1>1, <1>2, <2>1, QueuesAre DEF Book, TaxInv, BooksOK, Told, Owed
    <2> QED
        BY <2>1, <2>2, <2>3 DEF TaxInv
<1> QED
    BY <1>3, <1>4 DEF Book

LEMMA FinalizeRefundStep == TaxInv /\ FinalizeRefund => TaxInv'
<1> SUFFICES ASSUME TaxInv, FinalizeRefund
             PROVE  TaxInv'
    OBVIOUS
<1>1. sale.booked /\ ~ Owed("REVERSE")
    BY DEF TaxInv, BooksOK, FinalizeRefund, Owed
<1>2. /\ sale' \in Sales /\ sale'.booked /\ sale'.refund # "NONE"
      /\ sale'.marked = sale.marked
    BY <1>1 DEF FinalizeRefund, TaxInv, TypeOK, Sales
<1>3. CASE row' = row
    <2>1. TypeOK'
        BY <1>2, <1>3 DEF FinalizeRefund, TaxInv, TypeOK
    <2>2. (\A q \in Queues : RowOK(q)') /\ ProcessOK'
        BY <1>3 DEF FinalizeRefund, TaxInv, RowOK, ProcessOK, Told
    <2>3. BooksOK'
        BY <1>2, <1>3 DEF FinalizeRefund, TaxInv, BooksOK, Told
    <2> QED
        BY <2>1, <2>2, <2>3 DEF TaxInv
<1>4. CASE OwesReversal /\ row' = [row EXCEPT !["REVERSE"] = Fresh]
    <2>1. /\ row' \in [Queues -> Rows]
          /\ \A p \in Queues : RowOK(p)'
          /\ Owed("REVERSE")' /\ (Owed("REPORT")' <=> Owed("REPORT"))
          /\ ProcessOK'
        BY <1>1, <1>4, Obliges, QueuesAre DEF FinalizeRefund
    <2>2. TypeOK'
        BY <1>2, <2>1 DEF FinalizeRefund, TaxInv, TypeOK
    <2>3. Told("REPORT")
        BY <1>4, QueuesAre DEF OwesReversal, TaxInv, RowOK
    <2>4. BooksOK'
        BY <1>1, <1>2, <2>1, <2>3, QueuesAre DEF FinalizeRefund, TaxInv, BooksOK, Told, Owed
    <2> QED
        BY <2>1, <2>2, <2>4 DEF TaxInv
<1> QED
    BY <1>3, <1>4 DEF FinalizeRefund

LEMMA OverwriteStep == TaxInv /\ Overwrite => TaxInv'
<1> SUFFICES ASSUME TaxInv, Overwrite
             PROVE  TaxInv'
    OBVIOUS
<1>1. /\ sale' \in Sales /\ sale'.booked = sale.booked
      /\ sale'.refund # "NONE" /\ sale.refund # "NONE" /\ sale'.marked = sale.marked
    BY DEF Overwrite, TaxInv, TypeOK, Sales
<1> QED
    BY <1>1 DEF Overwrite, TaxInv, TypeOK, RowOK, BooksOK, ProcessOK, Told

------------------------------------------------------------------------------
\* Steps of the queues

\* A step that replaces one owed row and nothing else.
LEMMA RowStep ==
    ASSUME TaxInv, NEW q \in Queues, NEW new \in Rows, Owed(q),
           new.status # "ABSENT", Sound(new, q), row' = [row EXCEPT ![q] = new],
           UNCHANGED <<sale, provider, worker, operator>>
    PROVE  TaxInv'
<1>1. row' \in [Queues -> Rows] /\ \A p \in Queues : RowOK(p)' /\ (Owed(p)' <=> Owed(p))
    BY RowMoves
<1>2. TypeOK'
    BY <1>1 DEF TaxInv, TypeOK
<1>3. BooksOK' /\ ProcessOK'
    BY <1>1, BooksStay, ProcessesStay DEF TaxInv
<1> QED
    BY <1>1, <1>2, <1>3 DEF TaxInv

LEMMA RecoverStep ==
    ASSUME TaxInv, NEW q \in Queues, Recover(q)
    PROVE  TaxInv'
<1>1. PICK old \in Rows : old = row[q]
    BY Types
<1>2. PICK new : new = [old EXCEPT !.status = "RETRY_PENDING", !.over = FALSE,
                                   !.due = TRUE, !.token = NoWorker]
    OBVIOUS
<1>3. old.status = "IN_PROGRESS" /\ Sound(old, q)
    BY <1>1 DEF Recover, TaxInv, RowOK, Sound
<1>4. new \in Rows /\ new.status = "RETRY_PENDING" /\ Sound(new, q)
    BY <1>2, <1>3 DEF Rows, Statuses, Claimable, Sound
<1>5. row' = [row EXCEPT ![q] = new]
    BY <1>1, <1>2 DEF Recover, Recovered
<1> QED
    BY <1>1, <1>3, <1>4, <1>5, RowStep DEF Recover, Owed

LEMMA LeaseEndsStep ==
    ASSUME TaxInv, NEW q \in Queues, LeaseEnds(q)
    PROVE  TaxInv'
<1>1. PICK old \in Rows : old = row[q]
    BY Types
<1>2. PICK new : new = [old EXCEPT !.over = TRUE]
    OBVIOUS
<1>3. old.status = "IN_PROGRESS" /\ Sound(old, q)
    BY <1>1 DEF LeaseEnds, TaxInv, RowOK, Sound
<1>4. new \in Rows /\ new.status = "IN_PROGRESS" /\ Sound(new, q)
    BY <1>2, <1>3 DEF Rows, Sound
<1>5. row' = [row EXCEPT ![q] = new]
    BY <1>1, <1>2 DEF LeaseEnds
<1> QED
    BY <1>1, <1>3, <1>4, <1>5, RowStep DEF LeaseEnds, Owed

LEMMA DelayEndsStep ==
    ASSUME TaxInv, NEW q \in Queues, DelayEnds(q)
    PROVE  TaxInv'
<1>1. PICK old \in Rows : old = row[q]
    BY Types
<1>2. PICK new : new = [old EXCEPT !.due = TRUE]
    OBVIOUS
<1>3. old.status = "RETRY_PENDING" /\ Sound(old, q)
    BY <1>1 DEF DelayEnds, TaxInv, RowOK, Sound
<1>4. new \in Rows /\ new.status = "RETRY_PENDING" /\ Sound(new, q)
    BY <1>2, <1>3 DEF Rows, Sound
<1>5. row' = [row EXCEPT ![q] = new]
    BY <1>1, <1>2 DEF DelayEnds
<1> QED
    BY <1>1, <1>3, <1>4, <1>5, RowStep DEF DelayEnds, Owed

------------------------------------------------------------------------------
\* Steps of a cycle

LEMMA ClaimStep ==
    ASSUME TaxInv, NEW w \in Workers, NEW q \in Queues, Claim(w, q)
    PROVE  TaxInv'
<1>1. PICK old \in Rows : old = row[q]
    BY Types
<1>2. PICK new : new = [old EXCEPT !.status = "IN_PROGRESS", !.token = w, !.due = FALSE]
    OBVIOUS
<1>3. old.status \in Claimable /\ Sound(old, q)
    BY <1>1 DEF Claim, Eligible, TaxInv, RowOK, Sound
<1>4. new \in Rows /\ new.status = "IN_PROGRESS" /\ Sound(new, q)
    BY <1>2, <1>3, NoWorkerAssumption DEF Rows, Statuses, Claimable, Sound
<1>5. row' = [row EXCEPT ![q] = new]
    BY <1>1, <1>2 DEF Claim
<1>6. Owed(q)
    BY <1>1, <1>3 DEF Owed, Claimable
<1>7. row' \in [Queues -> Rows] /\ \A p \in Queues : RowOK(p)' /\ (Owed(p)' <=> Owed(p))
    BY <1>4, <1>5, <1>6, RowMoves DEF Claim
<1>8. PICK job : job = [Idle EXCEPT !.step = "VERIFY", !.queue = q]
    OBVIOUS
<1>9. job \in WorkerRows /\ job.step = "VERIFY" /\ job.queue = q
    BY <1>8, IdleWorker DEF WorkerRows
<1>10. worker' = [worker EXCEPT ![w] = job]
    BY <1>8 DEF Claim
<1>11. TypeOK'
    BY <1>7, <1>9, <1>10 DEF Claim, TaxInv, TypeOK, WorkerRows
<1>12. BooksOK'
    BY <1>7, BooksStay DEF Claim, TaxInv
<1>13. worker'[w] = job /\ \A v \in Workers \ {w} : worker'[v] = worker[v]
    BY <1>10 DEF TaxInv, TypeOK
<1>14. ProcessOK'
    <2>1. \A v \in Workers \ {w} : Fits(worker[v])' /\ worker'[v] = worker[v]
        BY <1>7, <1>13, ProcessesFit, Types DEF Claim, Fits, Owed, Told, WorkerRows
    <2>2. \A v \in Workers : worker'[v].step \in {"VERIFY", "CALL", "RESOLVE", "WRITE"} =>
                                row'[worker'[v].queue].status # "ABSENT"
        BY <1>6, <1>7, <1>9, <1>13, ProcessesFit, Types DEF Fits, Owed, WorkerRows
    <2>3. \A v \in Workers : worker'[v].step = "WRITE" => worker'[v].read < MaxAttempts
        BY <1>9, <1>13, ProcessesFit DEF Fits
    <2>4. \A v \in Workers : worker'[v].step \in {"RESOLVE", "WRITE"} =>
              /\ worker'[v].result # "NONE"
              /\ worker'[v].result \in {"DONE", "DUPLICATE_REFERENCE"} => Told(worker'[v].queue)
        BY <1>9, <1>13, ProcessesFit DEF Fits
    <2>5. \A o \in Operators : operator[o].step = "REQUEUE" =>
              row'[operator[o].queue].status # "ABSENT" /\ operator[o].requeues < MaxRequeues
        BY <1>7, ProcessesFit, Types DEF Fitting, Owed, OperatorRows
    <2> QED
        BY <2>2, <2>3, <2>4, <2>5 DEF Claim, ProcessOK, Told
<1> QED
    BY <1>7, <1>11, <1>12, <1>14 DEF TaxInv

LEMMA VerifyStep ==
    ASSUME TaxInv, NEW w \in Workers, Verify(w)
    PROVE  TaxInv'
<1>0. PICK refusal \in Refusals(worker[w].queue) :
         worker' = [worker EXCEPT ![w] =
                       [@ EXCEPT !.step = IF refusal = "NONE" THEN "CALL" ELSE "RESOLVE",
                                 !.result = refusal]]
    BY DEF Verify
<1>1. PICK job :
         /\ job = [worker[w] EXCEPT !.step = IF refusal = "NONE" THEN "CALL" ELSE "RESOLVE",
                                    !.result = refusal]
         /\ worker' = [worker EXCEPT ![w] = job]
    BY <1>0
<1>2. refusal \in {"NONE", "EVIDENCE_INCONSISTENT", "PAYMENT_REFUND_NOT_COMPLETE"}
    BY <1>0 DEF Refusals
<1>3. PICK old \in WorkerRows : old = worker[w]
    BY Types
<1>4. /\ job \in WorkerRows
      /\ job.queue = old.queue /\ job.result = refusal
      /\ job.step = IF refusal = "NONE" THEN "CALL" ELSE "RESOLVE"
    BY <1>1, <1>2, <1>3 DEF WorkerRows, Failures, Transient, Permanent
<1>5. Owed(old.queue)
    BY <1>3, ProcessesFit DEF Verify, Fits
<1>6. Fits(job)
    BY <1>2, <1>4, <1>5 DEF Fits
<1> QED
    BY <1>1, <1>4, <1>6, WorkerMoves DEF Verify

LEMMA ResolveStep ==
    ASSUME TaxInv, NEW w \in Workers, Resolve(w)
    PROVE  TaxInv'
<1>1. PICK old \in WorkerRows : old = worker[w]
    BY Types
<1>2. old.step = "RESOLVE" /\ Fits(old)
    BY <1>1, ProcessesFit DEF Resolve
<1>3. CASE Holds(w)
    <2>1. PICK r \in Rows : r = row[old.queue]
        BY Types DEF WorkerRows
    <2>2. PICK job : job = [old EXCEPT !.step = "WRITE", !.read = r.attempts]
        OBVIOUS
    <2>3. r.attempts < MaxAttempts
        BY <1>1, <1>3, <2>1, NoWorkerAssumption DEF Holds, TaxInv, RowOK, Claimable, WorkerRows
    <2>4. /\ job \in WorkerRows
          /\ job.step = "WRITE" /\ job.queue = old.queue
          /\ job.result = old.result /\ job.read = r.attempts
        BY <2>1, <2>2 DEF WorkerRows, Rows
    <2>5. Fits(job)
        BY <1>2, <2>3, <2>4 DEF Fits
    <2>6. worker' = [worker EXCEPT ![w] = job]
        BY <1>1, <1>3, <2>1, <2>2 DEF Resolve
    <2> QED
        BY <2>4, <2>5, <2>6, WorkerMoves DEF Resolve
<1>4. CASE ~ Holds(w)
    <2>1. worker' = [worker EXCEPT ![w] = Idle] /\ Fits(Idle)
        BY <1>4, IdleWorker DEF Resolve, Fits
    <2> QED
        BY <2>1, IdleWorker, WorkerMoves DEF Resolve
<1> QED
    BY <1>3, <1>4

LEMMA DropStep ==
    ASSUME TaxInv, NEW w \in Workers, Drop(w)
    PROVE  TaxInv'
<1>1. Fits(Idle)
    BY IdleWorker DEF Fits
<1> QED
    BY <1>1, IdleWorker, WorkerMoves DEF Drop

\* The provider's books, after a call about the queue q.
LEMMA BooksOfProvider ==
    ASSUME TaxInv, NEW w \in Workers, CallProvider(w), NEW q, q = worker[w].queue
    PROVE  /\ provider' \in [Queues -> SUBSET (0..MaxAttempts)]
           /\ \A p \in Queues : Told(p) => Told(p)'
           /\ \A p \in Queues \ {q} : provider'[p] = provider[p]
           /\ provider' # provider => Possible(q)
<1>1. q \in Queues /\ provider \in [Queues -> SUBSET (0..MaxAttempts)]
    BY Types DEF TaxInv, TypeOK, WorkerRows
<1>2. Reference(row[q].attempts) \in 0..MaxAttempts
    BY AttemptsAssumption DEF Reference
<1>3. \/ provider' = provider
      \/ /\ Possible(q)
         /\ provider' = [provider EXCEPT ![q] = provider[q] \cup {Reference(row[q].attempts)}]
    BY DEF CallProvider
<1> QED
    BY <1>1, <1>2, <1>3 DEF Told

\* An answer that makes a row done, or a duplicate, is about a transaction that is there.
LEMMA Answered ==
    ASSUME TaxInv, NEW w \in Workers, CallProvider(w), NEW q, q = worker[w].queue
    PROVE  \E result \in Failures \cup {"DONE"} :
              /\ worker' = [worker EXCEPT ![w] = [worker[w] EXCEPT !.step = "RESOLVE",
                                                                   !.result = result]]
              /\ result \in {"DONE", "DUPLICATE_REFERENCE"} => provider'[q] # {}
<1> DEFINE r == Reference(row[q].attempts)
           Gives(result) == worker' = [worker EXCEPT ![w] = [worker[w] EXCEPT !.step = "RESOLVE",
                                                                              !.result = result]]
<1>1. q \in Queues /\ provider \in [Queues -> SUBSET (0..MaxAttempts)]
    BY Types DEF TaxInv, TypeOK, WorkerRows
<1>2. \/ \E result \in {"PROVIDER_UNAVAILABLE", "PROVIDER_MODE_NOT_PERMITTED"} : Gives(result)
      \/ /\ r \in provider[q] /\ UNCHANGED provider
         /\ \E result \in {"DONE", "DUPLICATE_REFERENCE"} : Gives(result)
      \/ \E result \in {"ORIGINAL_TRANSACTION_NOT_FOUND"} : Gives(result)
      \/ /\ provider' = [provider EXCEPT ![q] = provider[q] \cup {r}]
         /\ \E result \in {"DONE", "PROVIDER_UNAVAILABLE", "EVIDENCE_INCONSISTENT",
                           "PROVIDER_MODE_NOT_PERMITTED"} : Gives(result)
    BY DEF CallProvider
<1>3. r \in provider[q] /\ UNCHANGED provider => provider'[q] # {}
    OBVIOUS
<1>4. provider' = [provider EXCEPT ![q] = provider[q] \cup {r}] => provider'[q] # {}
    BY <1>1
<1>5. \E result \in Failures \cup {"DONE"} :
         Gives(result) /\ (result \in {"DONE", "DUPLICATE_REFERENCE"} => provider'[q] # {})
    <2> DEFINE Holding == provider'[q] # {}
    <2>1. Holding \/ \E result \in {"PROVIDER_UNAVAILABLE", "PROVIDER_MODE_NOT_PERMITTED",
                                    "ORIGINAL_TRANSACTION_NOT_FOUND"} : Gives(result)
        BY <1>2, <1>3, <1>4
    <2>2. \E result \in Failures \cup {"DONE"} : Gives(result)
        BY <1>2 DEF Failures, Transient, Permanent
    <2>3. {"PROVIDER_UNAVAILABLE", "PROVIDER_MODE_NOT_PERMITTED",
           "ORIGINAL_TRANSACTION_NOT_FOUND"} \subseteq Failures \ {"DONE", "DUPLICATE_REFERENCE"}
        BY DEF Failures, Transient, Permanent
    <2> HIDE DEF r, Gives, Holding
    <2>4. CASE provider'[q] # {}
        BY <2>2, <2>4
    <2>5. CASE provider'[q] = {}
        <3>1. PICK result \in {"PROVIDER_UNAVAILABLE", "PROVIDER_MODE_NOT_PERMITTED",
                               "ORIGINAL_TRANSACTION_NOT_FOUND"} : Gives(result)
            BY <2>1, <2>5 DEF Holding
        <3> QED
            BY <2>3, <3>1
    <2> QED
        BY <2>4, <2>5
<1> QED
    BY <1>5

LEMMA CallProviderStep ==
    ASSUME TaxInv, NEW w \in Workers, CallProvider(w)
    PROVE  TaxInv'
<1>1. PICK old \in WorkerRows : old = worker[w]
    BY Types
<1>2. PICK q \in Queues : q = old.queue
    BY DEF WorkerRows
<1>3. old.step = "CALL" /\ Owed(q) /\ UNCHANGED <<sale, row, operator>>
    BY <1>1, <1>2, ProcessesFit DEF CallProvider, Fits
<1>4. /\ provider' \in [Queues -> SUBSET (0..MaxAttempts)]
      /\ \A p \in Queues : Told(p) => Told(p)'
      /\ \A p \in Queues \ {q} : provider'[p] = provider[p]
      /\ provider' # provider => Possible(q)
    BY <1>1, <1>2, BooksOfProvider
<1>5. PICK result \in Failures \cup {"DONE"} :
         /\ worker' = [worker EXCEPT ![w] = [old EXCEPT !.step = "RESOLVE", !.result = result]]
         /\ result \in {"DONE", "DUPLICATE_REFERENCE"} => provider'[q] # {}
    BY <1>1, <1>2, Answered
<1>6. PICK job : job = [old EXCEPT !.step = "RESOLVE", !.result = result]
    OBVIOUS
<1>7. /\ job \in WorkerRows
      /\ job.step = "RESOLVE" /\ job.queue = q /\ job.result = result
    BY <1>2, <1>6 DEF WorkerRows
<1>8. worker'[w] = job /\ \A v \in Workers \ {w} : worker'[v] = worker[v]
    BY <1>5, <1>6 DEF TaxInv, TypeOK
<1>9. TypeOK'
    BY <1>3, <1>4, <1>5, <1>6, <1>7 DEF TaxInv, TypeOK, WorkerRows
<1>10. \A p \in Queues : RowOK(p)'
    BY <1>3, <1>4 DEF TaxInv, RowOK
<1>11. BooksOK'
    <2>1. Told("REVERSE")' => Told("REPORT")'
        BY <1>4, QueuesAre DEF Possible, TaxInv, BooksOK, Told
    <2>2. \A p \in Queues : Told(p)' => Owed(p)
        BY <1>3, <1>4 DEF TaxInv, BooksOK, Told, Owed
    <2> QED
        BY <1>3, <1>4, <2>1, <2>2, QueuesAre DEF TaxInv, BooksOK, Owed
<1>12. ProcessOK'
    <2>1. \A v \in Workers \ {w} : Fits(worker[v]) /\ worker'[v] = worker[v]
                                     /\ worker[v].queue \in Queues
        BY <1>8, ProcessesFit, Types DEF WorkerRows
    <2>2. \A v \in Workers \ {w} :
             worker'[v].result \in {"DONE", "DUPLICATE_REFERENCE"} /\ worker'[v].step \in {"RESOLVE", "WRITE"}
                => provider'[worker'[v].queue] # {}
        BY <1>4, <2>1 DEF Fits, Told
    <2>3. \A v \in Workers :
             /\ worker'[v].step \in {"VERIFY", "CALL", "RESOLVE", "WRITE"} =>
                   row'[worker'[v].queue].status # "ABSENT"
             /\ worker'[v].step = "WRITE" => worker'[v].read < MaxAttempts
             /\ worker'[v].step \in {"RESOLVE", "WRITE"} =>
                   /\ worker'[v].result # "NONE"
                   /\ worker'[v].result \in {"DONE", "DUPLICATE_REFERENCE"}
                         => provider'[worker'[v].queue] # {}
        <3>1. ASSUME NEW v \in Workers \ {w}
              PROVE  /\ worker'[v].step \in {"VERIFY", "CALL", "RESOLVE", "WRITE"} =>
                           row'[worker'[v].queue].status # "ABSENT"
                     /\ worker'[v].step = "WRITE" => worker'[v].read < MaxAttempts
                     /\ worker'[v].step \in {"RESOLVE", "WRITE"} => worker'[v].result # "NONE"
            BY <1>3, <2>1, <3>1 DEF Fits, Owed
        <3>2. result # "NONE"
            BY DEF Failures, Transient, Permanent
        <3> QED
            BY <1>2, <1>3, <1>5, <1>7, <1>8, <2>2, <3>1, <3>2 DEF Owed
    <2> QED
        BY <1>3, <2>3 DEF TaxInv, ProcessOK, Told
<1> QED
    BY <1>9, <1>10, <1>11, <1>12 DEF TaxInv

LEMMA WriteStep ==
    ASSUME TaxInv, NEW w \in Workers, Write(w)
    PROVE  TaxInv'
<1>1. PICK job \in WorkerRows : job = worker[w]
    BY Types
<1>2. PICK q \in Queues : q = job.queue
    BY DEF WorkerRows
<1>3. PICK old \in Rows : old = row[q]
    BY Types
<1>4. job.step = "WRITE" /\ Fits(job)
    BY <1>1, ProcessesFit DEF Write
<1>5. PICK n \in 0..MaxAttempts : n = job.read + 1
    BY <1>4, AttemptsAssumption DEF Fits, WorkerRows
<1>6. PICK new : new = Resolved(old, n, job.result)
    OBVIOUS
<1>7. row' = [row EXCEPT ![q] = new]
    BY <1>1, <1>2, <1>3, <1>5, <1>6 DEF Write
<1>8. old.status # "ABSENT" /\ Sound(old, q)
    BY <1>2, <1>3, <1>4 DEF Fits, Owed, TaxInv, RowOK, Sound
<1>9. /\ job.result \in Failures \cup {"DONE"}
      /\ job.result \in {"DONE", "DUPLICATE_REFERENCE"} => Told(q)
    BY <1>2, <1>4 DEF Fits, WorkerRows
<1>10. /\ new \in Rows
       /\ new.token = NoWorker
       /\ \/ new.status = "DONE" /\ new.failure = "NONE" /\ job.result = "DONE"
          \/ new.status = "RETRY_PENDING" /\ new.failure = "NONE" /\ new.attempts < MaxAttempts
          \/ new.status = "FAILED_PERMANENT" /\ new.failure = job.result /\ job.result # "DONE"
    <2>1. PICK given : given = [old EXCEPT !.token = NoWorker, !.over = FALSE, !.due = FALSE,
                                           !.attempts = n]
        OBVIOUS
    <2>2. given \in Rows /\ given.token = NoWorker /\ given.attempts = n
        BY <2>1 DEF Rows
    <2>3. CASE job.result = "DONE"
        <3>1. new = [given EXCEPT !.status = "DONE", !.failure = "NONE"]
            BY <1>6, <2>1, <2>3 DEF Resolved
        <3> QED
            BY <2>2, <2>3, <3>1 DEF Rows, Statuses
    <2>4. CASE job.result # "DONE" /\ Retries(n, job.result)
        <3>1. new = [given EXCEPT !.status = "RETRY_PENDING", !.failure = "NONE"]
            BY <1>6, <2>1, <2>4 DEF Resolved
        <3> QED
            BY <2>2, <2>4, <3>1 DEF Rows, Statuses, Claimable, Retries
    <2>5. CASE job.result # "DONE" /\ ~ Retries(n, job.result)
        <3>1. new = [given EXCEPT !.status = "FAILED_PERMANENT", !.failure = job.result]
            BY <1>6, <2>1, <2>5 DEF Resolved
        <3>2. job.result \in Failures
            BY <1>9, <2>5
        <3> QED
            BY <2>2, <2>5, <3>1, <3>2 DEF Rows, Statuses
    <2> QED
        BY <2>3, <2>4, <2>5
<1>11. job.result # "NONE"
    BY <1>4 DEF Fits
<1>12. Sound(new, q) /\ new.status # "ABSENT"
    BY <1>8, <1>9, <1>10, <1>11 DEF Sound, Claimable
<1>13. row' \in [Queues -> Rows] /\ \A p \in Queues : RowOK(p)' /\ (Owed(p)' <=> Owed(p))
    BY <1>3, <1>7, <1>8, <1>10, <1>12, RowMoves DEF Write, Owed
<1>14. /\ sale' \in Sales /\ sale'.booked = sale.booked /\ sale'.refund = sale.refund
       /\ sale'.marked => sale.marked \/ (q = "REVERSE" /\ job.result = "DONE")
    BY <1>1, <1>2 DEF Write, Marks, TaxInv, TypeOK, Sales
<1>15. TypeOK'
    BY <1>13, <1>14, IdleWorker DEF Write, TaxInv, TypeOK, WorkerRows
<1>16. BooksOK'
    BY <1>9, <1>13, <1>14, QueuesAre DEF Write, TaxInv, BooksOK, Owed, Told
<1>17. worker'[w].step = "IDLE" /\ \A v \in Workers \ {w} : worker'[v] = worker[v]
    BY IdleWorker DEF Write, TaxInv, TypeOK
<1>18. ProcessOK'
    BY <1>13, <1>17, Types DEF Write, TaxInv, ProcessOK, Owed, Told, WorkerRows, OperatorRows
<1> QED
    BY <1>13, <1>15, <1>16, <1>18 DEF TaxInv

------------------------------------------------------------------------------
\* Steps of an operator

LEMMA RequeueCheckStep ==
    ASSUME TaxInv, NEW o \in Operators, NEW q \in Queues, RequeueCheck(o, q)
    PROVE  TaxInv'
<1>1. PICK job : job = [step |-> "REQUEUE", queue |-> q, requeues |-> row[q].requeues]
    OBVIOUS
<1>2. row[q].requeues \in 0..MaxRequeues
    BY Types DEF Rows
<1>3. job \in OperatorRows /\ Fitting(job)
    BY <1>1, <1>2 DEF OperatorRows, Fitting, RequeueCheck, Owed
<1> QED
    BY <1>1, <1>3, OperatorMoves DEF RequeueCheck

LEMMA RequeueStep ==
    ASSUME TaxInv, NEW o \in Operators, Requeue(o)
    PROVE  TaxInv'
<1>1. PICK job \in OperatorRows : job = operator[o]
    BY Types
<1>2. PICK q \in Queues : q = job.queue
    BY DEF OperatorRows
<1>3. PICK old \in Rows : old = row[q]
    BY Types
<1>4. Owed(q) /\ job.requeues < MaxRequeues
    BY <1>1, <1>2, ProcessesFit DEF Requeue, Fitting
<1>5. PICK n \in 0..MaxRequeues : n = job.requeues + 1
    BY <1>4, RequeuesAssumption DEF OperatorRows
<1>6. PICK new : new = [old EXCEPT !.status = "RETRY_PENDING", !.due = TRUE, !.attempts = 0,
                                   !.over = FALSE, !.failure = "NONE", !.requeues = n]
    OBVIOUS
<1>7. row' = [row EXCEPT ![q] = new]
    BY <1>1, <1>2, <1>3, <1>5, <1>6 DEF Requeue
<1>8. new \in Rows /\ new.status = "RETRY_PENDING" /\ Sound(new, q)
    <2>1. new.status = "RETRY_PENDING" /\ new.attempts = 0 /\ new.failure = "NONE"
        BY <1>6 DEF Rows
    <2>2. 0 \in 0..MaxAttempts /\ "RETRY_PENDING" \in Statuses
        BY AttemptsAssumption DEF Statuses, Claimable
    <2>3. new \in Rows
        <3>1. new = [status |-> "RETRY_PENDING", token |-> old.token, over |-> FALSE,
                     due |-> TRUE, attempts |-> 0, failure |-> "NONE", requeues |-> n]
            BY <1>6 DEF Rows
        <3> QED
            BY <2>2, <3>1 DEF Rows
    <2> QED
        BY <2>1, <2>3, AttemptsAssumption DEF Sound, Claimable
<1>9. row' \in [Queues -> Rows] /\ \A p \in Queues : RowOK(p)' /\ (Owed(p)' <=> Owed(p))
    BY <1>4, <1>7, <1>8, RowMoves DEF Requeue
<1>10. TypeOK'
    BY <1>9, IdleOperator DEF Requeue, TaxInv, TypeOK, OperatorRows
<1>11. BooksOK'
    BY <1>9, BooksStay DEF Requeue, TaxInv
<1>12. operator'[o].step = "IDLE" /\ \A p \in Operators \ {o} : operator'[p] = operator[p]
    BY IdleOperator DEF Requeue, TaxInv, TypeOK
<1>13. ProcessOK'
    BY <1>9, <1>12, Types DEF Requeue, TaxInv, ProcessOK, Owed, Told, WorkerRows, OperatorRows
<1> QED
    BY <1>9, <1>10, <1>11, <1>13 DEF TaxInv

------------------------------------------------------------------------------
\* Theorems

LEMMA InitInv == Init => TaxInv
<1> SUFFICES ASSUME Init
             PROVE  TaxInv
    OBVIOUS
<1>1. TypeOK
    BY AbsentRow, IdleWorker, IdleOperator, AttemptsAssumption
       DEF Init, TypeOK, Sales, WorkerRows, OperatorRows
<1>2. \A q \in Queues : RowOK(q)
    BY AbsentRow DEF Init, RowOK, Sound
<1>3. BooksOK
    BY AbsentRow, QueuesAre DEF Init, BooksOK, Told
<1>4. ProcessOK
    BY IdleWorker, IdleOperator DEF Init, ProcessOK
<1> QED
    BY <1>1, <1>2, <1>3, <1>4 DEF TaxInv

LEMMA StepInv == TaxInv /\ [Next]_vars => TaxInv'
<1> SUFFICES ASSUME TaxInv, [Next]_vars
             PROVE  TaxInv'
    OBVIOUS
<1>1. CASE UNCHANGED vars
    BY <1>1 DEF vars, TaxInv, TypeOK, RowOK, BooksOK, ProcessOK, Told
<1>2. CASE Book \/ FinalizeRefund \/ Overwrite
    BY <1>2, BookStep, FinalizeRefundStep, OverwriteStep
<1>3. ASSUME NEW w \in Workers, (\E q \in Queues : Claim(w, q)) \/ Proceed(w) \/ Drop(w)
      PROVE  TaxInv'
    BY <1>3, ClaimStep, VerifyStep, CallProviderStep, ResolveStep, WriteStep, DropStep
       DEF Proceed
<1>4. ASSUME NEW o \in Operators, (\E q \in Queues : RequeueCheck(o, q)) \/ Requeue(o)
      PROVE  TaxInv'
    BY <1>4, RequeueCheckStep, RequeueStep
<1>5. ASSUME NEW q \in Queues, Recover(q) \/ LeaseEnds(q) \/ DelayEnds(q)
      PROVE  TaxInv'
    BY <1>5, RecoverStep, LeaseEndsStep, DelayEndsStep
<1> QED
    BY <1>1, <1>2, <1>3, <1>4, <1>5 DEF Next

\* Rows, books and pending writes of both tax queues agree in every reachable state:
\* whatever has an attempt to come has one left, and a row is done, or failed as a
\* duplicate, only of a transaction that the provider holds.
THEOREM TaxInvariance == Spec => []TaxInv
<1> QED
    BY InitInv, StepInv, PTL DEF Spec

\* Nobody reports under a second reference, or takes back under one.
Single == \A q \in Queues : provider[q] \subseteq {0}

LEMMA SingleStep ==
    ASSUME TaxInv, Single, [Next]_vars
    PROVE  Single'
<1>1. ASSUME NEW w \in Workers, CallProvider(w)
      PROVE  Single'
    <2>1. PICK q \in Queues : q = worker[w].queue
        BY Types DEF WorkerRows
    <2>2. \/ provider' = provider
          \/ provider' = [provider EXCEPT ![q] = provider[q] \cup {0}]
        BY <1>1, <2>1 DEF CallProvider, Reference
    <2> QED
        BY <2>1, <2>2 DEF Single, TaxInv, TypeOK
<1>2. ASSUME ~ \E w \in Workers : CallProvider(w)
      PROVE  provider' = provider
    BY <1>2 DEF Next, vars, Book, FinalizeRefund, Overwrite, Claim, Proceed, Verify, Resolve,
                Write, Drop, RequeueCheck, Requeue, Recover, LeaseEnds, DelayEnds
<1> QED
    BY <1>1, <1>2 DEF Single

\* A settled row is not claimed, written or requeued again in any state: who still calls
\* the provider about it finds that its claim is gone.
THEOREM SettledForGood == Spec => DoneStaysDone
<1>1. ASSUME TaxInv, [Next]_vars, NEW q \in Queues, Settled(q)
      PROVE  Settled(q)'
    <2> USE <1>1
    <2>1. /\ row[q].status = "DONE" /\ row[q].token = NoWorker /\ Owed(q)
          /\ sale.booked /\ (q = "REVERSE" => sale.refund # "NONE")
        BY QueuesAre DEF Settled, TaxInv, RowOK, BooksOK, Owed
    <2>2. \A w \in Workers : worker[w] \in WorkerRows
        BY Types
    <2>3. CASE UNCHANGED vars
        BY <2>3 DEF vars, Settled
    <2>4. CASE Book \/ FinalizeRefund \/ Overwrite
        BY <2>1, <2>4 DEF Book, FinalizeRefund, Overwrite, Settled, TaxInv, TypeOK, Queues
    <2>5. ASSUME NEW w \in Workers, (\E p \in Queues : Claim(w, p)) \/ Proceed(w) \/ Drop(w)
          PROVE  Settled(q)'
        <3>1. CASE \E p \in Queues : Claim(w, p)
            <4>1. PICK p \in Queues : Claim(w, p)
                BY <3>1
            <4>2. p # q
                BY <2>1, <4>1 DEF Claim, Eligible, Claimable
            <4>3. worker'[w].step = "VERIFY" /\ \A v \in Workers \ {w} : worker'[v] = worker[v]
                BY <4>1 DEF Claim, TaxInv, TypeOK, Idle
            <4>4. row'[q] = row[q] /\ operator' = operator
                BY <4>1, <4>2 DEF Claim, TaxInv, TypeOK
            <4> QED
                BY <4>3, <4>4 DEF Settled
        <3>2. CASE Verify(w) \/ CallProvider(w)
            <4>1. /\ \A v \in Workers \ {w} : worker'[v] = worker[v]
                  /\ row' = row /\ operator' = operator
                BY <3>2 DEF Verify, CallProvider, TaxInv, TypeOK
            <4>2. \E step \in {"CALL", "RESOLVE"} : \E result :
                     worker' = [worker EXCEPT ![w] = [worker[w] EXCEPT !.step = step,
                                                                       !.result = result]]
                <5>1. CASE Verify(w)
                    BY <5>1 DEF Verify
                <5>2. CASE CallProvider(w)
                    BY <5>2, Answered
                <5> QED
                    BY <3>2, <5>1, <5>2
            <4>3. worker'[w].step # "WRITE"
                BY <2>2, <4>2 DEF TaxInv, TypeOK, WorkerRows
            <4> QED
                BY <4>1, <4>3 DEF Settled
        <3>3. CASE Resolve(w)
            <4>1. Holds(w) => worker[w].queue # q
                BY <2>1, NoWorkerAssumption DEF Holds
            <4>2. /\ \A v \in Workers \ {w} : worker'[v] = worker[v]
                  /\ row' = row /\ operator' = operator
                  /\ worker'[w].step = "WRITE" => worker'[w].queue # q
                BY <2>2, <3>3, <4>1, IdleWorker DEF Resolve, TaxInv, TypeOK, WorkerRows
            <4> QED
                BY <4>2 DEF Settled
        <3>4. CASE Write(w)
            <4>1. worker[w].queue # q
                BY <3>4 DEF Write, Settled
            <4>2. /\ \A v \in Workers \ {w} : worker'[v] = worker[v]
                  /\ row'[q] = row[q] /\ operator' = operator
                  /\ worker'[w].step = "IDLE"
                BY <3>4, <4>1, IdleWorker DEF Write, TaxInv, TypeOK
            <4> QED
                BY <4>2 DEF Settled
        <3>5. CASE Drop(w)
            <4>1. /\ \A v \in Workers \ {w} : worker'[v] = worker[v]
                  /\ row' = row /\ operator' = operator
                  /\ worker'[w].step = "IDLE"
                BY <3>5, IdleWorker DEF Drop, TaxInv, TypeOK
            <4> QED
                BY <4>1 DEF Settled
        <3> QED
            BY <2>5, <3>1, <3>2, <3>3, <3>4, <3>5 DEF Proceed
    <2>6. ASSUME NEW o \in Operators, (\E p \in Queues : RequeueCheck(o, p)) \/ Requeue(o)
          PROVE  Settled(q)'
        <3>1. CASE \E p \in Queues : RequeueCheck(o, p)
            <4>1. PICK p \in Queues : RequeueCheck(o, p)
                BY <3>1
            <4>2. /\ p # q
                  /\ \A v \in Operators \ {o} : operator'[v] = operator[v]
                  /\ row' = row /\ worker' = worker
                  /\ operator'[o].queue = p
                BY <2>1, <4>1 DEF RequeueCheck, TaxInv, TypeOK
            <4> QED
                BY <4>2 DEF Settled
        <3>2. CASE Requeue(o)
            <4>1. operator[o].queue # q
                BY <3>2 DEF Requeue, Settled
            <4>2. /\ \A v \in Operators \ {o} : operator'[v] = operator[v]
                  /\ row'[q] = row[q] /\ worker' = worker
                  /\ operator'[o].step = "IDLE"
                BY <3>2, <4>1, IdleOperator DEF Requeue, TaxInv, TypeOK
            <4> QED
                BY <4>2 DEF Settled
        <3> QED
            BY <2>6, <3>1, <3>2
    <2>7. ASSUME NEW p \in Queues, Recover(p) \/ LeaseEnds(p) \/ DelayEnds(p)
          PROVE  Settled(q)'
        <3>1. p # q
            BY <2>1, <2>7 DEF Recover, LeaseEnds, DelayEnds
        <3>2. row'[q] = row[q] /\ worker' = worker /\ operator' = operator
            BY <2>7, <3>1 DEF Recover, LeaseEnds, DelayEnds, TaxInv, TypeOK
        <3> QED
            BY <3>2 DEF Settled
    <2> QED
        BY <2>3, <2>4, <2>5, <2>6, <2>7 DEF Next
<1>2. TaxInv /\ [Next]_vars => [\A q \in Queues : Settled(q) => Settled(q)']_vars
    BY <1>1
<1> QED
    BY <1>2, TaxInvariance, PTL DEF Spec, DoneStaysDone

\* What the authority holds, where everything has one reference.
ToldNow == IF Told("REVERSE") THEN "SALE_AND_RETURN"
           ELSE IF Told("REPORT") THEN "SALE" ELSE "NOTHING"

ToldIn == IF ToldOnce("REPORT") > 1 \/ ToldOnce("REVERSE") > 1 THEN "TWICE"
          ELSE ToldNow

LEMMA OneReference ==
    ASSUME NEW S, S \subseteq {0}
    PROVE  ~ Cardinality(S) > 1
<1>1. S = {} \/ S = {0}
    OBVIOUS
<1>2. Cardinality({}) = 0 /\ Cardinality({0}) = 1
    BY FS_EmptySet, FS_Singleton
<1>3. PICK n : n = Cardinality(S)
    OBVIOUS
<1>4. n = 0 \/ n = 1
    BY <1>1, <1>2, <1>3
<1>5. ~ n > 1
    BY <1>4
<1> QED
    BY <1>3, <1>5

LEMMA NeverTwice == Single => ToldIn = ToldNow
BY OneReference, QueuesAre DEF Single, ToldIn, ToldOnce

LEMMA NeverTwiceNext == Single' => ToldIn' = ToldNow'
BY OneReference, QueuesAre DEF Single, ToldIn, ToldNow, ToldOnce, Told

\* The sale is made, or its refund final, or the provider holds one transaction more.
LEMMA LedgerStep ==
    ASSUME TaxInv, Single, [Next]_vars
    PROVE  [Ledger!Next]_(Ledger!vars)
<1>1. Single'
    BY SingleStep
<1>2. ToldIn = ToldNow /\ ToldIn' = ToldNow'
    BY <1>1, NeverTwice, NeverTwiceNext
<1>3. CASE Book
    <2>1. ~ sale.booked /\ sale'.booked /\ sale'.refund = sale.refund /\ UNCHANGED provider
        BY <1>3 DEF Book, TaxInv, TypeOK, Sales
    <2>2. ToldIn' = ToldIn
        BY <1>2, <2>1 DEF ToldNow, Told
    <2> QED
        BY <2>1, <2>2 DEF Ledger!Next, Ledger!Make, Ledger!vars, ToldIn, ToldNow
<1>4. CASE FinalizeRefund
    <2>1. /\ sale.booked /\ sale.refund = "NONE" /\ sale'.refund # "NONE"
          /\ sale'.booked = sale.booked /\ UNCHANGED provider
        BY <1>4 DEF FinalizeRefund, TaxInv, TypeOK, Sales
    <2>2. ToldIn' = ToldIn
        BY <1>2, <2>1 DEF ToldNow, Told
    <2> QED
        BY <2>1, <2>2 DEF Ledger!Next, Ledger!Return, Ledger!vars, ToldIn, ToldNow
<1>5. ASSUME NEW w \in Workers, CallProvider(w), provider' # provider
      PROVE  Ledger!Next
    <2>1. PICK q \in Queues : q = worker[w].queue
        BY Types DEF WorkerRows
    <2>2. /\ provider' = [provider EXCEPT ![q] = provider[q] \cup {0}]
          /\ 0 \notin provider[q] /\ (q = "REVERSE" => Told("REPORT")) /\ sale' = sale
        BY <1>5, <2>1 DEF CallProvider, Reference, Possible, Told
    <2>3. worker[w].step = "CALL" /\ Owed(q)
        BY <1>5, <2>1, ProcessesFit DEF CallProvider, Fits
    <2>4. ~ Told(q)
        BY <2>2 DEF Single, Told
    <2>5. /\ Told(q)'
          /\ \A p \in Queues \ {q} : Told(p)' <=> Told(p)
        BY <2>2 DEF Told, TaxInv, TypeOK
    <2>6. CASE q = "REPORT"
        <3>1. sale.booked /\ ~ Told("REVERSE")
            BY <2>3, <2>4, <2>6 DEF TaxInv, BooksOK, Owed
        <3>2. ToldIn = "NOTHING" /\ ToldIn' = "SALE"
            BY <1>2, <2>4, <2>5, <2>6, <3>1, QueuesAre DEF ToldNow
        <3> QED
            BY <2>2, <3>1, <3>2 DEF Ledger!Next, Ledger!Report, ToldIn, ToldNow
    <2>7. CASE q = "REVERSE"
        <3>1. sale.refund # "NONE"
            BY <2>3, <2>7 DEF TaxInv, BooksOK, Owed
        <3>2. ToldIn = "SALE" /\ ToldIn' = "SALE_AND_RETURN"
            BY <1>2, <2>2, <2>4, <2>5, <2>7, QueuesAre DEF ToldNow
        <3> QED
            BY <2>2, <3>1, <3>2 DEF Ledger!Next, Ledger!Reverse, ToldIn, ToldNow
    <2> QED
        BY <2>6, <2>7, QueuesAre
<1>6. ASSUME ~ Book, ~ FinalizeRefund, UNCHANGED provider
      PROVE  UNCHANGED Ledger!vars
    <2>1. sale'.booked = sale.booked /\ (sale'.refund = "NONE" <=> sale.refund = "NONE")
        BY <1>6 DEF Next, vars, Overwrite, Claim, Proceed, Verify, CallProvider, Resolve, Write,
                    Drop, RequeueCheck, Requeue, Recover, LeaseEnds, DelayEnds, TaxInv, TypeOK, Sales
    <2>2. ToldIn' = ToldIn
        BY <1>2, <1>6 DEF ToldNow, Told
    <2> QED
        BY <2>1, <2>2 DEF Ledger!vars, ToldIn, ToldNow
<1>7. ASSUME provider' # provider
      PROVE  \E w \in Workers : CallProvider(w)
    BY <1>7 DEF Next, vars, Book, FinalizeRefund, Overwrite, Claim, Proceed, Verify, Resolve,
                Write, Drop, RequeueCheck, Requeue, Recover, LeaseEnds, DelayEnds
<1> QED
    BY <1>3, <1>4, <1>5, <1>6, <1>7

\* Both queues, with all their retries, lost answers and forgotten keys, tell the tax
\* authority of the sale once, and of its return once, after the refund.
THEOREM TaxRefinement == Spec => ImplementsTaxLedger
<1>1. Init => Single
    BY DEF Init, Single
<1>2. Init => Ledger!Init
    <2> SUFFICES ASSUME Init
                 PROVE  Ledger!Init
        OBVIOUS
    <2>1. ToldIn = "NOTHING"
        BY <1>1, NeverTwice, QueuesAre DEF Init, ToldNow, Told
    <2> QED
        BY <2>1 DEF Init, Ledger!Init, ToldIn, ToldNow
<1>3. TaxInv /\ Single /\ [Next]_vars => Single'
    BY SingleStep
<1>4. TaxInv /\ Single /\ [Next]_vars => [Ledger!Next]_(Ledger!vars)
    BY LedgerStep
<1> QED
    BY <1>1, <1>2, <1>3, <1>4, TaxInvariance, PTL DEF Spec, ImplementsTaxLedger, Ledger!Spec

================================================================================
