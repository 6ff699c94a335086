---------------------- MODULE ParticipantStanding_proof ----------------------
(***************************************************************************)
(* StandingInv holds in every state of ParticipantStanding, a review is         *)
(* decided once, and the status tells the rows unless an act was committed on    *)
(* facts another had changed: for any number of acts at the same time and any    *)
(* scopes.  First what every act is when it has read, then what its commit does. *)
(***************************************************************************)
EXTENDS ParticipantStanding, TLAPS

------------------------------------------------------------------------------
\* The inductive invariants

Withdrawable == Admitted \cup {"SUSPENDED"}

\* What any act in memory is, whatever was committed since it has read: only a closure
\* closes and nothing comes back closed, only an approval admits, a suspension that
\* remembers an admission withdraws it, and a decision that is not void finds its review.
Decided(act) ==
    /\ act # Rest => act.op # "NONE"
    /\ act.to = "CLOSED" => act.op = "CLOSE"
    /\ act.before # "CLOSED"
    /\ act.op = "RESTRICT" => act.scope \in Scopes
    /\ act.op = "DECIDE" => /\ act.decision \in Decisions
                            /\ act.to \in Withdrawable => act.decision = "APPROVED"
                            /\ ~ act.void => party.review = "UNDECIDED"
    /\ act.op = "SUSPEND" /\ act.before \in Admitted => act.to = "SUSPENDED"

ActsInv ==
    /\ StandingInv
    /\ suspension.before # "CLOSED"
    /\ \A r \in Requests : Decided(request[r])

\* What an act has decided is still what it would decide now.
Current(act) ==
    /\ act.op = "ADVANCE" => {act.to, party.status} \subseteq DraftWritable
    /\ act.op = "SUBMIT" => act.to = "UNDER_REVIEW" /\ party.status = "PROFILE_COMPLETE"
    /\ act.op = "DECIDE" =>
         \/ act.to = "KEEP"
         \/ /\ party.status = "UNDER_REVIEW" /\ ~ suspension.active
            /\ act.to = IF restricted = {} THEN "ACTIVE" ELSE "RESTRICTED"
         \/ /\ party.status \in DraftWritable \cup {"UNDER_REVIEW"}
            /\ act.to = "PROFILE_INCOMPLETE"
    /\ act.op \in {"RESTRICT", "LIFT"} => act.to = Follows
    /\ act.op = "SUSPEND" =>
         /\ party.status \notin {"SUSPENDED", "CLOSED"} /\ act.before = party.status
         /\ act.to = SuspendsTo(party.status)
    /\ act.op = "REINSTATE" =>
         suspension.active /\ act.to = ReinstatesTo(party.status, suspension.before, restricted)
    /\ act.op = "CLOSE" => act.to = "CLOSED"
    /\ act.op = "APPEAL" => act.to = "KEEP" /\ suspension.active /\ suspension.appeal = "NONE"
    /\ act.op = "ASSIGN" => act.to = "KEEP" /\ suspension.appeal = "RECEIVED"
    /\ act.op = "RULE" => act.to = "KEEP" /\ suspension.appeal \in Open

\* A suspension dominates, and what was ruled on was decided.
Unraced ==
    /\ StatusTellsTheRows
    /\ suspension.active => party.status \notin Admitted
    /\ suspension.appeal # "DECIDED" => suspension.ruled = 0
    /\ \A r \in Requests :
         request[r] # Rest /\ request[r].overtaken # "OTHERWISE" => Current(request[r])

------------------------------------------------------------------------------
\* What an act is when it has read

LEMMA RestIs ==
    /\ Rest \in Acts
    /\ Rest.op = "NONE" /\ Rest.scope = NoScope /\ Rest.to = "KEEP" /\ Rest.decision = "NONE"
    /\ Rest.before = "DRAFT" /\ Rest.overtaken = "NOT" /\ ~ Rest.void
BY DEF Rest, Acts, Statuses, DraftWritable, Ops

\* An act that has just read.
Fresh(act) ==
    /\ Decided(act)
    /\ Current(act)
    /\ act.overtaken = "NOT"
    /\ act.to \in Withdrawable /\ act.op # "DECIDE" => party.role = "ACTIVE"

Reads(r) == \E act \in Acts : Begin(r, act) /\ Fresh(act)

LEMMA Rows ==
    ASSUME ActsInv
    PROVE  /\ party \in Parties /\ suspension \in Suspensions /\ restricted \subseteq Scopes
           /\ \A r \in Requests : request[r] \in Acts
BY DEF ActsInv, StandingInv, TypeOK

LEMMA AdvanceReads ==
    ASSUME ActsInv, NEW r \in Requests, Advance(r)
    PROVE  Reads(r)
<1>1. PICK to \in DraftWritable \cap Transitions[party.status] :
         party.status # "UNDER_REVIEW" /\ Begin(r, [Rest EXCEPT !.op = "ADVANCE", !.to = to])
    BY DEF Advance
<1>2. PICK old \in Acts : old = Rest
    BY RestIs
<1>3. PICK act : act = [old EXCEPT !.op = "ADVANCE", !.to = to]
    OBVIOUS
<1>4. /\ act \in Acts
      /\ act.op = "ADVANCE" /\ act.to = to /\ act.before = "DRAFT" /\ act.overtaken = "NOT"
    BY <1>2, <1>3, RestIs DEF Acts, Ops, Statuses
<1>5. party.status \in DraftWritable
    BY <1>1, Rows DEF Parties, Statuses, Admitted, DraftWritable, Transitions
<1>6. Decided(act) /\ Current(act)
    BY <1>4, <1>5 DEF Decided, Current, DraftWritable, Withdrawable, Admitted
<1>7. Fresh(act)
    BY <1>4, <1>6 DEF Fresh, Withdrawable, Admitted, DraftWritable
<1> QED
    BY <1>1, <1>2, <1>3, <1>4, <1>7 DEF Reads

LEMMA SubmitReads ==
    ASSUME ActsInv, NEW r \in Requests, Submit(r)
    PROVE  Reads(r)
<1>1. PICK old \in Acts : old = Rest
    BY RestIs
<1>2. PICK act : act = [old EXCEPT !.op = "SUBMIT", !.to = "UNDER_REVIEW"]
    OBVIOUS
<1>3. /\ act \in Acts
      /\ act.op = "SUBMIT" /\ act.to = "UNDER_REVIEW" /\ act.before = "DRAFT"
      /\ act.overtaken = "NOT"
    BY <1>1, <1>2, RestIs DEF Acts, Ops, Statuses
<1>4. Fresh(act)
    BY <1>3 DEF Submit, Fresh, Decided, Current, Withdrawable, Admitted
<1> QED
    BY <1>1, <1>2, <1>3, <1>4 DEF Reads, Submit

LEMMA DecideReads ==
    ASSUME ActsInv, NEW r \in Requests, Decide(r)
    PROVE  Reads(r)
<1>1. PICK decision \in Decisions :
         /\ party.review = "UNDECIDED"
         /\ decision = "APPROVED" => ~ suspension.active /\ party.status = "UNDER_REVIEW"
         /\ decision = "MORE_INFORMATION_REQUIRED" =>
               "PROFILE_INCOMPLETE" \in Transitions[party.status]
         /\ Begin(r, [Rest EXCEPT !.op = "DECIDE", !.decision = decision,
                                  !.to = AfterDecision[decision]])
    BY DEF Decide
<1>2. PICK to : to = AfterDecision[decision]
    OBVIOUS
<1>3. \/ decision = "APPROVED" /\ to = IF restricted = {} THEN "ACTIVE" ELSE "RESTRICTED"
      \/ decision = "MORE_INFORMATION_REQUIRED" /\ to = "PROFILE_INCOMPLETE"
      \/ decision = "REJECTED" /\ to = "KEEP"
    BY <1>2 DEF AfterDecision, Decisions
<1>4. PICK old \in Acts : old = Rest
    BY RestIs
<1>5. PICK act : act = [old EXCEPT !.op = "DECIDE", !.decision = decision, !.to = to]
    OBVIOUS
<1>6. /\ act \in Acts
      /\ act.op = "DECIDE" /\ act.to = to /\ act.decision = decision
      /\ act.before = "DRAFT" /\ act.overtaken = "NOT"
    BY <1>3, <1>4, <1>5, RestIs DEF Acts, Ops, Statuses, DraftWritable, Admitted
<1>7. decision = "MORE_INFORMATION_REQUIRED" =>
         party.status \in DraftWritable \cup {"UNDER_REVIEW"}
    BY <1>1, Rows DEF Parties, Statuses, Admitted, DraftWritable, Transitions
<1>8. Decided(act)
    BY <1>1, <1>3, <1>6 DEF Decided, Withdrawable, Admitted
<1>9. Current(act)
    BY <1>1, <1>3, <1>6, <1>7 DEF Current
<1> QED
    BY <1>1, <1>2, <1>4, <1>5, <1>6, <1>8, <1>9 DEF Reads, Fresh

LEMMA RestrictReads ==
    ASSUME ActsInv, NEW r \in Requests, Restrict(r) \/ Lift(r)
    PROVE  Reads(r)
<1>1. PICK op \in {"RESTRICT", "LIFT"}, s \in Scopes :
         Begin(r, [Rest EXCEPT !.op = op, !.scope = s, !.to = Follows])
    BY Rows DEF Restrict, Lift
<1>2. PICK to : to = Follows
    OBVIOUS
<1>3. to = IF party.status \in Admitted THEN "RESTRICTED" ELSE "KEEP"
    BY <1>2 DEF Follows
<1>4. PICK old \in Acts : old = Rest
    BY RestIs
<1>5. PICK act : act = [old EXCEPT !.op = op, !.scope = s, !.to = to]
    OBVIOUS
<1>6. /\ act \in Acts /\ act.scope = s
      /\ act.op = op /\ act.to = to /\ act.before = "DRAFT" /\ act.overtaken = "NOT"
    BY <1>3, <1>4, <1>5, RestIs DEF Acts, Ops, Statuses, Admitted
<1>7. Decided(act) /\ Current(act)
    BY <1>2, <1>3, <1>6 DEF Decided, Current, Admitted
<1>8. to = "RESTRICTED" => party.role = "ACTIVE"
    BY <1>3 DEF ActsInv, StandingInv, AdmittedByReview
<1>9. Fresh(act)
    BY <1>3, <1>6, <1>7, <1>8 DEF Fresh, Withdrawable, Admitted
<1> QED
    BY <1>1, <1>2, <1>4, <1>5, <1>6, <1>9 DEF Reads

LEMMA SuspendReads ==
    ASSUME ActsInv, NEW r \in Requests, Suspend(r)
    PROVE  Reads(r)
<1>1. PICK before, to : before = party.status /\ to = SuspendsTo(before)
    OBVIOUS
<1>2. /\ before \in Statuses /\ before \notin {"SUSPENDED", "CLOSED"}
      /\ to = IF before \in Admitted THEN "SUSPENDED" ELSE "KEEP"
    BY <1>1, Rows DEF Suspend, SuspendsTo, Parties
<1>3. PICK old \in Acts : old = Rest
    BY RestIs
<1>4. PICK act : act = [old EXCEPT !.op = "SUSPEND", !.before = before, !.to = to]
    OBVIOUS
<1>5. /\ act \in Acts
      /\ act.op = "SUSPEND" /\ act.to = to /\ act.before = before /\ act.overtaken = "NOT"
    BY <1>2, <1>3, <1>4, RestIs DEF Acts, Ops, Statuses
<1>6. Decided(act)
    BY <1>2, <1>5 DEF Decided
<1>7. Current(act)
    BY <1>1, <1>2, <1>5 DEF Current
<1>8. to = "SUSPENDED" => party.role = "ACTIVE"
    BY <1>1, <1>2 DEF ActsInv, StandingInv, AdmittedByReview
<1>9. Fresh(act)
    BY <1>2, <1>5, <1>6, <1>7, <1>8 DEF Fresh, Withdrawable, Admitted
<1>10. Begin(r, act)
    BY <1>1, <1>3, <1>4 DEF Suspend
<1> QED
    BY <1>5, <1>9, <1>10 DEF Reads

\* Who comes back comes back restricted, active or as it was, never closed.
LEMMA ReinstatesIs ==
    ASSUME NEW status, NEW before, NEW scopes, NEW to, to = ReinstatesTo(status, before, scopes)
    PROVE  \/ to = "KEEP"
           \/ /\ status = "SUSPENDED"
              /\ \/ before \in Admitted /\ scopes # {} /\ to = "RESTRICTED"
                 \/ before \in Admitted /\ scopes = {} /\ to = "ACTIVE"
                 \/ before \notin Admitted /\ to = before /\ to \in {"ACTIVE", "RESTRICTED", "CLOSED"}
<1>1. Transitions["SUSPENDED"] = {"ACTIVE", "RESTRICTED", "CLOSED"}
    BY DEF Transitions
<1> QED
    BY <1>1 DEF ReinstatesTo, Admitted

LEMMA ReinstateReads ==
    ASSUME ActsInv, NEW r \in Requests, Reinstate(r)
    PROVE  Reads(r)
<1>1. PICK to : to = ReinstatesTo(party.status, suspension.before, restricted)
    OBVIOUS
<1>2. \/ to = "KEEP"
      \/ party.status = "SUSPENDED" /\ to \in {"ACTIVE", "RESTRICTED"}
    BY <1>1, ReinstatesIs DEF ActsInv
<1>3. PICK old \in Acts : old = Rest
    BY RestIs
<1>4. PICK act : act = [old EXCEPT !.op = "REINSTATE", !.to = to]
    OBVIOUS
<1>5. /\ act \in Acts
      /\ act.op = "REINSTATE" /\ act.to = to /\ act.before = "DRAFT" /\ act.overtaken = "NOT"
    BY <1>2, <1>3, <1>4, RestIs DEF Acts, Ops, Statuses, Admitted
<1>6. Decided(act)
    BY <1>2, <1>5 DEF Decided
<1>7. Current(act)
    BY <1>1, <1>5 DEF Current, Reinstate
<1>8. to # "KEEP" => party.role = "ACTIVE"
    BY <1>2 DEF ActsInv, StandingInv, AdmittedByReview
<1>9. Fresh(act)
    BY <1>5, <1>6, <1>7, <1>8 DEF Fresh, Withdrawable, Admitted
<1>10. Begin(r, act)
    BY <1>1, <1>3, <1>4 DEF Reinstate
<1> QED
    BY <1>5, <1>9, <1>10 DEF Reads

LEMMA CloseReads ==
    ASSUME ActsInv, NEW r \in Requests, Close(r)
    PROVE  Reads(r)
<1>1. PICK old \in Acts : old = Rest
    BY RestIs
<1>2. PICK act : act = [old EXCEPT !.op = "CLOSE", !.to = "CLOSED"]
    OBVIOUS
<1>3. /\ act \in Acts
      /\ act.op = "CLOSE" /\ act.to = "CLOSED" /\ act.before = "DRAFT" /\ act.overtaken = "NOT"
    BY <1>1, <1>2, RestIs DEF Acts, Ops, Statuses
<1>4. Fresh(act)
    BY <1>3 DEF Fresh, Decided, Current, Withdrawable, Admitted
<1> QED
    BY <1>1, <1>2, <1>3, <1>4 DEF Reads, Close

LEMMA AppealReads ==
    ASSUME ActsInv, NEW r \in Requests, Appeal(r) \/ Assign(r) \/ Rule(r)
    PROVE  Reads(r)
<1>1. PICK op \in {"APPEAL", "ASSIGN", "RULE"} :
         /\ Begin(r, [Rest EXCEPT !.op = op])
         /\ op = "APPEAL" => suspension.active /\ suspension.appeal = "NONE"
         /\ op = "ASSIGN" => suspension.appeal = "RECEIVED"
         /\ op = "RULE" => suspension.appeal \in Open
    BY DEF Appeal, Assign, Rule
<1>2. PICK old \in Acts : old = Rest
    BY RestIs
<1>3. PICK act : act = [old EXCEPT !.op = op]
    OBVIOUS
<1>4. /\ act \in Acts
      /\ act.op = op /\ act.to = "KEEP" /\ act.before = "DRAFT" /\ act.overtaken = "NOT"
    BY <1>2, <1>3, RestIs DEF Acts, Ops
<1>5. Fresh(act)
    BY <1>1, <1>4 DEF Fresh, Decided, Current, Withdrawable, Admitted
<1> QED
    BY <1>1, <1>2, <1>3, <1>4, <1>5 DEF Reads

LEMMA AskReads ==
    ASSUME ActsInv, NEW r \in Requests, Ask(r)
    PROVE  Reads(r)
BY AdvanceReads, SubmitReads, DecideReads, RestrictReads, SuspendReads, ReinstateReads,
   CloseReads, AppealReads
   DEF Ask

\* Reading changes nothing, and what was read is current.
LEMMA ReadStep ==
    ASSUME ActsInv, NEW r \in Requests, Reads(r)
    PROVE  ActsInv' /\ (Unraced => Unraced')
<1>1. PICK act \in Acts : Begin(r, act) /\ Fresh(act)
    BY DEF Reads
<1>2. /\ request'[r] = act /\ \A q \in Requests \ {r} : request'[q] = request[q]
      /\ request' \in [Requests -> Acts]
      /\ UNCHANGED <<party, restricted, suspension, raced>>
    BY <1>1 DEF Begin, ActsInv, StandingInv, TypeOK
<1>3. TypeOK'
    BY <1>2 DEF ActsInv, StandingInv, TypeOK
<1>4. AdmittedByReview'
    BY <1>1, <1>2 DEF Fresh, ActsInv, StandingInv, AdmittedByReview, Withdrawable
<1>5. StandingInv'
    BY <1>2, <1>3, <1>4 DEF ActsInv, StandingInv
<1>6. \A q \in Requests : Decided(request[q])'
    BY <1>1, <1>2 DEF Fresh, Decided, ActsInv
<1>7. Unraced => \A q \in Requests :
         request'[q] # Rest /\ request'[q].overtaken # "OTHERWISE" => Current(request'[q])
    BY <1>1, <1>2 DEF Fresh, Unraced
<1>8. Unraced => Unraced'
    BY <1>2, <1>7 DEF Unraced, StatusTellsTheRows, Current, Follows, SuspendsTo, ReinstatesTo
<1> QED
    BY <1>2, <1>5, <1>6, <1>8 DEF ActsInv

------------------------------------------------------------------------------
\* What a commit does

LEMMA OvertakenIs ==
    ASSUME NEW act \in Acts, NEW other \in Acts, NEW new, new = Overtaken(act, other)
    PROVE  /\ new \in Acts
           /\ new.op = other.op /\ new.to = other.to /\ new.decision = other.decision
           /\ new.before = other.before /\ new.scope = other.scope
           /\ new.overtaken # "NOT"
           /\ new.overtaken # "OTHERWISE" => /\ Alike(act, other)
                                             /\ other.overtaken # "OTHERWISE"
           /\ ~ new.void => ~ other.void /\ ~ Takes(act, other)
<1>1. PICK o, v : /\ o = IF Alike(act, other) /\ other.overtaken # "OTHERWISE"
                         THEN "ALIKE" ELSE "OTHERWISE"
                  /\ v = (other.void \/ Takes(act, other))
    OBVIOUS
<1>2. v \in BOOLEAN /\ o \in {"NOT", "ALIKE", "OTHERWISE"}
    BY <1>1 DEF Takes, Acts
<1>3. new = [other EXCEPT !.overtaken = o, !.void = v]
    BY <1>1 DEF Overtaken
<1> QED
    BY <1>1, <1>2, <1>3 DEF Acts

\* The status after a commit: a restriction or its lifting moves among the admitted only.
LEMMA StatusIs ==
    ASSUME ActsInv, NEW act \in Acts, NEW status, status = StatusBy(act)
    PROVE  /\ status \in Statuses
           /\ act.op \in {"RESTRICT", "LIFT"} =>
                status = party.status \/ {status, party.status} \subseteq Admitted
           /\ act.op \notin {"RESTRICT", "LIFT"} =>
                status = IF act.to = "KEEP" THEN party.status ELSE act.to
<1>1. party.status \in Statuses /\ act.to \in Statuses \cup {"KEEP"}
    BY Rows DEF Parties, Acts
<1> QED
    BY <1>1 DEF StatusBy, Converges, Statuses, Admitted

LEMMA PartyIs ==
    ASSUME ActsInv, NEW act \in Acts, Decided(act), NEW new, new = PartyBy(act)
    PROVE  /\ new \in Parties
           /\ new.status = StatusBy(act)
           /\ party.role = "ACTIVE" => new.role = "ACTIVE"
           /\ party.role # "DRAFT" => new.role # "DRAFT"
           /\ act.decision = "APPROVED" /\ act.op = "DECIDE" => new.role = "ACTIVE"
           /\ act.op = "SUBMIT" => new.review = "UNDECIDED" /\ new.role # "DRAFT"
           /\ act.op = "DECIDE" => new.review = act.decision
           /\ act.op \notin {"SUBMIT", "DECIDE"} => new.review = party.review
           /\ new.closed = (party.closed \/ act.op = "CLOSE")
<1>1. party \in Parties
    BY Rows
<1>2. PICK status \in Statuses : status = StatusBy(act)
    BY StatusIs
<1>3. PICK role, review, closed :
         /\ role = IF act.op = "SUBMIT" /\ party.role = "DRAFT" THEN "PENDING_ACTIVATION"
                   ELSE IF act.decision = "APPROVED" THEN "ACTIVE" ELSE party.role
         /\ review = IF act.op = "SUBMIT" THEN "UNDECIDED"
                     ELSE IF act.op = "DECIDE" THEN act.decision ELSE party.review
         /\ closed = (party.closed \/ act.op = "CLOSE")
    OBVIOUS
<1>4. new = [status |-> status, role |-> role, review |-> review, closed |-> closed]
    BY <1>2, <1>3 DEF PartyBy
<1>5. role \in Roles /\ review \in Reviews /\ closed \in BOOLEAN
    BY <1>1, <1>3 DEF Parties, Roles, Reviews, Decided
<1> QED
    BY <1>1, <1>2, <1>3, <1>4, <1>5 DEF Parties

LEMMA SuspensionIs ==
    ASSUME ActsInv, NEW act \in Acts, Accepted(act), NEW new, new = SuspensionBy(act)
    PROVE  /\ new \in Suspensions
           /\ act.op = "SUSPEND" =>
                new.active /\ new.before = act.before /\ new.appeal = "NONE" /\ new.ruled = 0
           /\ act.op = "REINSTATE" =>
                ~ new.active /\ new.before = "DRAFT" /\ new.appeal = "NONE" /\ new.ruled = 0
           /\ act.op \notin {"SUSPEND", "REINSTATE"} =>
                new.active = suspension.active /\ new.before = suspension.before
           /\ act.op \in {"APPEAL", "ASSIGN"} =>
                new.appeal \in Open /\ new.ruled = suspension.ruled
           /\ act.op = "RULE" => new.appeal = "DECIDED" /\ new.ruled = suspension.ruled + 1
           /\ act.op \notin {"SUSPEND", "REINSTATE", "APPEAL", "ASSIGN", "RULE"} =>
                new = suspension
<1>1. PICK old \in Suspensions : old = suspension
    BY Rows
<1>2. PICK none \in Suspensions : none = NoSuspension
    <2>1. NoSuspension \in Suspensions
        BY DEF NoSuspension, Suspensions, Statuses, DraftWritable
    <2> QED
        BY <2>1
<1>3. none.active = FALSE /\ none.before = "DRAFT" /\ none.appeal = "NONE" /\ none.ruled = 0
    BY <1>2 DEF NoSuspension
<1>4. CASE act.op = "SUSPEND"
    <2>1. new = [none EXCEPT !.active = TRUE, !.before = act.before]
        BY <1>2, <1>4 DEF SuspensionBy
    <2> QED
        BY <1>3, <1>4, <2>1 DEF Suspensions, Acts
<1>5. CASE act.op = "REINSTATE"
    BY <1>2, <1>3, <1>5 DEF SuspensionBy
<1>6. CASE act.op = "APPEAL"
    <2>1. new = [old EXCEPT !.appeal = "RECEIVED"]
        BY <1>1, <1>6 DEF SuspensionBy
    <2> QED
        BY <1>1, <1>6, <2>1 DEF Suspensions, Open
<1>7. CASE act.op = "ASSIGN"
    <2>1. new = [old EXCEPT !.appeal = "UNDER_REVIEW"]
        BY <1>1, <1>7 DEF SuspensionBy
    <2> QED
        BY <1>1, <1>7, <2>1 DEF Suspensions, Open
<1>8. CASE act.op = "RULE"
    <2>1. PICK n \in 0..2 : n = old.ruled + 1
        BY <1>1, <1>8 DEF Accepted, Suspensions
    <2>2. new = [old EXCEPT !.appeal = "DECIDED", !.ruled = n]
        BY <1>1, <1>8, <2>1 DEF SuspensionBy
    <2> QED
        BY <1>1, <1>8, <2>1, <2>2 DEF Suspensions
<1>9. CASE act.op \notin {"SUSPEND", "REINSTATE", "APPEAL", "ASSIGN", "RULE"}
    BY <1>1, <1>9 DEF SuspensionBy
<1> QED
    BY <1>4, <1>5, <1>6, <1>7, <1>8, <1>9

\* The other acts after a commit: gone, at rest, or overtaken.
LEMMA OthersAre ==
    ASSUME ActsInv, NEW r \in Requests, Commit(r)
    PROVE  /\ request' \in [Requests -> Acts]
           /\ \A q \in Requests : request'[q] # Rest =>
                /\ request[q] # Rest
                /\ request'[q] = Overtaken(request[r], request[q])
BY Rows, RestIs, OvertakenIs DEF Commit

LEMMA CommitStep ==
    ASSUME ActsInv, NEW r \in Requests, Commit(r)
    PROVE  ActsInv'
<1>1. PICK act \in Acts : act = request[r]
    BY Rows
<1>2. act # Rest /\ Accepted(act) /\ Decided(act)
    BY <1>1 DEF Commit, ActsInv
<1>3. PICK status : status = StatusBy(act)
    OBVIOUS
<1>4. /\ status \in Statuses
      /\ act.op \in {"RESTRICT", "LIFT"} =>
           status = party.status \/ {status, party.status} \subseteq Admitted
      /\ act.op \notin {"RESTRICT", "LIFT"} =>
           status = IF act.to = "KEEP" THEN party.status ELSE act.to
    BY <1>3, StatusIs
<1>5. /\ party' \in Parties
      /\ party'.status = status
      /\ party.role = "ACTIVE" => party'.role = "ACTIVE"
      /\ party.role # "DRAFT" => party'.role # "DRAFT"
      /\ act.decision = "APPROVED" /\ act.op = "DECIDE" => party'.role = "ACTIVE"
      /\ act.op = "SUBMIT" => party'.review = "UNDECIDED" /\ party'.role # "DRAFT"
      /\ act.op = "DECIDE" => party'.review = act.decision
      /\ act.op \notin {"SUBMIT", "DECIDE"} => party'.review = party.review
      /\ party'.closed = (party.closed \/ act.op = "CLOSE")
    BY <1>1, <1>2, <1>3, PartyIs DEF Commit
<1>6. /\ suspension' \in Suspensions
      /\ act.op = "SUSPEND" => suspension'.active /\ suspension'.before = act.before
      /\ act.op = "REINSTATE" => ~ suspension'.active /\ suspension'.before = "DRAFT"
      /\ act.op \notin {"SUSPEND", "REINSTATE"} =>
           suspension'.active = suspension.active /\ suspension'.before = suspension.before
    BY <1>1, <1>2, SuspensionIs DEF Commit
<1>7. restricted' \subseteq Scopes
    BY <1>1, <1>2, Rows DEF Commit, RestrictedBy, Decided
<1>8. /\ request' \in [Requests -> Acts]
      /\ \A q \in Requests : request'[q] # Rest =>
           request[q] # Rest /\ request'[q] = Overtaken(act, request[q])
    BY <1>1, OthersAre
<1>9. TypeOK'
    BY <1>1, <1>5, <1>6, <1>7, <1>8 DEF Commit, TypeOK, ActsInv, StandingInv
<1>10. /\ party'.status \in Withdrawable => party'.role = "ACTIVE"
       /\ suspension'.active /\ suspension'.before \in Admitted => party'.role = "ACTIVE"
    <2>1. /\ party.status \in Withdrawable => party.role = "ACTIVE"
          /\ suspension.active /\ suspension.before \in Admitted => party.role = "ACTIVE"
          /\ act.to \in Withdrawable /\ act.op # "DECIDE" => party.role = "ACTIVE"
        BY <1>1 DEF ActsInv, StandingInv, AdmittedByReview, Withdrawable
    <2>2. act.to \in Withdrawable => party'.role = "ACTIVE"
        BY <1>2, <1>5, <2>1 DEF Decided
    <2>3. party'.status \in Withdrawable => party'.role = "ACTIVE"
        BY <1>4, <1>5, <2>1, <2>2 DEF Withdrawable
    <2>4. act.op = "SUSPEND" /\ act.before \in Admitted => party'.role = "ACTIVE"
        BY <1>2, <2>2 DEF Decided, Withdrawable
    <2>5. suspension'.active /\ suspension'.before \in Admitted => party'.role = "ACTIVE"
        BY <1>5, <1>6, <2>1, <2>4
    <2> QED
        BY <2>3, <2>5
<1>11. \A q \in Requests : request'[q] # Rest =>
          /\ request'[q].op = request[q].op /\ request'[q].to = request[q].to
          /\ request'[q].decision = request[q].decision
          /\ request'[q].before = request[q].before
          /\ request'[q].scope = request[q].scope
          /\ ~ request'[q].void => ~ request[q].void /\ ~ Takes(act, request[q])
    BY <1>8, Rows, OvertakenIs
<1>12. AdmittedByReview'
    <2>1. \A q \in Requests : request'[q].to \in Withdrawable /\ request'[q].op # "DECIDE" =>
             party'.role = "ACTIVE"
        BY <1>5, <1>11, RestIs DEF ActsInv, StandingInv, AdmittedByReview, Withdrawable, Admitted
    <2> QED
        BY <1>10, <2>1 DEF AdmittedByReview, Withdrawable
<1>13. party'.status = "CLOSED" => party'.closed
    BY <1>2, <1>4, <1>5 DEF Decided, ActsInv, StandingInv, Admitted
<1>14. party'.review = "UNDECIDED" => party'.role # "DRAFT"
    BY <1>2, <1>5 DEF Decided, Decisions, ActsInv, StandingInv
<1>15. suspension'.before # "CLOSED"
    BY <1>2, <1>6 DEF Decided, ActsInv
<1>16. \A q \in Requests : Decided(request[q])'
    <2>1. \A q \in Requests : request[q].op = "DECIDE" /\ ~ request[q].void =>
             party.review = "UNDECIDED"
        BY DEF ActsInv, Decided
    <2>2. ASSUME NEW q \in Requests, request'[q] # Rest, request'[q].op = "DECIDE",
                 ~ request'[q].void
          PROVE  party'.review = "UNDECIDED"
        <3>1. request[q].op = "DECIDE" /\ ~ request[q].void /\ ~ Takes(act, request[q])
            BY <1>11, <2>2
        <3>2. party.review = "UNDECIDED" /\ act.op # "DECIDE"
            BY <2>1, <3>1 DEF Takes
        <3> QED
            BY <1>5, <3>2
    <2>3. ASSUME NEW q \in Requests, request'[q] # Rest
          PROVE  Decided(request[q])'
        <3>1. Decided(request[q]) /\ request[q] # Rest
            BY <1>8, <2>3 DEF ActsInv
        <3>2. /\ request'[q].op = request[q].op /\ request'[q].to = request[q].to
              /\ request'[q].decision = request[q].decision
              /\ request'[q].before = request[q].before
              /\ request'[q].scope = request[q].scope
            BY <1>11, <2>3
        <3>3. request'[q].op = "DECIDE" /\ ~ request'[q].void => party'.review = "UNDECIDED"
            BY <2>2, <2>3
        <3> QED
            BY <3>1, <3>2, <3>3 DEF Decided
    <2>4. \A q \in Requests : request'[q] = Rest => Decided(request[q])'
        BY RestIs DEF Decided
    <2> QED
        BY <2>3, <2>4
<1> QED
    BY <1>9, <1>12, <1>13, <1>14, <1>15, <1>16 DEF ActsInv, StandingInv

LEMMA AbandonStep ==
    ASSUME ActsInv, NEW r \in Requests, Abandon(r)
    PROVE  ActsInv' /\ (Unraced => Unraced')
<1>1. /\ request'[r] = Rest /\ \A q \in Requests \ {r} : request'[q] = request[q]
      /\ request' \in [Requests -> Acts]
      /\ UNCHANGED <<party, restricted, suspension, raced>>
    BY RestIs DEF Abandon, ActsInv, StandingInv, TypeOK
<1>2. StandingInv'
    BY <1>1, RestIs DEF ActsInv, StandingInv, TypeOK, AdmittedByReview, Admitted
<1>3. \A q \in Requests : Decided(request[q])'
    BY <1>1, RestIs DEF Decided, ActsInv
<1>4. Unraced => \A q \in Requests :
         request'[q] # Rest /\ request'[q].overtaken # "OTHERWISE" => Current(request'[q])
    BY <1>1 DEF Unraced
<1>5. Unraced => Unraced'
    BY <1>1, <1>4 DEF Unraced, StatusTellsTheRows, Current, Follows, SuspendsTo, ReinstatesTo
<1> QED
    BY <1>1, <1>2, <1>3, <1>5 DEF ActsInv

\* Where nothing but its likes has overtaken an act, its commit leaves a status that
\* tells the rows, whatever it is.
LEMMA CommitTells ==
    ASSUME ActsInv, Unraced, NEW r \in Requests, Commit(r), ~ raced'
    PROVE  /\ StatusTellsTheRows'
           /\ (suspension.active => party.status \notin Admitted)'
           /\ (suspension.appeal # "DECIDED" => suspension.ruled = 0)'
           /\ request[r].op \in {"RESTRICT", "LIFT"} =>
                (party'.status \in Admitted <=> party.status \in Admitted)
<1>1. PICK act \in Acts : act = request[r]
    BY Rows
<1>2. act # Rest /\ Accepted(act) /\ Decided(act) /\ Current(act)
    BY <1>1 DEF Commit, ActsInv, Unraced
<1>3. PICK status : status = StatusBy(act)
    OBVIOUS
<1>4. /\ party'.status = status
      /\ party'.closed = (party.closed \/ act.op = "CLOSE")
    BY <1>1, <1>2, <1>3, PartyIs DEF Commit
<1>5. party \in Parties /\ suspension \in Suspensions
    BY Rows
<1>6. /\ act.op = "SUSPEND" =>
           /\ suspension'.active /\ suspension'.before = act.before
           /\ suspension'.appeal = "NONE" /\ suspension'.ruled = 0
      /\ act.op = "REINSTATE" =>
           ~ suspension'.active /\ suspension'.appeal = "NONE" /\ suspension'.ruled = 0
      /\ act.op \notin {"SUSPEND", "REINSTATE"} =>
           suspension'.active = suspension.active /\ suspension'.before = suspension.before
      /\ act.op \in {"APPEAL", "ASSIGN"} =>
           suspension'.appeal \in Open /\ suspension'.ruled = suspension.ruled
      /\ act.op = "RULE" =>
           suspension'.appeal = "DECIDED" /\ suspension'.ruled = suspension.ruled + 1
      /\ act.op \notin {"SUSPEND", "REINSTATE", "APPEAL", "ASSIGN", "RULE"} =>
           suspension' = suspension
    BY <1>1, <1>2, SuspensionIs DEF Commit
<1>7. /\ party.closed <=> party.status = "CLOSED"
      /\ party.status = "SUSPENDED" <=>
           suspension.active /\ suspension.before \in Admitted /\ ~ party.closed
      /\ party.status = "RESTRICTED" => restricted # {}
      /\ party.status = "ACTIVE" => restricted = {}
      /\ suspension.ruled <= 1
      /\ suspension.active => party.status \notin Admitted
      /\ suspension.appeal # "DECIDED" => suspension.ruled = 0
    BY DEF Unraced, StatusTellsTheRows
<1>8. /\ suspension'.ruled <= 1
      /\ suspension'.appeal # "DECIDED" => suspension'.ruled = 0
    <2>1. act.op \in {"APPEAL", "ASSIGN", "RULE"} => suspension.ruled = 0
        BY <1>2, <1>7 DEF Current, Open
    <2>2. suspension.ruled = 0 => suspension.ruled + 1 = 1
        OBVIOUS
    <2> QED
        BY <1>6, <1>7, <2>1, <2>2
<1>9. CASE act.op \in {"RESTRICT", "LIFT"}
    <2>1. restricted' = RestrictedBy(act) /\ status = Converges(act, party.status, restricted')
        BY <1>1, <1>3, <1>9 DEF Commit, StatusBy
    <2>2. act.to = IF party.status \in Admitted THEN "RESTRICTED" ELSE "KEEP"
        BY <1>2, <1>9 DEF Current, Follows
    <2>3. CASE party.status \notin Admitted
        <3>1. status = party.status
            BY <2>1, <2>2, <2>3 DEF Converges
        <3> QED
            BY <1>1, <1>4, <1>6, <1>7, <1>8, <1>9, <2>3, <3>1 DEF StatusTellsTheRows, Admitted
    <2>4. CASE party.status \in Admitted
        <3>1. ~ suspension.active
            BY <1>7, <2>4
        <3>2. status = IF restricted' = {} THEN "ACTIVE" ELSE "RESTRICTED"
            BY <2>1, <2>2, <2>4, <3>1 DEF Converges, Admitted
        <3> QED
            BY <1>1, <1>4, <1>6, <1>7, <1>8, <1>9, <2>4, <3>1, <3>2 DEF StatusTellsTheRows, Admitted
    <2> QED
        BY <2>3, <2>4
<1>10. ASSUME act.op \notin {"RESTRICT", "LIFT"}
       PROVE  /\ restricted' = restricted
              /\ status = IF act.to = "KEEP" THEN party.status ELSE act.to
    BY <1>1, <1>3, <1>10 DEF Commit, RestrictedBy, StatusBy
<1>11. CASE act.op \in {"ADVANCE", "SUBMIT"}
    <2>1. {status, party.status} \subseteq DraftWritable \cup {"UNDER_REVIEW"}
        BY <1>2, <1>10, <1>11 DEF Current, DraftWritable
    <2> QED
        BY <1>1, <1>4, <1>6, <1>7, <1>8, <1>11, <2>1
           DEF StatusTellsTheRows, Admitted, DraftWritable
<1>12. CASE act.op = "DECIDE"
    <2>1. \/ status = party.status
          \/ /\ party.status \in DraftWritable \cup {"UNDER_REVIEW"}
             /\ \/ status = "PROFILE_INCOMPLETE"
                \/ ~ suspension.active
                   /\ status = IF restricted = {} THEN "ACTIVE" ELSE "RESTRICTED"
        BY <1>2, <1>10, <1>12 DEF Current
    <2> QED
        BY <1>1, <1>4, <1>6, <1>7, <1>8, <1>10, <1>12, <2>1
           DEF StatusTellsTheRows, Admitted, DraftWritable
<1>13. CASE act.op = "SUSPEND"
    <2>1. /\ party.status \notin {"SUSPENDED", "CLOSED"} /\ suspension'.before = party.status
          /\ status = IF party.status \in Admitted THEN "SUSPENDED" ELSE party.status
        BY <1>2, <1>6, <1>10, <1>13 DEF Current, SuspendsTo
    <2> QED
        BY <1>1, <1>4, <1>6, <1>7, <1>8, <1>10, <1>13, <2>1 DEF StatusTellsTheRows, Admitted
<1>14. CASE act.op = "REINSTATE"
    <2>1. suspension.active /\ act.to = ReinstatesTo(party.status, suspension.before, restricted)
        BY <1>2, <1>14 DEF Current
    <2>2. CASE party.status # "SUSPENDED"
        <3>1. status = party.status
            BY <1>10, <1>14, <2>1, <2>2, ReinstatesIs
        <3> QED
            BY <1>1, <1>4, <1>6, <1>7, <1>8, <1>10, <1>14, <2>2, <3>1
               DEF StatusTellsTheRows, Admitted
    <2>3. CASE party.status = "SUSPENDED"
        <3>1. suspension.before \in Admitted /\ ~ party.closed
            BY <1>7, <2>3
        <3>2. status = IF restricted = {} THEN "ACTIVE" ELSE "RESTRICTED"
            <4>1. Transitions["SUSPENDED"] = {"ACTIVE", "RESTRICTED", "CLOSED"}
                BY DEF Transitions
            <4> QED
                BY <1>10, <1>14, <2>1, <2>3, <3>1, <4>1 DEF ReinstatesTo, Admitted
        <3> QED
            BY <1>1, <1>4, <1>6, <1>8, <1>10, <1>14, <3>1, <3>2 DEF StatusTellsTheRows, Admitted
    <2> QED
        BY <2>2, <2>3
<1>15. CASE act.op = "CLOSE"
    <2>1. status = "CLOSED"
        BY <1>2, <1>10, <1>15 DEF Current
    <2> QED
        BY <1>1, <1>4, <1>6, <1>7, <1>8, <1>15, <2>1 DEF StatusTellsTheRows, Admitted
<1>16. CASE act.op \in {"APPEAL", "ASSIGN", "RULE"}
    <2>1. status = party.status
        BY <1>2, <1>10, <1>16 DEF Current
    <2> QED
        BY <1>1, <1>4, <1>6, <1>7, <1>8, <1>10, <1>16, <2>1 DEF StatusTellsTheRows, Admitted
<1>17. act.op \in Ops \ {"NONE"}
    BY <1>2 DEF Decided, Acts
<1> QED
    BY <1>9, <1>11, <1>12, <1>13, <1>14, <1>15, <1>16, <1>17 DEF Ops

LEMMA CommitUnraced ==
    ASSUME ActsInv, Unraced, NEW r \in Requests, Commit(r), ~ raced'
    PROVE  Unraced'
<1>1. PICK act \in Acts : act = request[r]
    BY Rows
<1>2. ASSUME NEW q \in Requests, request'[q] # Rest, request'[q].overtaken # "OTHERWISE"
      PROVE  Current(request[q])'
    <2>1. /\ request[q] \in Acts /\ request[q] # Rest
          /\ request'[q] = Overtaken(act, request[q])
        BY <1>1, <1>2, OthersAre, Rows
    <2>2. /\ Alike(act, request[q]) /\ request[q].overtaken # "OTHERWISE"
          /\ request'[q].op = request[q].op /\ request'[q].to = request[q].to
        BY <1>2, <2>1, OvertakenIs
    <2>3. request[q].op \in {"RESTRICT", "LIFT"} /\ act.op \in {"RESTRICT", "LIFT"}
        BY <2>2 DEF Alike
    <2>4. request[q].to = Follows
        BY <2>1, <2>2, <2>3 DEF Unraced, Current
    <2>5. Follows' = Follows
        BY <1>1, <2>3, CommitTells DEF Follows
    <2> QED
        BY <2>2, <2>3, <2>4, <2>5 DEF Current
<1> QED
    BY <1>2, CommitTells DEF Unraced

------------------------------------------------------------------------------
\* Theorems

UnracedInv == ~ raced => Unraced

LEMMA InitInv == Init => ActsInv /\ UnracedInv
<1> SUFFICES ASSUME Init
             PROVE  ActsInv /\ UnracedInv
    OBVIOUS
<1>1. party.status = "DRAFT" /\ party.role = "DRAFT" /\ party.review = "NONE" /\ ~ party.closed
      /\ party \in Parties
    BY DEF Init, Parties, Statuses, DraftWritable, Roles, Reviews
<1>2. /\ suspension \in Suspensions
      /\ ~ suspension.active /\ suspension.before = "DRAFT" /\ suspension.ruled = 0
    BY DEF Init, NoSuspension, Suspensions, Statuses, DraftWritable
<1>3. \A r \in Requests : request[r] = Rest
    BY DEF Init
<1>4. StandingInv
    BY <1>1, <1>2, <1>3, RestIs DEF Init, StandingInv, TypeOK, AdmittedByReview, Admitted
<1>5. \A r \in Requests : Decided(request[r])
    BY <1>3, RestIs DEF Decided
<1>6. Unraced
    BY <1>1, <1>2, <1>3 DEF Unraced, StatusTellsTheRows
<1> QED
    BY <1>2, <1>4, <1>5, <1>6 DEF ActsInv, UnracedInv

LEMMA StepInv == ActsInv /\ [Next]_vars => ActsInv' /\ (UnracedInv => UnracedInv')
<1> SUFFICES ASSUME ActsInv, [Next]_vars
             PROVE  ActsInv' /\ (UnracedInv => UnracedInv')
    OBVIOUS
<1>1. CASE UNCHANGED vars
    BY <1>1 DEF vars, ActsInv, StandingInv, TypeOK, AdmittedByReview, Decided, UnracedInv,
                Unraced, StatusTellsTheRows, Current, Follows, SuspendsTo, ReinstatesTo
<1>2. ASSUME NEW r \in Requests, Ask(r)
      PROVE  ActsInv' /\ (UnracedInv => UnracedInv')
    <2>1. Reads(r)
        BY <1>2, AskReads
    <2>2. raced' = raced
        BY <2>1 DEF Reads, Begin
    <2> QED
        BY <2>1, <2>2, ReadStep DEF UnracedInv
<1>3. ASSUME NEW r \in Requests, Commit(r)
      PROVE  ActsInv' /\ (UnracedInv => UnracedInv')
    <2>1. ~ raced' => ~ raced
        BY <1>3 DEF Commit
    <2> QED
        BY <1>3, <2>1, CommitStep, CommitUnraced DEF UnracedInv
<1>4. ASSUME NEW r \in Requests, Abandon(r)
      PROVE  ActsInv' /\ (UnracedInv => UnracedInv')
    <2>1. raced' = raced
        BY <1>4 DEF Abandon
    <2> QED
        BY <1>4, <2>1, AbandonStep DEF UnracedInv
<1> QED
    BY <1>1, <1>2, <1>3, <1>4 DEF Next

LEMMA Invariance == Spec => [](ActsInv /\ UnracedInv)
<1>1. (ActsInv /\ UnracedInv) /\ [Next]_vars => (ActsInv /\ UnracedInv)'
    BY StepInv
<1> QED
    BY InitInv, <1>1, PTL DEF Spec

\* Whoever is admitted holds a role that a review activated, and whoever is closed has a
\* closure, whichever acts overtake each other.
THEOREM StandingInvariance == Spec => []StandingInv
<1>1. ActsInv => StandingInv
    BY DEF ActsInv
<1> QED
    BY <1>1, Invariance, PTL

\* Restrictions and their lifting may overtake each other freely: as long as nothing
\* else does, the status is what the restrictions, the suspension and the closure say.
THEOREM StatusTells == Spec => []UnracedStatusTellsTheRows
<1>1. UnracedInv => UnracedStatusTellsTheRows
    BY DEF UnracedInv, Unraced, UnracedStatusTellsTheRows
<1> QED
    BY <1>1, Invariance, PTL

\* However many reviewers decide at the same time, the first decision of a review stands
\* until another review is opened.
THEOREM DecidedOnce == Spec => ReviewIsDecidedOnce
<1>1. ASSUME ActsInv, [Next]_vars, party.review \in Decisions, party'.review # party.review
      PROVE  party'.review = "UNDECIDED"
    <2>1. PICK r \in Requests : Commit(r)
        BY <1>1 DEF Next, vars, Ask, Advance, Submit, Decide, Restrict, Lift, Suspend, Reinstate,
                    Close, Appeal, Assign, Rule, Begin, Abandon
    <2>2. PICK act \in Acts : act = request[r]
        BY <1>1, Rows
    <2>3. act.op \notin {"SUBMIT", "DECIDE"} => party'.review = party.review
        BY <1>1, <2>1, <2>2, PartyIs DEF Commit, ActsInv
    <2>4. act.op # "DECIDE"
        BY <1>1, <2>1, <2>2 DEF Commit, Accepted, ActsInv, Decided, Decisions
    <2>5. act.op = "SUBMIT" => party'.review = "UNDECIDED"
        BY <1>1, <2>1, <2>2, PartyIs DEF Commit, ActsInv
    <2> QED
        BY <1>1, <2>3, <2>4, <2>5
<1>2. ActsInv /\ [Next]_vars =>
         [party.review \in Decisions /\ party'.review # party.review =>
             party'.review = "UNDECIDED"]_vars
    BY <1>1
<1> QED
    BY <1>2, Invariance, PTL DEF Spec, ReviewIsDecidedOnce
===============================================================================
