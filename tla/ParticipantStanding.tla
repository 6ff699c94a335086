------------------------- MODULE ParticipantStanding -------------------------
(***************************************************************************)
(* The standing of one participant of the marketplace: admission by a review,   *)
(* restrictions by scope, suspension and its reconsideration, and closure.      *)
(*                                                                         *)
(* Every act is a transaction that reads the rows as they are when it begins,   *)
(* decides, and writes when it commits.  Some writes are guarded by the rows    *)
(* as they are then, and some overwrite what was committed in between.          *)
(***************************************************************************)
EXTENDS Naturals, FiniteSets

CONSTANTS
    Requests,  \* acts that may run at the same time
    Scopes,    \* capabilities a restriction withholds
    NoScope

ASSUME NoScopeAssumption == NoScope \notin Scopes

VARIABLES
    party,      \* status and role of the participant; its latest review; its closure
    restricted, \* scopes with an active restriction
    suspension, \* the active suspension, with the status before it, and its reconsideration
    request,    \* acts that have read and not yet committed
    raced       \* an act was committed on facts that another had changed since

vars == <<party, restricted, suspension, request, raced>>

------------------------------------------------------------------------------
\* Vocabulary

DraftWritable == {"DRAFT", "PROFILE_INCOMPLETE", "PROFILE_COMPLETE"}
Admitted      == {"ACTIVE", "RESTRICTED"}
Statuses      == DraftWritable \cup Admitted \cup {"UNDER_REVIEW", "SUSPENDED", "CLOSED"}

Transitions ==
    [DRAFT              |-> {"PROFILE_INCOMPLETE", "CLOSED"},
     PROFILE_INCOMPLETE |-> {"PROFILE_COMPLETE", "CLOSED"},
     PROFILE_COMPLETE   |-> {"PROFILE_INCOMPLETE", "UNDER_REVIEW", "CLOSED"},
     UNDER_REVIEW       |-> {"ACTIVE", "PROFILE_INCOMPLETE", "RESTRICTED", "SUSPENDED", "CLOSED"},
     ACTIVE             |-> {"RESTRICTED", "SUSPENDED", "CLOSED"},
     RESTRICTED         |-> {"ACTIVE", "SUSPENDED", "CLOSED"},
     SUSPENDED          |-> {"ACTIVE", "RESTRICTED", "CLOSED"},
     CLOSED             |-> {}]

Decisions == {"APPROVED", "MORE_INFORMATION_REQUIRED", "REJECTED"}
Reviews   == Decisions \cup {"NONE", "UNDECIDED"}
Roles     == {"DRAFT", "PENDING_ACTIVATION", "ACTIVE"}
Open      == {"RECEIVED", "UNDER_REVIEW"}

Parties == [status : Statuses, role : Roles, review : Reviews, closed : BOOLEAN]

Suspensions == [active : BOOLEAN, before : Statuses,
                appeal : Open \cup {"NONE", "DECIDED"}, ruled : 0..2]

NoSuspension == [active |-> FALSE, before |-> "DRAFT", appeal |-> "NONE", ruled |-> 0]

\* to: the status it is going to write; overtaken: by what since it has read; void: the
\* row it names is gone.
Ops  == {"NONE", "ADVANCE", "SUBMIT", "DECIDE", "RESTRICT", "LIFT", "SUSPEND", "REINSTATE",
         "CLOSE", "APPEAL", "ASSIGN", "RULE"}
Acts == [op : Ops, scope : Scopes \cup {NoScope}, to : Statuses \cup {"KEEP"},
         decision : Decisions \cup {"NONE"}, before : Statuses, overtaken : {"NOT", "ALIKE", "OTHERWISE"},
         void : BOOLEAN]
Rest == [op |-> "NONE", scope |-> NoScope, to |-> "KEEP", decision |-> "NONE",
         before |-> "DRAFT", overtaken |-> "NOT", void |-> FALSE]

Init ==
    /\ party = [status |-> "DRAFT", role |-> "DRAFT", review |-> "NONE", closed |-> FALSE]
    /\ restricted = {}
    /\ suspension = NoSuspension
    /\ request = [r \in Requests |-> Rest]
    /\ raced = FALSE

------------------------------------------------------------------------------
\* What an act decides on the rows as it reads them

Begin(r, act) ==
    /\ request[r] = Rest
    /\ request' = [request EXCEPT ![r] = act]
    /\ UNCHANGED <<party, restricted, suspension, raced>>

\* A participant under review is moved by the review.
Advance(r) == \E to \in DraftWritable \cap Transitions[party.status] :
    /\ party.status # "UNDER_REVIEW"
    /\ Begin(r, [Rest EXCEPT !.op = "ADVANCE", !.to = to])

Submit(r) ==
    /\ party.status = "PROFILE_COMPLETE"
    /\ Begin(r, [Rest EXCEPT !.op = "SUBMIT", !.to = "UNDER_REVIEW"])

\* An approval honours the restrictions that stand; a rejection leaves the status as it is.
AfterDecision ==
    [APPROVED |-> IF restricted = {} THEN "ACTIVE" ELSE "RESTRICTED",
     MORE_INFORMATION_REQUIRED |-> "PROFILE_INCOMPLETE",
     REJECTED |-> "KEEP"]

Decide(r) == \E decision \in Decisions :
    /\ party.review = "UNDECIDED"
    /\ decision = "APPROVED" => ~ suspension.active /\ party.status = "UNDER_REVIEW"
    /\ decision = "MORE_INFORMATION_REQUIRED" =>
          "PROFILE_INCOMPLETE" \in Transitions[party.status]
    /\ Begin(r, [Rest EXCEPT !.op = "DECIDE", !.decision = decision,
                             !.to = AfterDecision[decision]])

\* Only an admitted participant's status follows its restrictions.
Follows == IF party.status \in Admitted THEN "RESTRICTED" ELSE "KEEP"

Restrict(r) == \E s \in Scopes :
    /\ party.status # "CLOSED"
    /\ Begin(r, [Rest EXCEPT !.op = "RESTRICT", !.scope = s, !.to = Follows])

Lift(r) == \E s \in restricted :
    Begin(r, [Rest EXCEPT !.op = "LIFT", !.scope = s, !.to = Follows])

\* Variant: a suspension is written over any status that has the edge.
SuspendsFromReview(status) ==
    IF "SUSPENDED" \in Transitions[status] THEN "SUSPENDED" ELSE "KEEP"

\* There must be admission to withdraw.
SuspendsTo(status) == IF status \in Admitted THEN "SUSPENDED" ELSE "KEEP"

Suspend(r) ==
    /\ party.status \notin {"SUSPENDED", "CLOSED"}
    /\ Begin(r, [Rest EXCEPT !.op = "SUSPEND", !.before = party.status,
                             !.to = SuspendsTo(party.status)])

\* Who was restricted, or has been since, comes back restricted.
ReinstatesTo(status, before, scopes) ==
    LET target == IF before \in Admitted /\ scopes # {} THEN "RESTRICTED"
                  ELSE IF before = "RESTRICTED" THEN "ACTIVE" ELSE before
    IN  IF status = "SUSPENDED" /\ target \in Transitions[status] THEN target ELSE "KEEP"

Reinstate(r) ==
    /\ suspension.active
    /\ Begin(r, [Rest EXCEPT !.op = "REINSTATE",
                             !.to = ReinstatesTo(party.status, suspension.before, restricted)])

Close(r) ==
    /\ party.status # "CLOSED"
    /\ Begin(r, [Rest EXCEPT !.op = "CLOSE", !.to = "CLOSED"])

\* The participant asks once that a standing suspension be looked at again.
Appeal(r) ==
    /\ suspension.active /\ suspension.appeal = "NONE"
    /\ Begin(r, [Rest EXCEPT !.op = "APPEAL"])

Assign(r) ==
    /\ suspension.appeal = "RECEIVED"
    /\ Begin(r, [Rest EXCEPT !.op = "ASSIGN"])

\* A ruling lifts nothing: it is recorded, and a separate act lifts.
Rule(r) ==
    /\ suspension.appeal \in Open
    /\ Begin(r, [Rest EXCEPT !.op = "RULE"])

------------------------------------------------------------------------------
\* What a commit finds, and writes

\* Unique indexes, and updates guarded by the row an act has read.
Accepted(act) ==
    /\ ~ act.void
    /\ act.op = "SUBMIT"   => party.review # "UNDECIDED"
    /\ act.op = "RESTRICT" => act.scope \notin restricted
    /\ act.op = "SUSPEND"  => ~ suspension.active
    /\ act.op = "CLOSE"    => ~ party.closed
    /\ act.op = "APPEAL"   => suspension.appeal \notin Open
    /\ act.op = "RULE"     => suspension.ruled < 2

RestrictedBy(act) ==
    IF act.op = "RESTRICT" THEN restricted \cup {act.scope}
    ELSE IF act.op = "LIFT" THEN restricted \ {act.scope} ELSE restricted

\* Variant: the restrictions decide as they were read.
ConvergesAsRead(act, status, scopes) ==
    IF act.to = "KEEP" THEN status
    ELSE IF status = "ACTIVE" /\ act.op = "RESTRICT" THEN "RESTRICTED"
    ELSE IF status = "RESTRICTED" /\ act.op = "LIFT" /\ scopes = {} /\ act.overtaken = "NOT"
    THEN "ACTIVE" ELSE status

\* The rows decide as the statement finds them, and a suspension dominates.
Converges(act, status, scopes) ==
    IF act.to = "KEEP" \/ suspension.active THEN status
    ELSE IF status = "ACTIVE" /\ scopes # {} THEN "RESTRICTED"
    ELSE IF status = "RESTRICTED" /\ scopes = {} THEN "ACTIVE" ELSE status

StatusBy(act) ==
    IF act.op \in {"RESTRICT", "LIFT"} THEN Converges(act, party.status, RestrictedBy(act))
    ELSE IF act.to = "KEEP" THEN party.status ELSE act.to

PartyBy(act) ==
    [status |-> StatusBy(act),
     role   |-> IF act.op = "SUBMIT" /\ party.role = "DRAFT" THEN "PENDING_ACTIVATION"
                ELSE IF act.decision = "APPROVED" THEN "ACTIVE" ELSE party.role,
     review |-> IF act.op = "SUBMIT" THEN "UNDECIDED"
                ELSE IF act.op = "DECIDE" THEN act.decision ELSE party.review,
     closed |-> party.closed \/ act.op = "CLOSE"]

SuspensionBy(act) ==
    IF act.op = "SUSPEND" THEN [NoSuspension EXCEPT !.active = TRUE, !.before = act.before]
    ELSE IF act.op = "REINSTATE" THEN NoSuspension
    ELSE IF act.op = "APPEAL" THEN [suspension EXCEPT !.appeal = "RECEIVED"]
    ELSE IF act.op = "ASSIGN" THEN [suspension EXCEPT !.appeal = "UNDER_REVIEW"]
    ELSE IF act.op = "RULE" THEN [suspension EXCEPT !.appeal = "DECIDED",
                                                    !.ruled = suspension.ruled + 1]
    ELSE suspension

\* Variant: a review is decided by its identity alone.
TakesAnyReview(act, other) ==
    \/ act.op = "LIFT" /\ other.op = "LIFT" /\ act.scope = other.scope
    \/ act.op = "REINSTATE" /\ other.op \in {"REINSTATE", "APPEAL", "ASSIGN", "RULE"}

\* Acts on the same row: what one takes, the other no longer finds.
Takes(act, other) ==
    \/ act.op = "LIFT" /\ other.op = "LIFT" /\ act.scope = other.scope
    \/ act.op = "DECIDE" /\ other.op = "DECIDE"
    \/ act.op = "REINSTATE" /\ other.op \in {"REINSTATE", "APPEAL", "ASSIGN", "RULE"}

\* Restrictions and their lifting are written to be run at the same time.
Alike(act, other) == {act.op, other.op} \subseteq {"RESTRICT", "LIFT"}

Overtaken(act, other) ==
    [other EXCEPT !.overtaken = IF Alike(act, other) /\ other.overtaken # "OTHERWISE"
                                THEN "ALIKE" ELSE "OTHERWISE",
                  !.void = other.void \/ Takes(act, other)]

Commit(r) ==
    LET act == request[r]
    IN  /\ act # Rest /\ Accepted(act)
        /\ party' = PartyBy(act)
        /\ restricted' = RestrictedBy(act)
        /\ suspension' = SuspensionBy(act)
        /\ raced' = (raced \/ act.overtaken = "OTHERWISE")
        /\ request' = [q \in Requests |->
              IF q = r \/ request[q] = Rest THEN Rest ELSE Overtaken(act, request[q])]

\* It is refused, or the process dies: nothing of it is written.
Abandon(r) ==
    /\ request[r] # Rest
    /\ request' = [request EXCEPT ![r] = Rest]
    /\ UNCHANGED <<party, restricted, suspension, raced>>

Ask(r) == \/ Advance(r) \/ Submit(r) \/ Decide(r) \/ Restrict(r) \/ Lift(r) \/ Suspend(r)
          \/ Reinstate(r) \/ Close(r) \/ Appeal(r) \/ Assign(r) \/ Rule(r)

Next == \E r \in Requests : Ask(r) \/ Commit(r) \/ Abandon(r)

Spec == Init /\ [][Next]_vars

------------------------------------------------------------------------------
\* Types, and what the rows agree on: whoever is admitted, or was when suspended, holds
\* a role that a review activated; who closed has a closure.
TypeOK ==
    /\ party \in Parties
    /\ restricted \subseteq Scopes
    /\ suspension \in Suspensions
    /\ request \in [Requests -> Acts]
    /\ raced \in BOOLEAN

AdmittedByReview ==
    /\ party.status \in Admitted \cup {"SUSPENDED"} => party.role = "ACTIVE"
    /\ suspension.active /\ suspension.before \in Admitted => party.role = "ACTIVE"
    /\ \A r \in Requests :
         request[r].to \in Admitted \cup {"SUSPENDED"} /\ request[r].op # "DECIDE" =>
            party.role = "ACTIVE"

StandingInv ==
    /\ TypeOK
    /\ AdmittedByReview
    /\ party.status = "CLOSED" => party.closed
    /\ party.review = "UNDECIDED" => party.role # "DRAFT"

\* Unless acts other than restrictions and their lifting overtook each other, the status
\* is what the rows say it is, and an appeal is ruled on once.
StatusTellsTheRows ==
    /\ party.closed <=> party.status = "CLOSED"
    /\ party.status = "SUSPENDED" <=>
          suspension.active /\ suspension.before \in Admitted /\ ~ party.closed
    /\ party.status = "RESTRICTED" => restricted # {}
    /\ party.status = "ACTIVE" => restricted = {}
    /\ suspension.ruled <= 1

UnracedStatusTellsTheRows == ~ raced => StatusTellsTheRows

\* A review is decided once, whoever decides at the same time.
ReviewIsDecidedOnce ==
    [][party.review \in Decisions /\ party'.review # party.review =>
          party'.review = "UNDECIDED"]_vars

===============================================================================
