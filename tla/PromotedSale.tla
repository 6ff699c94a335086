---------------------------- MODULE PromotedSale ----------------------------
(***************************************************************************)
(* The terms a product is promoted under: its seller's offers with their        *)
(* versions and scheduled promotions, the authorization of one promoter in      *)
(* cycles, the packages of terms the promoter has accepted, and the checkout    *)
(* that binds a sale to them.                                                   *)
(*                                                                         *)
(* Every act of the seller and of the promoter locks the product first, so it   *)
(* is one step; the instant it decides at was taken before it waited for the    *)
(* lock.  A checkout locks nothing: it reads the rows one query after another.  *)
(***************************************************************************)
EXTENDS Integers, Sequences, FiniteSets, Functions

CONSTANTS
    Buyers,      \* checkouts that may run at the same time
    Horizon,     \* the last instant
    Spans,       \* how long a window may be
    Lag,         \* how old the instant of an act may be when it gets the lock
    MaxOffers,   \* offers ever drafted for the product
    MaxVersions, \* versions of terms, of all offers together
    MaxCycles,   \* authorization cycles
    MaxAcceptances \* packages ever accepted

ASSUME BoundsAssumption ==
    /\ {Horizon, Lag, MaxOffers, MaxVersions, MaxCycles, MaxAcceptances} \subseteq Nat
    /\ Spans \subseteq Nat \ {0}

VARIABLES
    clock,    \* the present instant
    offers,   \* offers of the product, in the order they were drafted
    holder,   \* the offer that holds the product's only place for a live one, or 0
    cycles,   \* states of the authorization cycles; the last one is current
    accepted, \* packages the promoter has accepted, by cycle and offer
    checkout  \* how far each checkout is and what it has read

vars == <<clock, offers, holder, cycles, accepted, checkout>>

------------------------------------------------------------------------------
\* Vocabulary

Instants == 0..Horizon
Never    == Horizon + 1

Ends(from, span) == IF from + span > Horizon THEN Never ELSE from + span

\* A version of terms: standing, or a promotion on the standing version it was made
\* from, with its window and the instant the seller ended it at.
Labels   == Nat \ {0}
Versions == [basis : Nat, from : 0..Never, until : 0..Never, ended : 0..Never]
Standing == [basis |-> 0, from |-> 0, until |-> Never, ended |-> Never]

\* promotion: the last one scheduled, or 0.
Recorded == {"DRAFT", "ACTIVE", "PAUSED", "WITHDRAWN"}
Offers   == [state : Recorded, until : 1..Never, versions : Seq(Versions),
             standing : Labels, promotion : Nat]
Drafted  == [state |-> "DRAFT", until |-> Never, versions |-> <<Standing>>,
             standing |-> 1, promotion |-> 0]

Transitions ==
    [ACTIVATE |-> [from |-> {"DRAFT"}, to |-> "ACTIVE"],
     PAUSE    |-> [from |-> {"ACTIVE"}, to |-> "PAUSED"],
     RESUME   |-> [from |-> {"PAUSED"}, to |-> "ACTIVE"],
     WITHDRAW |-> [from |-> {"DRAFT", "ACTIVE", "PAUSED"}, to |-> "WITHDRAWN"]]

\* Denied, revoked or cancelled, a cycle is over.
CycleTransitions ==
    [REQUESTED |-> {"APPROVED", "OVER"}, APPROVED |-> {"OVER"}, OVER |-> {}]
CycleStates == DOMAIN CycleTransitions

Packages    == [standing : Labels, promotion : Nat]
Acceptances == [cycle : 1..MaxCycles, offer : 1..MaxOffers, package : Packages]

\* What a checkout has read: the offer's row, then the terms in force; the cycle; the
\* acceptance; the row once more and the version it is charged by.
Steps     == {"IDLE", "ROW", "TERMS", "COVERED", "ROW_AGAIN", "READY", "PLACED"}
NoPackage == [standing |-> 1, promotion |-> 0]
Idle      == [step |-> "IDLE", at |-> 0, offer |-> 0, package |-> NoPackage, cycle |-> 0,
              acceptance |-> NoPackage, again |-> 0, row |-> NoPackage, version |-> 0,
              overtaken |-> FALSE]
Checkouts == [step : Steps, at : Instants, offer : 0..MaxOffers, package : Packages,
              cycle : 0..MaxCycles, acceptance : Packages, again : 0..MaxOffers,
              row : Packages, version : Nat, overtaken : BOOLEAN]

Init ==
    /\ clock = 0
    /\ offers = <<>> /\ holder = 0
    /\ cycles = <<>> /\ accepted = {}
    /\ checkout = [b \in Buyers |-> Idle]

------------------------------------------------------------------------------
\* What the rows say at an instant: nothing is written when a window opens or closes

Lifecycle(o, at) ==
    IF o.state \in {"ACTIVE", "PAUSED"} /\ at >= o.until THEN "ENDED" ELSE o.state

Terminal(o, at) == Lifecycle(o, at) \in {"WITHDRAWN", "ENDED"}

Status(v, at) ==
    IF at >= v.ended THEN "ENDED_EARLY"
    ELSE IF at < v.from THEN "SCHEDULED"
    ELSE IF at < v.until THEN "RUNNING" ELSE "ENDED"

PromotionIs(o, promotion, statuses, at) ==
    promotion # 0 /\ Status(o.versions[promotion], at) \in statuses

\* Bound: the versions of all offers together.
VersionsLeft == FoldFunction(LAMBDA o, n : n - Len(o.versions), MaxVersions, offers) > 0

\* Variant: only a promotion that runs is in the way.
PendingWhenRunning(o, at) == PromotionIs(o, o.promotion, {"RUNNING"}, at)

Pending(o, at) == PromotionIs(o, o.promotion, {"SCHEDULED", "RUNNING"}, at)

\* A running promotion is in force with the standing version it was made from.
InForce(o, row, at) ==
    IF PromotionIs(o, row.promotion, {"RUNNING"}, at)
    THEN [standing |-> o.versions[row.promotion].basis, promotion |-> row.promotion]
    ELSE [standing |-> row.standing, promotion |-> 0]

Governs(package) == IF package.promotion # 0 THEN package.promotion ELSE package.standing

RowOf(o) == [standing |-> o.standing, promotion |-> o.promotion]

\* What a promoter may accept: the standing terms, with the promotion that is pending.
Acceptable(o, at) == [RowOf(o) EXCEPT !.promotion = IF Pending(o, at) THEN @ ELSE 0]

\* Variant: whatever the promoter has accepted for the offer, in any cycle.
CoversInAnyCycle(a, cycle, offer, package) ==
    /\ a.offer = offer
    /\ a.package.standing = package.standing
    /\ package.promotion # 0 => a.package.promotion = package.promotion

\* Variant: who accepted the standing terms has accepted what is promoted on them.
CoversByStanding(a, cycle, offer, package) ==
    /\ a.cycle = cycle /\ a.offer = offer
    /\ a.package.standing = package.standing

\* Standing terms are covered by any package that holds them, a promotion only by the
\* package it was accepted in.
Covers(a, cycle, offer, package) ==
    /\ a.cycle = cycle /\ a.offer = offer
    /\ a.package.standing = package.standing
    /\ package.promotion # 0 => a.package.promotion = package.promotion

------------------------------------------------------------------------------
\* Acts of the seller and the promoter, each under the product's lock

Now == {t \in Instants : t <= clock /\ clock - t <= Lag}

\* A checkout under way has been overtaken by an act.
Overtake ==
    checkout' = [b \in Buyers |->
        IF checkout[b].step \in {"IDLE", "PLACED"} THEN checkout[b]
        ELSE [checkout[b] EXCEPT !.overtaken = TRUE]]

\* Variant: the place of the product's offer may be taken from one that is not active.
MayDraftOverPaused(now) ==
    holder # 0 => Lifecycle(offers[holder], now) \in {"ENDED", "PAUSED"}

MayDraft(now) == holder # 0 => Lifecycle(offers[holder], now) = "ENDED"

CreateOffer(now) ==
    /\ Len(offers) < MaxOffers /\ VersionsLeft
    /\ MayDraft(now)
    /\ offers' = Append(offers, Drafted)
    /\ holder' = Len(offers) + 1
    /\ Overtake
    /\ UNCHANGED <<clock, cycles, accepted>>

Changes(i, o) ==
    /\ offers' = [offers EXCEPT ![i] = o]
    /\ Overtake
    /\ UNCHANGED <<clock, holder, cycles, accepted>>

\* New standing terms, under which no promotion may be pending.
ReviseOfferTerms(i, now) ==
    LET o == offers[i] IN
    /\ ~ Terminal(o, now) /\ ~ Pending(o, now)
    /\ VersionsLeft
    /\ Changes(i, [o EXCEPT !.versions = Append(@, Standing),
                            !.standing = Len(o.versions) + 1])

Moves(i, act, now) == Lifecycle(offers[i], now) \in Transitions[act].from

ActivateOffer(i, now) == \E until \in {Ends(now, s) : s \in Spans} \cup {Never} :
    /\ Moves(i, "ACTIVATE", now)
    /\ Changes(i, [offers[i] EXCEPT !.state = "ACTIVE", !.until = until])

PauseOrResumeOffer(i, now) == \E act \in {"PAUSE", "RESUME"} :
    /\ Moves(i, act, now)
    /\ Changes(i, [offers[i] EXCEPT !.state = Transitions[act].to])

\* The product's place is released for another offer.
WithdrawOffer(i, now) ==
    /\ Moves(i, "WITHDRAW", now)
    /\ offers' = [offers EXCEPT ![i].state = "WITHDRAWN"]
    /\ holder' = IF holder = i THEN 0 ELSE holder
    /\ Overtake
    /\ UNCHANGED <<clock, cycles, accepted>>

MintPromotion(i, now) == \E from \in now..Horizon : \E s \in Spans :
    LET o == offers[i] until == Ends(from, s) IN
    /\ Lifecycle(o, now) \in {"ACTIVE", "PAUSED"}
    /\ VersionsLeft
    /\ Changes(i, [o EXCEPT
           !.versions = Append(@, [basis |-> o.standing, from |-> from, until |-> until,
                                   ended |-> Never]),
           !.promotion = Len(o.versions) + 1])

SchedulePromotion(i, now) == ~ Pending(offers[i], now) /\ MintPromotion(i, now)

\* Only what has not begun is replaced.
ReplacePromotion(i, now) ==
    /\ PromotionIs(offers[i], offers[i].promotion, {"SCHEDULED"}, now)
    /\ MintPromotion(i, now)

\* Of two acts that end it, either may be the one that is found.
EndPromotion(i, now) ==
    LET o == offers[i] IN
    /\ Lifecycle(o, now) \in {"ACTIVE", "PAUSED"}
    /\ PromotionIs(o, o.promotion, {"RUNNING"}, now)
    /\ \E found \in {now, o.versions[o.promotion].ended} \ {Never} :
          Changes(i, [o EXCEPT !.versions[o.promotion].ended = found])

\* A new cycle once the current one is over.
RequestAuthorization ==
    /\ Len(cycles) < MaxCycles
    /\ cycles # <<>> => cycles[Len(cycles)] = "OVER"
    /\ cycles' = Append(cycles, "REQUESTED")
    /\ Overtake
    /\ UNCHANGED <<clock, offers, holder, accepted>>

\* The seller approves, denies or revokes; the promoter cancels.
MoveAuthorization ==
    /\ cycles # <<>>
    /\ \E to \in CycleTransitions[cycles[Len(cycles)]] :
          cycles' = [cycles EXCEPT ![Len(cycles)] = to]
    /\ Overtake
    /\ UNCHANGED <<clock, offers, holder, accepted>>

\* The promoter names the package; it must be the one that is acceptable.  The database
\* takes no promotion with other standing terms than it was made from.
AcceptPackage(now) ==
    LET o == offers[holder] package == Acceptable(o, now) IN
    /\ cycles # <<>> /\ cycles[Len(cycles)] = "APPROVED"
    /\ holder # 0 /\ Lifecycle(o, now) = "ACTIVE"
    /\ package.promotion # 0 => o.versions[package.promotion].basis = package.standing
    /\ Cardinality(accepted) < MaxAcceptances
    /\ accepted' = accepted \cup {[cycle |-> Len(cycles), offer |-> holder,
                                   package |-> package]}
    /\ Overtake
    /\ UNCHANGED <<clock, offers, holder, cycles>>

Tick ==
    /\ clock < Horizon
    /\ clock' = clock + 1
    /\ UNCHANGED <<offers, holder, cycles, accepted, checkout>>

------------------------------------------------------------------------------
\* A checkout, decided at the instant it began

Reads(b, c) ==
    /\ checkout' = [checkout EXCEPT ![b] = c]
    /\ UNCHANGED <<clock, offers, holder, cycles, accepted>>

\* It refuses what it cannot sell.
Give(b) ==
    /\ checkout[b].step \in {"ROW", "TERMS", "COVERED", "ROW_AGAIN", "READY"}
    /\ Reads(b, Idle)

ReadOffer(b) ==
    /\ checkout[b].step = "IDLE" /\ holder # 0
    /\ Reads(b, [Idle EXCEPT !.step = "ROW", !.at = clock, !.offer = holder,
                             !.package = RowOf(offers[holder])])

\* The acts on the offer are read after its row.
ReadTerms(b) ==
    LET c == checkout[b] o == offers[c.offer] IN
    /\ c.step = "ROW"
    /\ Lifecycle(o, c.at) = "ACTIVE"
    /\ Reads(b, [c EXCEPT !.step = "TERMS", !.package = InForce(o, c.package, c.at)])

\* The cycle, then its acceptances, which are only ever added while it is approved: what
\* the two reads find is found at one moment.
ReadConsent(b) ==
    LET c == checkout[b] IN
    /\ c.step = "TERMS"
    /\ cycles # <<>> /\ cycles[Len(cycles)] = "APPROVED"
    /\ \E a \in accepted :
          /\ Covers(a, Len(cycles), c.offer, c.package)
          /\ Reads(b, [c EXCEPT !.step = "COVERED", !.package = NoPackage,
                                !.cycle = Len(cycles), !.acceptance = a.package])

\* The terms that set the amounts are resolved by a read of their own.
ReadOfferAgain(b) ==
    /\ checkout[b].step = "COVERED" /\ holder # 0
    /\ Reads(b, [checkout[b] EXCEPT !.step = "ROW_AGAIN", !.again = holder,
                                    !.row = RowOf(offers[holder])])

ReadVersion(b) ==
    LET c == checkout[b] o == offers[c.again] IN
    /\ c.step = "ROW_AGAIN"
    /\ Lifecycle(o, c.at) = "ACTIVE"
    /\ Reads(b, [c EXCEPT !.step = "READY", !.version = Governs(InForce(o, c.row, c.at)),
                          !.again = 0, !.row = NoPackage])

\* The order keeps the cycle, the acceptance and the offer of the first reads and the
\* version of the last, which the database requires to be one of that offer's.
PlaceOrder(b) ==
    /\ checkout[b].step = "READY"
    /\ checkout[b].version \in DOMAIN offers[checkout[b].offer].versions
    /\ Reads(b, [checkout[b] EXCEPT !.step = "PLACED", !.overtaken = FALSE])

\* Paid for, the sale is recorded from what the order names.
Coherent(c) ==
    /\ [cycle |-> c.cycle, offer |-> c.offer, package |-> c.acceptance] \in accepted
    /\ c.version \in {c.acceptance.standing, c.acceptance.promotion}

RecordSale(b) ==
    /\ checkout[b].step = "PLACED" /\ Coherent(checkout[b])
    /\ Reads(b, Idle)

------------------------------------------------------------------------------

Seller == \E now \in Now :
    \/ CreateOffer(now)
    \/ \E i \in DOMAIN offers :
          \/ ReviseOfferTerms(i, now)  \/ ActivateOffer(i, now)
          \/ PauseOrResumeOffer(i, now) \/ WithdrawOffer(i, now)
          \/ SchedulePromotion(i, now) \/ ReplacePromotion(i, now)
          \/ EndPromotion(i, now)

Promoter ==
    \/ RequestAuthorization
    \/ MoveAuthorization
    \/ \E now \in Now : AcceptPackage(now)

Buyer(b) ==
    \/ ReadOffer(b) \/ ReadTerms(b) \/ ReadConsent(b)
    \/ ReadOfferAgain(b) \/ ReadVersion(b) \/ Give(b)
    \/ PlaceOrder(b) \/ RecordSale(b)

Next ==
    \/ Seller
    \/ Promoter
    \/ Tick
    \/ \E b \in Buyers : Buyer(b)

Spec == Init /\ [][Next]_vars

------------------------------------------------------------------------------
\* Properties

TypeOK ==
    /\ clock \in Instants
    /\ offers \in Seq(Offers) /\ Len(offers) <= MaxOffers
    /\ \A i \in DOMAIN offers :
          /\ offers[i].versions # <<>>
          /\ offers[i].standing <= Len(offers[i].versions)
          /\ offers[i].promotion <= Len(offers[i].versions)
    /\ holder \in 0..Len(offers)
    /\ cycles \in Seq(CycleStates) /\ Len(cycles) <= MaxCycles
    /\ accepted \subseteq Acceptances
    /\ checkout \in [Buyers -> Checkouts]

OneLiveOffer == \A i \in DOMAIN offers : i # holder => Terminal(offers[i], clock)

\* However late the lock is granted to an act, a product has one live offer and it is
\* the one everyone resolves (evaluateOfferCreationIn under lockProduct).
PromotedSaleInv == TypeOK /\ OneLiveOffer

\* A promotion that is pending rests on the terms that stand, whatever instants the
\* acts on it took: schedule, replace, end early, revise (offer-service.ts).
PromotionRestsOnStanding == \A i \in DOMAIN offers :
    LET o == offers[i] IN
    Pending(o, clock) /\ ~ Terminal(o, clock) => o.versions[o.promotion].basis = o.standing

\* A sale rests on an acceptance given in the very cycle and for the very offer its
\* order names, however the cycle has ended and begun anew meanwhile.
SaleRestsOnConsent == \A b \in Buyers :
    LET c == checkout[b] IN
    c.step = "PLACED" =>
        [cycle |-> c.cycle, offer |-> c.offer, package |-> c.acceptance] \in accepted

\* An order that no act has overtaken is placed under the terms that are in force at
\* its instant, which the promoter has accepted in the cycle that is approved.
UndisturbedSaleIsCovered == [][\A b \in Buyers :
    LET c == checkout[b] IN
    c.step = "READY" /\ checkout'[b].step = "PLACED" /\ ~ c.overtaken =>
        LET o == offers[holder] terms == InForce(o, RowOf(o), c.at) IN
        /\ c.offer = holder /\ Lifecycle(o, c.at) = "ACTIVE"
        /\ c.version = Governs(terms)
        /\ c.cycle = Len(cycles) /\ cycles[c.cycle] = "APPROVED"
        /\ \E a \in accepted : Covers(a, c.cycle, c.offer, terms)
        /\ Coherent(c)]_vars

\* What an order has bound is one fact: the acceptance covers the version that sets the
\* amounts, so the sale that was paid can be recorded (readPromotedBindingTerms).
BindingIsCoherent == \A b \in Buyers : checkout[b].step = "PLACED" => Coherent(checkout[b])

==============================================================================
