----------------------------- MODULE Sale_proof -----------------------------
(***************************************************************************)
(* A sale rests on terms and consent, and may be disputed.  First          *)
(* PromotedSale, for every number of checkouts and all bounds: a product   *)
(* has one live offer, a pending promotion rests on the terms that stand,  *)
(* an order names a consent that was given, and one that no act has        *)
(* overtaken is placed under the terms in force at its instant.  Then      *)
(* SaleDispute, for any disputes, events, claims, deliveries, operators    *)
(* and fee versions: rows, ledger and decisions fit together, and books    *)
(* that no race has touched reconcile.                                     *)
(***************************************************************************)
EXTENDS PromotedSale, SaleDispute, SequenceTheorems, TLAPS

------------------------------------------------------------------------------
\* The inductive invariant

\* A row names versions of its offer; its promotion was made from one.
RowOK(o, row) ==
    /\ row.standing <= Len(o.versions)
    /\ row.promotion <= Len(o.versions)
    /\ row.promotion # 0 => o.versions[row.promotion].basis # 0

\* What is pending rests on the standing terms, in an offer that is over as well.
OfferOK(o, at) ==
    /\ o.versions # <<>>
    /\ RowOK(o, RowOf(o))
    /\ Pending(o, at) => o.versions[o.promotion].basis = o.standing

Working == {"ROW", "TERMS", "COVERED", "ROW_AGAIN", "READY"}
Bound   == {"COVERED", "ROW_AGAIN", "READY"}

\* What a checkout has read is old, but every row was one of its offer and the consent
\* was given.
ReadsOK(c) ==
    /\ c.step \in Working => c.offer \in DOMAIN offers
    /\ c.step = "ROW" => RowOK(offers[c.offer], c.package)
    /\ c.step = "ROW_AGAIN" => c.again \in DOMAIN offers /\ RowOK(offers[c.again], c.row)
    /\ c.step \in Bound \cup {"PLACED"} =>
         [cycle |-> c.cycle, offer |-> c.offer, package |-> c.acceptance] \in accepted

Terms(c) == InForce(offers[c.offer], RowOf(offers[c.offer]), c.at)

\* What a checkout that no act has overtaken has read is what the rows say.
CurrentOK(c) == c.step \in Working /\ ~ c.overtaken =>
    /\ c.offer = holder
    /\ c.step = "ROW" => c.package = RowOf(offers[c.offer])
    /\ c.step # "ROW" => Lifecycle(offers[c.offer], c.at) = "ACTIVE"
    /\ c.step = "TERMS" => c.package = Terms(c)
    /\ c.step \in Bound =>
         /\ c.cycle = Len(cycles) /\ cycles # <<>> /\ cycles[c.cycle] = "APPROVED"
         /\ \E a \in accepted :
               Covers(a, c.cycle, c.offer, Terms(c)) /\ a.package = c.acceptance
    /\ c.step = "ROW_AGAIN" => c.again = holder /\ c.row = RowOf(offers[c.offer])
    /\ c.step = "READY" => c.version = Governs(Terms(c))

\* The properties, strengthened by what the offers and the reads of a checkout are.
SaleInv ==
    /\ PromotedSaleInv
    /\ \A i \in DOMAIN offers : OfferOK(offers[i], clock)
    /\ \A b \in Buyers : ReadsOK(checkout[b]) /\ CurrentOK(checkout[b])

------------------------------------------------------------------------------
\* The state and its bounds

LEMMA Bounds ==
    /\ Horizon \in Nat /\ Lag \in Nat /\ MaxOffers \in Nat /\ MaxCycles \in Nat
    /\ Never \in Nat /\ Horizon < Never
    /\ \A s \in Spans : s \in Nat /\ s > 0
BY BoundsAssumption DEF Never

\* The offers as a function, and what is known of each.
LEMMA OffersAre ==
    ASSUME SaleInv
    PROVE  /\ Len(offers) \in Nat /\ DOMAIN offers = 1..Len(offers)
           /\ \A i \in DOMAIN offers :
                 /\ offers[i] \in Offers
                 /\ offers[i].standing \in Nat /\ offers[i].promotion \in Nat
                 /\ offers[i].versions \in Seq(Versions)
                 /\ Len(offers[i].versions) \in Nat
                 /\ DOMAIN offers[i].versions = 1..Len(offers[i].versions)
           /\ Len(cycles) \in Nat /\ DOMAIN cycles = 1..Len(cycles)
           /\ \A k \in DOMAIN cycles : cycles[k] \in CycleStates
           /\ clock \in Nat /\ clock <= Horizon
           /\ holder \in Nat /\ holder <= Len(offers)
<1>1. offers \in Seq(Offers) /\ cycles \in Seq(CycleStates) /\ clock \in Instants
    BY DEF SaleInv, PromotedSaleInv, TypeOK
<1>2. Len(offers) \in Nat /\ DOMAIN offers = 1..Len(offers)
    BY <1>1, LenProperties
<1>3. Len(cycles) \in Nat /\ DOMAIN cycles = 1..Len(cycles)
    BY <1>1, LenProperties
<1>4. ASSUME NEW i \in DOMAIN offers
      PROVE  /\ offers[i] \in Offers
             /\ offers[i].standing \in Nat /\ offers[i].promotion \in Nat
             /\ offers[i].versions \in Seq(Versions)
             /\ Len(offers[i].versions) \in Nat
             /\ DOMAIN offers[i].versions = 1..Len(offers[i].versions)
    <2>1. offers[i] \in Offers
        BY <1>1, <1>2, ElementOfSeq
    <2>2. /\ offers[i].versions \in Seq(Versions)
          /\ offers[i].standing \in Nat /\ offers[i].promotion \in Nat
        BY <2>1 DEF Offers, Labels
    <2> QED
        BY <2>1, <2>2, LenProperties
<1>5. \A k \in DOMAIN cycles : cycles[k] \in CycleStates
    BY <1>1, <1>3, ElementOfSeq
<1> QED
    BY <1>1, <1>2, <1>3, <1>4, <1>5, Bounds DEF SaleInv, PromotedSaleInv, TypeOK, Instants

\* An instant that waited for the lock is not in the future.
LEMMA NowIsPast ==
    ASSUME SaleInv, NEW now \in Now
    PROVE  now \in Nat /\ now <= clock /\ now <= Horizon
BY Bounds DEF Now, Instants

------------------------------------------------------------------------------
\* What the rows say of an earlier instant and of a later one

\* The promotion recorded last has a window, when there is one.
LEMMA PromotionIsAVersion ==
    ASSUME NEW o \in Offers, o.promotion <= Len(o.versions), o.promotion # 0
    PROVE  /\ o.promotion \in 1..Len(o.versions)
           /\ o.versions[o.promotion] \in Versions
<1>1. o.versions \in Seq(Versions) /\ o.promotion \in Nat
    BY DEF Offers
<1>2. Len(o.versions) \in Nat /\ o.promotion \in 1..Len(o.versions)
    BY <1>1, LenProperties
<1> QED
    BY <1>1, <1>2, ElementOfSeq

\* A window that has closed, or was closed, stays closed.
LEMMA PendingBefore ==
    ASSUME NEW o \in Offers, o.promotion <= Len(o.versions),
           NEW now \in Nat, NEW at \in Nat, now <= at, Pending(o, at)
    PROVE  Pending(o, now)
<1>1. o.promotion # 0
    BY DEF Pending, PromotionIs
<1>2. PICK v \in Versions : v = o.versions[o.promotion]
    BY <1>1, PromotionIsAVersion
<1>3. v.from \in Nat /\ v.until \in Nat /\ v.ended \in Nat
    BY Bounds DEF Versions
<1> QED
    BY <1>1, <1>2, <1>3 DEF Pending, PromotionIs, Status

\* An offer that is over stays over.
LEMMA TerminalAfter ==
    ASSUME NEW o \in Offers, NEW now \in Nat, NEW at \in Nat, now <= at, Terminal(o, now)
    PROVE  Terminal(o, at)
<1>1. o.until \in Nat /\ o.state \in Recorded
    BY Bounds DEF Offers
<1> QED
    BY <1>1 DEF Terminal, Lifecycle, Recorded

------------------------------------------------------------------------------
\* Acts of the seller and the promoter

\* An offer keeps its versions and what they were made from.
Grown(o, p) ==
    /\ Len(o.versions) <= Len(p.versions)
    /\ \A n \in 1..Len(o.versions) : p.versions[n].basis = o.versions[n].basis

\* A row that was read stays one of the offer.
LEMMA RowsStay ==
    ASSUME NEW o \in Offers, NEW p \in Offers, Grown(o, p), NEW row \in Packages,
           RowOK(o, row)
    PROVE  RowOK(p, row)
<1>1. Len(o.versions) \in Nat /\ Len(p.versions) \in Nat
    BY LenProperties DEF Offers
<1>2. row.standing \in Nat /\ row.promotion \in Nat
    BY DEF Packages, Labels
<1> QED
    BY <1>1, <1>2 DEF RowOK, Grown

\* An act overtakes the checkouts under way; what they have read was so.
LEMMA ActStep ==
    ASSUME SaleInv, Overtake, clock' = clock,
           offers' \in Seq(Offers), Len(offers) <= Len(offers'), Len(offers') <= MaxOffers,
           holder' \in 0..Len(offers'),
           cycles' \in Seq(CycleStates), Len(cycles') <= MaxCycles,
           accepted \subseteq accepted', accepted' \subseteq Acceptances,
           \A i \in DOMAIN offers : Grown(offers[i], offers'[i]),
           \A i \in DOMAIN offers' : /\ OfferOK(offers'[i], clock)
                                     /\ i # holder' => Terminal(offers'[i], clock)
    PROVE  SaleInv'
<1>1. Len(offers') \in Nat /\ DOMAIN offers' = 1..Len(offers')
    BY LenProperties
<1>2. \A i \in DOMAIN offers' : offers'[i] \in Offers
    BY <1>1, ElementOfSeq
<1>3. checkout' \in [Buyers -> Checkouts]
    <2>1. \A b \in Buyers : checkout[b] \in Checkouts
        BY DEF SaleInv, PromotedSaleInv, TypeOK
    <2>2. \A c \in Checkouts : [c EXCEPT !.overtaken = TRUE] \in Checkouts
        BY DEF Checkouts
    <2> QED
        BY <2>1, <2>2 DEF Overtake
<1>4. PromotedSaleInv'
    BY <1>1, <1>3 DEF SaleInv, PromotedSaleInv, TypeOK, OneLiveOffer, OfferOK, RowOK, RowOf
<1>5. ASSUME NEW b \in Buyers
      PROVE  ReadsOK(checkout[b])' /\ CurrentOK(checkout[b])'
    <2> PICK c \in Checkouts : c = checkout[b]
        BY DEF SaleInv, PromotedSaleInv, TypeOK
    <2>1. ReadsOK(c)
        BY DEF SaleInv
    <2>2. PICK d \in Checkouts : d = checkout'[b]
        BY <1>3
    <2>3. CASE c.step \in {"IDLE", "PLACED"}
        <3>1. d = c
            BY <2>2, <2>3 DEF Overtake
        <3> QED
            BY <3>1, <2>1, <2>2, <2>3 DEF ReadsOK, CurrentOK, Working, Bound
    <2>4. CASE c.step \notin {"IDLE", "PLACED"}
        <3>1. /\ d.step = c.step /\ d.offer = c.offer /\ d.package = c.package
              /\ d.cycle = c.cycle /\ d.acceptance = c.acceptance
              /\ d.again = c.again /\ d.row = c.row /\ d.overtaken = TRUE
            BY <2>2, <2>4 DEF Overtake, Checkouts
        <3>2. c.step \in Working
            BY <2>4 DEF Checkouts, Steps, Working
        <3>3. DOMAIN offers \subseteq DOMAIN offers'
            BY <1>1, OffersAre
        <3>4. c.step = "ROW" => RowOK(offers'[c.offer], c.package)
            BY <2>1, <3>2, <3>3, <1>2, OffersAre, RowsStay DEF ReadsOK, Checkouts
        <3>5. c.step = "ROW_AGAIN" =>
                  c.again \in DOMAIN offers' /\ RowOK(offers'[c.again], c.row)
            BY <2>1, <3>3, <1>2, OffersAre, RowsStay DEF ReadsOK, Checkouts
        <3>6. c.offer \in DOMAIN offers'
            BY <2>1, <3>2, <3>3 DEF ReadsOK
        <3>7. c.step \in Bound \cup {"PLACED"} =>
                  [cycle |-> c.cycle, offer |-> c.offer, package |-> c.acceptance] \in accepted'
            BY <2>1 DEF ReadsOK
        <3> QED
            BY <2>2, <3>1, <3>4, <3>5, <3>6, <3>7 DEF ReadsOK, CurrentOK
    <2> QED
        BY <2>3, <2>4
<1> QED
    BY <1>4, <1>5 DEF SaleInv

\* One offer is changed under the lock.
LEMMA OfferChange ==
    ASSUME SaleInv, NEW i \in DOMAIN offers, NEW o \in Offers,
           OfferOK(o, clock), Grown(offers[i], o),
           i # holder => Terminal(o, clock), Changes(i, o)
    PROVE  SaleInv'
<1>1. /\ offers \in Seq(Offers) /\ Len(offers) <= MaxOffers /\ OneLiveOffer
      /\ cycles \in Seq(CycleStates) /\ Len(cycles) <= MaxCycles
      /\ accepted \subseteq Acceptances /\ holder \in 0..Len(offers)
    BY DEF SaleInv, PromotedSaleInv, TypeOK
<1>2. /\ offers' \in Seq(Offers) /\ Len(offers') = Len(offers)
      /\ \A j \in 1..Len(offers) : offers'[j] = IF j = i THEN o ELSE offers[j]
    <2>1. i \in 1..Len(offers) /\ offers' = [offers EXCEPT ![i] = o]
        BY OffersAre DEF Changes
    <2> QED
        BY <1>1, <2>1, ExceptSeq
<1>3. DOMAIN offers' = 1..Len(offers) /\ DOMAIN offers = 1..Len(offers) /\ Len(offers) \in Nat
    BY <1>2, OffersAre, LenProperties
<1>4. \A j \in DOMAIN offers : Grown(offers[j], offers'[j])
    <2>1. \A j \in DOMAIN offers : Grown(offers[j], offers[j])
        BY OffersAre DEF Grown
    <2> QED
        BY <1>2, <1>3, <2>1
<1>5. \A j \in DOMAIN offers' : /\ OfferOK(offers'[j], clock)
                                /\ j # holder' => Terminal(offers'[j], clock)
    BY <1>1, <1>2, <1>3 DEF Changes, SaleInv, OneLiveOffer
<1> QED
    BY <1>1, <1>2, <1>3, <1>4, <1>5, ActStep DEF Changes

\* An offer with one version more, and one in another state.
Versioned(o, v, standing, promotion) ==
    [o EXCEPT !.versions = Append(@, v), !.standing = standing, !.promotion = promotion]
Moved(o, state, until) == [o EXCEPT !.state = state, !.until = until]

LEMMA VersionAppended ==
    ASSUME NEW o \in Offers, NEW v \in Versions, NEW n \in Labels,
           n <= Len(o.versions) + 1, NEW m \in Nat,
           NEW p, p = Versioned(o, v, n, m)
    PROVE  /\ p \in Offers /\ Grown(o, p) /\ p.versions # <<>>
           /\ Len(p.versions) = Len(o.versions) + 1
           /\ p.versions[Len(o.versions) + 1] = v
           /\ \A k \in 1..Len(o.versions) : p.versions[k] = o.versions[k]
           /\ p.standing = n /\ p.promotion = m
           /\ p.state = o.state /\ p.until = o.until
<1>1. o.versions \in Seq(Versions)
    BY DEF Offers
<1>2. Len(o.versions) \in Nat
    BY <1>1, LenProperties
<1>3. /\ Append(o.versions, v) \in Seq(Versions)
      /\ Len(Append(o.versions, v)) = Len(o.versions) + 1
      /\ \A k \in 1..Len(o.versions) : Append(o.versions, v)[k] = o.versions[k]
      /\ Append(o.versions, v)[Len(o.versions) + 1] = v
    BY <1>1, AppendProperties
<1>4. /\ p \in Offers /\ p.versions = Append(o.versions, v)
      /\ p.standing = n /\ p.promotion = m /\ p.state = o.state /\ p.until = o.until
    BY <1>3 DEF Offers, Versioned
<1> QED
    BY <1>2, <1>3, <1>4, EmptySeq DEF Grown

LEMMA StandingIsAVersion == Standing \in Versions
BY Bounds DEF Standing, Versions

LEMMA CreateOfferStep ==
    ASSUME SaleInv, NEW now \in Now, CreateOffer(now)
    PROVE  SaleInv'
<1>1. /\ offers \in Seq(Offers) /\ Len(offers) < MaxOffers /\ OneLiveOffer
      /\ cycles \in Seq(CycleStates) /\ Len(cycles) <= MaxCycles
      /\ accepted \subseteq Acceptances
    BY DEF SaleInv, PromotedSaleInv, TypeOK, CreateOffer
<1>2. Drafted \in Offers
    <2>1. <<Standing>> \in Seq(Versions)
        BY StandingIsAVersion
    <2> QED
        BY <2>1, Bounds DEF Drafted, Offers, Recorded, Labels
<1>3. OfferOK(Drafted, clock)
    BY DEF OfferOK, Drafted, RowOK, RowOf, Pending, PromotionIs
<1>4. /\ offers' \in Seq(Offers) /\ Len(offers') = Len(offers) + 1
      /\ \A j \in 1..Len(offers) : offers'[j] = offers[j]
      /\ offers'[Len(offers) + 1] = Drafted
    BY <1>1, <1>2, AppendProperties DEF CreateOffer
<1>5. DOMAIN offers' = 1..(Len(offers) + 1) /\ DOMAIN offers = 1..Len(offers)
      /\ Len(offers) \in Nat /\ holder' = Len(offers) + 1
    BY <1>4, OffersAre, LenProperties DEF CreateOffer
<1>6. \A j \in DOMAIN offers : Terminal(offers[j], clock)
    <2> SUFFICES ASSUME holder # 0, MayDraft(now) PROVE Terminal(offers[holder], clock)
        BY <1>1 DEF OneLiveOffer, CreateOffer
    <2>1. holder \in DOMAIN offers
        BY OffersAre
    <2> QED
        BY <2>1, OffersAre, NowIsPast, TerminalAfter DEF MayDraft, Terminal
<1>7. \A j \in DOMAIN offers : Grown(offers[j], offers'[j])
    BY <1>4, <1>5, OffersAre DEF Grown
<1>8. \A j \in DOMAIN offers' : /\ OfferOK(offers'[j], clock)
                                /\ j # holder' => Terminal(offers'[j], clock)
    BY <1>3, <1>4, <1>5, <1>6 DEF SaleInv
<1> QED
    BY <1>1, <1>4, <1>5, <1>7, <1>8, Bounds, ActStep DEF CreateOffer

\* No promotion is pending on the terms that are replaced.
LEMMA ReviseOfferTermsStep ==
    ASSUME SaleInv, NEW now \in Now, NEW i \in DOMAIN offers, ReviseOfferTerms(i, now)
    PROVE  SaleInv'
<1> PICK o \in Offers : o = offers[i]
    BY OffersAre
<1>1. /\ Len(o.versions) \in Nat /\ o.standing \in Nat /\ o.promotion \in Nat
      /\ OfferOK(o, clock) /\ RowOK(o, RowOf(o))
    BY OffersAre DEF SaleInv, OfferOK
<1> PICK p : p = [o EXCEPT !.versions = Append(@, Standing), !.standing = Len(o.versions) + 1]
    OBVIOUS
<1>2. p = Versioned(o, Standing, Len(o.versions) + 1, o.promotion)
    BY DEF Offers, Versioned
<1>3. /\ p \in Offers /\ Grown(o, p) /\ p.versions # <<>>
      /\ Len(p.versions) = Len(o.versions) + 1
      /\ \A k \in 1..Len(o.versions) : p.versions[k] = o.versions[k]
      /\ p.standing = Len(o.versions) + 1 /\ p.promotion = o.promotion
      /\ p.state = o.state /\ p.until = o.until
    BY <1>1, <1>2, StandingIsAVersion, VersionAppended DEF Labels
<1>4. o.promotion <= Len(o.versions) /\ (o.promotion # 0 => o.versions[o.promotion].basis # 0)
    BY <1>1 DEF RowOK, RowOf
<1>5. ~ Pending(o, clock)
    BY <1>4, NowIsPast, OffersAre, PendingBefore DEF ReviseOfferTerms
<1>6. ~ Pending(p, clock)
    BY <1>1, <1>3, <1>4, <1>5 DEF Pending, PromotionIs
<1>7. OfferOK(p, clock)
    BY <1>1, <1>3, <1>4, <1>6 DEF OfferOK, RowOK, RowOf
<1>8. i # holder => Terminal(p, clock)
    BY <1>3 DEF SaleInv, PromotedSaleInv, OneLiveOffer, Terminal, Lifecycle
<1> QED
    BY <1>3, <1>7, <1>8, OfferChange DEF ReviseOfferTerms

\* The state and the end of an offer say nothing of its terms.
LEMMA MovesTermsStay ==
    ASSUME SaleInv, NEW i \in DOMAIN offers, NEW state \in Recorded, NEW until \in 1..Never,
           NEW p, p = Moved(offers[i], state, until)
    PROVE  /\ p \in Offers /\ Grown(offers[i], p) /\ OfferOK(p, clock)
           /\ p.state = state /\ p.until = until
<1> PICK o \in Offers : o = offers[i]
    BY OffersAre
<1>1. Len(o.versions) \in Nat /\ OfferOK(o, clock)
    BY OffersAre DEF SaleInv
<1>2. /\ p \in Offers /\ p.versions = o.versions /\ p.state = state /\ p.until = until
      /\ p.standing = o.standing /\ p.promotion = o.promotion
    BY DEF Offers, Moved
<1> QED
    BY <1>1, <1>2 DEF Grown, OfferOK, RowOK, RowOf, Pending, PromotionIs

LEMMA ActivateOfferStep ==
    ASSUME SaleInv, NEW now \in Now, NEW i \in DOMAIN offers, ActivateOffer(i, now)
    PROVE  SaleInv'
<1>1. PICK until \in {Ends(now, s) : s \in Spans} \cup {Never} :
          /\ Moves(i, "ACTIVATE", now)
          /\ Changes(i, [offers[i] EXCEPT !.state = "ACTIVE", !.until = until])
    BY DEF ActivateOffer
<1>2. until \in 1..Never
    BY Bounds, NowIsPast DEF Ends, Never
<1>3. offers[i].state = "DRAFT"
    BY <1>1 DEF Moves, Transitions, Lifecycle
<1>4. ~ Terminal(offers[i], clock)
    BY <1>3 DEF Terminal, Lifecycle
<1>5. i = holder
    BY <1>4 DEF SaleInv, PromotedSaleInv, OneLiveOffer
<1> PICK p : p = [offers[i] EXCEPT !.state = "ACTIVE", !.until = until]
    OBVIOUS
<1>6. p \in Offers /\ Grown(offers[i], p) /\ OfferOK(p, clock)
    <2>1. p = Moved(offers[i], "ACTIVE", until) /\ "ACTIVE" \in Recorded
        BY DEF Moved, Recorded
    <2> QED
        BY <1>2, <2>1, MovesTermsStay
<1> QED
    BY <1>1, <1>5, <1>6, OfferChange

\* An offer that is over at the present instant stays over, though the act may have
\* taken an instant at which it was not.
LEMMA PauseOrResumeOfferStep ==
    ASSUME SaleInv, NEW now \in Now, NEW i \in DOMAIN offers, PauseOrResumeOffer(i, now)
    PROVE  SaleInv'
<1>1. PICK act \in {"PAUSE", "RESUME"} :
          /\ Moves(i, act, now)
          /\ Changes(i, [offers[i] EXCEPT !.state = Transitions[act].to])
    BY DEF PauseOrResumeOffer
<1> PICK o \in Offers : o = offers[i]
    BY OffersAre
<1> PICK state \in {"ACTIVE", "PAUSED"} : state = Transitions[act].to
    BY DEF Transitions
<1>2. o.state \in {"ACTIVE", "PAUSED"}
    BY <1>1 DEF Moves, Transitions, Lifecycle
<1> PICK p : p = [o EXCEPT !.state = state]
    OBVIOUS
<1>3. p = Moved(offers[i], state, o.until) /\ o.until \in 1..Never /\ state \in Recorded
    BY DEF Offers, Moved, Recorded
<1>4. /\ p \in Offers /\ Grown(offers[i], p) /\ OfferOK(p, clock)
      /\ p.state = state /\ p.until = o.until
    BY <1>3, MovesTermsStay
<1>5. i # holder => Terminal(p, clock)
    BY <1>2, <1>4 DEF SaleInv, PromotedSaleInv, OneLiveOffer, Terminal, Lifecycle
<1> QED
    BY <1>1, <1>4, <1>5, OfferChange

LEMMA WithdrawOfferStep ==
    ASSUME SaleInv, NEW now \in Now, NEW i \in DOMAIN offers, WithdrawOffer(i, now)
    PROVE  SaleInv'
<1>1. /\ offers \in Seq(Offers) /\ Len(offers) <= MaxOffers /\ OneLiveOffer
      /\ cycles \in Seq(CycleStates) /\ Len(cycles) <= MaxCycles
      /\ accepted \subseteq Acceptances /\ holder \in 0..Len(offers)
    BY DEF SaleInv, PromotedSaleInv, TypeOK
<1> PICK o \in Offers : o = offers[i]
    BY OffersAre
<1> PICK p : p = [o EXCEPT !.state = "WITHDRAWN"]
    OBVIOUS
<1>2. /\ p = Moved(offers[i], "WITHDRAWN", o.until) /\ o.until \in 1..Never
      /\ "WITHDRAWN" \in Recorded
    BY DEF Offers, Moved, Recorded
<1>3. /\ p \in Offers /\ Grown(o, p) /\ OfferOK(p, clock) /\ p.state = "WITHDRAWN"
    BY <1>2, MovesTermsStay
<1>4. Terminal(p, clock)
    BY <1>3 DEF Terminal, Lifecycle
<1>5. i \in 1..Len(offers) /\ offers' = [offers EXCEPT ![i] = p]
    BY OffersAre DEF WithdrawOffer
<1>6. /\ offers' \in Seq(Offers) /\ Len(offers') = Len(offers)
      /\ \A j \in 1..Len(offers) : offers'[j] = IF j = i THEN p ELSE offers[j]
    BY <1>1, <1>3, <1>5, ExceptSeq
<1>7. DOMAIN offers' = 1..Len(offers) /\ DOMAIN offers = 1..Len(offers) /\ Len(offers) \in Nat
    BY <1>6, OffersAre, LenProperties
<1>8. \A j \in DOMAIN offers : Grown(offers[j], offers'[j])
    <2>1. \A j \in DOMAIN offers : Grown(offers[j], offers[j])
        BY OffersAre DEF Grown
    <2> QED
        BY <1>3, <1>6, <1>7, <2>1
<1>9. \A j \in DOMAIN offers' : /\ OfferOK(offers'[j], clock)
                                /\ j # holder' => Terminal(offers'[j], clock)
    BY <1>1, <1>3, <1>4, <1>6, <1>7 DEF WithdrawOffer, SaleInv, OneLiveOffer
<1>10. holder' \in 0..Len(offers')
    BY <1>1, <1>6, <1>7 DEF WithdrawOffer
<1>11. Overtake /\ UNCHANGED <<clock, cycles, accepted>>
    BY DEF WithdrawOffer
<1>12. Len(offers) <= Len(offers') /\ Len(offers') <= MaxOffers
    BY <1>1, <1>6, <1>7
<1> QED
    BY <1>1, <1>6, <1>8, <1>9, <1>10, <1>11, <1>12, ActStep

\* A promotion is made from the terms that stand.
LEMMA MintPromotionStep ==
    ASSUME SaleInv, NEW now \in Now, NEW i \in DOMAIN offers, MintPromotion(i, now)
    PROVE  SaleInv'
<1> PICK o \in Offers : o = offers[i]
    BY OffersAre
<1>1. /\ Len(o.versions) \in Nat /\ o.standing \in Labels
      /\ OfferOK(o, clock) /\ RowOK(o, RowOf(o))
    BY OffersAre DEF SaleInv, OfferOK, Offers
<1>2. PICK from \in now..Horizon : \E s \in Spans :
          LET until == Ends(from, s) IN
          Changes(i, [o EXCEPT
              !.versions = Append(@, [basis |-> o.standing, from |-> from, until |-> until,
                                      ended |-> Never]),
              !.promotion = Len(o.versions) + 1])
    BY DEF MintPromotion
<1>3. PICK s \in Spans : Changes(i, [o EXCEPT
          !.versions = Append(@, [basis |-> o.standing, from |-> from,
                                  until |-> Ends(from, s), ended |-> Never]),
          !.promotion = Len(o.versions) + 1])
    BY <1>2
<1> PICK v : v = [basis |-> o.standing, from |-> from, until |-> Ends(from, s), ended |-> Never]
    OBVIOUS
<1>4. v \in Versions /\ v.basis = o.standing /\ o.standing \in Nat /\ o.standing # 0
    BY <1>1, Bounds, NowIsPast DEF Versions, Ends, Never, Labels
<1> PICK p : p = [o EXCEPT !.versions = Append(@, v), !.promotion = Len(o.versions) + 1]
    OBVIOUS
<1>5. p = Versioned(o, v, o.standing, Len(o.versions) + 1)
    BY DEF Offers, Versioned
<1>6. o.standing <= Len(o.versions) /\ o.standing <= Len(o.versions) + 1
    BY <1>1, <1>4 DEF RowOK, RowOf
<1>7. /\ p \in Offers /\ Grown(o, p) /\ p.versions # <<>>
      /\ Len(p.versions) = Len(o.versions) + 1
      /\ p.versions[Len(o.versions) + 1] = v
      /\ p.standing = o.standing /\ p.promotion = Len(o.versions) + 1
      /\ p.state = o.state /\ p.until = o.until
    BY <1>1, <1>4, <1>5, <1>6, VersionAppended
<1>8. OfferOK(p, clock)
    BY <1>1, <1>4, <1>6, <1>7 DEF OfferOK, RowOK, RowOf
<1>9. i # holder => Terminal(p, clock)
    BY <1>7 DEF SaleInv, PromotedSaleInv, OneLiveOffer, Terminal, Lifecycle
<1> QED
    BY <1>3, <1>7, <1>8, <1>9, OfferChange

\* What was pending may be over; nothing becomes pending.
LEMMA EndPromotionStep ==
    ASSUME SaleInv, NEW now \in Now, NEW i \in DOMAIN offers, EndPromotion(i, now)
    PROVE  SaleInv'
<1> PICK o \in Offers : o = offers[i]
    BY OffersAre
<1>1. /\ Len(o.versions) \in Nat /\ DOMAIN o.versions = 1..Len(o.versions)
      /\ o.versions \in Seq(Versions)
      /\ OfferOK(o, clock) /\ RowOK(o, RowOf(o))
    BY OffersAre DEF SaleInv, OfferOK
<1> PICK m : m = o.promotion
    OBVIOUS
<1>2. PromotionIs(o, m, {"RUNNING"}, now)
    BY DEF EndPromotion
<1>3. m # 0 /\ m \in 1..Len(o.versions) /\ o.versions[m] \in Versions
    BY <1>1, <1>2, PromotionIsAVersion DEF PromotionIs, RowOK, RowOf
<1> PICK v \in Versions : v = o.versions[m]
    BY <1>3
<1>4. /\ v.from \in Nat /\ v.until \in Nat /\ v.ended \in 0..Never
      /\ now \in Nat /\ now <= clock /\ clock \in Nat /\ now \in 0..Never
    <2>1. v.from \in Nat /\ v.until \in Nat /\ v.ended \in 0..Never
        BY Bounds DEF Versions
    <2>2. clock \in Nat /\ clock <= Horizon /\ now \in Nat /\ now <= clock
        BY NowIsPast, OffersAre
    <2> QED
        BY <2>1, <2>2, Bounds
<1>5. PICK found \in {now, v.ended} \ {Never} :
          Changes(i, [o EXCEPT !.versions[m].ended = found])
    BY DEF EndPromotion
<1> PICK w : w = [v EXCEPT !.ended = found]
    OBVIOUS
<1>6. /\ w \in Versions /\ w.basis = v.basis /\ w.from = v.from /\ w.until = v.until
      /\ w.ended \in {now, v.ended}
    BY <1>4 DEF Versions
<1>7. Status(w, clock) \in {"SCHEDULED", "RUNNING"} => Status(v, clock) \in {"SCHEDULED", "RUNNING"}
    BY <1>4, <1>6 DEF Status
<1> PICK versions : versions = [o.versions EXCEPT ![m] = w]
    OBVIOUS
<1>8. /\ versions \in Seq(Versions) /\ Len(versions) = Len(o.versions)
      /\ \A k \in 1..Len(o.versions) : versions[k] = IF k = m THEN w ELSE o.versions[k]
    BY <1>1, <1>3, <1>6, ExceptSeq
<1> PICK p : p = [o EXCEPT !.versions = versions]
    OBVIOUS
<1>9. p = [o EXCEPT !.versions[m].ended = found]
    OBVIOUS
<1>10. /\ p \in Offers /\ p.versions = versions /\ p.state = o.state /\ p.until = o.until
       /\ p.standing = o.standing /\ p.promotion = m
    BY <1>8 DEF Offers
<1>11. \A k \in 1..Len(o.versions) : p.versions[k].basis = o.versions[k].basis
    BY <1>6, <1>8, <1>10
<1>12. Grown(o, p)
    BY <1>1, <1>8, <1>10, <1>11 DEF Grown
<1>13. RowOK(p, RowOf(p))
    BY <1>1, <1>3, <1>8, <1>10, <1>11 DEF RowOK, RowOf
<1>14. Pending(p, clock) => Pending(o, clock)
    BY <1>3, <1>7, <1>8, <1>10 DEF Pending, PromotionIs
<1>15. p.versions # <<>>
    BY <1>1, <1>3, <1>8, <1>10, EmptySeq
<1>16. OfferOK(p, clock)
    BY <1>1, <1>3, <1>10, <1>11, <1>13, <1>14, <1>15 DEF OfferOK
<1>17. i # holder => Terminal(p, clock)
    BY <1>10 DEF SaleInv, PromotedSaleInv, OneLiveOffer, Terminal, Lifecycle
<1> QED
    BY <1>5, <1>9, <1>10, <1>12, <1>16, <1>17, OfferChange

LEMMA SellerStep ==
    ASSUME SaleInv, Seller
    PROVE  SaleInv'
BY CreateOfferStep, ReviseOfferTermsStep, ActivateOfferStep, PauseOrResumeOfferStep,
   WithdrawOfferStep, MintPromotionStep, EndPromotionStep
   DEF Seller, SchedulePromotion, ReplacePromotion

\* The promoter's acts leave the offers as they are.
LEMMA PromoterActStep ==
    ASSUME SaleInv, Overtake, UNCHANGED <<clock, offers, holder>>,
           cycles' \in Seq(CycleStates), Len(cycles') <= MaxCycles,
           accepted \subseteq accepted', accepted' \subseteq Acceptances
    PROVE  SaleInv'
<1>1. /\ offers' \in Seq(Offers) /\ Len(offers) <= Len(offers') /\ Len(offers') <= MaxOffers
      /\ holder' \in 0..Len(offers')
    BY OffersAre DEF SaleInv, PromotedSaleInv, TypeOK
<1>2. \A i \in DOMAIN offers : Grown(offers[i], offers'[i])
    BY OffersAre DEF Grown
<1>3. \A i \in DOMAIN offers' : /\ OfferOK(offers'[i], clock)
                                /\ i # holder' => Terminal(offers'[i], clock)
    BY DEF SaleInv, PromotedSaleInv, OneLiveOffer
<1> QED
    BY <1>1, <1>2, <1>3, ActStep

LEMMA RequestAuthorizationStep ==
    ASSUME SaleInv, RequestAuthorization
    PROVE  SaleInv'
<1>1. cycles \in Seq(CycleStates) /\ accepted \subseteq Acceptances
    BY DEF SaleInv, PromotedSaleInv, TypeOK
<1>2. "REQUESTED" \in CycleStates
    BY DEF CycleStates, CycleTransitions
<1>3. cycles' \in Seq(CycleStates) /\ Len(cycles') = Len(cycles) + 1
    BY <1>1, <1>2, AppendProperties DEF RequestAuthorization
<1>4. Len(cycles') <= MaxCycles
    BY <1>3, OffersAre, Bounds DEF RequestAuthorization
<1> QED
    BY <1>1, <1>3, <1>4, PromoterActStep DEF RequestAuthorization

LEMMA MoveAuthorizationStep ==
    ASSUME SaleInv, MoveAuthorization
    PROVE  SaleInv'
<1>1. cycles \in Seq(CycleStates) /\ accepted \subseteq Acceptances /\ Len(cycles) <= MaxCycles
    BY DEF SaleInv, PromotedSaleInv, TypeOK
<1>2. Len(cycles) \in 1..Len(cycles)
    BY <1>1, EmptySeq DEF MoveAuthorization
<1>3. cycles[Len(cycles)] \in CycleStates
    BY <1>2, OffersAre
<1>4. PICK to \in CycleTransitions[cycles[Len(cycles)]] :
          cycles' = [cycles EXCEPT ![Len(cycles)] = to]
    BY DEF MoveAuthorization
<1>5. to \in CycleStates
    BY <1>3, <1>4 DEF CycleStates, CycleTransitions
<1>6. cycles' \in Seq(CycleStates) /\ Len(cycles') = Len(cycles)
    BY <1>1, <1>2, <1>4, <1>5, ExceptSeq
<1> QED
    BY <1>1, <1>6, PromoterActStep DEF MoveAuthorization

LEMMA AcceptPackageStep ==
    ASSUME SaleInv, NEW now \in Now, AcceptPackage(now)
    PROVE  SaleInv'
<1>1. /\ cycles \in Seq(CycleStates) /\ accepted \subseteq Acceptances
      /\ Len(cycles) <= MaxCycles /\ Len(offers) <= MaxOffers
    BY DEF SaleInv, PromotedSaleInv, TypeOK
<1>2. holder \in DOMAIN offers /\ holder \in 1..MaxOffers
    BY <1>1, OffersAre, Bounds DEF AcceptPackage
<1>3. Len(cycles) \in 1..MaxCycles
    BY <1>1, EmptySeq, OffersAre, Bounds DEF AcceptPackage
<1> PICK package : package = Acceptable(offers[holder], now)
    OBVIOUS
<1>4. package \in Packages
    BY <1>2, OffersAre DEF Acceptable, RowOf, Packages, Offers
<1>5. accepted' = accepted \cup {[cycle |-> Len(cycles), offer |-> holder, package |-> package]}
    BY DEF AcceptPackage
<1>6. [cycle |-> Len(cycles), offer |-> holder, package |-> package] \in Acceptances
    BY <1>2, <1>3, <1>4 DEF Acceptances
<1> QED
    BY <1>1, <1>5, <1>6, PromoterActStep DEF AcceptPackage

LEMMA PromoterStep ==
    ASSUME SaleInv, Promoter
    PROVE  SaleInv'
BY RequestAuthorizationStep, MoveAuthorizationStep, AcceptPackageStep DEF Promoter

\* Time ends what it ends; a checkout keeps the instant it began at.
LEMMA TickStep ==
    ASSUME SaleInv, Tick
    PROVE  SaleInv'
<1>1. clock' \in Instants /\ clock' \in Nat /\ clock <= clock' /\ clock \in Nat
    BY OffersAre, Bounds DEF Tick, Instants
<1>2. PromotedSaleInv'
    <2>1. TypeOK'
        BY <1>1 DEF SaleInv, PromotedSaleInv, TypeOK, Tick
    <2>2. OneLiveOffer'
        BY <1>1, OffersAre, TerminalAfter DEF SaleInv, PromotedSaleInv, OneLiveOffer, Tick
    <2> QED
        BY <2>1, <2>2 DEF PromotedSaleInv
<1>3. \A i \in DOMAIN offers : OfferOK(offers[i], clock')
    <2> SUFFICES ASSUME NEW i \in DOMAIN offers PROVE OfferOK(offers[i], clock')
        OBVIOUS
    <2>1. OfferOK(offers[i], clock) /\ offers[i].promotion <= Len(offers[i].versions)
        BY DEF SaleInv, OfferOK, RowOK, RowOf
    <2>2. Pending(offers[i], clock') => Pending(offers[i], clock)
        BY <1>1, <2>1, OffersAre, PendingBefore
    <2> QED
        BY <2>1, <2>2 DEF OfferOK
<1>4. \A b \in Buyers : (ReadsOK(checkout[b]) /\ CurrentOK(checkout[b]))'
    BY DEF SaleInv, Tick, ReadsOK, CurrentOK, Terms
<1> QED
    BY <1>2, <1>3, <1>4 DEF SaleInv, Tick

------------------------------------------------------------------------------
\* A checkout

LEMMA CheckoutsAre ==
    ASSUME SaleInv, NEW b \in Buyers
    PROVE  checkout[b] \in Checkouts /\ ReadsOK(checkout[b]) /\ CurrentOK(checkout[b])
BY DEF SaleInv, PromotedSaleInv, TypeOK

\* A read changes nothing but what its checkout knows.
LEMMA ReadStep ==
    ASSUME SaleInv, NEW b \in Buyers, NEW c \in Checkouts, ReadsOK(c), CurrentOK(c),
           Reads(b, c)
    PROVE  SaleInv'
<1>1. checkout' \in [Buyers -> Checkouts] /\ checkout' = [checkout EXCEPT ![b] = c]
    BY DEF Reads, SaleInv, PromotedSaleInv, TypeOK
<1>2. PromotedSaleInv'
    BY <1>1 DEF Reads, SaleInv, PromotedSaleInv, TypeOK, OneLiveOffer
<1>3. \A i \in DOMAIN offers' : OfferOK(offers'[i], clock')
    BY DEF Reads, SaleInv
<1>4. ASSUME NEW e \in Buyers
      PROVE  (ReadsOK(checkout[e]) /\ CurrentOK(checkout[e]))'
    <2> PICK d : d = checkout'[e]
        OBVIOUS
    <2>1. ReadsOK(d) /\ CurrentOK(d)
        BY <1>1, CheckoutsAre DEF SaleInv, PromotedSaleInv, TypeOK
    <2> QED
        BY <2>1 DEF Reads, ReadsOK, CurrentOK, Terms
<1> QED
    BY <1>2, <1>3, <1>4 DEF SaleInv

\* The terms in force are a package when the row names versions.
LEMMA InForceIsAPackage ==
    ASSUME NEW o \in Offers, NEW row \in Packages, RowOK(o, row), NEW at
    PROVE  InForce(o, row, at) \in Packages
<1>1. o.versions \in Seq(Versions) /\ Len(o.versions) \in Nat
    BY LenProperties DEF Offers
<1>2. row.promotion \in Nat /\ row.standing \in Labels
    BY DEF Packages
<1>3. CASE PromotionIs(o, row.promotion, {"RUNNING"}, at)
    <2>1. row.promotion \in 1..Len(o.versions) /\ o.versions[row.promotion].basis # 0
        BY <1>1, <1>2, <1>3 DEF RowOK, PromotionIs
    <2>2. o.versions[row.promotion] \in Versions
        BY <1>1, <2>1, ElementOfSeq
    <2> QED
        BY <1>2, <1>3, <2>1, <2>2 DEF InForce, Packages, Versions, Labels
<1>4. CASE ~ PromotionIs(o, row.promotion, {"RUNNING"}, at)
    BY <1>2, <1>4 DEF InForce, Packages
<1> QED
    BY <1>3, <1>4

LEMMA NothingIsAPackage == NoPackage \in Packages
BY DEF NoPackage, Packages, Labels

LEMMA IdleIsACheckout ==
    ASSUME SaleInv
    PROVE  Idle \in Checkouts /\ ReadsOK(Idle) /\ CurrentOK(Idle)
<1>1. Idle \in Checkouts
    BY Bounds DEF Idle, Checkouts, Steps, Instants, NoPackage, Packages, Labels
<1> QED
    BY <1>1 DEF Idle, ReadsOK, CurrentOK, Working, Bound

LEMMA GiveStep ==
    ASSUME SaleInv, NEW b \in Buyers, Give(b) \/ RecordSale(b)
    PROVE  SaleInv'
BY IdleIsACheckout, ReadStep DEF Give, RecordSale

LEMMA ReadOfferStep ==
    ASSUME SaleInv, NEW b \in Buyers, ReadOffer(b)
    PROVE  SaleInv'
<1>1. /\ holder \in DOMAIN offers /\ holder \in 0..MaxOffers
      /\ offers[holder] \in Offers /\ RowOK(offers[holder], RowOf(offers[holder]))
    BY OffersAre, Bounds DEF ReadOffer, SaleInv, PromotedSaleInv, TypeOK, OfferOK
<1> PICK row \in Packages : row = RowOf(offers[holder])
    BY <1>1 DEF RowOf, Packages, Offers
<1> PICK c : c = [Idle EXCEPT !.step = "ROW", !.at = clock, !.offer = holder, !.package = row]
    OBVIOUS
<1>2. /\ c \in Checkouts /\ c.step = "ROW" /\ c.offer = holder /\ c.package = row
    BY <1>1, IdleIsACheckout DEF Checkouts, Steps, SaleInv, PromotedSaleInv, TypeOK
<1>3. ReadsOK(c) /\ CurrentOK(c)
    BY <1>1, <1>2 DEF ReadsOK, CurrentOK, Bound
<1>4. Reads(b, c)
    BY DEF ReadOffer
<1> QED
    BY <1>2, <1>3, <1>4, ReadStep

LEMMA ReadTermsStep ==
    ASSUME SaleInv, NEW b \in Buyers, ReadTerms(b)
    PROVE  SaleInv'
<1> PICK c \in Checkouts : c = checkout[b]
    BY CheckoutsAre
<1>1. c.step = "ROW" /\ ReadsOK(c) /\ CurrentOK(c)
    BY CheckoutsAre DEF ReadTerms
<1>2. /\ c.offer \in DOMAIN offers /\ offers[c.offer] \in Offers
      /\ RowOK(offers[c.offer], c.package) /\ c.package \in Packages
    BY <1>1, OffersAre DEF ReadsOK, Working, Checkouts
<1> PICK terms \in Packages : terms = InForce(offers[c.offer], c.package, c.at)
    BY <1>2, InForceIsAPackage
<1> PICK d : d = [c EXCEPT !.step = "TERMS", !.package = terms]
    OBVIOUS
<1>3. /\ d \in Checkouts /\ d.step = "TERMS" /\ d.offer = c.offer /\ d.package = terms
      /\ d.at = c.at /\ d.overtaken = c.overtaken
    BY DEF Checkouts, Steps
<1>4. ReadsOK(d)
    BY <1>2, <1>3 DEF ReadsOK, Bound
<1>5. Lifecycle(offers[c.offer], c.at) = "ACTIVE" /\ Reads(b, d)
    BY DEF ReadTerms
<1>6. CurrentOK(d)
    BY <1>1, <1>3, <1>5 DEF CurrentOK, Terms, Working, Bound
<1> QED
    BY <1>3, <1>4, <1>5, <1>6, ReadStep

LEMMA ReadConsentStep ==
    ASSUME SaleInv, NEW b \in Buyers, ReadConsent(b)
    PROVE  SaleInv'
<1> PICK c \in Checkouts : c = checkout[b]
    BY CheckoutsAre
<1>1. c.step = "TERMS" /\ ReadsOK(c) /\ CurrentOK(c)
    BY CheckoutsAre DEF ReadConsent
<1>2. PICK a \in accepted :
          /\ Covers(a, Len(cycles), c.offer, c.package)
          /\ Reads(b, [c EXCEPT !.step = "COVERED", !.package = NoPackage,
                                !.cycle = Len(cycles), !.acceptance = a.package])
    BY DEF ReadConsent
<1>3. a \in Acceptances /\ Len(cycles) \in 0..MaxCycles
    BY OffersAre, Bounds DEF SaleInv, PromotedSaleInv, TypeOK
<1> PICK d : d = [c EXCEPT !.step = "COVERED", !.package = NoPackage,
                           !.cycle = Len(cycles), !.acceptance = a.package]
    OBVIOUS
<1>4. /\ d \in Checkouts /\ d.step = "COVERED" /\ d.offer = c.offer /\ d.at = c.at
      /\ d.cycle = Len(cycles) /\ d.acceptance = a.package /\ d.overtaken = c.overtaken
    <2>1. a.package \in Packages
        BY <1>3 DEF Acceptances
    <2> QED
        BY <1>3, <2>1, NothingIsAPackage DEF Checkouts, Steps
<1>5. [cycle |-> d.cycle, offer |-> d.offer, package |-> d.acceptance] = a
    BY <1>2, <1>3, <1>4 DEF Covers, Acceptances
<1>6. ReadsOK(d)
    BY <1>1, <1>4, <1>5 DEF ReadsOK, Working
<1>7. CurrentOK(d)
    BY <1>1, <1>2, <1>4 DEF CurrentOK, Terms, Working, Bound, ReadConsent
<1> QED
    BY <1>2, <1>4, <1>6, <1>7, ReadStep

LEMMA ReadOfferAgainStep ==
    ASSUME SaleInv, NEW b \in Buyers, ReadOfferAgain(b)
    PROVE  SaleInv'
<1> PICK c \in Checkouts : c = checkout[b]
    BY CheckoutsAre
<1>1. c.step = "COVERED" /\ ReadsOK(c) /\ CurrentOK(c)
    BY CheckoutsAre DEF ReadOfferAgain
<1>2. /\ holder \in DOMAIN offers /\ holder \in 0..MaxOffers
      /\ offers[holder] \in Offers /\ RowOK(offers[holder], RowOf(offers[holder]))
    BY OffersAre, Bounds DEF ReadOfferAgain, SaleInv, PromotedSaleInv, TypeOK, OfferOK
<1> PICK row \in Packages : row = RowOf(offers[holder])
    BY <1>2 DEF RowOf, Packages, Offers
<1> PICK d : d = [c EXCEPT !.step = "ROW_AGAIN", !.again = holder, !.row = row]
    OBVIOUS
<1>3. /\ d \in Checkouts /\ d.step = "ROW_AGAIN" /\ d.again = holder /\ d.row = row
      /\ d.offer = c.offer /\ d.at = c.at /\ d.cycle = c.cycle
      /\ d.acceptance = c.acceptance /\ d.overtaken = c.overtaken
    BY <1>2 DEF Checkouts, Steps
<1>4. ReadsOK(d)
    BY <1>1, <1>2, <1>3 DEF ReadsOK, Working, Bound
<1>5. CurrentOK(d)
    BY <1>1, <1>3 DEF CurrentOK, Terms, Working, Bound
<1>6. Reads(b, d)
    BY DEF ReadOfferAgain
<1> QED
    BY <1>3, <1>4, <1>5, <1>6, ReadStep

LEMMA ReadVersionStep ==
    ASSUME SaleInv, NEW b \in Buyers, ReadVersion(b)
    PROVE  SaleInv'
<1> PICK c \in Checkouts : c = checkout[b]
    BY CheckoutsAre
<1>1. c.step = "ROW_AGAIN" /\ ReadsOK(c) /\ CurrentOK(c)
    BY CheckoutsAre DEF ReadVersion
<1>2. /\ c.again \in DOMAIN offers /\ offers[c.again] \in Offers
      /\ RowOK(offers[c.again], c.row) /\ c.row \in Packages
    BY <1>1, OffersAre DEF ReadsOK, Checkouts
<1> PICK terms \in Packages : terms = InForce(offers[c.again], c.row, c.at)
    BY <1>2, InForceIsAPackage
<1> PICK d : d = [c EXCEPT !.step = "READY", !.version = Governs(terms), !.again = 0,
                           !.row = NoPackage]
    OBVIOUS
<1>3. /\ d \in Checkouts /\ d.step = "READY" /\ d.version = Governs(terms)
      /\ d.offer = c.offer /\ d.at = c.at /\ d.cycle = c.cycle
      /\ d.acceptance = c.acceptance /\ d.overtaken = c.overtaken
    <2>1. Governs(terms) \in Nat /\ 0 \in 0..MaxOffers
        BY Bounds DEF Governs, Packages, Labels
    <2> QED
        BY <2>1, NothingIsAPackage DEF Checkouts, Steps
<1>4. ReadsOK(d)
    BY <1>1, <1>3 DEF ReadsOK, Working, Bound
<1>5. CurrentOK(d)
    BY <1>1, <1>3 DEF CurrentOK, Terms, Working, Bound
<1>6. Reads(b, d)
    BY DEF ReadVersion
<1> QED
    BY <1>3, <1>4, <1>5, <1>6, ReadStep

LEMMA PlaceOrderStep ==
    ASSUME SaleInv, NEW b \in Buyers, PlaceOrder(b)
    PROVE  SaleInv'
<1> PICK c \in Checkouts : c = checkout[b]
    BY CheckoutsAre
<1>1. c.step = "READY" /\ ReadsOK(c)
    BY CheckoutsAre DEF PlaceOrder
<1> PICK d : d = [c EXCEPT !.step = "PLACED", !.overtaken = FALSE]
    OBVIOUS
<1>2. /\ d \in Checkouts /\ d.step = "PLACED" /\ d.offer = c.offer
      /\ d.cycle = c.cycle /\ d.acceptance = c.acceptance
    BY DEF Checkouts, Steps
<1>3. ReadsOK(d) /\ CurrentOK(d)
    BY <1>1, <1>2 DEF ReadsOK, CurrentOK, Working, Bound
<1>4. Reads(b, d)
    BY DEF PlaceOrder
<1> QED
    BY <1>2, <1>3, <1>4, ReadStep

------------------------------------------------------------------------------
\* The theorems

LEMMA InitOK == Init => SaleInv
<1> SUFFICES ASSUME Init PROVE SaleInv
    OBVIOUS
<1>1. <<>> \in Seq(Offers) /\ <<>> \in Seq(CycleStates) /\ Len(<<>>) = 0 /\ DOMAIN <<>> = {}
    BY EmptySeq
<1>2. Idle \in Checkouts
    BY Bounds DEF Idle, Checkouts, Steps, Instants, NoPackage, Packages, Labels
<1>3. PromotedSaleInv
    BY <1>1, <1>2, Bounds DEF Init, PromotedSaleInv, TypeOK, OneLiveOffer, Instants
<1>4. \A b \in Buyers : ReadsOK(checkout[b]) /\ CurrentOK(checkout[b])
    BY DEF Init, Idle, ReadsOK, CurrentOK, Working, Bound
<1> QED
    BY <1>1, <1>3, <1>4 DEF Init, SaleInv

LEMMA StepOK == SaleInv /\ [Next]_vars => SaleInv'
<1> SUFFICES ASSUME SaleInv, [Next]_vars PROVE SaleInv'
    OBVIOUS
<1>1. CASE Seller
    BY <1>1, SellerStep
<1>2. CASE Promoter
    BY <1>2, PromoterStep
<1>3. CASE Tick
    BY <1>3, TickStep
<1>4. ASSUME NEW b \in Buyers, Buyer(b)
      PROVE  SaleInv'
    BY <1>4, ReadOfferStep, ReadTermsStep, ReadConsentStep, ReadOfferAgainStep,
       ReadVersionStep, GiveStep, PlaceOrderStep DEF Buyer
<1>5. CASE UNCHANGED vars
    BY <1>5 DEF vars, SaleInv, PromotedSaleInv, TypeOK, OneLiveOffer, ReadsOK, CurrentOK, Terms
<1> QED
    BY <1>1, <1>2, <1>3, <1>4, <1>5 DEF Next

\* Offers, cycles, acceptances and what every checkout has read fit together, for any
\* number of checkouts and however late an act gets the product's lock.
THEOREM SaleInvariance == Spec => []SaleInv
BY InitOK, StepOK, PTL DEF Spec

\* A product has one live offer, and it is the one that is resolved: an offer is only
\* drafted when the holder's is over, and what is over stays over.
THEOREM OneOfferLives == Spec => []PromotedSaleInv
<1>1. SaleInv => PromotedSaleInv
    BY DEF SaleInv
<1> QED
    BY <1>1, SaleInvariance, PTL

\* Whatever instants the seller's acts took, a promotion that is scheduled or runs was
\* made from the terms that stand: an act that revises them finds none pending.
THEOREM PendingRestsOnStanding == Spec => []PromotionRestsOnStanding
<1>1. SaleInv => PromotionRestsOnStanding
    BY DEF SaleInv, PromotionRestsOnStanding, OfferOK
<1> QED
    BY <1>1, SaleInvariance, PTL

\* An order names an acceptance that was given in its own cycle for its own offer:
\* acceptances are only added, and a checkout keeps the cycle it read.
THEOREM ConsentWasGiven == Spec => []SaleRestsOnConsent
<1>1. SaleInv => SaleRestsOnConsent
    BY DEF SaleInv, SaleRestsOnConsent, ReadsOK
<1> QED
    BY <1>1, SaleInvariance, PTL

\* A sale that covers the terms names the version that sets the amounts.
LEMMA CoveringIsCoherent ==
    ASSUME NEW c \in Checkouts, ReadsOK(c), c.step = "READY",
           c.version = Governs(Terms(c)),
           NEW a \in accepted, Covers(a, c.cycle, c.offer, Terms(c)), a.package = c.acceptance
    PROVE  Coherent(c)
BY DEF ReadsOK, Bound, Coherent, Covers, Governs

\* An order that no act has overtaken between its reads is placed under the terms in
\* force at its instant, accepted in the approved cycle, and its sale can be recorded.
THEOREM UndisturbedIsCovered == Spec => UndisturbedSaleIsCovered
<1> DEFINE Placed(b) ==
        LET c == checkout[b] IN
        c.step = "READY" /\ checkout'[b].step = "PLACED" /\ ~ c.overtaken =>
            LET o == offers[holder] terms == InForce(o, RowOf(o), c.at) IN
            /\ c.offer = holder /\ Lifecycle(o, c.at) = "ACTIVE"
            /\ c.version = Governs(terms)
            /\ c.cycle = Len(cycles) /\ cycles[c.cycle] = "APPROVED"
            /\ \E a \in accepted : Covers(a, c.cycle, c.offer, terms)
            /\ Coherent(c)
<1>1. ASSUME SaleInv, NEW b \in Buyers
      PROVE  Placed(b)
    <2> PICK c \in Checkouts : c = checkout[b]
        BY <1>1, CheckoutsAre
    <2>1. ReadsOK(c) /\ CurrentOK(c)
        BY <1>1, CheckoutsAre
    <2> SUFFICES ASSUME c.step = "READY", ~ c.overtaken
                 PROVE  LET o == offers[holder] terms == InForce(o, RowOf(o), c.at) IN
                        /\ c.offer = holder /\ Lifecycle(o, c.at) = "ACTIVE"
                        /\ c.version = Governs(terms)
                        /\ c.cycle = Len(cycles) /\ cycles[c.cycle] = "APPROVED"
                        /\ \E a \in accepted : Covers(a, c.cycle, c.offer, terms)
                        /\ Coherent(c)
        OBVIOUS
    <2>2. /\ c.offer = holder /\ Lifecycle(offers[holder], c.at) = "ACTIVE"
          /\ c.version = Governs(Terms(c))
          /\ c.cycle = Len(cycles) /\ cycles[c.cycle] = "APPROVED"
        BY <2>1 DEF CurrentOK, Working, Bound
    <2>3. PICK a \in accepted :
              Covers(a, c.cycle, c.offer, Terms(c)) /\ a.package = c.acceptance
        BY <2>1 DEF CurrentOK, Working, Bound
    <2>4. Coherent(c)
        BY <2>1, <2>2, <2>3, CoveringIsCoherent
    <2> QED
        BY <2>2, <2>3, <2>4 DEF Terms
<1>2. SaleInv => [\A b \in Buyers : Placed(b)]_vars
    BY <1>1
<1> QED
    BY <1>2, SaleInvariance, PTL DEF UndisturbedSaleIsCovered

------------------------------------------------------------------------------
\* The disputes of the sale

\* What a delivery decides is of the rows' types, and justified by what was told

LEMMA DecisionOK ==
    ASSUME DisputeInv, NEW e \in events, NEW version \in 0..MaxPolicy
    PROVE  /\ Decision(e, version) \in Writes
           /\ WriteIsTold(Decision(e, version))
<1> DEFINE w == Decision(e, version)
<1>1. e \in Events
    BY ScenarioAssumption DEF DisputeInv, DisputeTypeOK
<1>2. /\ e.dispute \in Disputes /\ e.at \in Nat /\ e.status \in Statuses
      /\ e.foreign \in BOOLEAN /\ e.full \in BOOLEAN
    BY <1>1 DEF Events
<1>3. /\ db.dispute[e.dispute] \in DisputeRows
      /\ db.booked \in BOOLEAN
    BY <1>2 DEF DisputeInv, DisputeTypeOK, Databases
<1>4. Reported(e) \in Statuses
    BY <1>2 DEF Reported, Statuses, Open
<1>5. NextStatus(e) \in Statuses
    BY <1>3, <1>4 DEF NextStatus, Known, DisputeRows
<1>6. NextEffect(e) \in Effects
    BY <1>3 DEF NextEffect, Effects, DisputeRows
<1>7. NextRow(e) \in DisputeRows
    <2>1. CASE ~ Applies(e)
        BY <2>1, <1>3 DEF NextRow
    <2>2. CASE Applies(e)
        <3>1. (db.dispute[e.dispute].reversed \/ Reverses(e)) \in BOOLEAN
            OBVIOUS
        <3>2. (IF Known(e) THEN db.dispute[e.dispute].attributed ELSE db.booked) \in BOOLEAN
            BY <1>3 DEF DisputeRows
        <3> QED
            BY <2>2, <1>2, <1>5, <1>6, <3>1, <3>2 DEF NextRow, DisputeRows
    <2> QED
        BY <2>1, <2>2
<1>8. /\ Replay(e) \in BOOLEAN /\ Applies(e) \in BOOLEAN /\ Known(e) \in BOOLEAN
      /\ Reverses(e) \in BOOLEAN
    BY DEF Replay, Applies, Known, Reverses, Loses, TooOld
<1>9. Payable \subseteq Claims /\ OpenExceptionsOf(e.dispute) \subseteq Claims
    BY DEF Payable, OpenExceptionsOf
<1>10. (IF Loses(e) THEN version ELSE 0) \in 0..MaxPolicy
    BY PolicyAssumption
<1>11. w \in Writes
    BY <1>1, <1>7, <1>8, <1>9, <1>10 DEF Decision, Writes
<1>12. NextStatus(e) = "LOST" /\ Applies(e) =>
           LossTold(e.dispute) \/ (e.status = "LOST" /\ ~ e.foreign)
    BY <1>2 DEF NextStatus, Reported, DisputeInv, RowsAreTold
<1>13. /\ w.event = e /\ w.replay = Replay(e) /\ w.applies = Applies(e)
       /\ w.known = Known(e) /\ w.row = NextRow(e) /\ w.reverse = Reverses(e)
       /\ w.fee = IF Loses(e) THEN version ELSE 0
    BY DEF Decision
<1>14. Applies(e) => NextRow(e).status = NextStatus(e)
    BY DEF NextRow
<1>15. "ABSENT" \notin Statuses
    BY DEF Statuses, Decided, Open
<1>16. WriteIsTold(w)
    BY <1>5, <1>12, <1>13, <1>14, <1>15
       DEF WriteIsTold, Replay, Applies, TooOld, Loses, Reverses
<1> QED
    BY <1>11, <1>16

------------------------------------------------------------------------------
\* Steps

\* A write stays justified while events do not change, the ledger only grows, and a
\* dispute that is known stays known.
LEMMA ToldStays ==
    ASSUME NEW w, WriteIsTold(w), events' = events, db.ledger \subseteq db'.ledger,
           Known(w.event) => Known(w.event)'
    PROVE  WriteIsTold(w)'
BY DEF WriteIsTold, LossTold

LEMMA InitInv == DisputeInit => DisputeInv
<1> SUFFICES ASSUME DisputeInit
             PROVE  DisputeInv
    OBVIOUS
<1>1. db \in Databases
    BY PolicyAssumption DEF DisputeInit, EmptyDatabase, Databases, NoDispute, NoException,
                            DisputeRows, Effects, ExceptionRows, Causes, ClaimStates
<1>2. NoWrite \in Writes
    BY PolicyAssumption DEF NoWrite, Writes, NoDispute, DisputeRows, Effects
<1>3. DisputeTypeOK
    BY <1>1, <1>2 DEF DisputeInit, DisputeTypeOK, Ready, Rest
<1>4. RowsAreTold /\ WritesAreTold
    BY DEF DisputeInit, EmptyDatabase, RowsAreTold, WritesAreTold, NoDispute, Ready
<1> QED
    BY <1>3, <1>4 DEF DisputeInv

LEMMA DeliverStep ==
    ASSUME DisputeInv, NEW h \in Deliveries, NEW e \in events, Deliver(h, e)
    PROVE  DisputeInv'
<1>1. PICK version \in 0..MaxPolicy :
          delivery' = [delivery EXCEPT ![h] = [step  |-> "COMMIT",
                                               write |-> Decision(e, version)]]
    BY DEF Deliver
<1>2. PICK w : w = Decision(e, version)
    OBVIOUS
<1>3. w \in Writes /\ WriteIsTold(w)
    BY <1>2, DecisionOK
<1>4. DisputeTypeOK'
    BY <1>1, <1>2, <1>3 DEF DisputeInv, DisputeTypeOK, Deliver
<1>5. RowsAreTold'
    BY DEF DisputeInv, Deliver, RowsAreTold, Known, LossTold
<1>6. ASSUME NEW g \in Deliveries, delivery'[g].step = "COMMIT",
             NEW v, v = delivery'[g].write
      PROVE  WriteIsTold(v)'
    <2>1. WriteIsTold(v)
        BY <1>1, <1>2, <1>3, <1>6 DEF DisputeInv, DisputeTypeOK, WritesAreTold
    <2> QED
        BY <2>1, ToldStays DEF Deliver, Known
<1>7. WritesAreTold'
    BY <1>6 DEF WritesAreTold, WriteIsTold, LossTold, Known
<1> QED
    BY <1>4, <1>5, <1>7 DEF DisputeInv

\* A step that leaves the books' dispute rows, ledger and fees alone.
LEMMA BooksOnly ==
    ASSUME DisputeInv, DisputeTypeOK', UNCHANGED <<events, delivery>>,
           db'.dispute = db.dispute, db'.ledger = db.ledger, db'.fee = db.fee,
           db'.reversal # "CHARGEBACK" \/ db'.reversal = db.reversal
    PROVE  DisputeInv'
<1>1. RowsAreTold'
    BY DEF DisputeInv, RowsAreTold, Known, LossTold
<1>2. WritesAreTold'
    BY DEF DisputeInv, WritesAreTold, WriteIsTold, Known, LossTold
<1> QED
    BY <1>1, <1>2 DEF DisputeInv

LEMMA RaiseOK ==
    ASSUME DisputeTypeOK, NEW S, NEW k \in Causes, NEW who \in Disputes \cup {"REFUND"}
    PROVE  Raise(S, k, who) \in [Claims -> [Causes -> ExceptionRows]]
BY DEF DisputeTypeOK, Databases, Raise, ExceptionRows

LEMMA CloseOK ==
    ASSUME DisputeTypeOK, NEW S
    PROVE  Close(S) \in [Claims -> [Causes -> ExceptionRows]]
<1> SUFFICES ASSUME NEW c \in Claims
             PROVE  [db.exception[c] EXCEPT !["DISPUTE"].status = "RESOLVED"]
                        \in [Causes -> ExceptionRows]
    BY DEF DisputeTypeOK, Databases, Close
<1>1. PICK x \in [Causes -> ExceptionRows] : x = db.exception[c]
    BY DEF DisputeTypeOK, Databases
<1>2. PICK r \in ExceptionRows : r = x["DISPUTE"]
    BY <1>1 DEF Causes
<1>3. [r EXCEPT !.status = "RESOLVED"] \in ExceptionRows
    BY <1>2 DEF ExceptionRows
<1> QED
    BY <1>1, <1>2, <1>3

\* The tables a commit writes, one by one.
LEMMA CommitTables ==
    ASSUME DisputeInv, NEW h \in Deliveries, Commit(h), NEW w, w = delivery[h].write
    PROVE  /\ w \in Writes /\ WriteIsTold(w) /\ ~ Refused(w)
           /\ w.event \in Events /\ w.event \in events /\ w.event.dispute \in Disputes
           /\ db'.ledger = db.ledger \cup {w.event}
           /\ db'.dispute = [db.dispute EXCEPT ![w.event.dispute] =
                                IF w.applies THEN w.row ELSE db.dispute[w.event.dispute]]
           /\ db'.exception \in [Claims -> [Causes -> ExceptionRows]]
           /\ db'.fee = Assess(w.event.dispute, w.fee)
           /\ db'.reversal = IF w.reverse THEN "CHARGEBACK" ELSE db.reversal
           /\ db'.claim = db.claim /\ db'.booked = db.booked
           /\ db' \in Databases
<1>1. w \in Writes /\ WriteIsTold(w) /\ ~ Refused(w) /\ db' = Written(w)
    BY DEF Commit, DisputeInv, WritesAreTold, DisputeTypeOK
<1>2. w.event \in Events /\ w.event \in events /\ w.event.dispute \in Disputes
    BY <1>1, ScenarioAssumption DEF WriteIsTold, DisputeInv, DisputeTypeOK, Events
<1>3. PICK x : x = IF w.close # {} THEN Close(w.close)
                   ELSE Raise(w.raise, "DISPUTE", w.event.dispute)
    OBVIOUS
<1>4. x \in [Claims -> [Causes -> ExceptionRows]]
    BY <1>2, <1>3, RaiseOK, CloseOK DEF DisputeInv, Causes
<1>5. PICK y : y = [db.dispute EXCEPT ![w.event.dispute] =
                        IF w.applies THEN w.row ELSE db.dispute[w.event.dispute]]
    OBVIOUS
<1>6. y \in [Disputes -> DisputeRows]
    BY <1>1, <1>2, <1>5 DEF DisputeInv, DisputeTypeOK, Databases, Writes
<1>7. PICK f : f = Assess(w.event.dispute, w.fee)
    OBVIOUS
<1>8. f \in [Disputes -> 0..MaxPolicy]
    BY <1>1, <1>7, PolicyAssumption DEF Assess, Writes, DisputeInv, DisputeTypeOK, Databases
<1>9. db \in Databases
    BY DEF DisputeInv, DisputeTypeOK
<1>10. db' = [db EXCEPT !.ledger = db.ledger \cup {w.event},
                        !.dispute = y,
                        !.exception = x,
                        !.fee = f,
                        !.reversal = IF w.reverse THEN "CHARGEBACK" ELSE db.reversal]
    BY <1>1, <1>3, <1>5, <1>7, <1>9 DEF Written, Databases
<1>11. db'.ledger = db.ledger \cup {w.event} /\ db'.dispute = y /\ db'.exception = x
       /\ db'.fee = f /\ db'.reversal = (IF w.reverse THEN "CHARGEBACK" ELSE db.reversal)
       /\ db'.claim = db.claim /\ db'.booked = db.booked
       /\ db' \in Databases
    BY <1>2, <1>4, <1>6, <1>8, <1>9, <1>10 DEF Databases
<1> QED
    BY <1>1, <1>2, <1>4, <1>5, <1>7, <1>11

LEMMA CommitStep ==
    ASSUME DisputeInv, NEW h \in Deliveries, Commit(h)
    PROVE  DisputeInv'
<1>1. PICK w : w = delivery[h].write
    OBVIOUS
<1> DEFINE d == w.event.dispute
<1>2. /\ w \in Writes /\ WriteIsTold(w)
      /\ w.event \in events /\ w.event \in Events /\ d \in Disputes
      /\ db'.ledger = db.ledger \cup {w.event}
      /\ db'.dispute = [db.dispute EXCEPT ![d] = IF w.applies THEN w.row
                                                  ELSE db.dispute[d]]
      /\ db'.fee = Assess(d, w.fee)
      /\ db'.reversal = IF w.reverse THEN "CHARGEBACK" ELSE db.reversal
      /\ db' \in Databases
    BY <1>1, CommitTables
<1> HIDE DEF d
<1>3. DisputeTypeOK'
    <2>1. NoWrite \in Writes
        BY PolicyAssumption DEF NoWrite, Writes, NoDispute, DisputeRows, Effects
    <2> QED
        BY <1>2, <2>1 DEF Commit, DisputeInv, DisputeTypeOK, Ready
<1>4. db.dispute \in [Disputes -> DisputeRows] /\ events' = events
    BY DEF DisputeInv, DisputeTypeOK, Databases, Commit
<1>5. ASSUME NEW f \in Disputes, db.dispute[f].status # "ABSENT"
      PROVE  db'.dispute[f].status # "ABSENT"
    BY <1>2, <1>4, <1>5 DEF WriteIsTold
<1>6. db'.dispute[d].status # "ABSENT"
    BY <1>2, <1>4, <1>5 DEF WriteIsTold, Known, d
<1>7. ASSUME NEW f \in Disputes, LossTold(f)
      PROVE  LossTold(f)'
    BY <1>2, <1>7 DEF LossTold
<1>8. (w.applies /\ w.row.status = "LOST") \/ w.fee # 0 \/ w.reverse => LossTold(d)'
    <2>1. LossTold(d) => LossTold(d)'
        BY <1>2, <1>7
    <2>2. w.event.status = "LOST" /\ ~ w.event.foreign => LossTold(d)'
        BY <1>2 DEF LossTold, d
    <2> QED
        BY <1>2, <2>1, <2>2 DEF WriteIsTold, d
<1>9. RowsAreTold'
    <2>1. db'.ledger \subseteq events'
        BY <1>2, <1>4 DEF DisputeInv, RowsAreTold
    <2>2. ASSUME NEW e \in db'.ledger
          PROVE  Known(e)'
        <3>1. CASE e \in db.ledger
            <4>1. e.dispute \in Disputes
                BY <3>1, ScenarioAssumption DEF DisputeInv, RowsAreTold, DisputeTypeOK, Events
            <4> QED
                BY <3>1, <4>1, <1>5 DEF DisputeInv, RowsAreTold, Known
        <3>2. CASE e = w.event
            BY <3>2, <1>6 DEF Known, d
        <3> QED
            BY <1>2, <3>1, <3>2
    <2>3. ASSUME NEW f \in Disputes, db'.dispute[f].status = "LOST" \/ db'.fee[f] # 0
          PROVE  LossTold(f)'
        <3>1. CASE db.dispute[f].status = "LOST" \/ db.fee[f] # 0
            BY <3>1, <1>7 DEF DisputeInv, RowsAreTold
        <3>2. CASE ~ (db.dispute[f].status = "LOST" \/ db.fee[f] # 0)
            <4>1. f = d /\ ((w.applies /\ w.row.status = "LOST") \/ w.fee # 0)
                BY <2>3, <3>2, <1>2, <1>4 DEF Assess
            <4> QED
                BY <4>1, <1>8
        <3> QED
            BY <3>1, <3>2
    <2>4. ASSUME db'.reversal = "CHARGEBACK"
          PROVE  \E f \in Disputes : LossTold(f)'
        BY <2>4, <1>2, <1>7, <1>8 DEF DisputeInv, RowsAreTold
    <2> QED
        BY <2>1, <2>2, <2>3, <2>4 DEF RowsAreTold
<1>10. ASSUME NEW g \in Deliveries, delivery'[g].step = "COMMIT",
              NEW v, v = delivery'[g].write
       PROVE  WriteIsTold(v)'
    <2>1. WriteIsTold(v) /\ v.event \in events
        BY <1>10 DEF Commit, DisputeInv, DisputeTypeOK, WritesAreTold, Ready, WriteIsTold
    <2>2. v.event.dispute \in Disputes
        BY <2>1, ScenarioAssumption DEF DisputeInv, DisputeTypeOK, Events
    <2>3. Known(v.event) => Known(v.event)'
        BY <2>2, <1>5 DEF Known
    <2> QED
        BY <2>1, <2>3, <1>2, <1>4, ToldStays
<1>11. WritesAreTold'
    BY <1>10 DEF WritesAreTold, WriteIsTold, LossTold, Known
<1> QED
    BY <1>3, <1>9, <1>11 DEF DisputeInv

LEMMA FailStep ==
    ASSUME DisputeInv, NEW h \in Deliveries, Fail(h)
    PROVE  DisputeInv'
<1>1. NoWrite \in Writes
    BY PolicyAssumption DEF NoWrite, Writes, NoDispute, DisputeRows, Effects
<1>2. DisputeTypeOK'
    BY <1>1 DEF Fail, DisputeInv, DisputeTypeOK, Ready
<1>3. RowsAreTold'
    BY DEF Fail, DisputeInv, RowsAreTold, Known, LossTold
<1>4. WritesAreTold'
    BY DEF Fail, DisputeInv, DisputeTypeOK, WritesAreTold, WriteIsTold, Known, LossTold, Ready
<1> QED
    BY <1>2, <1>3, <1>4 DEF DisputeInv

LEMMA SaleStep ==
    ASSUME DisputeInv, Book \/ RequestRefund \/ BeginFinalize \/ Finalize
    PROVE  DisputeInv'
<1>1. db \in Databases
    BY DEF DisputeInv, DisputeTypeOK
<1>2. CASE Book
    <2>1. DisputeTypeOK'
        BY <1>1, <1>2 DEF Book, DisputeInv, DisputeTypeOK, Databases
    <2> QED
        BY <1>1, <1>2, <2>1, BooksOnly DEF Book, Databases
<1>3. CASE RequestRefund
    <2>1. DisputeTypeOK'
        BY <1>3 DEF RequestRefund, DisputeInv, DisputeTypeOK
    <2> QED
        BY <1>3, <2>1, BooksOnly DEF RequestRefund
<1>4. CASE BeginFinalize
    <2>1. DisputeTypeOK'
        BY <1>4 DEF BeginFinalize, DisputeInv, DisputeTypeOK, Payable
    <2> QED
        BY <1>4, <2>1, BooksOnly DEF BeginFinalize
<1>5. CASE Finalize
    <2>1. PICK x : x = Raise(refund.raise, "REFUND", "REFUND")
        OBVIOUS
    <2>2. x \in [Claims -> [Causes -> ExceptionRows]]
        BY <2>1, RaiseOK DEF DisputeInv, Causes
    <2>3. db' = db \/ db' = [db EXCEPT !.reversal = "REFUND", !.exception = x]
        BY <1>5, <2>1 DEF Finalize
    <2>4. /\ db' \in Databases
          /\ db'.dispute = db.dispute /\ db'.ledger = db.ledger /\ db'.fee = db.fee
          /\ db'.reversal # "CHARGEBACK" \/ db'.reversal = db.reversal
        BY <1>1, <2>2, <2>3 DEF Databases
    <2>5. outdated' \in BOOLEAN
        BY <1>5 DEF Finalize, DisputeInv, DisputeTypeOK
    <2>6. DisputeTypeOK'
        BY <1>5, <2>4, <2>5 DEF Finalize, DisputeInv, DisputeTypeOK
    <2> QED
        BY <1>5, <2>4, <2>6, BooksOnly DEF Finalize
<1> QED
    BY <1>2, <1>3, <1>4, <1>5

LEMMA OperatorStep ==
    ASSUME DisputeInv, NEW o \in Operators,
           \/ \E c \in Claims : PayoutCheck(o, c)
           \/ Payout(o)
           \/ \E c \in Claims, k \in Causes : ExceptionCheck(o, c, k)
           \/ AdvanceException(o)
    PROVE  DisputeInv'
<1> USE DEF Rest
<1>1. db \in Databases
    BY DEF DisputeInv, DisputeTypeOK
<1>2. ASSUME NEW c \in Claims, PayoutCheck(o, c)
      PROVE  DisputeInv'
    <2>1. db.claim[c] \in ClaimStates
        BY <1>1 DEF Databases
    <2>2. \A to \in Advances[db.claim[c]] : to \in ClaimStates
        BY <2>1 DEF Advances, ClaimStates
    <2>3. DisputeTypeOK'
        BY <1>2, <2>1, <2>2 DEF PayoutCheck, DisputeInv, DisputeTypeOK
    <2> QED
        BY <1>2, <2>3, BooksOnly DEF PayoutCheck
<1>3. CASE Payout(o)
    <2>1. operator[o].claim \in Claims /\ operator[o].to \in ClaimStates
        BY <1>3 DEF Payout, DisputeInv, DisputeTypeOK, Causes
    <2>2. PICK x : x = [db.claim EXCEPT ![operator[o].claim] = operator[o].to]
        OBVIOUS
    <2>3. x \in [Claims -> ClaimStates]
        BY <1>1, <2>1, <2>2 DEF Databases
    <2>4. db' = [db EXCEPT !.claim = x]
        BY <1>1, <1>3, <2>2 DEF Payout, Databases
    <2>5. /\ db' \in Databases
          /\ db'.dispute = db.dispute /\ db'.ledger = db.ledger /\ db'.fee = db.fee
          /\ db'.reversal = db.reversal
        BY <1>1, <2>3, <2>4 DEF Databases
    <2>6. outdated' \in BOOLEAN
        BY <1>3 DEF Payout
    <2>7. DisputeTypeOK'
        BY <1>3, <2>5, <2>6 DEF Payout, DisputeInv, DisputeTypeOK
    <2> QED
        BY <1>3, <2>5, <2>7, BooksOnly DEF Payout
<1>4. ASSUME NEW c \in Claims, NEW k \in Causes, ExceptionCheck(o, c, k)
      PROVE  DisputeInv'
    <2>1. db.exception[c][k].status \in {"ABSENT", "OPEN", "ACKNOWLEDGED", "RESOLVED"}
        BY <1>1 DEF Databases, ExceptionRows
    <2>2. \A to \in ExceptionMoves[db.exception[c][k].status] :
              /\ to \in {"ACKNOWLEDGED", "RESOLVED"}
              /\ db.exception[c][k].status \in {"OPEN", "ACKNOWLEDGED"}
        BY <2>1 DEF ExceptionMoves
    <2>3. DisputeTypeOK'
        BY <1>4, <2>2 DEF ExceptionCheck, DisputeInv, DisputeTypeOK
    <2> QED
        BY <1>4, <2>3, BooksOnly DEF ExceptionCheck
<1>5. CASE AdvanceException(o)
    <2> DEFINE c == operator[o].claim
               k == operator[o].step
    <2>1. c \in Claims /\ k \in Causes /\ operator[o].to \in {"ACKNOWLEDGED", "RESOLVED"}
        BY <1>5 DEF AdvanceException, DisputeInv, DisputeTypeOK, Causes
    <2>2. PICK r : r = [db.exception[c][k] EXCEPT !.status = operator[o].to]
        OBVIOUS
    <2>3. r \in ExceptionRows
        <3>1. db.exception[c] \in [Causes -> ExceptionRows]
            BY <1>1, <2>1 DEF Databases
        <3>2. PICK q \in ExceptionRows : q = db.exception[c][k]
            BY <2>1, <3>1
        <3> QED
            BY <2>1, <2>2, <3>2 DEF ExceptionRows
    <2>4. PICK x : x = [db.exception EXCEPT ![c][k] = r]
        OBVIOUS
    <2>5. x \in [Claims -> [Causes -> ExceptionRows]]
        BY <1>1, <2>1, <2>3, <2>4 DEF Databases
    <2>6. db' = [db EXCEPT !.exception = x]
        BY <1>1, <1>5, <2>1, <2>2, <2>4 DEF AdvanceException, Databases
    <2>7. /\ db' \in Databases
          /\ db'.dispute = db.dispute /\ db'.ledger = db.ledger /\ db'.fee = db.fee
          /\ db'.reversal = db.reversal
        BY <1>1, <2>5, <2>6 DEF Databases
    <2>8. outdated' \in BOOLEAN
        BY <1>5 DEF AdvanceException
    <2>9. DisputeTypeOK'
        BY <1>5, <2>7, <2>8 DEF AdvanceException, DisputeInv, DisputeTypeOK
    <2> QED
        BY <1>5, <2>7, <2>9, BooksOnly DEF AdvanceException
<1> QED
    BY <1>2, <1>3, <1>4, <1>5

LEMMA StepInv == DisputeInv /\ [DisputeNext]_disputeVars => DisputeInv'
<1> SUFFICES ASSUME DisputeInv, [DisputeNext]_disputeVars
             PROVE  DisputeInv'
    OBVIOUS
<1>1. CASE UNCHANGED disputeVars
    BY <1>1 DEF disputeVars, DisputeInv, DisputeTypeOK, RowsAreTold, WritesAreTold, WriteIsTold, Known,
                LossTold
<1>2. CASE Book \/ RequestRefund \/ BeginFinalize \/ Finalize
    BY <1>2, SaleStep
<1>3. ASSUME NEW h \in Deliveries, (\E e \in events : Deliver(h, e)) \/ Commit(h) \/ Fail(h)
      PROVE  DisputeInv'
    BY <1>3, DeliverStep, CommitStep, FailStep
<1>4. ASSUME NEW o \in Operators,
             \/ \E c \in Claims : PayoutCheck(o, c)
             \/ Payout(o)
             \/ \E c \in Claims, k \in Causes : ExceptionCheck(o, c, k)
             \/ AdvanceException(o)
      PROVE  DisputeInv'
    BY <1>4, OperatorStep
<1> QED
    BY <1>1, <1>2, <1>3, <1>4 DEF DisputeNext

------------------------------------------------------------------------------
\* Theorems

\* Rows, ledger, fees and what every delivery is about to write fit together in every
\* reachable state.
THEOREM DisputeInvariance == DisputeSpec => []DisputeInv
<1> QED
    BY InitInv, StepInv, PTL DEF DisputeSpec

\* No race makes a seller pay for a loss the provider never told.
THEOREM LossesCost == DisputeSpec => []OnlyALossCosts
<1>1. DisputeInv => OnlyALossCosts
    BY DEF DisputeInv, RowsAreTold, LossTold, OnlyALossCosts
<1> QED
    BY <1>1, DisputeInvariance, PTL

\* Whatever the sale has been through, an event that is delivered undisturbed is
\* recorded: no order of events leads to a state that refuses one for good.
THEOREM EventsAreAccepted == DisputeSpec => []NoEventIsRefusedForEver
<1>1. DisputeInv => NoEventIsRefusedForEver
    <2> SUFFICES ASSUME DisputeInv, NEW e \in events, Refused(Decision(e, MaxPolicy))
                 PROVE  FALSE
        BY DEF NoEventIsRefusedForEver
    <2>1. ~ Replay(e) => e \notin db.ledger
        BY DEF Replay, DisputeInv, RowsAreTold
    <2> QED
        BY <2>1 DEF Refused, Decision, Reverses
<1> QED
    BY <1>1, DisputeInvariance, PTL

\* A fee keeps its version and a reversal its cause: refund and chargeback are never
\* both booked, whoever commits first.
THEOREM ConsequencesStay == DisputeSpec => ConsequencesAreFinal
<1>1. DisputeInv /\ [DisputeNext]_disputeVars =>
        [/\ \A d \in Disputes : db.fee[d] # 0 => db'.fee[d] = db.fee[d]
         /\ db.reversal # "NONE" => db'.reversal = db.reversal]_disputeVars
    <2> SUFFICES ASSUME DisputeInv, DisputeNext
                 PROVE  /\ \A d \in Disputes : db.fee[d] # 0 => db'.fee[d] = db.fee[d]
                        /\ db.reversal # "NONE" => db'.reversal = db.reversal
        OBVIOUS
    <2>1. db \in Databases
        BY DEF DisputeInv, DisputeTypeOK
    <2>2. CASE Book \/ RequestRefund \/ BeginFinalize \/ Finalize
        BY <2>1, <2>2 DEF Book, RequestRefund, BeginFinalize, Finalize, Databases
    <2>3. ASSUME NEW h \in Deliveries,
                 (\E e \in events : Deliver(h, e)) \/ Fail(h)
          PROVE  db' = db
        BY <2>3 DEF Deliver, Fail
    <2>4. ASSUME NEW h \in Deliveries, Commit(h)
          PROVE  /\ \A d \in Disputes : db.fee[d] # 0 => db'.fee[d] = db.fee[d]
                 /\ db.reversal # "NONE" => db'.reversal = db.reversal
        <3>1. PICK w : w = delivery[h].write
            OBVIOUS
        <3>2. /\ ~ Refused(w)
              /\ db'.fee = Assess(w.event.dispute, w.fee)
              /\ db'.reversal = IF w.reverse THEN "CHARGEBACK" ELSE db.reversal
            BY <2>4, <3>1, CommitTables
        <3> QED
            BY <3>2 DEF Refused, Assess
    <2>5. ASSUME NEW o \in Operators,
                 \/ \E c \in Claims : PayoutCheck(o, c)
                 \/ Payout(o)
                 \/ \E c \in Claims, k \in Causes : ExceptionCheck(o, c, k)
                 \/ AdvanceException(o)
          PROVE  db'.fee = db.fee /\ db'.reversal = db.reversal
        BY <2>1, <2>5 DEF PayoutCheck, Payout, ExceptionCheck, AdvanceException, Databases
    <2> QED
        BY <2>2, <2>3, <2>4, <2>5 DEF DisputeNext
<1> QED
    BY <1>1, DisputeInvariance, PTL DEF DisputeSpec, ConsequencesAreFinal

------------------------------------------------------------------------------
\* The books that no race has touched

\* A delivery whose event no longer applies writes no more than the ledger's entry.
IdleWritesNothing == \A h \in Deliveries :
    LET w == delivery[h].write IN
    delivery[h].step = "COMMIT" /\ ~ w.applies =>
        w.raise = {} /\ w.close = {} /\ ~ w.reverse

PayoutsAdvance == \A o \in Operators :
    operator[o].step = "PAYOUT" => operator[o].to \in Advances[operator[o].from]

\* Only a sale that is booked has disputes of its own.
AttributedIsBooked == ~ outdated => \A d \in Disputes : db.dispute[d].attributed => db.booked

UnracedBooks ==
    ~ outdated => ClaimsAtStakeAreCovered /\ WonDisputesOweNothing /\ LossesAreBooked

\* Together these are inductive; DisputeInv alone says nothing of the claims.
ReconcileInv ==
    /\ DisputeInv
    /\ IdleWritesNothing
    /\ PayoutsAdvance
    /\ AttributedIsBooked
    /\ UnracedBooks

LEMMA ExceptionsAre ==
    ASSUME DisputeInv, NEW c \in Claims
    PROVE  /\ db.exception[c] \in [Causes -> ExceptionRows]
           /\ db.exception[c]["DISPUTE"] \in ExceptionRows
           /\ db.exception[c]["REFUND"] \in ExceptionRows
BY DEF DisputeInv, DisputeTypeOK, Databases, Causes

\* A second exception of a claim and a cause is swallowed; the others stay.
LEMMA Raised ==
    ASSUME DisputeInv, NEW claims, NEW cause \in Causes, NEW who,
           NEW c \in Claims, NEW k \in Causes
    PROVE  Raise(claims, cause, who)[c][k] =
               IF k = cause /\ c \in claims /\ db.exception[c][k] = NoException
               THEN [status |-> "OPEN", by |-> who] ELSE db.exception[c][k]
BY ExceptionsAre DEF Raise

LEMMA RaisedOfOne ==
    ASSUME DisputeInv, NEW claims, NEW who, NEW c \in Claims
    PROVE  /\ Raise(claims, "DISPUTE", who)[c]["REFUND"] = db.exception[c]["REFUND"]
           /\ Raise(claims, "REFUND", who)[c]["DISPUTE"] = db.exception[c]["DISPUTE"]
BY ExceptionsAre DEF Raise, Causes

LEMMA Closed ==
    ASSUME DisputeInv, NEW claims, NEW c \in Claims
    PROVE  /\ Close(claims)[c]["REFUND"] = db.exception[c]["REFUND"]
           /\ c \notin claims => Close(claims)[c]["DISPUTE"] = db.exception[c]["DISPUTE"]
           /\ c \in claims => /\ Close(claims)[c]["DISPUTE"].status = "RESOLVED"
                              /\ Close(claims)[c]["DISPUTE"].by = db.exception[c]["DISPUTE"].by
<1> PICK x \in [Causes -> ExceptionRows] : x = db.exception[c]
    BY ExceptionsAre
<1>1. Close(claims)[c] = IF c \in claims THEN [x EXCEPT !["DISPUTE"].status = "RESOLVED"] ELSE x
    BY DEF Close
<1> PICK r \in ExceptionRows : r = x["DISPUTE"]
    BY DEF Causes
<1>2. [x EXCEPT !["DISPUTE"].status = "RESOLVED"]["DISPUTE"] = [r EXCEPT !.status = "RESOLVED"]
    BY DEF Causes
<1>3. [x EXCEPT !["DISPUTE"].status = "RESOLVED"]["REFUND"] = x["REFUND"]
    BY DEF Causes
<1>4. [r EXCEPT !.status = "RESOLVED"].status = "RESOLVED"
      /\ [r EXCEPT !.status = "RESOLVED"].by = r.by
    BY DEF ExceptionRows
<1> QED
    BY <1>1, <1>2, <1>3, <1>4

\* What a commit writes to the exceptions.
LEMMA CommitExceptions ==
    ASSUME DisputeInv, NEW h \in Deliveries, Commit(h), NEW w, w = delivery[h].write
    PROVE  \A c \in Claims :
               /\ db'.exception[c]["REFUND"] = db.exception[c]["REFUND"]
               /\ w.close = {} =>
                    db'.exception[c]["DISPUTE"] =
                        IF c \in w.raise /\ db.exception[c]["DISPUTE"] = NoException
                        THEN [status |-> "OPEN", by |-> w.event.dispute]
                        ELSE db.exception[c]["DISPUTE"]
               /\ w.close # {} /\ c \notin w.close =>
                    db'.exception[c]["DISPUTE"] = db.exception[c]["DISPUTE"]
               /\ c \in w.close =>
                    /\ db'.exception[c]["DISPUTE"].status = "RESOLVED"
                    /\ db'.exception[c]["DISPUTE"].by = db.exception[c]["DISPUTE"].by
<1> SUFFICES ASSUME NEW c \in Claims
             PROVE  /\ db'.exception[c]["REFUND"] = db.exception[c]["REFUND"]
                    /\ w.close = {} =>
                         db'.exception[c]["DISPUTE"] =
                             IF c \in w.raise /\ db.exception[c]["DISPUTE"] = NoException
                             THEN [status |-> "OPEN", by |-> w.event.dispute]
                             ELSE db.exception[c]["DISPUTE"]
                    /\ w.close # {} /\ c \notin w.close =>
                         db'.exception[c]["DISPUTE"] = db.exception[c]["DISPUTE"]
                    /\ c \in w.close =>
                         /\ db'.exception[c]["DISPUTE"].status = "RESOLVED"
                         /\ db'.exception[c]["DISPUTE"].by = db.exception[c]["DISPUTE"].by
    OBVIOUS
<1>1. db'.exception = IF w.close # {} THEN Close(w.close)
                      ELSE Raise(w.raise, "DISPUTE", w.event.dispute)
    BY DEF Commit, Written, DisputeInv, DisputeTypeOK, Databases
<1>2. CASE w.close # {}
    BY <1>1, <1>2, Closed
<1>3. CASE w.close = {}
    <2> PICK x : x = Raise(w.raise, "DISPUTE", w.event.dispute)
        OBVIOUS
    <2>1. db'.exception = x
        BY <1>1, <1>3
    <2>2. "DISPUTE" \in Causes /\ "REFUND" \in Causes
        BY DEF Causes
    <2>3. x[c]["DISPUTE"] = IF c \in w.raise /\ db.exception[c]["DISPUTE"] = NoException
                            THEN [status |-> "OPEN", by |-> w.event.dispute]
                            ELSE db.exception[c]["DISPUTE"]
        BY <2>2, Raised
    <2>4. x[c]["REFUND"] = db.exception[c]["REFUND"]
        BY <2>2, RaisedOfOne
    <2> QED
        BY <1>3, <2>1, <2>3, <2>4
<1> QED
    BY <1>2, <1>3

\* What is committed undisturbed was decided on the rows as they are.
LEMMA Undisturbed ==
    ASSUME ReconcileInv, NEW h \in Deliveries, Commit(h), NEW w, w = delivery[h].write,
           w.applies, ~ outdated', NEW e, e = w.event
    PROVE  /\ ~ outdated /\ e \in Events /\ e.dispute \in Disputes /\ Applies(e)
           /\ w.raise = IF Contests(e) THEN Payable ELSE {}
           /\ w.close = IF Resolves(e) THEN OpenExceptionsOf(e.dispute) ELSE {}
           /\ w.reverse = Reverses(e)
           /\ w.row.status = NextStatus(e) /\ w.row.effect = NextEffect(e)
           /\ w.row.attributed = IF Known(e) THEN db.dispute[e.dispute].attributed
                                 ELSE db.booked
           /\ db.dispute[e.dispute] \in DisputeRows
           /\ db'.dispute = [db.dispute EXCEPT ![e.dispute] = w.row]
           /\ db'.reversal = IF Reverses(e) THEN "CHARGEBACK" ELSE db.reversal
<1> PICK version : version = w.fee
    OBVIOUS
<1>1. ~ outdated /\ w = Decision(e, version)
    BY DEF Commit
<1>2. /\ w.applies = Applies(e) /\ w.row = NextRow(e) /\ w.reverse = Reverses(e)
      /\ w.raise = (IF Contests(e) THEN Payable ELSE {})
      /\ w.close = (IF Resolves(e) THEN OpenExceptionsOf(e.dispute) ELSE {})
    <2> PICK d : d = Decision(e, version)
        OBVIOUS
    <2>1. /\ d.applies = Applies(e) /\ d.row = NextRow(e) /\ d.reverse = Reverses(e)
          /\ d.raise = (IF Contests(e) THEN Payable ELSE {})
          /\ d.close = (IF Resolves(e) THEN OpenExceptionsOf(e.dispute) ELSE {})
        BY DEF Decision
    <2> QED
        BY <1>1, <2>1
<1>3. /\ e \in Events /\ e.dispute \in Disputes
      /\ db'.dispute = [db.dispute EXCEPT ![e.dispute] =
                            IF w.applies THEN w.row ELSE db.dispute[e.dispute]]
      /\ db'.reversal = IF w.reverse THEN "CHARGEBACK" ELSE db.reversal
    BY CommitTables DEF ReconcileInv
<1>4. db.dispute[e.dispute] \in DisputeRows
    BY <1>3 DEF ReconcileInv, DisputeInv, DisputeTypeOK, Databases
<1>5. Applies(e)
    BY <1>2
<1>6. /\ w.row.status = NextStatus(e) /\ w.row.effect = NextEffect(e)
      /\ w.row.attributed = (IF Known(e) THEN db.dispute[e.dispute].attributed
                             ELSE db.booked)
    BY <1>2, <1>5 DEF NextRow
<1>7. /\ db'.dispute = [db.dispute EXCEPT ![e.dispute] = w.row]
      /\ db'.reversal = (IF Reverses(e) THEN "CHARGEBACK" ELSE db.reversal)
    BY <1>2, <1>3, <1>5
<1> QED
    BY <1>1, <1>2, <1>3, <1>4, <1>5, <1>6, <1>7

\* Whoever is entitled is covered by the delivery that contests.
LEMMA CommitCovers ==
    ASSUME ReconcileInv, NEW h \in Deliveries, Commit(h), NEW w, w = delivery[h].write,
           w.applies, ~ outdated'
    PROVE  ClaimsAtStakeAreCovered'
<1> PICK e : e = w.event
    OBVIOUS
<1>1. /\ ~ outdated /\ e.dispute \in Disputes /\ Applies(e)
      /\ w.raise = (IF Contests(e) THEN Payable ELSE {})
      /\ w.close = (IF Resolves(e) THEN OpenExceptionsOf(e.dispute) ELSE {})
      /\ w.row.status = NextStatus(e)
      /\ w.row.attributed = (IF Known(e) THEN db.dispute[e.dispute].attributed ELSE db.booked)
      /\ db'.dispute = [db.dispute EXCEPT ![e.dispute] = w.row]
      /\ db'.reversal = (IF Reverses(e) THEN "CHARGEBACK" ELSE db.reversal)
    BY Undisturbed
<1>2. DisputeInv /\ ClaimsAtStakeAreCovered /\ db'.claim = db.claim
    BY <1>1, CommitTables DEF ReconcileInv, UnracedBooks
<1>3. \A c \in Claims :
          /\ db'.exception[c]["REFUND"] = db.exception[c]["REFUND"]
          /\ w.close = {} =>
               db'.exception[c]["DISPUTE"] =
                   IF c \in w.raise /\ db.exception[c]["DISPUTE"] = NoException
                   THEN [status |-> "OPEN", by |-> e.dispute]
                   ELSE db.exception[c]["DISPUTE"]
          /\ w.close # {} /\ c \notin w.close =>
               db'.exception[c]["DISPUTE"] = db.exception[c]["DISPUTE"]
          /\ c \in w.close =>
               /\ db'.exception[c]["DISPUTE"].status = "RESOLVED"
               /\ db'.exception[c]["DISPUTE"].by = db.exception[c]["DISPUTE"].by
    BY <1>2, CommitExceptions
<1>4. w.row.attributed => db.booked
    BY <1>1 DEF ReconcileInv, AttributedIsBooked
<1>5. \/ Contests(e)
      \/ /\ db'.reversal = "CHARGEBACK" => db.reversal = "CHARGEBACK"
         /\ \A d \in Disputes : AtIssue(d)' => AtIssue(d)
    <2> SUFFICES ASSUME ~ Contests(e)
                 PROVE  /\ db'.reversal = "CHARGEBACK" => db.reversal = "CHARGEBACK"
                        /\ \A d \in Disputes : AtIssue(d)' => AtIssue(d)
        OBVIOUS
    <2>1. ~ Reverses(e)
        BY DEF Contests, Resolves, Reverses, Loses
    <2>2. w.row.attributed => w.row.status \notin Open \cup {"LOST"}
        BY <1>1, <1>4 DEF Contests, Resolves, Open
    <2>3. \A d \in Disputes : d # e.dispute => db'.dispute[d] = db.dispute[d]
        BY <1>1, <1>2 DEF DisputeInv, DisputeTypeOK, Databases
    <2>4. db'.dispute[e.dispute] = w.row
        BY <1>1, <1>2 DEF DisputeInv, DisputeTypeOK, Databases
    <2>5. db'.reversal = "CHARGEBACK" => db.reversal = "CHARGEBACK"
        BY <1>1, <2>1
    <2>6. ASSUME NEW d \in Disputes, AtIssue(d)'
          PROVE  AtIssue(d)
        <3>1. d # e.dispute
            BY <2>2, <2>4, <2>6 DEF AtIssue
        <3>2. db'.dispute[d] = db.dispute[d]
            BY <2>3, <3>1
        <3> QED
            BY <2>6, <3>2 DEF AtIssue
    <2> QED
        BY <2>5, <2>6
<1>6. ASSUME NEW c \in Claims, NEW k \in Causes, db.exception[c][k] # NoException
      PROVE  db'.exception[c][k] # NoException
    BY <1>3, <1>6 DEF Causes, NoException
<1>7. ASSUME NEW c \in Claims, c \in Payable, Contests(e)
      PROVE  db'.exception[c]["DISPUTE"] # NoException
    <2>1. w.close = {} /\ w.raise = Payable
        BY <1>1, <1>7 DEF Contests
    <2> QED
        BY <1>3, <1>7, <2>1 DEF NoException
<1>8. \A c \in Claims : db.claim[c] \in {"ELIGIBLE", "PAID"} => c \in Payable
    BY DEF Payable
<1>9. db'.reversal = "REFUND" => db.reversal = "REFUND"
    BY <1>1
<1> QED
    BY <1>2, <1>5, <1>6, <1>7, <1>8, <1>9 DEF ClaimsAtStakeAreCovered, Covered, Causes

\* A dispute is won by the delivery that closes what it raised.
LEMMA CommitOwesNothing ==
    ASSUME ReconcileInv, NEW h \in Deliveries, Commit(h), NEW w, w = delivery[h].write,
           w.applies, ~ outdated'
    PROVE  WonDisputesOweNothing'
<1> PICK e : e = w.event
    OBVIOUS
<1>1. /\ ~ outdated /\ e.dispute \in Disputes /\ Applies(e)
      /\ w.raise = (IF Contests(e) THEN Payable ELSE {})
      /\ w.close = (IF Resolves(e) THEN OpenExceptionsOf(e.dispute) ELSE {})
      /\ w.row.status = NextStatus(e)
      /\ db.dispute[e.dispute] \in DisputeRows
      /\ db'.dispute = [db.dispute EXCEPT ![e.dispute] = w.row]
    BY Undisturbed
<1>2. DisputeInv /\ WonDisputesOweNothing
    BY <1>1 DEF ReconcileInv, UnracedBooks
<1>3. \A c \in Claims :
          /\ db'.exception[c]["REFUND"] = db.exception[c]["REFUND"]
          /\ w.close = {} =>
               db'.exception[c]["DISPUTE"] =
                   IF c \in w.raise /\ db.exception[c]["DISPUTE"] = NoException
                   THEN [status |-> "OPEN", by |-> e.dispute]
                   ELSE db.exception[c]["DISPUTE"]
          /\ w.close # {} /\ c \notin w.close =>
               db'.exception[c]["DISPUTE"] = db.exception[c]["DISPUTE"]
          /\ c \in w.close =>
               /\ db'.exception[c]["DISPUTE"].status = "RESOLVED"
               /\ db'.exception[c]["DISPUTE"].by = db.exception[c]["DISPUTE"].by
    BY <1>2, CommitExceptions
<1>4. /\ \A d \in Disputes : d # e.dispute => db'.dispute[d] = db.dispute[d]
      /\ db'.dispute[e.dispute] = w.row
    BY <1>1, <1>2 DEF DisputeInv, DisputeTypeOK, Databases
<1>5. SUFFICES ASSUME NEW d \in Disputes, NEW c \in Claims,
                      db'.dispute[d].status \in {"WON", "CLOSED"},
                      db'.exception[c]["DISPUTE"].by = d
               PROVE  db'.exception[c]["DISPUTE"].status \notin Unresolved
    BY DEF WonDisputesOweNothing
<1>6. CASE d # e.dispute
    <2>1. w.close # {} \/ db'.exception[c]["DISPUTE"] = db.exception[c]["DISPUTE"]
        BY <1>3, <1>5, <1>6
    <2> QED
        BY <1>2, <1>3, <1>4, <1>5, <1>6, <2>1 DEF WonDisputesOweNothing, Unresolved
<1>7. CASE d = e.dispute
    <2>1. NextStatus(e) \in {"WON", "CLOSED"}
        BY <1>1, <1>4, <1>5, <1>7
    <2>2. ~ Contests(e)
        BY <2>1 DEF Contests, Resolves
    <2>3. CASE db.booked
        <3>1. w.close = OpenExceptionsOf(d)
            BY <1>1, <1>7, <2>1, <2>3 DEF Resolves
        <3>2. CASE c \in w.close
            BY <1>3, <3>2 DEF Unresolved
        <3>3. CASE c \notin w.close
            <4>1. db'.exception[c]["DISPUTE"] = db.exception[c]["DISPUTE"]
                BY <1>1, <1>3, <2>2, <3>3
            <4> QED
                BY <1>5, <3>1, <3>3, <4>1 DEF OpenExceptionsOf
        <3> QED
            BY <3>2, <3>3
    <2>4. CASE ~ db.booked
        <3>1. Reported(e) = "MANUAL_REMEDIATION_REQUIRED"
            BY <2>4 DEF Reported
        <3>2. Known(e) /\ db.dispute[d].status = NextStatus(e)
            BY <1>7, <2>1, <3>1 DEF NextStatus
        <3>3. w.close = {} /\ w.raise = {}
            BY <1>1, <2>2, <2>4 DEF Resolves
        <3>4. db'.exception[c]["DISPUTE"] = db.exception[c]["DISPUTE"]
            BY <1>3, <3>3
        <3> QED
            BY <1>2, <1>5, <2>1, <3>2, <3>4 DEF WonDisputesOweNothing
    <2> QED
        BY <2>3, <2>4
<1> QED
    BY <1>6, <1>7

\* A loss is booked by the delivery that takes it in, and a dispute stays lost.
LEMMA CommitBooksLosses ==
    ASSUME ReconcileInv, NEW h \in Deliveries, Commit(h), NEW w, w = delivery[h].write,
           w.applies, ~ outdated'
    PROVE  LossesAreBooked'
<1> PICK e : e = w.event
    OBVIOUS
<1>1. /\ ~ outdated /\ e.dispute \in Disputes /\ Applies(e)
      /\ w.row.status = NextStatus(e) /\ w.row.effect = NextEffect(e)
      /\ db.dispute[e.dispute] \in DisputeRows
      /\ db'.dispute = [db.dispute EXCEPT ![e.dispute] = w.row]
      /\ db'.reversal = (IF Reverses(e) THEN "CHARGEBACK" ELSE db.reversal)
    BY Undisturbed
<1>2. DisputeInv /\ LossesAreBooked
    BY <1>1 DEF ReconcileInv, UnracedBooks
<1>3. /\ \A d \in Disputes : d # e.dispute => db'.dispute[d] = db.dispute[d]
      /\ db'.dispute[e.dispute] = w.row
    BY <1>1, <1>2 DEF DisputeInv, DisputeTypeOK, Databases
<1>4. db.reversal # "NONE" => db'.reversal # "NONE"
    BY <1>1
<1>5. NextStatus(e) = "LOST" =>
          db'.reversal # "NONE" \/ NextEffect(e) = "NOT_EXPRESSIBLE"
    <2> SUFFICES ASSUME NextStatus(e) = "LOST", db'.reversal = "NONE"
                 PROVE  NextEffect(e) = "NOT_EXPRESSIBLE"
        OBVIOUS
    <2>1. ~ Reverses(e) /\ db.reversal = "NONE" /\ ~ Resolves(e)
        BY <1>1 DEF Resolves
    <2>2. CASE db.booked
        BY <1>1, <2>1, <2>2 DEF NextEffect, Loses
    <2>3. CASE ~ db.booked
        <3>1. Known(e) /\ db.dispute[e.dispute].status = "LOST"
            BY <2>3 DEF NextStatus, Reported
        <3> QED
            BY <1>1, <1>2, <2>1, <2>3, <3>1 DEF NextEffect, Loses, LossesAreBooked
    <2> QED
        BY <2>2, <2>3
<1>6. db.dispute[e.dispute].status = "LOST" => NextStatus(e) = "LOST"
    BY DEF NextStatus, Known, Becomes, Decided, Statuses, Open
<1>7. ASSUME db'.reversal = "CHARGEBACK"
      PROVE  \E d \in Disputes : db'.dispute[d].status = "LOST"
    <2>1. CASE Reverses(e)
        BY <1>1, <1>3, <2>1 DEF Reverses, Loses
    <2>2. CASE ~ Reverses(e)
        <3>1. PICK d \in Disputes : db.dispute[d].status = "LOST"
            BY <1>1, <1>2, <1>7, <2>2 DEF LossesAreBooked
        <3> QED
            BY <1>1, <1>3, <1>6, <3>1
    <2> QED
        BY <2>1, <2>2
<1>8. ASSUME NEW d \in Disputes, db'.dispute[d].status = "LOST"
      PROVE  db'.reversal # "NONE" \/ db'.dispute[d].effect = "NOT_EXPRESSIBLE"
    <2>1. CASE d = e.dispute
        BY <1>1, <1>3, <1>5, <1>8, <2>1
    <2>2. CASE d # e.dispute
        BY <1>2, <1>3, <1>4, <1>8, <2>2 DEF LossesAreBooked
    <2> QED
        BY <2>1, <2>2
<1> QED
    BY <1>7, <1>8 DEF LossesAreBooked

LEMMA CommitReconciles ==
    ASSUME ReconcileInv, NEW h \in Deliveries, Commit(h)
    PROVE  ReconcileInv'
<1> PICK w : w = delivery[h].write
    OBVIOUS
<1>1. DisputeInv /\ DisputeInv'
    BY CommitStep DEF ReconcileInv
<1>2. IdleWritesNothing' /\ PayoutsAdvance'
    BY <1>1 DEF ReconcileInv, IdleWritesNothing, PayoutsAdvance, Commit, DisputeInv, DisputeTypeOK,
                Ready, NoWrite
<1>3. CASE outdated'
    BY <1>1, <1>2, <1>3 DEF ReconcileInv, AttributedIsBooked, UnracedBooks
<1>4. CASE ~ outdated' /\ w.applies
    <2>1. AttributedIsBooked'
        <3>1. /\ ~ outdated /\ w.event.dispute \in Disputes
              /\ w.row.attributed = (IF Known(w.event)
                                     THEN db.dispute[w.event.dispute].attributed
                                     ELSE db.booked)
              /\ db'.dispute = [db.dispute EXCEPT ![w.event.dispute] = w.row]
            BY <1>4, Undisturbed
        <3>2. db'.booked = db.booked /\ db.dispute \in [Disputes -> DisputeRows]
            BY <1>1, CommitTables DEF DisputeInv, DisputeTypeOK, Databases
        <3> QED
            BY <3>1, <3>2 DEF ReconcileInv, AttributedIsBooked
    <2>2. UnracedBooks'
        BY <1>4, CommitCovers, CommitOwesNothing, CommitBooksLosses DEF UnracedBooks
    <2> QED
        BY <1>1, <1>2, <2>1, <2>2 DEF ReconcileInv
<1>5. CASE ~ outdated' /\ ~ w.applies
    <2>1. ~ outdated
        BY <1>5 DEF Commit
    <2>2. w.raise = {} /\ w.close = {} /\ ~ w.reverse
        BY <1>5 DEF ReconcileInv, IdleWritesNothing, Commit
    <2>3. \A c \in Claims, k \in Causes : db'.exception[c][k] = db.exception[c][k]
        <3>1. \A c \in Claims : /\ db'.exception[c]["REFUND"] = db.exception[c]["REFUND"]
                                /\ w.close = {} /\ c \notin w.raise =>
                                     db'.exception[c]["DISPUTE"] = db.exception[c]["DISPUTE"]
            BY <1>1, CommitExceptions
        <3> QED
            BY <2>2, <3>1 DEF Causes
    <2>4. /\ db'.reversal = db.reversal /\ db'.claim = db.claim /\ db'.booked = db.booked
          /\ \A d \in Disputes : db'.dispute[d] = db.dispute[d]
        <3>1. /\ w.event.dispute \in Disputes
              /\ db'.dispute = [db.dispute EXCEPT ![w.event.dispute] =
                                    IF w.applies THEN w.row ELSE db.dispute[w.event.dispute]]
              /\ db'.reversal = (IF w.reverse THEN "CHARGEBACK" ELSE db.reversal)
              /\ db'.claim = db.claim /\ db'.booked = db.booked
            BY <1>1, CommitTables
        <3>2. db.dispute \in [Disputes -> DisputeRows]
            BY <1>1 DEF DisputeInv, DisputeTypeOK, Databases
        <3> QED
            BY <1>5, <2>2, <3>1, <3>2
    <2>5. AttributedIsBooked'
        BY <2>1, <2>4 DEF ReconcileInv, AttributedIsBooked
    <2>6. UnracedBooks'
        BY <2>1, <2>3, <2>4 DEF ReconcileInv, UnracedBooks, ClaimsAtStakeAreCovered,
           Covered, AtIssue, WonDisputesOweNothing, LossesAreBooked, Causes
    <2> QED
        BY <1>1, <1>2, <2>5, <2>6 DEF ReconcileInv
<1> QED
    BY <1>3, <1>4, <1>5

\* A step that leaves the rows alone.
LEMMA BooksStay ==
    ASSUME ReconcileInv, DisputeInv', IdleWritesNothing', PayoutsAdvance',
           UNCHANGED <<db, outdated>>
    PROVE  ReconcileInv'
BY DEF ReconcileInv, AttributedIsBooked, UnracedBooks, ClaimsAtStakeAreCovered,
       Covered, AtIssue, WonDisputesOweNothing, LossesAreBooked

LEMMA DeliverReconciles ==
    ASSUME ReconcileInv, NEW h \in Deliveries, NEW e \in events, Deliver(h, e)
    PROVE  ReconcileInv'
<1>1. DisputeInv'
    BY DeliverStep DEF ReconcileInv
<1>2. PICK version \in 0..MaxPolicy :
          delivery' = [delivery EXCEPT ![h] = [step  |-> "COMMIT",
                                               write |-> Decision(e, version)]]
    BY DEF Deliver
<1> PICK w : w = Decision(e, version)
    OBVIOUS
<1>3. ~ w.applies => w.raise = {} /\ w.close = {} /\ ~ w.reverse
    BY DEF Decision, Contests, Resolves, Reverses, Loses
<1>4. IdleWritesNothing'
    BY <1>2, <1>3 DEF ReconcileInv, IdleWritesNothing, DisputeInv, DisputeTypeOK
<1>5. PayoutsAdvance'
    BY DEF ReconcileInv, PayoutsAdvance, Deliver
<1> QED
    BY <1>1, <1>4, <1>5, BooksStay DEF Deliver

LEMMA FailReconciles ==
    ASSUME ReconcileInv, NEW h \in Deliveries, Fail(h)
    PROVE  ReconcileInv'
<1>1. DisputeInv'
    BY FailStep DEF ReconcileInv
<1>2. IdleWritesNothing' /\ PayoutsAdvance'
    BY DEF ReconcileInv, IdleWritesNothing, PayoutsAdvance, Fail, DisputeInv, DisputeTypeOK, Ready,
           NoWrite
<1> QED
    BY <1>1, <1>2, BooksStay DEF Fail

\* The sale is booked before anything is asked of it; a refund that finalises covers
\* who is entitled.
LEMMA SaleReconciles ==
    ASSUME ReconcileInv, Book \/ RequestRefund \/ BeginFinalize \/ Finalize
    PROVE  ReconcileInv'
<1>1. DisputeInv /\ DisputeInv' /\ db \in Databases
    BY SaleStep DEF ReconcileInv, DisputeInv, DisputeTypeOK
<1>2. IdleWritesNothing' /\ PayoutsAdvance'
    BY DEF ReconcileInv, IdleWritesNothing, PayoutsAdvance, Book, RequestRefund,
           BeginFinalize, Finalize
<1>3. CASE RequestRefund \/ BeginFinalize \/ (Finalize /\ UNCHANGED <<db, outdated>>)
    BY <1>1, <1>2, <1>3, BooksStay DEF RequestRefund, BeginFinalize
<1>4. CASE Book
    <2>1. /\ db'.booked = TRUE /\ outdated' = outdated
          /\ db'.dispute = db.dispute /\ db'.reversal = db.reversal
          /\ db'.claim = db.claim /\ db'.exception = db.exception
        BY <1>1, <1>4 DEF Book, Databases
    <2> QED
        BY <1>1, <1>2, <2>1 DEF ReconcileInv, AttributedIsBooked, UnracedBooks,
           ClaimsAtStakeAreCovered, Covered, AtIssue, WonDisputesOweNothing, LossesAreBooked
<1>5. CASE Finalize /\ ~ UNCHANGED <<db, outdated>>
    <2> PICK x : x = Raise(refund.raise, "REFUND", "REFUND")
        OBVIOUS
    <2>1. /\ db' = [db EXCEPT !.reversal = "REFUND", !.exception = x]
          /\ db.reversal = "NONE"
          /\ outdated' = (outdated \/ refund.raise # Payable)
        BY <1>5 DEF Finalize
    <2>2. /\ db'.booked = db.booked /\ db'.dispute = db.dispute /\ db'.reversal = "REFUND"
          /\ db'.claim = db.claim /\ db'.exception = x
        BY <1>1, <2>1 DEF Databases
    <2>3. CASE outdated'
        BY <1>1, <1>2, <2>3 DEF ReconcileInv, AttributedIsBooked, UnracedBooks
    <2>4. CASE ~ outdated'
        <3>1. ~ outdated /\ refund.raise = Payable
            BY <2>1, <2>4
        <3>2. ASSUME NEW c \in Claims
              PROVE  /\ x[c]["DISPUTE"] = db.exception[c]["DISPUTE"]
                     /\ db.claim[c] \in {"ELIGIBLE", "PAID"} => x[c]["REFUND"] # NoException
            <4>1. "DISPUTE" \in Causes /\ "REFUND" \in Causes
                BY DEF Causes
            <4>2. x[c]["REFUND"] = IF c \in refund.raise
                                      /\ db.exception[c]["REFUND"] = NoException
                                   THEN [status |-> "OPEN", by |-> "REFUND"]
                                   ELSE db.exception[c]["REFUND"]
                BY <1>1, <4>1, Raised
            <4>3. x[c]["DISPUTE"] = db.exception[c]["DISPUTE"]
                BY <1>1, <4>1, RaisedOfOne
            <4> QED
                BY <3>1, <4>2, <4>3 DEF Payable, NoException
        <3>3. AttributedIsBooked'
            BY <2>2, <3>1 DEF ReconcileInv, AttributedIsBooked
        <3>4. ClaimsAtStakeAreCovered'
            BY <2>2, <3>1, <3>2 DEF ReconcileInv, UnracedBooks,
               ClaimsAtStakeAreCovered, Covered, AtIssue
        <3>5. WonDisputesOweNothing' /\ LossesAreBooked'
            BY <2>2, <3>1, <3>2 DEF ReconcileInv, UnracedBooks,
               WonDisputesOweNothing, LossesAreBooked
        <3> QED
            BY <1>1, <1>2, <3>3, <3>4, <3>5 DEF ReconcileInv, UnracedBooks
    <2> QED
        BY <2>3, <2>4
<1> QED
    BY <1>3, <1>4, <1>5

\* A check reads; what it found says what may follow.
LEMMA ChecksReconcile ==
    ASSUME ReconcileInv, NEW o \in Operators,
           \/ \E c \in Claims : PayoutCheck(o, c)
           \/ \E c \in Claims, k \in Causes : ExceptionCheck(o, c, k)
    PROVE  ReconcileInv'
<1>1. DisputeInv /\ DisputeInv'
    BY OperatorStep DEF ReconcileInv
<1>2. IdleWritesNothing'
    BY DEF ReconcileInv, IdleWritesNothing, PayoutCheck, ExceptionCheck
<1>3. PayoutsAdvance'
    BY <1>1 DEF ReconcileInv, PayoutsAdvance, PayoutCheck, ExceptionCheck, DisputeInv, DisputeTypeOK,
                Causes
<1> QED
    BY <1>1, <1>2, <1>3, BooksStay DEF PayoutCheck, ExceptionCheck

\* A claim that becomes eligible undisturbed is of a sale nothing holds; one that is
\* paid was covered already.
LEMMA PayoutReconciles ==
    ASSUME ReconcileInv, NEW o \in Operators, Payout(o)
    PROVE  ReconcileInv'
<1>1. DisputeInv /\ DisputeInv' /\ db \in Databases
    BY OperatorStep DEF ReconcileInv, DisputeInv, DisputeTypeOK
<1>2. IdleWritesNothing' /\ PayoutsAdvance'
    BY <1>1 DEF ReconcileInv, IdleWritesNothing, PayoutsAdvance, Payout, Rest, DisputeInv, DisputeTypeOK
<1> PICK r : r = operator[o]
    OBVIOUS
<1>3. r.claim \in Claims /\ r.to \in ClaimStates
    BY <1>1 DEF Payout, DisputeInv, DisputeTypeOK, Causes, Rest
<1> PICK x : x = [db.claim EXCEPT ![r.claim] = r.to]
    OBVIOUS
<1>4. x \in [Claims -> ClaimStates]
      /\ \A c \in Claims : x[c] = IF c = r.claim THEN r.to ELSE db.claim[c]
    BY <1>1, <1>3 DEF Databases
<1>5. db' = [db EXCEPT !.claim = x]
    BY <1>1 DEF Payout, Databases
<1>6. /\ db'.booked = db.booked /\ db'.dispute = db.dispute /\ db'.reversal = db.reversal
      /\ db'.claim = x /\ db'.exception = db.exception
    BY <1>1, <1>4, <1>5 DEF Databases
<1>7. CASE outdated'
    BY <1>1, <1>2, <1>7 DEF ReconcileInv, AttributedIsBooked, UnracedBooks
<1>8. CASE ~ outdated'
    <2>1. ~ outdated /\ r.from = db.claim[r.claim] /\ (r.to = "ELIGIBLE" => ~ Held)
        BY <1>8 DEF Payout
    <2>2. r.to \in Advances[r.from]
        BY DEF ReconcileInv, PayoutsAdvance, Payout
    <2>3. db.claim[r.claim] \in ClaimStates
        BY <1>1, <1>3 DEF Databases
    <2>4. \/ r.to = "ELIGIBLE" /\ ~ Held
          \/ r.to = "PAID" /\ db.claim[r.claim] = "ELIGIBLE"
        BY <2>1, <2>2, <2>3 DEF Advances, ClaimStates
    <2>5. ClaimsAtStakeAreCovered'
        <3>1. ClaimsAtStakeAreCovered /\ LossesAreBooked
            BY <2>1 DEF ReconcileInv, UnracedBooks
        <3>2. CASE Held
            BY <1>3, <1>4, <1>6, <2>4, <3>1, <3>2 DEF ClaimsAtStakeAreCovered, Covered, AtIssue
        <3>3. CASE ~ Held
            <4>1. db.reversal = "NONE" /\ \A d \in Disputes : ~ AtIssue(d)
                BY <3>1, <3>3 DEF Held, AtIssue, LossesAreBooked
            <4>2. \A d \in Disputes : ~ AtIssue(d)'
                BY <1>6, <4>1 DEF AtIssue
            <4> QED
                BY <1>6, <4>1, <4>2 DEF ClaimsAtStakeAreCovered
        <3> QED
            BY <3>2, <3>3
    <2>6. WonDisputesOweNothing' /\ LossesAreBooked' /\ AttributedIsBooked'
        BY <1>6, <2>1 DEF ReconcileInv, UnracedBooks, WonDisputesOweNothing,
           LossesAreBooked, AttributedIsBooked
    <2> QED
        BY <1>1, <1>2, <2>5, <2>6 DEF ReconcileInv, UnracedBooks
<1> QED
    BY <1>7, <1>8

\* Only an exception somebody still works on moves.
LEMMA AdvanceReconciles ==
    ASSUME ReconcileInv, NEW o \in Operators, AdvanceException(o)
    PROVE  ReconcileInv'
<1>1. DisputeInv /\ DisputeInv' /\ db \in Databases
    BY OperatorStep DEF ReconcileInv, DisputeInv, DisputeTypeOK
<1>2. IdleWritesNothing' /\ PayoutsAdvance'
    BY <1>1 DEF ReconcileInv, IdleWritesNothing, PayoutsAdvance, AdvanceException, Rest,
                DisputeInv, DisputeTypeOK
<1> PICK r : r = operator[o]
    OBVIOUS
<1>3. /\ r.claim \in Claims /\ r.step \in Causes /\ r.to \in {"ACKNOWLEDGED", "RESOLVED"}
      /\ r.from \in Unresolved
    <2>1. r.step \in Causes
        BY DEF AdvanceException
    <2>2. r \in {Rest}
               \cup [step : {"PAYOUT"}, claim : Claims, from : ClaimStates, to : ClaimStates]
               \cup [step : Causes, claim : Claims, to : {"ACKNOWLEDGED", "RESOLVED"},
                     from : {"OPEN", "ACKNOWLEDGED"}]
        BY <1>1 DEF DisputeInv, DisputeTypeOK
    <2> QED
        BY <2>1, <2>2 DEF Causes, Rest, Unresolved
<1> PICK q \in ExceptionRows : q = db.exception[r.claim][r.step]
    BY <1>1, <1>3 DEF Databases
<1> PICK p : p = [q EXCEPT !.status = r.to]
    OBVIOUS
<1>4. p \in ExceptionRows /\ p.status = r.to /\ p.by = q.by
    BY <1>3 DEF ExceptionRows
<1> PICK x : x = [db.exception EXCEPT ![r.claim][r.step] = p]
    OBVIOUS
<1>5. /\ x \in [Claims -> [Causes -> ExceptionRows]]
      /\ x[r.claim][r.step] = p
      /\ \A c \in Claims, k \in Causes :
            c # r.claim \/ k # r.step => x[c][k] = db.exception[c][k]
    <2>1. db.exception \in [Claims -> [Causes -> ExceptionRows]]
        BY <1>1 DEF Databases
    <2> QED
        BY <1>3, <1>4, <2>1
<1>6. db' = [db EXCEPT !.exception = x]
    BY <1>1, <1>3 DEF AdvanceException, Databases
<1>7. /\ db'.booked = db.booked /\ db'.dispute = db.dispute /\ db'.reversal = db.reversal
      /\ db'.claim = db.claim /\ db'.exception = x
    BY <1>1, <1>5, <1>6 DEF Databases
<1>8. CASE outdated'
    BY <1>1, <1>2, <1>8 DEF ReconcileInv, AttributedIsBooked, UnracedBooks
<1>9. CASE ~ outdated'
    <2>1. ~ outdated /\ q.status \in Unresolved
        BY <1>3, <1>9 DEF AdvanceException
    <2>2. ClaimsAtStakeAreCovered'
        <3>1. \A c \in Claims, k \in Causes :
                  x[c][k] = NoException => db.exception[c][k] = NoException
            <4>1. p # NoException
                BY <1>3, <1>4 DEF NoException
            <4> SUFFICES ASSUME NEW c \in Claims, NEW k \in Causes, x[c][k] = NoException
                         PROVE  db.exception[c][k] = NoException
                OBVIOUS
            <4> QED
                BY <1>5, <4>1
        <3>2. ClaimsAtStakeAreCovered /\ \A d \in Disputes : AtIssue(d)' <=> AtIssue(d)
            BY <1>7, <2>1 DEF ReconcileInv, UnracedBooks, AtIssue
        <3>3. \A c \in Claims, k \in Causes :
                  db.exception[c][k] # NoException => db'.exception[c][k] # NoException
            <4>1. db'.exception = x
                BY <1>7
            <4> QED
                BY <3>1, <4>1
        <3>4. /\ db'.reversal = db.reversal /\ db'.claim = db.claim
              /\ "DISPUTE" \in Causes /\ "REFUND" \in Causes
            BY <1>7 DEF Causes
        <3> QED
            BY <3>2, <3>3, <3>4 DEF ClaimsAtStakeAreCovered, Covered
    <2>3. WonDisputesOweNothing'
        <3>1. \A c \in Claims : /\ x[c]["DISPUTE"].by = db.exception[c]["DISPUTE"].by
                                /\ x[c]["DISPUTE"].status \in Unresolved =>
                                     db.exception[c]["DISPUTE"].status \in Unresolved
            BY <1>4, <1>5, <2>1 DEF Causes
        <3> QED
            <4>1. /\ db'.dispute = db.dispute /\ db'.exception = x
                  /\ WonDisputesOweNothing
                BY <1>7, <2>1 DEF ReconcileInv, UnracedBooks
            <4> SUFFICES ASSUME NEW d \in Disputes, NEW c \in Claims,
                                db'.dispute[d].status \in {"WON", "CLOSED"},
                                db'.exception[c]["DISPUTE"].by = d
                         PROVE  db'.exception[c]["DISPUTE"].status \notin Unresolved
                BY DEF WonDisputesOweNothing
            <4>2. x[c]["DISPUTE"].by = d /\ db.dispute[d].status \in {"WON", "CLOSED"}
                BY <4>1
            <4>3. db.exception[c]["DISPUTE"].by = d
                BY <3>1, <4>2
            <4>4. db.exception[c]["DISPUTE"].status \notin Unresolved
                BY <4>1, <4>2, <4>3 DEF WonDisputesOweNothing
            <4>5. x[c]["DISPUTE"].status \notin Unresolved
                BY <3>1, <4>4
            <4> QED
                BY <4>1, <4>5
    <2>4. LossesAreBooked' /\ AttributedIsBooked'
        BY <1>7, <2>1 DEF ReconcileInv, UnracedBooks, LossesAreBooked,
           AttributedIsBooked
    <2> QED
        BY <1>1, <1>2, <2>2, <2>3, <2>4 DEF ReconcileInv, UnracedBooks
<1> QED
    BY <1>8, <1>9

LEMMA InitReconciles == DisputeInit => ReconcileInv
<1> SUFFICES ASSUME DisputeInit
             PROVE  ReconcileInv
    OBVIOUS
<1>1. IdleWritesNothing /\ PayoutsAdvance
    BY DEF DisputeInit, IdleWritesNothing, PayoutsAdvance, Ready, Rest
<1>2. AttributedIsBooked /\ UnracedBooks
    BY DEF DisputeInit, EmptyDatabase, NoDispute, NoException, AttributedIsBooked, UnracedBooks,
           ClaimsAtStakeAreCovered, WonDisputesOweNothing, LossesAreBooked
<1> QED
    BY <1>1, <1>2, InitInv DEF ReconcileInv

LEMMA StepReconciles == ReconcileInv /\ [DisputeNext]_disputeVars => ReconcileInv'
<1> SUFFICES ASSUME ReconcileInv, [DisputeNext]_disputeVars
             PROVE  ReconcileInv'
    OBVIOUS
<1>1. CASE UNCHANGED disputeVars
    <2>1. DisputeInv'
        BY <1>1, StepInv DEF ReconcileInv
    <2>2. IdleWritesNothing' /\ PayoutsAdvance'
        BY <1>1 DEF disputeVars, ReconcileInv, IdleWritesNothing, PayoutsAdvance
    <2> QED
        BY <1>1, <2>1, <2>2, BooksStay DEF disputeVars
<1>2. CASE Book \/ RequestRefund \/ BeginFinalize \/ Finalize
    BY <1>2, SaleReconciles
<1>3. ASSUME NEW h \in Deliveries, (\E e \in events : Deliver(h, e)) \/ Commit(h) \/ Fail(h)
      PROVE  ReconcileInv'
    BY <1>3, DeliverReconciles, CommitReconciles, FailReconciles
<1>4. ASSUME NEW o \in Operators,
             \/ \E c \in Claims : PayoutCheck(o, c)
             \/ Payout(o)
             \/ \E c \in Claims, k \in Causes : ExceptionCheck(o, c, k)
             \/ AdvanceException(o)
      PROVE  ReconcileInv'
    BY <1>4, ChecksReconcile, PayoutReconciles, AdvanceReconciles
<1> QED
    BY <1>1, <1>2, <1>3, <1>4 DEF DisputeNext

\* What the books say of losses, claims and exceptions decides what the report finds.
LEMMA BooksExplainFindings ==
    ASSUME ClaimsAtStakeAreCovered, WonDisputesOweNothing, LossesAreBooked
    PROVE  FindingsAreExplained
<1> SUFFICES ASSUME NEW d \in Disputes
             PROVE  LET partial == /\ db.dispute[d].status = "LOST"
                                   /\ db.dispute[d].effect = "NOT_EXPRESSIBLE"
                    IN
                    /\ Finds(d, "LOST_WITHOUT_REVERSAL") => partial
                    /\ \/ Finds(d, "PROCEEDS_STILL_ELIGIBLE")
                       \/ Finds(d, "PAID_PROCEEDS_LACK_RECOVERY")
                       => \/ partial
                          \/ \A c \in Claims : db.claim[c] \in {"ELIGIBLE", "PAID"} =>
                                Covered(c, "DISPUTE")
                    /\ ~ Finds(d, "WON_STALE_RECOVERY_EXCEPTION")
    BY DEF FindingsAreExplained
<1>1. Finds(d, "LOST_WITHOUT_REVERSAL") => db.dispute[d].status = "LOST" /\ db.reversal = "NONE"
    BY DEF Finds
<1>2. Finds(d, "PROCEEDS_STILL_ELIGIBLE") \/ Finds(d, "PAID_PROCEEDS_LACK_RECOVERY") =>
          /\ db.dispute[d].attributed
          /\ db.dispute[d].status \in Open \cup {"LOST"}
    BY DEF Finds
<1>3. ~ Finds(d, "WON_STALE_RECOVERY_EXCEPTION")
    BY DEF Finds, OpenExceptionsOf, WonDisputesOweNothing
<1> QED
    BY <1>1, <1>2, <1>3 DEF LossesAreBooked, ClaimsAtStakeAreCovered, AtIssue

\* For any number of disputes of one sale: as long as no request has written on rows
\* that had changed since it read them, every claim at stake has its exception, a won
\* dispute leaves none open, a lost one has reversed the sale unless its amount is not
\* the sale's, and reconcileDispute finds nothing else than what is explained.
THEOREM UnracedReconciliation == DisputeSpec => []UnracedBooksReconcile
<1>1. ReconcileInv => UnracedBooksReconcile
    BY BooksExplainFindings DEF ReconcileInv, UnracedBooks, UnracedBooksReconcile
<1> QED
    BY <1>1, InitReconciles, StepReconciles, PTL DEF DisputeSpec

==============================================================================
