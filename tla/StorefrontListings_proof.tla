---------------------- MODULE StorefrontListings_proof ----------------------
(***************************************************************************)
(* Any number of requests place, price, move and withdraw the listings of a     *)
(* storefront, each deciding on what its transaction read and under whatever     *)
(* label it is given.  A product keeps one current listing, a promoter's          *)
(* activation that nobody overtook finds the room it counted, and the rows are    *)
(* a history: all follow from what a pending write rests on.                     *)
(***************************************************************************)
EXTENDS StorefrontListings, FiniteSetTheorems, TLAPS

------------------------------------------------------------------------------
\* The inductive invariant

\* Nothing is there before a listing is created; then it points to one of its versions,
\* the last of a line where no label was made up.
ListingOK(l) ==
    /\ l \notin Created => listing[l] = Absent /\ version[l] = NoVersions
    /\ l \in Created => listing[l].label \in DOMAIN version[l]
    /\ l \in Created \ strayed => DOMAIN version[l] = 1..listing[l].label

\* What a request is going to write: the first version, or a move from a version that is
\* there for good; where labels are in line, its own is not beyond the next.
DecisionOK(p) ==
    /\ p.kind = "CREATE" => p.row.label = 1 /\ p.new = FirstVersion /\ p.follows
    /\ p.kind \in {"REVISE", "ACTIVATE"} =>
         LET from == version[p.listing][p.new.basis].lifecycle IN
         /\ p.listing \in Created /\ p.new.basis \in DOMAIN version[p.listing]
         /\ p.row.label \in Labels
         /\ p.new.lifecycle \in Transitions[from] \cup {from}
         /\ p.follows /\ p.listing \notin strayed => p.row.label <= p.new.basis + 1

\* An activation that no other has overtaken still has the room it counted.
StillRoom == \A q \in Requests :
    request[q].kind = "ACTIVATE" /\ q \notin overtaken => Cardinality(Active) < Allowance

PlacesInv ==
    /\ ListingInv
    /\ \A l \in Listings : ListingOK(l)
    /\ \A q \in Requests : DecisionOK(request[q])
    /\ StillRoom

LEMMA ListingTypes ==
    ASSUME PlacesInv
    PROVE  /\ listing \in [Listings -> Rows]
           /\ DOMAIN version = Listings
           /\ \A l \in Listings : /\ DOMAIN version[l] \subseteq Labels
                                  /\ version[l] \in [DOMAIN version[l] -> Versions]
           /\ request \in [Requests -> Pending]
           /\ overtaken \subseteq Requests /\ strayed \subseteq Listings
           /\ \A l \in Listings : listing[l].label \in Nat
           /\ Active \subseteq Created /\ Created \subseteq Listings
           /\ IsFiniteSet(Active) /\ Cardinality(Active) \in Nat
<1>1. Active \subseteq Created /\ Created \subseteq Listings
    BY DEF Active, Created
<1>2. IsFiniteSet(Active) /\ Cardinality(Active) \in Nat
    BY <1>1, ListingAssumption, FS_Subset, FS_CardinalityType
<1>3. TypeOK
    BY DEF PlacesInv, ListingInv
<1>4. \A l \in Listings : listing[l].label \in Nat
    BY <1>3, ListingAssumption DEF TypeOK, Rows
<1> QED
    BY <1>1, <1>2, <1>3, <1>4 DEF TypeOK

LEMMA NothingYet ==
    /\ Absent \in Rows /\ Absent.label = 0
    /\ FirstVersion \in Versions /\ FirstVersion.basis = 0 /\ FirstVersion.lifecycle = "DRAFT"
    /\ DOMAIN NoVersions = {} /\ NoVersions \in [{} -> Versions]
    /\ Idle \in Pending /\ Idle.kind = "NONE" /\ Idle.new = FirstVersion /\ Idle.follows
    /\ Idle.row = Absent
    /\ DecisionOK(Idle)
<1>1. AnyProduct \in Products /\ AnyListing \in Listings
    BY ListingAssumption DEF AnyProduct, AnyListing
<1>2. Absent \in Rows /\ Absent.label = 0
    BY <1>1, ListingAssumption DEF Absent, Rows, Types
<1>3. FirstVersion \in Versions /\ FirstVersion.basis = 0 /\ FirstVersion.lifecycle = "DRAFT"
    BY ListingAssumption DEF FirstVersion, Versions, Lifecycles, Transitions
<1>4. DOMAIN NoVersions = {} /\ NoVersions \in [{} -> Versions]
    BY DEF NoVersions
<1>5. /\ Idle \in Pending /\ Idle.kind = "NONE" /\ Idle.new = FirstVersion /\ Idle.follows
      /\ Idle.row = Absent
    BY <1>1, <1>2, <1>3 DEF Idle, Pending, Kinds
<1> QED
    BY <1>2, <1>3, <1>4, <1>5 DEF DecisionOK

------------------------------------------------------------------------------
\* A request reads and decides; if it is an activation, it has counted.

LEMMA DecideStep ==
    ASSUME PlacesInv, NEW q \in Requests, NEW p \in Pending, DecisionOK(p), Begin(q, p),
           p.kind = "ACTIVATE" => Cardinality(Active) < Allowance
    PROVE  PlacesInv'
<1>1. /\ request' \in [Requests -> Pending] /\ request'[q] = p
      /\ \A r \in Requests \ {q} : request'[r] = request[r]
      /\ UNCHANGED <<listing, version, overtaken, strayed>>
    BY ListingTypes DEF Begin
<1>2. Created' = Created /\ Active' = Active
    BY <1>1 DEF Created, Active, Current
<1>3. ListingInv'
    BY <1>1, <1>2 DEF PlacesInv, ListingInv, TypeOK, OnePlacement, Placed, Current
<1>4. \A l \in Listings : ListingOK(l)'
    BY <1>1, <1>2 DEF PlacesInv, ListingOK
<1>5. \A r \in Requests : DecisionOK(request[r])'
    BY <1>1, <1>2 DEF PlacesInv, DecisionOK
<1>6. StillRoom'
    BY <1>1, <1>2 DEF PlacesInv, StillRoom
<1> QED
    BY <1>3, <1>4, <1>5, <1>6 DEF PlacesInv

LEMMA BeginCreateStep ==
    ASSUME PlacesInv, NEW q \in Requests, BeginCreate(q)
    PROVE  PlacesInv'
<1>1. PICK l \in Listings \ Created, product \in Products, type \in Types, priced \in BOOLEAN :
         Begin(q, [Idle EXCEPT !.kind = "CREATE", !.listing = l,
                               !.row = [label |-> 1, type |-> type, product |-> product,
                                        priced |-> priced]])
    BY DEF BeginCreate
<1>2. PICK row : row = [label |-> 1, type |-> type, product |-> product, priced |-> priced]
    OBVIOUS
<1>3. row \in Rows /\ row.label = 1
    <2>1. 1 \in 0..MaxVersions
        BY ListingAssumption
    <2> QED
        BY <1>2, <2>1 DEF Rows
<1>4. PICK old \in Pending : old = Idle /\ old.new = FirstVersion /\ old.follows
    BY NothingYet
<1>5. PICK p : p = [old EXCEPT !.kind = "CREATE", !.listing = l, !.row = row]
    OBVIOUS
<1>6. /\ p \in Pending /\ p.kind = "CREATE"
      /\ p.row.label = 1 /\ p.new = FirstVersion /\ p.follows
    BY <1>3, <1>4, <1>5 DEF Pending, Kinds
<1>7. DecisionOK(p)
    BY <1>6 DEF DecisionOK
<1>8. Begin(q, p)
    BY <1>1, <1>2, <1>4, <1>5
<1> QED
    BY <1>6, <1>7, <1>8, DecideStep

\* A version made from the one that was read, under a label that is in the bound.
LEMMA RevisionDecided ==
    ASSUME PlacesInv, NEW q \in Requests, NEW l \in Created, NEW label \in Labels,
           NEW kind \in {"REVISE", "ACTIVATE"}, NEW priced \in BOOLEAN,
           NEW lifecycle \in Transitions[Current(l)] \cup {Current(l)},
           kind = "ACTIVATE" => Cardinality(Active) < Allowance,
           Begin(q, Revision(kind, l, label, lifecycle, priced))
    PROVE  PlacesInv'
<1>1. PICK follows \in BOOLEAN : follows = (label = 1 \/ label - 1 \in DOMAIN version[l])
    OBVIOUS
<1>2. PICK old \in Rows : old = listing[l]
    BY ListingTypes
<1>3. PICK n : n = old.label
    OBVIOUS
<1>4. l \in Listings /\ n \in Nat /\ n \in 0..MaxVersions /\ n \in DOMAIN version[l]
    BY <1>2, <1>3, ListingTypes DEF Rows, PlacesInv, ListingOK
<1>5. PICK from \in Lifecycles : from = Current(l) /\ from = version[l][n].lifecycle
    BY <1>2, <1>3, <1>4, ListingTypes DEF Current, Versions
<1>6. lifecycle \in Lifecycles
    <2>1. Transitions[from] \subseteq Lifecycles
        BY DEF Lifecycles, Transitions
    <2> QED
        BY <1>5, <2>1
<1>7. PICK new : new = [basis |-> n, lifecycle |-> lifecycle]
    OBVIOUS
<1>8. new \in Versions /\ new.basis = n /\ new.lifecycle = lifecycle
    BY <1>4, <1>6, <1>7 DEF Versions
<1>9. PICK row : row = [old EXCEPT !.label = label, !.priced = priced]
    OBVIOUS
<1>10. row \in Rows /\ row.label = label /\ label \in Nat
    <2>1. label \in 0..MaxVersions /\ label \in Nat
        BY ListingAssumption DEF Labels
    <2> QED
        BY <1>9, <2>1 DEF Rows
<1>11. PICK p : p = [kind |-> kind, listing |-> l, row |-> row, new |-> new, follows |-> follows]
    OBVIOUS
<1>12. /\ p \in Pending /\ p.kind = kind /\ p.listing = l /\ p.row = row /\ p.new = new
       /\ p.follows = follows
    BY <1>4, <1>8, <1>10, <1>11 DEF Pending, Kinds
<1>13. follows /\ l \notin strayed => label <= n + 1
    <2>1. l \notin strayed => DOMAIN version[l] = 1..n
        BY <1>2, <1>3, <1>4 DEF PlacesInv, ListingOK
    <2>2. ASSUME l \notin strayed, label = 1 \/ label - 1 \in DOMAIN version[l]
          PROVE  label <= n + 1
        BY <1>4, <1>10, <2>1, <2>2
    <2> QED
        BY <1>1, <2>2
<1>14. lifecycle \in Transitions[version[l][n].lifecycle] \cup {version[l][n].lifecycle}
    BY <1>5
<1>15. DecisionOK(p)
    BY <1>4, <1>8, <1>10, <1>12, <1>13, <1>14 DEF DecisionOK
<1>16. Begin(q, p)
    BY <1>1, <1>2, <1>3, <1>7, <1>9, <1>11 DEF Revision, FollowsOne
<1> QED
    BY <1>12, <1>15, <1>16, DecideStep

LEMMA BeginReviseStep ==
    ASSUME PlacesInv, NEW q \in Requests, BeginRevise(q)
    PROVE  PlacesInv'
<1>1. PICK l \in Created : \E priced \in BOOLEAN, label \in Labels,
           lifecycle \in Transitions[Current(l)] \cup {Current(l)} :
         Begin(q, Revision("REVISE", l, label, lifecycle, priced))
    BY DEF BeginRevise
<1> QED
    BY <1>1, RevisionDecided

LEMMA BeginPromotedStep ==
    ASSUME PlacesInv, NEW q \in Requests,
           BeginPrice(q) \/ BeginWithdraw(q) \/ BeginActivate(q)
    PROVE  PlacesInv'
<1>0. PICK l \in Created : \E kind \in {"REVISE", "ACTIVATE"}, priced \in BOOLEAN,
           lifecycle \in Transitions[Current(l)] \cup {Current(l)} :
         /\ kind = "ACTIVATE" => Cardinality(Active) < Allowance
         /\ BeginNext(q, kind, l, lifecycle, priced)
    <2>1. ASSUME NEW l \in Created
          PROVE  /\ listing[l].priced \in BOOLEAN
                 /\ Current(l) \notin Terminal => "WITHDRAWN" \in Transitions[Current(l)]
                 /\ Current(l) = "DRAFT" => "ACTIVE" \in Transitions[Current(l)]
        <3>1. l \in Listings /\ listing[l] \in Rows /\ listing[l].label \in DOMAIN version[l]
            BY <2>1, ListingTypes DEF PlacesInv, ListingOK
        <3>2. Current(l) \in Lifecycles
            BY <3>1, ListingTypes DEF Current, Versions
        <3>3. \A state \in Lifecycles \ Terminal : "WITHDRAWN" \in Transitions[state]
            BY DEF Lifecycles, Terminal, Transitions
        <3>4. "ACTIVE" \in Transitions["DRAFT"]
            BY DEF Transitions
        <3> QED
            BY <3>1, <3>2, <3>3, <3>4 DEF Rows
    <2>2. CASE BeginPrice(q)
        BY <2>2 DEF BeginPrice
    <2>3. CASE BeginWithdraw(q)
        BY <2>1, <2>3 DEF BeginWithdraw
    <2>4. CASE BeginActivate(q)
        BY <2>1, <2>4 DEF BeginActivate, HasRoom
    <2> QED
        BY <2>2, <2>3, <2>4
<1>1. PICK kind \in {"REVISE", "ACTIVATE"}, priced \in BOOLEAN,
           lifecycle \in Transitions[Current(l)] \cup {Current(l)} :
         /\ kind = "ACTIVATE" => Cardinality(Active) < Allowance
         /\ BeginNext(q, kind, l, lifecycle, priced)
    BY <1>0
<1>2. PICK n : n = listing[l].label
    OBVIOUS
<1>3. n \in Nat /\ n > 0 /\ n < MaxVersions
    BY <1>1, <1>2, ListingTypes DEF BeginNext, Created
<1>4. n + 1 \in Labels
    BY <1>3, ListingAssumption DEF Labels
<1>5. Begin(q, Revision(kind, l, n + 1, lifecycle, priced))
    BY <1>1, <1>2 DEF BeginNext
<1> QED
    BY <1>1, <1>4, <1>5, RevisionDecided

------------------------------------------------------------------------------
\* ... and commits

\* A request that ends leaves the others as they were, and what they read of a listing's
\* versions stays: a version is added, never taken away or rewritten.
LEMMA OthersWait ==
    ASSUME PlacesInv, NEW q \in Requests, End(q),
           Created \subseteq Created', strayed \subseteq strayed',
           \A l \in Listings : /\ DOMAIN version[l] \subseteq DOMAIN version'[l]
                               /\ \A n \in DOMAIN version[l] : version'[l][n] = version[l][n]
    PROVE  /\ request' \in [Requests -> Pending] /\ request'[q] = Idle
           /\ \A r \in Requests \ {q} : request'[r] = request[r]
           /\ \A r \in Requests : DecisionOK(request[r])'
<1>1. /\ request' \in [Requests -> Pending] /\ request'[q] = Idle
      /\ \A r \in Requests \ {q} : request'[r] = request[r]
    BY ListingTypes, NothingYet DEF End
<1>2. DecisionOK(request[q])'
    BY <1>1, NothingYet DEF DecisionOK
<1>3. ASSUME NEW r \in Requests \ {q}
      PROVE  DecisionOK(request[r])'
    <2>1. PICK p \in Pending : p = request[r]
        BY ListingTypes
    <2>2. DecisionOK(p) /\ request'[r] = p /\ p.listing \in Listings
        BY <1>1, <2>1 DEF PlacesInv, Pending
    <2>3. p.kind \in {"REVISE", "ACTIVATE"} =>
             /\ p.new.basis \in DOMAIN version'[p.listing]
             /\ version'[p.listing][p.new.basis] = version[p.listing][p.new.basis]
        BY <2>2 DEF DecisionOK
    <2> QED
        BY <2>2, <2>3 DEF DecisionOK
<1> QED
    BY <1>1, <1>2, <1>3

LEMMA RefuseListingStep ==
    ASSUME PlacesInv, NEW q \in Requests, Refuse(q)
    PROVE  PlacesInv'
<1>1. /\ End(q) /\ UNCHANGED <<listing, version, strayed>> /\ overtaken' = overtaken \ {q}
    BY DEF Refuse
<1>2. Created' = Created /\ Active' = Active
    BY <1>1 DEF Created, Active, Current
<1>3. /\ request' \in [Requests -> Pending] /\ request'[q] = Idle
      /\ \A r \in Requests \ {q} : request'[r] = request[r]
      /\ \A r \in Requests : DecisionOK(request[r])'
    BY <1>1, <1>2, OthersWait
<1>4. ListingInv'
    BY <1>1, <1>2, <1>3 DEF PlacesInv, ListingInv, TypeOK, OnePlacement, Placed, Current
<1>5. \A l \in Listings : ListingOK(l)'
    BY <1>1, <1>2 DEF PlacesInv, ListingOK
<1>6. StillRoom'
    BY <1>1, <1>2, <1>3, NothingYet DEF PlacesInv, StillRoom
<1> QED
    BY <1>3, <1>4, <1>5, <1>6 DEF PlacesInv

LEMMA AddedRows ==
    ASSUME NEW rows, rows \in [DOMAIN rows -> Versions], NEW label, NEW new \in Versions
    PROVE  /\ DOMAIN Added(rows, label, new) = DOMAIN rows \cup {label}
           /\ Added(rows, label, new) \in [DOMAIN rows \cup {label} -> Versions]
    BY DEF Added

LEMMA AddedShows ==
    ASSUME NEW rows, NEW label, NEW new
    PROVE  Added(rows, label, new)[label] = new
    BY DEF Added

LEMMA AddedKeeps ==
    ASSUME NEW rows, NEW label, NEW new, NEW n \in DOMAIN rows, n # label
    PROVE  Added(rows, label, new)[n] = rows[n]
    BY DEF Added

\* A version that passes the index of labels is the next of its line, where it and all
\* before it are in line.
LEMMA WritesNext ==
    ASSUME PlacesInv, NEW q \in Requests, NEW p, p = request[q], NEW l, l = p.listing,
           p.kind \in {"CREATE", "REVISE", "ACTIVATE"}, p.kind = "CREATE" => l \notin Created,
           LabelIsFree(q)
    PROVE  /\ l \in Listings /\ p \in Pending /\ p.row.label \in Labels \ DOMAIN version[l]
           /\ p.follows /\ l \notin strayed => DOMAIN version[l] = 1..(p.row.label - 1)
           /\ p.kind # "CREATE" =>
                LET from == version[l][p.new.basis].lifecycle IN
                /\ l \in Created /\ p.new.basis \in DOMAIN version[l]
                /\ p.new.lifecycle \in Transitions[from] \cup {from}
                /\ p.follows /\ l \notin strayed => /\ p.new.basis = listing[l].label
                                                    /\ p.row.label = p.new.basis + 1
<1>1. /\ l \in Listings /\ p \in Pending /\ DecisionOK(p) /\ ListingOK(l)
      /\ p.row.label \notin DOMAIN version[l]
    BY ListingTypes DEF PlacesInv, Pending, LabelIsFree
<1>2. CASE p.kind = "CREATE"
    <2>1. p.row.label = 1 /\ DOMAIN version[l] = {}
        BY <1>1, <1>2, NothingYet DEF DecisionOK, ListingOK
    <2>2. 1 \in Labels /\ 1..(1 - 1) = {}
        BY ListingAssumption DEF Labels
    <2> QED
        BY <1>1, <1>2, <2>1, <2>2
<1>3. CASE p.kind \in {"REVISE", "ACTIVATE"}
    <2>1. /\ l \in Created /\ p.new.basis \in DOMAIN version[l] /\ p.row.label \in Labels
          /\ p.new.lifecycle \in Transitions[version[l][p.new.basis].lifecycle]
                                   \cup {version[l][p.new.basis].lifecycle}
        BY <1>1, <1>3 DEF DecisionOK
    <2>2. ASSUME p.follows, l \notin strayed
          PROVE  /\ p.new.basis = listing[l].label /\ p.row.label = p.new.basis + 1
                 /\ DOMAIN version[l] = 1..(p.row.label - 1)
        <3>1. PICK b, n, v : b = p.new.basis /\ n = p.row.label /\ v = listing[l].label
            OBVIOUS
        <3>2. b \in Nat /\ n \in Nat /\ n >= 1 /\ v \in Nat
            BY <1>1, <2>1, <3>1, ListingTypes, ListingAssumption DEF Labels
        <3>3. n <= b + 1 /\ b \in DOMAIN version[l] /\ DOMAIN version[l] = 1..v /\ n \notin 1..v
            BY <1>1, <1>3, <2>1, <2>2, <3>1 DEF DecisionOK, ListingOK
        <3>4. b = v /\ n = b + 1 /\ n - 1 = v
            BY <3>2, <3>3
        <3> QED
            BY <3>1, <3>3, <3>4
    <2> QED
        BY <1>1, <1>3, <2>1, <2>2
<1> QED
    BY <1>2, <1>3

\* What every commit does.
LEMMA WriteStep ==
    ASSUME PlacesInv, NEW q \in Requests, NEW p, p = request[q], NEW l, l = p.listing,
           p.kind \in {"CREATE", "REVISE", "ACTIVATE"}, p.kind = "CREATE" => l \notin Created,
           Write(q), overtaken' \subseteq Requests
    PROVE  /\ ListingInv'
           /\ \A k \in Listings : ListingOK(k)'
           /\ \A r \in Requests : DecisionOK(request[r])'
           /\ request'[q] = Idle /\ \A r \in Requests \ {q} : request'[r] = request[r]
           /\ Active' \subseteq Active \cup {l}
           /\ l \in Active' <=> p.new.lifecycle = "ACTIVE"
           /\ l \in Listings
<1>1. /\ l \in Listings /\ p \in Pending /\ p.row.label \in Labels \ DOMAIN version[l]
      /\ p.follows /\ l \notin strayed => DOMAIN version[l] = 1..(p.row.label - 1)
    BY WritesNext DEF Write
<1>2. PICK row \in Rows : row = p.row
    BY <1>1 DEF Pending
<1>3. PICK new \in Versions : new = p.new
    BY <1>1 DEF Pending
<1>4. row.label \in Nat /\ row.label > 0 /\ p.follows \in BOOLEAN
    BY <1>1, <1>2, ListingAssumption DEF Labels, Pending
<1>5. PICK rows : rows = Added(version[l], row.label, new)
    OBVIOUS
<1>6. /\ DOMAIN rows = DOMAIN version[l] \cup {row.label} /\ rows \in [DOMAIN rows -> Versions]
      /\ rows[row.label] = new
      /\ \A n \in DOMAIN version[l] : rows[n] = version[l][n]
    <2>1. version[l] \in [DOMAIN version[l] -> Versions]
        BY <1>1, ListingTypes
    <2>2. /\ DOMAIN rows = DOMAIN version[l] \cup {row.label}
          /\ rows \in [DOMAIN version[l] \cup {row.label} -> Versions]
        BY <1>5, <2>1, AddedRows
    <2>3. ASSUME NEW n \in DOMAIN version[l]
          PROVE  rows[n] = version[l][n]
        <3>1. n # row.label
            BY <1>1, <1>2
        <3> QED
            BY <1>5, <3>1, AddedKeeps
    <2>4. rows[row.label] = new
        BY <1>5, AddedShows
    <2> QED
        BY <2>2, <2>3, <2>4
<1>7. /\ listing' = [listing EXCEPT ![l] = row] /\ End(q)
      /\ listing' \in [Listings -> Rows]
      /\ listing'[l] = row /\ \A k \in Listings \ {l} : listing'[k] = listing[k]
      /\ strayed' = IF p.follows THEN strayed ELSE strayed \cup {l}
    BY <1>1, <1>2, ListingTypes DEF Write
<1>8. /\ DOMAIN version' = Listings
      /\ version'[l] = rows /\ \A k \in Listings \ {l} : version'[k] = version[k]
    BY <1>1, <1>2, <1>3, <1>5, ListingTypes DEF Write
<1>9. strayed \subseteq strayed' /\ strayed' \subseteq Listings
    BY <1>1, <1>7, ListingTypes
<1>10. Created' = Created \cup {l}
    BY <1>1, <1>4, <1>7 DEF Created
<1>11. /\ request' \in [Requests -> Pending] /\ request'[q] = Idle
       /\ \A r \in Requests \ {q} : request'[r] = request[r]
       /\ \A r \in Requests : DecisionOK(request[r])'
    <2>1. \A k \in Listings : /\ DOMAIN version[k] \subseteq DOMAIN version'[k]
                              /\ \A n \in DOMAIN version[k] : version'[k][n] = version[k][n]
        BY <1>6, <1>8
    <2> QED
        BY <1>7, <1>9, <1>10, <2>1, OthersWait
<1>12. \A k \in Listings : /\ DOMAIN version'[k] \subseteq Labels
                           /\ version'[k] \in [DOMAIN version'[k] -> Versions]
    BY <1>1, <1>2, <1>6, <1>8, ListingTypes
<1>13. TypeOK'
    BY <1>7, <1>8, <1>9, <1>11, <1>12 DEF TypeOK
<1>14. /\ version'[l][listing'[l].label].lifecycle = new.lifecycle
       /\ \A k \in Listings \ {l} : version'[k][listing'[k].label].lifecycle = Current(k)
    BY <1>6, <1>7, <1>8 DEF Current
<1>15. OnePlacement'
    <2>1. new.lifecycle \notin Terminal => Placed(row.product) \subseteq {l}
        BY <1>2, <1>3 DEF Write, PlaceIsFree
    <2>2. \A product \in Products : Placed(product)' \subseteq Placed(product) \cup {l}
        BY <1>7, <1>10, <1>14 DEF Placed, Created, Current
    <2>3. \A product \in Products : l \in Placed(product)' =>
             Placed(product) \subseteq {l}
        BY <1>7, <1>14, <2>1 DEF Placed, Current
    <2>4. \A product \in Products : \A j, k \in Placed(product) : j = k
        BY DEF PlacesInv, ListingInv, OnePlacement
    <2> QED
        BY <2>2, <2>3, <2>4 DEF OnePlacement
<1>16. ListingOK(l)'
    <2>1. ASSUME l \notin strayed'
          PROVE  DOMAIN version'[l] = 1..listing'[l].label
        <3>1. PICK n : n = row.label
            OBVIOUS
        <3>2. p.follows /\ l \notin strayed
            BY <1>7, <2>1
        <3>3. n \in Nat /\ n > 0 /\ DOMAIN rows = (1..(n - 1)) \cup {n}
            BY <1>1, <1>2, <1>4, <1>6, <3>1, <3>2
        <3>4. (1..(n - 1)) \cup {n} = 1..n
            BY <3>3
        <3> QED
            BY <1>7, <1>8, <3>1, <3>3, <3>4
    <2>2. listing'[l].label \in DOMAIN version'[l] /\ l \in Created'
        BY <1>6, <1>7, <1>8, <1>10
    <2> QED
        BY <2>1, <2>2 DEF ListingOK
<1>17. \A k \in Listings \ {l} : ListingOK(k)'
    <2>1. \A k \in Listings \ {l} : k \notin strayed' => k \notin strayed
        BY <1>7
    <2> QED
        BY <1>7, <1>8, <1>10, <2>1 DEF PlacesInv, ListingOK
<1>18. Active' \subseteq Active \cup {l} /\ (l \in Active' <=> new.lifecycle = "ACTIVE")
    BY <1>10, <1>14 DEF Active, Created, Current
<1> QED
    BY <1>1, <1>3, <1>11, <1>13, <1>15, <1>16, <1>17, <1>18 DEF ListingInv

\* A commit makes at most one listing active.
LEMMA OneMoreActive ==
    ASSUME PlacesInv, NEW l, Active' \subseteq Active \cup {l}
    PROVE  /\ Cardinality(Active') \in Nat /\ Cardinality(Active') <= Cardinality(Active) + 1
           /\ l \notin Active' \/ l \in Active => Cardinality(Active') <= Cardinality(Active)
<1>1. /\ IsFiniteSet(Active \cup {l})
      /\ Cardinality(Active \cup {l}) \in {Cardinality(Active), Cardinality(Active) + 1}
    BY ListingTypes, FS_AddElement
<1>2. Cardinality(Active \cup {l}) \in Nat /\ Cardinality(Active \cup {l}) <= Cardinality(Active) + 1
    BY <1>1, ListingTypes
<1>3. Cardinality(Active') \in Nat /\ Cardinality(Active') <= Cardinality(Active \cup {l})
    BY <1>1, FS_Subset, FS_CardinalityType
<1>4. ASSUME l \notin Active' \/ l \in Active
      PROVE  Cardinality(Active') <= Cardinality(Active)
    <2>1. Active' \subseteq Active
        BY <1>4
    <2> QED
        BY <2>1, ListingTypes, FS_Subset
<1> QED
    BY <1>2, <1>3, <1>4, ListingTypes

LEMMA CreateStep ==
    ASSUME PlacesInv, NEW q \in Requests, Create(q)
    PROVE  PlacesInv'
<1>1. PICK p, l : p = request[q] /\ l = p.listing
    OBVIOUS
<1>2. p.kind = "CREATE" /\ l \notin Created /\ Write(q) /\ overtaken' = overtaken \ {q}
    BY <1>1 DEF Create
<1>3. /\ ListingInv' /\ \A k \in Listings : ListingOK(k)'
      /\ \A r \in Requests : DecisionOK(request[r])'
      /\ request'[q] = Idle /\ \A r \in Requests \ {q} : request'[r] = request[r]
      /\ Active' \subseteq Active \cup {l} /\ (l \in Active' <=> p.new.lifecycle = "ACTIVE")
    <2>1. overtaken' \subseteq Requests
        BY <1>2, ListingTypes
    <2> QED
        BY <1>1, <1>2, <2>1, WriteStep
<1>4. p.new.lifecycle = "DRAFT"
    BY <1>1, <1>2, NothingYet DEF PlacesInv, DecisionOK
<1>5. Cardinality(Active') \in Nat /\ Cardinality(Active') <= Cardinality(Active)
    BY <1>3, <1>4, OneMoreActive
<1>6. StillRoom'
    <2> SUFFICES ASSUME NEW r \in Requests, request'[r].kind = "ACTIVATE", r \notin overtaken'
                 PROVE  Cardinality(Active') < Allowance
        BY DEF StillRoom
    <2>1. r # q /\ r \notin overtaken /\ request[r].kind = "ACTIVATE"
        BY <1>2, <1>3, NothingYet
    <2> QED
        BY <1>5, <2>1, ListingTypes, ListingAssumption DEF PlacesInv, StillRoom
<1> QED
    BY <1>3, <1>6 DEF PlacesInv

LEMMA ReviseListingStep ==
    ASSUME PlacesInv, NEW q \in Requests, Revise(q)
    PROVE  PlacesInv'
<1>1. PICK p, l : p = request[q] /\ l = p.listing
    OBVIOUS
<1>2. /\ p.kind = "REVISE" /\ Write(q)
      /\ overtaken' = IF p.new.lifecycle = "ACTIVE" /\ l \notin Active
                      THEN {r \in Requests \ {q} : request[r] # Idle}
                      ELSE overtaken \ {q}
    BY <1>1 DEF Revise
<1>3. /\ ListingInv' /\ \A k \in Listings : ListingOK(k)'
      /\ \A r \in Requests : DecisionOK(request[r])'
      /\ request'[q] = Idle /\ \A r \in Requests \ {q} : request'[r] = request[r]
      /\ Active' \subseteq Active \cup {l} /\ (l \in Active' <=> p.new.lifecycle = "ACTIVE")
    <2>1. overtaken' \subseteq Requests
        BY <1>2, ListingTypes
    <2> QED
        BY <1>1, <1>2, <2>1, WriteStep
<1>4. StillRoom'
    <2> SUFFICES ASSUME NEW r \in Requests, request'[r].kind = "ACTIVATE", r \notin overtaken'
                 PROVE  Cardinality(Active') < Allowance
        BY DEF StillRoom
    <2>1. r # q /\ request[r].kind = "ACTIVATE" /\ request[r] # Idle
        BY <1>3, NothingYet
    <2>2. ~ (p.new.lifecycle = "ACTIVE" /\ l \notin Active) /\ r \notin overtaken
        BY <1>2, <2>1
    <2>3. Cardinality(Active') \in Nat /\ Cardinality(Active') <= Cardinality(Active)
        BY <1>3, <2>2, OneMoreActive
    <2> QED
        BY <2>1, <2>2, <2>3, ListingTypes, ListingAssumption DEF PlacesInv, StillRoom
<1> QED
    BY <1>3, <1>4 DEF PlacesInv

LEMMA ActivateListingStep ==
    ASSUME PlacesInv, NEW q \in Requests, Activate(q)
    PROVE  PlacesInv' /\ (q \notin overtaken => Cardinality(Active') <= Allowance)
<1>1. PICK p, l : p = request[q] /\ l = p.listing
    OBVIOUS
<1>2. /\ p.kind = "ACTIVATE" /\ Write(q)
      /\ overtaken' = {r \in Requests \ {q} : request[r] # Idle}
    BY <1>1 DEF Activate
<1>3. /\ ListingInv' /\ \A k \in Listings : ListingOK(k)'
      /\ \A r \in Requests : DecisionOK(request[r])'
      /\ request'[q] = Idle /\ \A r \in Requests \ {q} : request'[r] = request[r]
      /\ Active' \subseteq Active \cup {l}
    <2>1. overtaken' \subseteq Requests
        BY <1>2
    <2> QED
        BY <1>1, <1>2, <2>1, WriteStep
<1>4. StillRoom'
    <2>1. \A r \in Requests : r \notin overtaken' => request'[r] = Idle
        BY <1>2, <1>3
    <2> QED
        BY <2>1, NothingYet DEF StillRoom
<1>5. q \notin overtaken => Cardinality(Active) < Allowance
    BY <1>1, <1>2 DEF PlacesInv, StillRoom
<1>6. Cardinality(Active') \in Nat /\ Cardinality(Active') <= Cardinality(Active) + 1
    BY <1>3, OneMoreActive
<1> QED
    BY <1>3, <1>4, <1>5, <1>6, ListingTypes, ListingAssumption DEF PlacesInv

------------------------------------------------------------------------------
LEMMA InitPlaces == Init => PlacesInv
<1> SUFFICES ASSUME Init
             PROVE  PlacesInv
    OBVIOUS
<1>1. Created = {}
    BY NothingYet DEF Init, Created
<1>2. ListingInv
    BY <1>1, NothingYet DEF Init, ListingInv, TypeOK, OnePlacement, Placed
<1>3. \A l \in Listings : ListingOK(l)
    BY <1>1, NothingYet DEF Init, ListingOK
<1>4. (\A q \in Requests : DecisionOK(request[q])) /\ StillRoom
    BY NothingYet DEF Init, StillRoom
<1> QED
    BY <1>2, <1>3, <1>4 DEF PlacesInv

LEMMA StepPlaces == PlacesInv /\ [\E q \in Requests : Step(q)]_vars => PlacesInv'
<1> SUFFICES ASSUME PlacesInv, [\E q \in Requests : Step(q)]_vars
             PROVE  PlacesInv'
    OBVIOUS
<1>1. CASE UNCHANGED vars
    <2>1. Created' = Created /\ Active' = Active /\ UNCHANGED vars
        BY <1>1 DEF vars, Created, Active, Current
    <2>2. ListingInv'
        BY <2>1 DEF vars, PlacesInv, ListingInv, TypeOK, OnePlacement, Placed, Current
    <2>3. \A l \in Listings : ListingOK(l)'
        BY <2>1 DEF vars, PlacesInv, ListingOK
    <2>4. \A q \in Requests : DecisionOK(request[q])'
        BY <2>1 DEF vars, PlacesInv, DecisionOK
    <2>5. StillRoom'
        BY <2>1 DEF vars, PlacesInv, StillRoom
    <2> QED
        BY <2>2, <2>3, <2>4, <2>5 DEF PlacesInv
<1>2. ASSUME NEW q \in Requests,
             \/ BeginCreate(q) \/ BeginRevise(q)
             \/ BeginPrice(q) \/ BeginWithdraw(q) \/ BeginActivate(q)
      PROVE  PlacesInv'
    BY <1>2, BeginCreateStep, BeginReviseStep, BeginPromotedStep
<1>3. ASSUME NEW q \in Requests, Create(q) \/ Revise(q) \/ Activate(q) \/ Refuse(q)
      PROVE  PlacesInv'
    BY <1>3, CreateStep, ReviseListingStep, ActivateListingStep, RefuseListingStep
<1> QED
    BY <1>1, <1>2, <1>3 DEF Step

LEMMA PlacesInvariance == Spec => []PlacesInv
BY InitPlaces, StepPlaces, PTL DEF Spec

\* However many requests place or revive listings at once, the index of current placements
\* admits one current listing of a product (insertFirstVersion, createListingSourceVersion).
THEOREM ListingInvariance == Spec => []ListingInv
<1>1. PlacesInv => ListingInv
    BY DEF PlacesInv
<1> QED
    BY <1>1, PlacesInvariance, PTL

\* A promoter's activation that nothing overtook still finds the room it counted, whatever
\* sellers activate uncounted before or after it (activatePromotedListing).
THEOREM AllowanceKept == Spec => PromotionFindsRoom
<1>1. PlacesInv /\ [\E q \in Requests : Step(q)]_vars =>
        [\A q \in Requests : Activate(q) /\ q \notin overtaken
                                => Cardinality(Active') <= Allowance]_vars
    BY ActivateListingStep
<1> QED
    BY <1>1, PlacesInvariance, PTL DEF Spec, PromotionFindsRoom

------------------------------------------------------------------------------
\* The versions as the history shows them.
Shown(rows) == [n \in DOMAIN rows |-> [basis |-> rows[n].basis, state |-> rows[n].lifecycle]]

LEMMA ShownAdded ==
    ASSUME NEW rows, NEW label, NEW new
    PROVE  Shown(Added(rows, label, new))
             = History!Added(Shown(rows), label, [basis |-> new.basis, state |-> new.lifecycle])
    BY DEF Shown, Added, History!Added

\* What a commit shows.
LEMMA ShownWrite ==
    ASSUME PlacesInv, NEW q \in Requests, NEW p \in Pending, p = request[q],
           NEW l \in Listings, l = p.listing, Write(q)
    PROVE  Recorded' = [Recorded EXCEPT ![l] =
              [current |-> p.row.label, straight |-> l \notin strayed',
               versions |-> History!Added(Recorded[l].versions, p.row.label,
                                 [basis |-> p.new.basis, state |-> p.new.lifecycle])]]
<1> DEFINE seen(k) == [current |-> listing[k].label, versions |-> Shown(version[k]),
                       straight |-> k \notin strayed]
<1>0. Recorded = [k \in Listings |-> seen(k)] /\ Recorded' = [k \in Listings |-> seen(k)']
    BY DEF Recorded, Shown
<1>1. /\ listing' = [listing EXCEPT ![l] = p.row]
      /\ version' = [version EXCEPT ![l] = Added(version[l], p.row.label, p.new)]
      /\ strayed' = IF p.follows THEN strayed ELSE strayed \cup {l}
    BY DEF Write
<1>2. /\ listing'[l] = p.row /\ \A k \in Listings \ {l} : listing'[k] = listing[k]
      /\ version'[l] = Added(version[l], p.row.label, p.new)
      /\ \A k \in Listings \ {l} : version'[k] = version[k]
    BY <1>1, ListingTypes
<1>3. \A k \in Listings \ {l} : seen(k)' = seen(k)
    BY <1>1, <1>2
<1>4. Shown(version'[l]) = History!Added(Shown(version[l]), p.row.label,
                                         [basis |-> p.new.basis, state |-> p.new.lifecycle])
    BY <1>2, ShownAdded
<1>5. seen(l)' = [current |-> p.row.label, straight |-> l \notin strayed',
                  versions |-> History!Added(Shown(version[l]), p.row.label,
                                    [basis |-> p.new.basis, state |-> p.new.lifecycle])]
    BY <1>2, <1>4
<1>6. PICK straight : straight = (l \notin strayed')
    OBVIOUS
<1>7. PICK versions : versions = History!Added(Shown(version[l]), p.row.label,
                                     [basis |-> p.new.basis, state |-> p.new.lifecycle])
    OBVIOUS
<1>8. seen(l)' = [current |-> p.row.label, straight |-> straight, versions |-> versions]
    BY <1>5, <1>6, <1>7
<1>9. Recorded' = [Recorded EXCEPT ![l] = [current |-> p.row.label, straight |-> straight,
                                           versions |-> versions]]
    BY <1>0, <1>3, <1>8
<1>10. Recorded[l].versions = Shown(version[l])
    BY <1>0
<1> QED
    BY <1>6, <1>7, <1>9, <1>10

\* A write that passes the index of labels is a step of the history.
LEMMA ListingHistoryStep ==
    ASSUME PlacesInv, [\E q \in Requests : Step(q)]_vars
    PROVE  [History!Next]_(History!vars)
<1>1. ASSUME NEW q \in Requests, Create(q)
      PROVE  History!Next
    <2>1. PICK p \in Pending, l \in Listings : p = request[q] /\ l = p.listing
        BY ListingTypes DEF Pending
    <2>2. l \notin Created /\ Write(q) /\ p.row.label = 1 /\ p.new = FirstVersion /\ p.follows
        BY <1>1, <2>1 DEF Create, PlacesInv, DecisionOK
    <2>3. strayed' = strayed /\ listing[l] = Absent
        BY <2>1, <2>2 DEF Write, PlacesInv, ListingOK
    <2>4. Recorded' = [Recorded EXCEPT ![l] =
             [current |-> 1, straight |-> l \notin strayed,
              versions |-> History!Added(Recorded[l].versions, 1,
                                [basis |-> 0, state |-> "DRAFT"])]]
        BY <2>1, <2>2, <2>3, ShownWrite, NothingYet
    <2>5. Recorded[l].current = 0 /\ Recorded[l].straight = (l \notin strayed)
        BY <2>3, NothingYet DEF Recorded
    <2>6. Recorded' = [Recorded EXCEPT ![l].current = 1,
                                       ![l].versions = History!Added(Recorded[l].versions, 1,
                                                           [basis |-> 0, state |-> "DRAFT"])]
        BY <2>4 DEF Recorded
    <2>7. History!Create(l)
        BY <2>5, <2>6 DEF History!Create
    <2> QED
        BY <2>7 DEF History!Next
<1>2. ASSUME NEW q \in Requests, Revise(q) \/ Activate(q)
      PROVE  History!Next
    <2>1. PICK p \in Pending, l \in Listings : p = request[q] /\ l = p.listing
        BY ListingTypes DEF Pending
    <2>2. PICK from : from = version[l][p.new.basis].lifecycle
        OBVIOUS
    <2>3. Write(q) /\ LabelIsFree(q) /\ p.kind \in {"REVISE", "ACTIVATE"}
        BY <1>2, <2>1 DEF Revise, Activate, Write
    <2>4. /\ p.row.label \in Labels \ DOMAIN version[l]
          /\ p.new.basis \in DOMAIN version[l]
          /\ p.new.lifecycle \in Transitions[from] \cup {from}
          /\ p.follows /\ l \notin strayed => /\ p.new.basis = listing[l].label
                                              /\ p.row.label = p.new.basis + 1
        BY <2>1, <2>2, <2>3, WritesNext
    <2>5. PICK straight : straight = (l \notin strayed')
        OBVIOUS
    <2>6. /\ straight \in {Recorded[l].straight, FALSE}
          /\ straight => p.new.basis = Recorded[l].current /\ p.row.label = p.new.basis + 1
        <3>1. strayed' = IF p.follows THEN strayed ELSE strayed \cup {l}
            BY <2>1, <2>3 DEF Write
        <3>2. Recorded[l].straight = (l \notin strayed) /\ Recorded[l].current = listing[l].label
            BY DEF Recorded
        <3> QED
            BY <2>4, <2>5, <3>1, <3>2 DEF Pending
    <2>7. Recorded' = [Recorded EXCEPT ![l] =
              [current |-> p.row.label, straight |-> straight,
               versions |-> History!Added(Recorded[l].versions, p.row.label,
                                 [basis |-> p.new.basis, state |-> p.new.lifecycle])]]
        BY <2>1, <2>3, <2>5, ShownWrite
    <2>8. /\ DOMAIN Recorded[l].versions = DOMAIN version[l]
          /\ Recorded[l].versions[p.new.basis].state = from
        BY <2>2, <2>4 DEF Recorded
    <2>9. History!Revise(l)
        <3>1. /\ p.row.label \in Labels \ DOMAIN Recorded[l].versions
              /\ p.new.basis \in DOMAIN Recorded[l].versions
              /\ Recorded[l].versions[p.new.basis].state \notin {}
              /\ p.new.lifecycle \in Transitions[Recorded[l].versions[p.new.basis].state]
                                      \cup {Recorded[l].versions[p.new.basis].state}
            BY <2>4, <2>8
        <3> QED
            BY <2>6, <2>7, <3>1 DEF History!Revise
    <2> QED
        BY <2>9 DEF History!Next
<1>3. ASSUME ~ \E q \in Requests : Create(q) \/ Revise(q) \/ Activate(q)
      PROVE  UNCHANGED <<listing, version, strayed>>
    BY <1>3 DEF Step, vars, BeginCreate, BeginRevise, BeginPrice, BeginWithdraw, BeginActivate,
                BeginNext, Begin, Refuse
<1> QED
    BY <1>1, <1>2, <1>3 DEF History!vars, Recorded

\* The listings implement RecordHistory, under whatever labels: no version is rewritten and
\* each is an allowed move from the one it names; where labels are in line none is lost
\* and a withdrawn listing stays as it is.
THEOREM ListingRefinement == Spec => ImplementsHistory
<1>1. Init => History!Init
    <2>1. Shown(NoVersions) = [n \in {} |-> [basis |-> 0, state |-> "DRAFT"]]
        BY DEF Shown, NoVersions
    <2> QED
        BY <2>1, NothingYet DEF Init, History!Init, History!Absent, Recorded, Shown
<1>2. PlacesInv /\ [\E q \in Requests : Step(q)]_vars => [History!Next]_(History!vars)
    BY ListingHistoryStep
<1> QED
    BY <1>1, <1>2, PlacesInvariance, PTL DEF Spec, ImplementsHistory, History!Spec
==============================================================================
