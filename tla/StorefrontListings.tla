-------------------------- MODULE StorefrontListings --------------------------
(***************************************************************************)
(* The listings of one storefront: a seller places its own product and moves its  *)
(* listing through its lifecycle, a promoter lists a product it promotes, prices   *)
(* it, activates it and withdraws it.  Every request is one database transaction   *)
(* in two steps, as in StorefrontGovernance: what it decides from the snapshot of   *)
(* its first read, before it waits for any lock, and what it commits past the      *)
(* unique indexes.                                                            *)
(***************************************************************************)
EXTENDS Naturals, FiniteSets

CONSTANTS
    Listings,    \* listings that may ever be created
    Products,
    Requests,    \* requests that may be served at the same time
    Allowance,   \* active listings a storefront includes
    MaxVersions  \* bound: labels that a listing's versions may carry

ASSUME ListingAssumption == /\ Listings # {} /\ IsFiniteSet(Listings) /\ Products # {}
                            /\ Allowance \in Nat /\ MaxVersions \in Nat \ {0}

VARIABLES
    listing,    \* the listings' rows: the label of the current version, what it offers
    version,    \* the version rows of each listing, by label
    request,    \* what each request has read and decided
    overtaken,  \* requests since whose first read another listing became active
    strayed     \* listings with a version whose label was not chosen to follow another

vars == <<listing, version, request, overtaken, strayed>>

------------------------------------------------------------------------------
\* Vocabulary

Transitions ==
    [DRAFT |-> {"ACTIVE", "WITHDRAWN"},
     ACTIVE |-> {"SUSPENDED", "ENDED", "WITHDRAWN"},
     SUSPENDED |-> {"ACTIVE", "ENDED", "WITHDRAWN"}, ENDED |-> {}, WITHDRAWN |-> {}]
Lifecycles == DOMAIN Transitions
Terminal   == {state \in Lifecycles : Transitions[state] = {}}

\* Label 0: not created.
Labels     == 1..MaxVersions
Types      == {"SELLER_DIRECT", "PROMOTED"}
Rows       == [label : 0..MaxVersions, type : Types, product : Products, priced : BOOLEAN]
AnyProduct == CHOOSE p \in Products : TRUE
Absent     == [label |-> 0, type |-> "PROMOTED", product |-> AnyProduct, priced |-> FALSE]

\* A version names the one it was made from; the first names none.
Versions     == [basis : 0..MaxVersions, lifecycle : Lifecycles]
FirstVersion == [basis |-> 0, lifecycle |-> "DRAFT"]
NoVersions   == [n \in {} |-> FirstVersion]

\* row, new: what the request is going to write.  follows: its label was chosen to follow
\* one in use.
Kinds      == {"NONE", "CREATE", "REVISE", "ACTIVATE"}
AnyListing == CHOOSE l \in Listings : TRUE
Pending    == [kind : Kinds, listing : Listings, row : Rows, new : Versions,
               follows : BOOLEAN]
Idle       == [kind |-> "NONE", listing |-> AnyListing, row |-> Absent,
               new |-> FirstVersion, follows |-> TRUE]

Init ==
    /\ listing = [l \in Listings |-> Absent]
    /\ version = [l \in Listings |-> NoVersions]
    /\ request = [q \in Requests |-> Idle]
    /\ overtaken = {} /\ strayed = {}

Created    == {l \in Listings : listing[l].label > 0}
Current(l) == version[l][listing[l].label].lifecycle
Active     == {l \in Created : Current(l) = "ACTIVE"}

\* The marker is on every listing that is not over: its product's place is taken.
Placed(product) ==
    {l \in Created : Current(l) \notin Terminal /\ listing[l].product = product}

------------------------------------------------------------------------------
\* Checks

\* Variant: the promoted listings alone are counted.
HasRoomAmongPromoted == Cardinality({l \in Active : listing[l].type = "PROMOTED"}) < Allowance

\* Sellers' and promoters' listings that are active are counted alike, by a plain read
\* under the row locks.
HasRoom == Cardinality(Active) < Allowance

\* Variant: nothing but the read before stands for the place.
PlaceIsFreeAlways(q) == TRUE

\* The unique index over product, storefront and marker.
PlaceIsFree(q) ==
    request[q].new.lifecycle \notin Terminal =>
        Placed(request[q].row.product) \subseteq {request[q].listing}

\* Variant: the index admits a label twice.
LabelIsFreeAlways(q) == TRUE

\* The unique index over record and label.
LabelIsFree(q) == request[q].row.label \notin DOMAIN version[request[q].listing]

------------------------------------------------------------------------------
\* A request reads and decides

Begin(q, p) ==
    /\ request[q] = Idle
    /\ request' = [request EXCEPT ![q] = p]
    /\ UNCHANGED <<listing, version, overtaken, strayed>>

\* Either side's placement may come with a price or without one.
BeginCreate(q) ==
    \E l \in Listings \ Created, product \in Products, type \in Types, priced \in BOOLEAN :
        /\ Placed(product) = {}
        /\ Begin(q, [Idle EXCEPT !.kind = "CREATE", !.listing = l,
                                 !.row = [label |-> 1, type |-> type, product |-> product,
                                          priced |-> priced]])

\* A withdrawal and a price of the seller's label their version after the one that was
\* current when they looked, some time before the transaction's first read.
FollowsOne(l, label) == label = 1 \/ label - 1 \in DOMAIN version[l]

Revision(kind, l, label, lifecycle, priced) ==
    [kind |-> kind, listing |-> l,
     row |-> [listing[l] EXCEPT !.label = label, !.priced = priced],
     new |-> [basis |-> listing[l].label, lifecycle |-> lifecycle],
     follows |-> FollowsOne(l, label)]

\* A seller's listing takes any move of the lifecycle, or another price, under any label;
\* it does not become active without a price, and nothing is counted.
BeginRevise(q) == \E l \in Created :
    \E lifecycle \in Transitions[Current(l)] \cup {Current(l)}, priced \in BOOLEAN :
    \E label \in Labels \ DOMAIN version[l] :
        /\ listing[l].type = "SELLER_DIRECT"
        /\ listing[l].priced => priced
        /\ priced \/ lifecycle # Current(l)
        /\ lifecycle = "ACTIVE" => priced
        /\ Begin(q, Revision("REVISE", l, label, lifecycle, priced))

\* A promoter's next version takes the next label.
BeginNext(q, kind, l, lifecycle, priced) ==
    /\ listing[l].type = "PROMOTED"
    /\ listing[l].label < MaxVersions
    /\ Begin(q, Revision(kind, l, listing[l].label + 1, lifecycle, priced))

BeginPrice(q) == \E l \in Created :
    /\ Current(l) \notin Terminal
    /\ BeginNext(q, "REVISE", l, Current(l), TRUE)

BeginWithdraw(q) == \E l \in Created :
    /\ Current(l) \notin Terminal
    /\ BeginNext(q, "REVISE", l, "WITHDRAWN", listing[l].priced)

\* The first read comes before the locks of the product and of the storefront, and
\* the count shows what it showed.
BeginActivate(q) == \E l \in Created :
    /\ Current(l) = "DRAFT" /\ listing[l].priced
    /\ HasRoom
    /\ BeginNext(q, "ACTIVATE", l, "ACTIVE", TRUE)

------------------------------------------------------------------------------
\* ... and commits, or is refused and rolled back

End(q) == request' = [request EXCEPT ![q] = Idle]

Refuse(q) ==
    /\ request[q] # Idle
    /\ End(q)
    /\ overtaken' = overtaken \ {q}
    /\ UNCHANGED <<listing, version, strayed>>

Added(rows, label, new) ==
    [n \in DOMAIN rows \cup {label} |-> IF n = label THEN new ELSE rows[n]]

\* The version is inserted and the listing points to it, both or neither.
Write(q) == LET p == request[q] IN
    /\ LabelIsFree(q) /\ PlaceIsFree(q)
    /\ listing' = [listing EXCEPT ![p.listing] = p.row]
    /\ version' = [version EXCEPT ![p.listing] = Added(@, p.row.label, p.new)]
    /\ strayed' = IF p.follows THEN strayed ELSE strayed \cup {p.listing}
    /\ End(q)

Create(q) ==
    /\ request[q].kind = "CREATE" /\ request[q].listing \notin Created
    /\ Write(q)
    /\ overtaken' = overtaken \ {q}

\* A promoter's write asks that the version it read is still the current one, a
\* seller's moves the pointer whatever it pointed to.
StillCurrent(q) == LET p == request[q] IN
    p.row.type = "PROMOTED" => listing[p.listing].label = p.new.basis

\* Everybody who has read before a listing becomes active is overtaken.
Revise(q) == LET p == request[q] IN
    /\ p.kind = "REVISE"
    /\ StillCurrent(q)
    /\ Write(q)
    /\ overtaken' = IF p.new.lifecycle = "ACTIVE" /\ p.listing \notin Active
                    THEN {r \in Requests \ {q} : request[r] # Idle}
                    ELSE overtaken \ {q}

Activate(q) ==
    /\ request[q].kind = "ACTIVATE"
    /\ StillCurrent(q)
    /\ Write(q)
    /\ overtaken' = {r \in Requests \ {q} : request[r] # Idle}

Step(q) ==
    \/ BeginCreate(q) \/ BeginRevise(q)
    \/ BeginPrice(q) \/ BeginWithdraw(q) \/ BeginActivate(q)
    \/ Create(q) \/ Revise(q) \/ Activate(q) \/ Refuse(q)

Spec == Init /\ [][\E q \in Requests : Step(q)]_vars

------------------------------------------------------------------------------
\* Properties

TypeOK ==
    /\ listing \in [Listings -> Rows]
    /\ DOMAIN version = Listings
    /\ \A l \in Listings : /\ DOMAIN version[l] \subseteq Labels
                           /\ version[l] \in [DOMAIN version[l] -> Versions]
    /\ request \in [Requests -> Pending]
    /\ overtaken \subseteq Requests /\ strayed \subseteq Listings

OnePlacement == \A product \in Products : \A l, k \in Placed(product) : l = k

\* A storefront never carries two current listings of a product, a seller's or a
\* promoter's: both sides look before they take any lock, and a version made from an
\* older one may bring back a listing that was over while another took its place
\* (requireNoCurrentPlacement and the index behind it).
ListingInv == TypeOK /\ OnePlacement

\* A promoter's activation that no other activation overtook leaves the storefront within
\* what it includes, sellers' listings counted too: the row lock serialises the writes,
\* not what was counted, and a seller's activation counts nothing
\* (readPromotedListingCommerceIn, activatePromotedListing).
PromotionFindsRoom ==
    [][\A q \in Requests : Activate(q) /\ q \notin overtaken => Cardinality(Active') <= Allowance]_vars

\* A listing as its history shows it.
Recorded == [l \in Listings |->
    [current |-> listing[l].label,
     versions |-> [n \in DOMAIN version[l] |-> [basis |-> version[l][n].basis,
                                                state |-> version[l][n].lifecycle]],
     straight |-> l \notin strayed]]

\* Listings keep the history of a versioned record: no version is rewritten or given
\* another's label, each is a move the lifecycle allows from the one it names, and while
\* all labels follow one in use, as those of the routes do, none is lost under one
\* decided before it and what was withdrawn stays so
\* (createListingSourceVersion, writeNextVersionIn).
History == INSTANCE RecordHistory WITH
    Records <- Listings, Initial <- "DRAFT", Sealed <- {}, record <- Recorded

ImplementsHistory == History!Spec

==============================================================================
