------------------------- MODULE StorefrontGovernance -------------------------
(***************************************************************************)
(* The storefronts of one participant: opening one, revising it version by      *)
(* version, and the seats of the people who act for it.  Every request is one    *)
(* database transaction.  Its plain reads show the rows as they were at its      *)
(* first read, so it is two steps here: what it decides from that snapshot, and   *)
(* what it commits, where only unique indexes, row locks and locking reads see    *)
(* the rows as they are.                                                      *)
(***************************************************************************)
EXTENDS Naturals, FiniteSets

CONSTANTS
    Shops,       \* storefronts the owner may ever try to open
    Members,     \* participants who may hold a seat
    Owner,       \* the participant who owns the storefronts
    Requests,    \* requests that may be served at the same time
    Allowance,   \* storefronts a participant may own without an upgrade
    MaxVersions  \* bound: labels that a storefront's versions may carry

ASSUME GovernanceAssumption ==
    /\ Shops # {} /\ IsFiniteSet(Shops)
    /\ Owner \in Members
    /\ Allowance \in Nat /\ MaxVersions \in Nat \ {0}

VARIABLES
    shop,     \* the storefronts' rows: the label of the current version, who sees it
    version,  \* the version rows of each storefront, by label
    seat,     \* the seats of each storefront
    request,  \* what each request has read and decided
    strayed,  \* storefronts with a version whose label was not chosen to follow another
    crossed   \* storefronts where a role changed under somebody who had read it

vars == <<shop, version, seat, request, strayed, crossed>>

------------------------------------------------------------------------------
\* Vocabulary

Transitions ==
    [DRAFT |-> {"ACTIVE", "CLOSED"}, ACTIVE |-> {"SUSPENDED", "CLOSED"},
     SUSPENDED |-> {"ACTIVE", "CLOSED"}, CLOSED |-> {}]
Lifecycles   == DOMAIN Transitions
Exposure     == [PRIVATE |-> 0, UNLISTED |-> 1, PUBLIC |-> 2]
Visibilities == DOMAIN Exposure

\* Label 0: not opened.
Labels      == 1..MaxVersions
Storefronts == [label : 0..MaxVersions, visibility : Visibilities]
Unopened    == [label |-> 0, visibility |-> "PRIVATE"]

\* A version names the one it was made from; the first names none.
Versions     == [basis : 0..MaxVersions, lifecycle : Lifecycles]
FirstVersion == [basis |-> 0, lifecycle |-> "DRAFT"]
NoVersions   == [n \in {} |-> FirstVersion]

\* The mark fills the storefront's one place in the index of super owners.  REVOKED
\* stands for SUSPENDED too: either withdraws a seat, and only a date differs.
Roles    == {"SUPER_OWNER", "ADMIN"}
Statuses == {"ACTIVE", "REVOKED"}
Seats    == [role : Roles \cup {"NONE"}, status : Statuses, marked : BOOLEAN]
NoSeat   == [role |-> "NONE", status |-> "REVOKED", marked |-> FALSE]

\* base: the version a revision is made from, or how many storefronts were owned.
\* label: the one its version is to carry, chosen to follow one in use or made up.
\* found: the role the seat had.
Kinds    == {"NONE", "OPEN", "REVISE", "APPOINT", "STATUS"}
Pending  == [kind : Kinds, shop : Shops, base : Nat, label : Labels, follows : BOOLEAN,
             lifecycle : Lifecycles, visibility : Visibilities, member : Members,
             role : Roles \cup {"NONE"}, status : Statuses,
             found : Roles \cup {"NONE"}]
AnyShop  == CHOOSE s \in Shops : TRUE
Idle     == [kind |-> "NONE", shop |-> AnyShop, base |-> 0, label |-> 1, follows |-> TRUE,
             lifecycle |-> "DRAFT", visibility |-> "PRIVATE", member |-> Owner, role |-> "NONE",
             status |-> "REVOKED", found |-> "NONE"]

Init ==
    /\ shop = [s \in Shops |-> Unopened]
    /\ version = [s \in Shops |-> NoVersions]
    /\ seat = [s \in Shops |-> [m \in Members |-> NoSeat]]
    /\ request = [q \in Requests |-> Idle]
    /\ strayed = {} /\ crossed = {}

Opened     == {s \in Shops : shop[s].label > 0}
Current(s) == version[s][shop[s].label]

------------------------------------------------------------------------------
\* Who may do what, as the snapshot shows it

Sits(s, m)       == seat[s][m].role # "NONE" /\ seat[s][m].status = "ACTIVE"
SuperOwner(s, m) == Sits(s, m) /\ seat[s][m].role = "SUPER_OWNER"
SuperOwners(s)   == {m \in Members : SuperOwner(s, m)}

\* The presentation is everybody's with a seat; to stand down or to be seen less is
\* the super owner's; to be operational or seen more takes the only super owner.
MayRevise(s, actor, lifecycle, visibility) ==
    LET now == Current(s).lifecycle IN
    /\ now # "CLOSED"
    /\ lifecycle \in Transitions[now] \cup {now}
    /\ IF lifecycle = now /\ visibility = shop[s].visibility
       THEN Sits(s, actor)
       ELSE SuperOwner(s, actor)
    /\ lifecycle = "ACTIVE" /\ now # "ACTIVE" => SuperOwners(s) = {actor}
    /\ Exposure[visibility] > Exposure[shop[s].visibility] =>
          /\ SuperOwners(s) = {actor}
          /\ lifecycle = "ACTIVE" \/ now = "ACTIVE"

\* The owner appoints the first super owner; then the super owner appoints.
MayAppoint(s, actor, role) ==
    \/ role = "SUPER_OWNER" /\ SuperOwners(s) = {} /\ actor = Owner
    \/ SuperOwner(s, actor)

MaySetStatus(s, actor) == actor = Owner \/ SuperOwner(s, actor)

------------------------------------------------------------------------------
\* What the database sees at the commit

\* Variant: the storefronts the snapshot showed are counted.
HasRoomInSnapshot(q) == request[q].base < Allowance

\* The owner's row is locked, and the count is a locking read.
HasRoom(q) == Cardinality(Opened) < Allowance

\* Variant: the index admits a label twice.
LabelIsFreeAlways(q) == TRUE

\* The unique index over record and label: all that a version's commit looks at.
LabelIsFree(q) == request[q].label \notin DOMAIN version[request[q].shop]

\* Variant: the index takes several marks for a storefront.
PlaceIsFreeAlways(s, m) == TRUE

\* The unique index over the marks.
PlaceIsFree(s, m) == \A n \in Members \ {m} : ~ seat[s][n].marked

------------------------------------------------------------------------------
\* A request reads and decides

Begin(q, p) ==
    /\ request[q] = Idle
    /\ request' = [request EXCEPT ![q] = p]
    /\ UNCHANGED <<shop, version, seat, strayed, crossed>>

BeginOpen(q) == \E s \in Shops \ Opened :
    Begin(q, [Idle EXCEPT !.kind = "OPEN", !.shop = s, !.base = Cardinality(Opened)])

\* A presentation edit and going live label their version after the one that was
\* current when they looked, some time before the transaction's first read.
FollowsOne(s, label) == label = 1 \/ label - 1 \in DOMAIN version[s]

\* Go-live, resume, stand down, change who sees it, or edit its presentation.  The
\* transaction takes the label it is given, whatever label that is.
BeginRevise(q) == \E s \in Opened, actor \in Members :
    \E lifecycle \in Lifecycles, visibility \in Visibilities :
    \E label \in Labels \ DOMAIN version[s] :
        /\ MayRevise(s, actor, lifecycle, visibility)
        /\ Begin(q, [Idle EXCEPT !.kind = "REVISE", !.shop = s, !.base = shop[s].label,
                                 !.label = label, !.follows = FollowsOne(s, label),
                                 !.lifecycle = lifecycle, !.visibility = visibility])

BeginAppoint(q) == \E s \in Opened, actor, m \in Members : \E role \in Roles :
    /\ MayAppoint(s, actor, role)
    /\ Begin(q, [Idle EXCEPT !.kind = "APPOINT", !.shop = s, !.member = m,
                             !.role = role, !.found = seat[s][m].role])

BeginSetStatus(q) == \E s \in Opened, actor, m \in Members : \E status \in Statuses :
    /\ seat[s][m].role # "NONE"
    /\ MaySetStatus(s, actor)
    /\ Begin(q, [Idle EXCEPT !.kind = "STATUS", !.shop = s, !.member = m,
                             !.status = status, !.found = seat[s][m].role])

------------------------------------------------------------------------------
\* ... and commits, or is refused and rolled back

End(q) == request' = [request EXCEPT ![q] = Idle]

Refuse(q) ==
    /\ request[q] # Idle
    /\ End(q)
    /\ UNCHANGED <<shop, version, seat, strayed, crossed>>

Added(rows, label, new) ==
    [n \in DOMAIN rows \cup {label} |-> IF n = label THEN new ELSE rows[n]]

\* The storefront, its first version and its owner's seat are one transaction.
Open(q) == LET s == request[q].shop IN
    /\ request[q].kind = "OPEN" /\ s \notin Opened
    /\ HasRoom(q)
    /\ shop' = [shop EXCEPT ![s].label = 1]
    /\ version' = [version EXCEPT ![s] = Added(@, 1, FirstVersion)]
    /\ seat' = [seat EXCEPT ![s][Owner] = [role |-> "SUPER_OWNER", status |-> "ACTIVE",
                                           marked |-> TRUE]]
    /\ End(q)
    /\ UNCHANGED <<strayed, crossed>>

\* The version is inserted, and the storefront points to it whatever it pointed to.
Revise(q) == LET p == request[q] IN
    /\ p.kind = "REVISE"
    /\ LabelIsFree(q)
    /\ version' = [version EXCEPT ![p.shop] =
                      Added(@, p.label, [basis |-> p.base, lifecycle |-> p.lifecycle])]
    /\ shop' = [shop EXCEPT ![p.shop] = [label |-> p.label, visibility |-> p.visibility]]
    /\ strayed' = IF p.follows THEN strayed ELSE strayed \cup {p.shop}
    /\ End(q)
    /\ UNCHANGED <<seat, crossed>>

\* A seat is written whole; a second first appointment of the member is refused.
Appoint(q) == LET p == request[q] old == seat[p.shop][p.member] IN
    /\ p.kind = "APPOINT"
    /\ p.found = "NONE" => old.role = "NONE"
    /\ p.role = "SUPER_OWNER" => PlaceIsFree(p.shop, p.member)
    /\ seat' = [seat EXCEPT ![p.shop][p.member] =
                   [role |-> p.role, status |-> "ACTIVE", marked |-> p.role = "SUPER_OWNER"]]
    /\ End(q)
    /\ UNCHANGED <<shop, version, strayed, crossed>>

\* The role is left as it is now, the mark is set by the role that was read.
SetStatus(q) == LET p == request[q] marked == p.found = "SUPER_OWNER" /\ p.status = "ACTIVE" IN
    /\ p.kind = "STATUS"
    /\ marked => PlaceIsFree(p.shop, p.member)
    /\ seat' = [seat EXCEPT ![p.shop][p.member].status = p.status,
                            ![p.shop][p.member].marked = marked]
    /\ crossed' = IF seat[p.shop][p.member].role = p.found THEN crossed
                  ELSE crossed \cup {p.shop}
    /\ End(q)
    /\ UNCHANGED <<shop, version, strayed>>

Next == \E q \in Requests :
    \/ BeginOpen(q) \/ BeginRevise(q) \/ BeginAppoint(q) \/ BeginSetStatus(q)
    \/ Open(q) \/ Revise(q) \/ Appoint(q) \/ SetStatus(q) \/ Refuse(q)

Spec == Init /\ [][Next]_vars

------------------------------------------------------------------------------
\* Properties

TypeOK ==
    /\ shop \in [Shops -> Storefronts]
    /\ DOMAIN version = Shops
    /\ \A s \in Shops : /\ DOMAIN version[s] \subseteq Labels
                        /\ version[s] \in [DOMAIN version[s] -> Versions]
    /\ seat \in [Shops -> [Members -> Seats]]
    /\ request \in [Requests -> Pending]
    /\ strayed \subseteq Shops /\ crossed \subseteq Shops

\* Opening is never raced past the allowance: the check reads the count under the
\* owner's lock, not from the snapshot (openOwnedDraftStorefront).
OwnedWithinAllowance == Cardinality(Opened) <= Allowance

GovernanceInv == TypeOK /\ OwnedWithinAllowance

\* Where no status was set by a role that had changed meanwhile, a storefront has one
\* active super owner at most, whoever appointed, revoked and restored at once, and
\* the place in the index is held by nobody else
\* (assignStorefrontGovernanceInTx, setGovernanceAssignmentStatus).
UncrossedSeatsAgree == \A s \in Opened \ crossed :
    /\ \A m, n \in SuperOwners(s) : m = n
    /\ \A m \in Members : seat[s][m].marked <=> SuperOwner(s, m)

\* A storefront as its history shows it.
Recorded == [s \in Shops |->
    [current |-> shop[s].label,
     versions |-> [n \in DOMAIN version[s] |-> [basis |-> version[s][n].basis,
                                                state |-> version[s][n].lifecycle]],
     straight |-> s \notin strayed]]

\* Storefronts keep the history of a versioned record: no version is rewritten or
\* given another's label, each is a move the lifecycle allows from the one it names,
\* and while all labels follow one in use, as those of the self-service acts do, none is
\* lost under one decided before it and a closed storefront stays closed
\* (createStorefrontSourceVersion, editStorefrontPresentation, goLiveStorefront).
History == INSTANCE RecordHistory WITH
    Records <- Shops, Initial <- "DRAFT", Sealed <- {"CLOSED"}, record <- Recorded

ImplementsHistory == History!Spec

==============================================================================
