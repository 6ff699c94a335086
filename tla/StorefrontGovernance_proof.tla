---------------------- MODULE StorefrontGovernance_proof ----------------------
(***************************************************************************)
(* Storefronts stay within their owner's allowance, their seats agree where     *)
(* no role changed under a reader, and their versions keep the history of a     *)
(* versioned record, whatever labels are asked for: for any storefronts, members *)
(* and number of requests.                                                    *)
(***************************************************************************)
EXTENDS StorefrontGovernance, FiniteSetTheorems, TLAPS

------------------------------------------------------------------------------
\* The inductive invariant

\* Nothing is there before a storefront is opened; then it points to one of its versions,
\* the last of a line where no label was made up; nobody holds a second mark.
ShopOK(s) ==
    /\ s \notin Opened => /\ shop[s] = Unopened /\ version[s] = NoVersions
                          /\ \A m \in Members : seat[s][m] = NoSeat
    /\ s \in Opened => shop[s].label \in DOMAIN version[s]
    /\ s \in Opened \ strayed => DOMAIN version[s] = 1..shop[s].label
    /\ \A m, n \in Members : seat[s][m].marked /\ seat[s][n].marked => m = n
    /\ s \notin crossed => \A m \in Members : seat[s][m].marked <=> SuperOwner(s, m)

\* A revision waits for a storefront that was opened, and is a move from a version that
\* is there for good; where labels are in line, its own is not beyond the next.
RequestOK(p) ==
    /\ p.kind \in {"REVISE", "APPOINT", "STATUS"} => p.shop \in Opened
    /\ p.kind = "REVISE" =>
         LET from == version[p.shop][p.base].lifecycle IN
         /\ p.base \in DOMAIN version[p.shop]
         /\ from # "CLOSED" /\ p.lifecycle \in Transitions[from] \cup {from}
         /\ p.follows /\ p.shop \notin strayed => p.label <= p.base + 1

StoreInv ==
    /\ GovernanceInv
    /\ \A s \in Shops : ShopOK(s)
    /\ \A q \in Requests : RequestOK(request[q])

LEMMA Types ==
    ASSUME StoreInv
    PROVE  /\ shop \in [Shops -> Storefronts]
           /\ DOMAIN version = Shops
           /\ \A s \in Shops : /\ DOMAIN version[s] \subseteq Labels
                               /\ version[s] \in [DOMAIN version[s] -> Versions]
           /\ strayed \subseteq Shops /\ crossed \subseteq Shops
           /\ seat \in [Shops -> [Members -> Seats]]
           /\ request \in [Requests -> Pending]
           /\ Opened \subseteq Shops /\ IsFiniteSet(Opened) /\ Cardinality(Opened) \in Nat
<1>1. Opened \subseteq Shops
    BY DEF Opened
<1>2. IsFiniteSet(Opened) /\ Cardinality(Opened) \in Nat
    BY <1>1, GovernanceAssumption, FS_Subset, FS_CardinalityType
<1> QED
    BY <1>1, <1>2 DEF StoreInv, GovernanceInv, TypeOK

LEMMA IdleIs ==
    /\ Idle \in Pending /\ Idle.kind = "NONE" /\ Idle.found = "NONE" /\ Idle.base = 0
    /\ Idle.role = "NONE" /\ Idle.status = "REVOKED"
    /\ RequestOK(Idle)
<1>1. AnyShop \in Shops
    BY GovernanceAssumption DEF AnyShop
<1>2. Idle \in Pending /\ Idle.kind = "NONE" /\ Idle.found = "NONE" /\ Idle.base = 0
      /\ Idle.role = "NONE" /\ Idle.status = "REVOKED"
    BY <1>1, GovernanceAssumption
       DEF Idle, Pending, Kinds, Labels, Lifecycles, Transitions, Visibilities, Exposure, Roles, Statuses
<1> QED
    BY <1>2 DEF RequestOK

------------------------------------------------------------------------------
\* A request reads

LEMMA ReadStep ==
    ASSUME StoreInv, NEW q \in Requests, NEW p \in Pending, RequestOK(p), Begin(q, p)
    PROVE  StoreInv'
<1>1. /\ request' \in [Requests -> Pending] /\ request'[q] = p
      /\ \A r \in Requests \ {q} : request'[r] = request[r]
      /\ UNCHANGED <<shop, version, seat, strayed, crossed>>
    BY Types DEF Begin
<1>2. GovernanceInv'
    BY <1>1 DEF StoreInv, GovernanceInv, TypeOK, OwnedWithinAllowance, Opened
<1>3. \A s \in Shops : ShopOK(s)'
    BY <1>1 DEF StoreInv, ShopOK, Opened, SuperOwner, Sits
<1>4. \A r \in Requests : RequestOK(request[r])'
    BY <1>1 DEF StoreInv, RequestOK, Opened
<1> QED
    BY <1>2, <1>3, <1>4 DEF StoreInv

LEMMA BeginOpenStep ==
    ASSUME StoreInv, NEW q \in Requests, BeginOpen(q)
    PROVE  StoreInv'
<1>1. PICK s \in Shops \ Opened, n \in Nat :
         Begin(q, [Idle EXCEPT !.kind = "OPEN", !.shop = s, !.base = n])
    BY Types DEF BeginOpen
<1>2. PICK old \in Pending : old = Idle
    BY IdleIs
<1>3. PICK p : p = [old EXCEPT !.kind = "OPEN", !.shop = s, !.base = n]
    OBVIOUS
<1>4. p \in Pending /\ p.kind = "OPEN"
    BY <1>2, <1>3 DEF Pending, Kinds
<1>5. RequestOK(p)
    BY <1>4 DEF RequestOK
<1> QED
    BY <1>1, <1>2, <1>3, <1>4, <1>5, ReadStep

LEMMA BeginReviseStep ==
    ASSUME StoreInv, NEW q \in Requests, BeginRevise(q)
    PROVE  StoreInv'
<1>1. PICK s \in Opened, actor \in Members, lifecycle \in Lifecycles, visibility \in Visibilities,
           label \in Labels :
         /\ MayRevise(s, actor, lifecycle, visibility)
         /\ Begin(q, [Idle EXCEPT !.kind = "REVISE", !.shop = s, !.base = shop[s].label,
                                  !.label = label, !.follows = FollowsOne(s, label),
                                  !.lifecycle = lifecycle, !.visibility = visibility])
    BY DEF BeginRevise
<1>2. PICK n : n = shop[s].label
    OBVIOUS
<1>0. PICK follows \in BOOLEAN : follows = (label = 1 \/ label - 1 \in DOMAIN version[s])
    OBVIOUS
<1>3. s \in Shops /\ n \in Nat /\ n \in DOMAIN version[s] /\ label \in Nat
    BY <1>2, Types, GovernanceAssumption DEF Opened, Storefronts, StoreInv, ShopOK, Labels
<1>4. PICK old \in Pending : old = Idle
    BY IdleIs
<1>5. PICK p : p = [old EXCEPT !.kind = "REVISE", !.shop = s, !.base = n, !.label = label,
                               !.follows = follows, !.lifecycle = lifecycle,
                               !.visibility = visibility]
    OBVIOUS
<1>6. /\ p \in Pending
      /\ p.kind = "REVISE" /\ p.shop = s /\ p.base = n /\ p.label = label
      /\ p.follows = follows /\ p.lifecycle = lifecycle
    BY <1>3, <1>4, <1>5 DEF Pending, Kinds
<1>7. /\ version[s][n].lifecycle # "CLOSED"
      /\ lifecycle \in Transitions[version[s][n].lifecycle] \cup {version[s][n].lifecycle}
    BY <1>1, <1>2 DEF MayRevise, Current
<1>8. follows /\ s \notin strayed => label <= n + 1
    <2>1. s \notin strayed => DOMAIN version[s] = 1..n
        BY <1>2, <1>3 DEF StoreInv, ShopOK
    <2>2. ASSUME s \notin strayed, label = 1 \/ label - 1 \in DOMAIN version[s]
          PROVE  label <= n + 1
        BY <1>3, <2>1, <2>2
    <2> QED
        BY <1>0, <2>2
<1>9. RequestOK(p)
    BY <1>3, <1>6, <1>7, <1>8 DEF RequestOK
<1>10. Begin(q, p)
    BY <1>0, <1>1, <1>2, <1>4, <1>5 DEF FollowsOne
<1> QED
    BY <1>6, <1>9, <1>10, ReadStep

LEMMA BeginAppointStep ==
    ASSUME StoreInv, NEW q \in Requests, BeginAppoint(q)
    PROVE  StoreInv'
<1>1. PICK s \in Opened, m \in Members, role \in Roles :
         Begin(q, [Idle EXCEPT !.kind = "APPOINT", !.shop = s, !.member = m,
                               !.role = role, !.found = seat[s][m].role])
    BY DEF BeginAppoint
<1>2. PICK found : found = seat[s][m].role
    OBVIOUS
<1>3. s \in Shops /\ found \in Roles \cup {"NONE"}
    BY <1>2, Types DEF Seats
<1>4. PICK old \in Pending : old = Idle
    BY IdleIs
<1>5. PICK p : p = [old EXCEPT !.kind = "APPOINT", !.shop = s, !.member = m,
                               !.role = role, !.found = found]
    OBVIOUS
<1>6. p \in Pending /\ p.kind = "APPOINT" /\ p.shop = s
    BY <1>3, <1>4, <1>5 DEF Pending, Kinds
<1>7. RequestOK(p)
    BY <1>6 DEF RequestOK
<1>8. Begin(q, p)
    BY <1>1, <1>2, <1>4, <1>5
<1> QED
    BY <1>6, <1>7, <1>8, ReadStep

LEMMA BeginSetStatusStep ==
    ASSUME StoreInv, NEW q \in Requests, BeginSetStatus(q)
    PROVE  StoreInv'
<1>1. PICK s \in Opened, m \in Members, status \in Statuses :
         Begin(q, [Idle EXCEPT !.kind = "STATUS", !.shop = s, !.member = m,
                               !.status = status, !.found = seat[s][m].role])
    BY DEF BeginSetStatus
<1>2. PICK found : found = seat[s][m].role
    OBVIOUS
<1>3. s \in Shops /\ found \in Roles \cup {"NONE"}
    BY <1>2, Types DEF Seats
<1>4. PICK old \in Pending : old = Idle
    BY IdleIs
<1>5. PICK p : p = [old EXCEPT !.kind = "STATUS", !.shop = s, !.member = m,
                               !.status = status, !.found = found]
    OBVIOUS
<1>6. p \in Pending /\ p.kind = "STATUS" /\ p.shop = s
    BY <1>3, <1>4, <1>5 DEF Pending, Kinds
<1>7. RequestOK(p)
    BY <1>6 DEF RequestOK
<1>8. Begin(q, p)
    BY <1>1, <1>2, <1>4, <1>5
<1> QED
    BY <1>6, <1>7, <1>8, ReadStep

------------------------------------------------------------------------------
\* ... and commits

\* A request that ends leaves the others as they were, and what they read of a storefront's
\* versions stays: a version is added, never taken away or rewritten.
LEMMA OthersStay ==
    ASSUME StoreInv, NEW q \in Requests, End(q),
           Opened \subseteq Opened', strayed \subseteq strayed',
           \A s \in Shops : /\ DOMAIN version[s] \subseteq DOMAIN version'[s]
                            /\ \A n \in DOMAIN version[s] : version'[s][n] = version[s][n]
    PROVE  request' \in [Requests -> Pending] /\ \A r \in Requests : RequestOK(request[r])'
<1>1. /\ request' \in [Requests -> Pending] /\ request'[q] = Idle
      /\ \A r \in Requests \ {q} : request'[r] = request[r]
    BY Types, IdleIs DEF End
<1>2. RequestOK(request[q])'
    BY <1>1, IdleIs DEF RequestOK
<1>3. ASSUME NEW r \in Requests \ {q}
      PROVE  RequestOK(request[r])'
    <2>1. PICK p \in Pending : p = request[r]
        BY Types
    <2>2. RequestOK(p) /\ request'[r] = p /\ p.shop \in Shops
        BY <1>1, <2>1 DEF StoreInv, Pending
    <2>3. p.kind = "REVISE" => /\ p.base \in DOMAIN version'[p.shop]
                               /\ version'[p.shop][p.base] = version[p.shop][p.base]
        BY <2>2 DEF RequestOK
    <2> QED
        BY <2>2, <2>3 DEF RequestOK
<1> QED
    BY <1>1, <1>2, <1>3

\* Adding a version keeps those that are there.
LEMMA AddedRows ==
    ASSUME NEW rows, rows \in [DOMAIN rows -> Versions], NEW label, NEW new \in Versions
    PROVE  /\ DOMAIN Added(rows, label, new) = DOMAIN rows \cup {label}
           /\ Added(rows, label, new) \in [DOMAIN rows \cup {label} -> Versions]
    BY DEF Added

LEMMA AddedKeeps ==
    ASSUME NEW rows, NEW label, NEW new, NEW n \in DOMAIN rows, n # label
    PROVE  Added(rows, label, new)[n] = rows[n]
    BY DEF Added

LEMMA RefuseStep ==
    ASSUME StoreInv, NEW q \in Requests, Refuse(q)
    PROVE  StoreInv'
<1>1. End(q) /\ UNCHANGED <<shop, version, seat, strayed, crossed>>
    BY DEF Refuse
<1>2. request' \in [Requests -> Pending] /\ \A r \in Requests : RequestOK(request[r])'
    BY <1>1, OthersStay DEF Opened
<1>3. GovernanceInv'
    BY <1>1, <1>2 DEF StoreInv, GovernanceInv, TypeOK, OwnedWithinAllowance, Opened
<1>4. \A s \in Shops : ShopOK(s)'
    BY <1>1 DEF StoreInv, ShopOK, Opened, SuperOwner, Sits
<1> QED
    BY <1>2, <1>3, <1>4 DEF StoreInv

LEMMA OpenStep ==
    ASSUME StoreInv, NEW q \in Requests, Open(q)
    PROVE  StoreInv'
<1>1. PICK s \in Shops : s = request[q].shop
    BY Types DEF Pending
<1>2. s \notin Opened /\ Cardinality(Opened) < Allowance /\ End(q) /\ UNCHANGED <<strayed, crossed>>
    BY <1>1 DEF Open, HasRoom
<1>3. shop[s] = Unopened /\ version[s] = NoVersions /\ \A m \in Members : seat[s][m] = NoSeat
    BY <1>2 DEF StoreInv, ShopOK
<1>4. PICK first : first = [shop[s] EXCEPT !.label = 1]
    OBVIOUS
<1>5. first \in Storefronts /\ first.label = 1 /\ 1 \in Labels
    BY <1>4, Types, GovernanceAssumption DEF Storefronts, Labels
<1>6. PICK mine : mine = [role |-> "SUPER_OWNER", status |-> "ACTIVE", marked |-> TRUE]
    OBVIOUS
<1>7. mine \in Seats
    BY <1>6 DEF Seats, Roles, Statuses
<1>8. /\ shop' = [shop EXCEPT ![s] = first]
      /\ shop' \in [Shops -> Storefronts]
      /\ shop'[s] = first /\ \A t \in Shops \ {s} : shop'[t] = shop[t]
    BY <1>1, <1>4, <1>5, Types DEF Open
<1>9. /\ seat' = [seat EXCEPT ![s] = [seat[s] EXCEPT ![Owner] = mine]]
      /\ seat' \in [Shops -> [Members -> Seats]]
      /\ seat'[s][Owner] = mine /\ \A m \in Members \ {Owner} : seat'[s][m] = NoSeat
      /\ \A t \in Shops \ {s} : seat'[t] = seat[t]
    BY <1>1, <1>3, <1>6, <1>7, Types, GovernanceAssumption DEF Open
<1>10. PICK rows : rows = Added(version[s], 1, FirstVersion)
    OBVIOUS
<1>11. DOMAIN rows = {1} /\ rows \in [{1} -> Versions]
    <2>1. FirstVersion \in Versions
        BY GovernanceAssumption DEF FirstVersion, Versions, Lifecycles, Transitions
    <2>2. DOMAIN version[s] = {} /\ version[s] \in [DOMAIN version[s] -> Versions]
        BY <1>1, <1>3, Types DEF NoVersions
    <2>3. /\ DOMAIN rows = DOMAIN version[s] \cup {1}
          /\ rows \in [DOMAIN version[s] \cup {1} -> Versions]
        BY <1>10, <2>1, <2>2, AddedRows
    <2> QED
        BY <2>2, <2>3
<1>12. /\ version' = [version EXCEPT ![s] = rows]
       /\ DOMAIN version' = Shops
       /\ version'[s] = rows /\ \A t \in Shops \ {s} : version'[t] = version[t]
    BY <1>1, <1>10, Types DEF Open
<1>13. Opened' = Opened \cup {s}
    BY <1>1, <1>5, <1>8 DEF Opened
<1>14. request' \in [Requests -> Pending] /\ \A r \in Requests : RequestOK(request[r])'
    <2>1. DOMAIN version[s] = {}
        BY <1>3 DEF NoVersions
    <2> QED
        BY <1>2, <1>12, <1>13, <2>1, OthersStay
<1>15. Cardinality(Opened') <= Allowance
    <2>1. Cardinality(Opened \cup {s}) = Cardinality(Opened) + 1
        BY <1>2, Types, FS_AddElement
    <2> QED
        BY <1>2, <1>13, <2>1, Types, GovernanceAssumption
<1>16. \A t \in Shops : /\ DOMAIN version'[t] \subseteq Labels
                        /\ version'[t] \in [DOMAIN version'[t] -> Versions]
    BY <1>5, <1>11, <1>12, Types
<1>17. GovernanceInv'
    BY <1>2, <1>8, <1>9, <1>12, <1>14, <1>15, <1>16
       DEF StoreInv, GovernanceInv, TypeOK, OwnedWithinAllowance
<1>18. ShopOK(s)'
    <2>1. ~ NoSeat.marked /\ NoSeat.role = "NONE"
        BY DEF NoSeat
    <2>2. \A m \in Members : seat'[s][m].marked => m = Owner
        BY <1>9, <2>1
    <2>3. \A m \in Members : seat'[s][m].marked <=>
             /\ seat'[s][m].role # "NONE" /\ seat'[s][m].status = "ACTIVE"
             /\ seat'[s][m].role = "SUPER_OWNER"
        BY <1>6, <1>9, <2>1
    <2>4. shop'[s].label = 1 /\ DOMAIN version'[s] = 1..1
        BY <1>5, <1>8, <1>11, <1>12
    <2> QED
        BY <1>13, <2>2, <2>3, <2>4 DEF ShopOK, SuperOwner, Sits
<1>19. \A t \in Shops \ {s} : ShopOK(t)'
    BY <1>2, <1>8, <1>9, <1>12, <1>13 DEF StoreInv, ShopOK, SuperOwner, Sits
<1> QED
    BY <1>14, <1>17, <1>18, <1>19 DEF StoreInv

\* A revision that passes the index moves on from a version of the storefront, and where
\* its label and all before it are in line, from the last one.
LEMMA RevisesOne ==
    ASSUME StoreInv, NEW q \in Requests, Revise(q),
           NEW s, s = request[q].shop, NEW p, p = request[q], NEW from, from = version[s][p.base]
    PROVE  /\ s \in Opened /\ s \in Shops /\ p \in Pending
           /\ p.base \in DOMAIN version[s] /\ p.label \in Labels \ DOMAIN version[s]
           /\ from.lifecycle # "CLOSED"
           /\ p.lifecycle \in Transitions[from.lifecycle] \cup {from.lifecycle}
           /\ p.follows /\ s \notin strayed => /\ p.base = shop[s].label /\ p.label = p.base + 1
                                              /\ DOMAIN version[s] = 1..p.base
<1>1. RequestOK(p) /\ p.kind = "REVISE" /\ p.label \notin DOMAIN version[s]
    BY DEF StoreInv, Revise, LabelIsFree
<1>2. s \in Opened /\ s \in Shops /\ p \in Pending /\ p.label \in Labels
    BY <1>1, Types DEF RequestOK, Pending
<1>3. ASSUME p.follows, s \notin strayed
      PROVE  /\ p.base = shop[s].label /\ p.label = p.base + 1
             /\ DOMAIN version[s] = 1..p.base
    <2>1. PICK b, n, l : b = p.base /\ n = p.label /\ l = shop[s].label
        OBVIOUS
    <2>2. b \in Nat /\ n \in Nat /\ n >= 1 /\ l \in Nat
        BY <1>2, <2>1, Types, GovernanceAssumption DEF Pending, Labels, Storefronts
    <2>3. n <= b + 1 /\ b \in DOMAIN version[s] /\ DOMAIN version[s] = 1..l /\ n \notin 1..l
        BY <1>1, <1>2, <1>3, <2>1 DEF RequestOK, StoreInv, ShopOK
    <2> QED
        BY <2>1, <2>2, <2>3
<1> QED
    BY <1>1, <1>2, <1>3 DEF RequestOK

LEMMA ReviseStep ==
    ASSUME StoreInv, NEW q \in Requests, Revise(q)
    PROVE  StoreInv'
<1>1. PICK p : p = request[q]
    OBVIOUS
<1>2. PICK s : s = p.shop
    OBVIOUS
<1>3. /\ s \in Opened /\ s \in Shops /\ p \in Pending
      /\ p.base \in DOMAIN version[s] /\ p.label \in Labels \ DOMAIN version[s]
      /\ p.follows /\ s \notin strayed => /\ p.base = shop[s].label /\ p.label = p.base + 1
                                         /\ DOMAIN version[s] = 1..p.base
    BY <1>1, <1>2, RevisesOne
<1>4. PICK new : new = [basis |-> p.base, lifecycle |-> p.lifecycle]
    OBVIOUS
<1>5. PICK row : row = [label |-> p.label, visibility |-> p.visibility]
    OBVIOUS
<1>6. /\ new \in Versions /\ row \in Storefronts /\ row.label = p.label
      /\ p.label \in Nat /\ p.label > 0 /\ p.follows \in BOOLEAN
    <2>1. p.base \in 0..MaxVersions /\ p.label \in 0..MaxVersions /\ p.label > 0
        BY <1>3, Types, GovernanceAssumption DEF Labels
    <2> QED
        BY <1>3, <1>4, <1>5, <2>1, GovernanceAssumption DEF Versions, Storefronts, Pending
<1>7. PICK rows : rows = Added(version[s], p.label, new)
    OBVIOUS
<1>8. /\ DOMAIN rows = DOMAIN version[s] \cup {p.label} /\ rows \in [DOMAIN rows -> Versions]
      /\ \A n \in DOMAIN version[s] : rows[n] = version[s][n]
    <2>1. version[s] \in [DOMAIN version[s] -> Versions]
        BY <1>3, Types
    <2>2. /\ DOMAIN rows = DOMAIN version[s] \cup {p.label}
          /\ rows \in [DOMAIN version[s] \cup {p.label} -> Versions]
        BY <1>6, <1>7, <2>1, AddedRows
    <2>3. ASSUME NEW n \in DOMAIN version[s]
          PROVE  rows[n] = version[s][n]
        <3>1. n # p.label
            BY <1>3
        <3> QED
            BY <1>7, <3>1, AddedKeeps
    <2> QED
        BY <2>2, <2>3
<1>9. /\ shop' = [shop EXCEPT ![s] = row] /\ UNCHANGED <<seat, crossed>> /\ End(q)
      /\ shop' \in [Shops -> Storefronts]
      /\ shop'[s] = row /\ \A t \in Shops \ {s} : shop'[t] = shop[t]
      /\ strayed' = IF p.follows THEN strayed ELSE strayed \cup {s}
    BY <1>1, <1>2, <1>3, <1>5, <1>6, Types DEF Revise
<1>10. /\ version' = [version EXCEPT ![s] = rows]
       /\ DOMAIN version' = Shops
       /\ version'[s] = rows /\ \A t \in Shops \ {s} : version'[t] = version[t]
    BY <1>1, <1>2, <1>3, <1>4, <1>7, Types DEF Revise
<1>11. Opened' = Opened
    BY <1>3, <1>6, <1>9 DEF Opened
<1>12. strayed \subseteq strayed' /\ strayed' \subseteq Shops
    BY <1>3, <1>9, Types
<1>13. request' \in [Requests -> Pending] /\ \A r \in Requests : RequestOK(request[r])'
    <2>1. \A t \in Shops : /\ DOMAIN version[t] \subseteq DOMAIN version'[t]
                           /\ \A n \in DOMAIN version[t] : version'[t][n] = version[t][n]
        BY <1>8, <1>10
    <2> QED
        BY <1>9, <1>11, <1>12, <2>1, OthersStay
<1>14. \A t \in Shops : /\ DOMAIN version'[t] \subseteq Labels
                        /\ version'[t] \in [DOMAIN version'[t] -> Versions]
    BY <1>3, <1>8, <1>10, Types
<1>15. GovernanceInv'
    BY <1>9, <1>10, <1>11, <1>12, <1>13, <1>14, Types
       DEF StoreInv, GovernanceInv, TypeOK, OwnedWithinAllowance
<1>16. ShopOK(s)'
    <2>1. ASSUME s \notin strayed'
          PROVE  DOMAIN version'[s] = 1..shop'[s].label
        <3>1. p.follows /\ s \notin strayed
            BY <1>9, <2>1
        <3>2. PICK b : b = p.base
            OBVIOUS
        <3>3. b \in Nat /\ p.label = b + 1 /\ DOMAIN rows = (1..b) \cup {b + 1}
            BY <1>3, <1>8, <3>1, <3>2 DEF Pending
        <3>4. (1..b) \cup {b + 1} = 1..(b + 1)
            BY <3>3
        <3> QED
            BY <1>6, <1>9, <1>10, <3>3, <3>4
    <2>2. shop'[s].label \in DOMAIN version'[s] /\ s \in Opened'
        BY <1>3, <1>6, <1>8, <1>9, <1>10, <1>11
    <2>3. ShopOK(s)
        BY <1>3 DEF StoreInv
    <2> QED
        BY <1>9, <2>1, <2>2, <2>3 DEF ShopOK, SuperOwner, Sits
<1>17. \A t \in Shops \ {s} : ShopOK(t)'
    BY <1>9, <1>10, <1>11, <1>12 DEF StoreInv, ShopOK, SuperOwner, Sits
<1> QED
    BY <1>13, <1>15, <1>16, <1>17 DEF StoreInv

\* One seat is written: its mark found the place free, and unless the storefront is
\* crossed the mark says who the seat's super owner is.
LEMMA SeatStep ==
    ASSUME StoreInv, NEW q \in Requests, NEW s \in Opened, NEW m \in Members, NEW new \in Seats,
           new.marked => PlaceIsFree(s, m),
           seat' = [seat EXCEPT ![s] = [seat[s] EXCEPT ![m] = new]],
           crossed' \in {crossed, crossed \cup {s}},
           s \notin crossed' => (new.marked <=> new.role = "SUPER_OWNER" /\ new.status = "ACTIVE"),
           End(q), UNCHANGED <<shop, version, strayed>>
    PROVE  StoreInv'
<1>1. s \in Shops
    BY Types
<1>2. /\ seat' \in [Shops -> [Members -> Seats]]
      /\ seat'[s][m] = new /\ \A n \in Members \ {m} : seat'[s][n] = seat[s][n]
      /\ \A t \in Shops \ {s} : seat'[t] = seat[t]
    BY <1>1, Types
<1>3. request' \in [Requests -> Pending] /\ \A r \in Requests : RequestOK(request[r])'
    BY OthersStay DEF Opened
<1>4. Opened' = Opened
    BY DEF Opened
<1>5. crossed' \subseteq Shops
    BY <1>1 DEF StoreInv, GovernanceInv, TypeOK
<1>6. GovernanceInv'
    BY <1>2, <1>3, <1>4, <1>5 DEF StoreInv, GovernanceInv, TypeOK, OwnedWithinAllowance
<1>7. ShopOK(s)
    BY <1>1 DEF StoreInv
<1>8. ShopOK(s)'
    <2>1. \A n, k \in Members : seat'[s][n].marked /\ seat'[s][k].marked => n = k
        BY <1>2, <1>7 DEF ShopOK, PlaceIsFree
    <2>2. ASSUME s \notin crossed', NEW n \in Members
          PROVE  seat'[s][n].marked <=>
                    /\ seat'[s][n].role # "NONE" /\ seat'[s][n].status = "ACTIVE"
                    /\ seat'[s][n].role = "SUPER_OWNER"
        <3>1. CASE n = m
            BY <1>2, <2>2, <3>1
        <3>2. CASE n # m
            <4>1. s \notin crossed
                BY <2>2
            <4> QED
                BY <1>2, <1>7, <3>2, <4>1 DEF ShopOK, SuperOwner, Sits
        <3> QED
            BY <3>1, <3>2
    <2> QED
        BY <1>4, <1>7, <2>1, <2>2 DEF ShopOK, SuperOwner, Sits
<1>9. \A t \in Shops \ {s} : ShopOK(t)'
    <2>1. \A t \in Shops \ {s} : t \notin crossed' => t \notin crossed
        OBVIOUS
    <2> QED
        BY <1>2, <1>4, <2>1 DEF StoreInv, ShopOK, SuperOwner, Sits
<1> QED
    BY <1>3, <1>6, <1>8, <1>9 DEF StoreInv

LEMMA AppointStep ==
    ASSUME StoreInv, NEW q \in Requests, Appoint(q)
    PROVE  StoreInv'
<1>1. PICK p \in Pending : p = request[q]
    BY Types
<1>2. PICK s \in Opened : s = p.shop
    BY <1>1 DEF StoreInv, RequestOK, Appoint
<1>3. PICK m \in Members : m = p.member
    BY DEF Pending
<1>4. PICK new : new = [role |-> p.role, status |-> "ACTIVE", marked |-> p.role = "SUPER_OWNER"]
    OBVIOUS
<1>5. new \in Seats /\ (new.marked <=> new.role = "SUPER_OWNER" /\ new.status = "ACTIVE")
    BY <1>4 DEF Seats, Pending, Roles, Statuses
<1>6. new.marked => PlaceIsFree(s, m)
    BY <1>1, <1>2, <1>3, <1>4 DEF Appoint
<1>7. seat' = [seat EXCEPT ![s] = [seat[s] EXCEPT ![m] = new]]
    BY <1>1, <1>2, <1>3, <1>4, Types DEF Appoint
<1> QED
    BY <1>5, <1>6, <1>7, SeatStep DEF Appoint

LEMMA SetStatusStep ==
    ASSUME StoreInv, NEW q \in Requests, SetStatus(q)
    PROVE  StoreInv'
<1>1. PICK p \in Pending : p = request[q]
    BY Types
<1>2. PICK s \in Opened : s = p.shop
    BY <1>1 DEF StoreInv, RequestOK, SetStatus
<1>3. PICK m \in Members : m = p.member
    BY DEF Pending
<1>4. PICK old \in Seats : old = seat[s][m]
    BY Types
<1>5. PICK mark \in BOOLEAN : mark = (p.found = "SUPER_OWNER" /\ p.status = "ACTIVE")
    OBVIOUS
<1>6. PICK new : new = [old EXCEPT !.status = p.status, !.marked = mark]
    OBVIOUS
<1>7. /\ new \in Seats
      /\ new.role = old.role /\ new.status = p.status /\ new.marked = mark
    BY <1>6 DEF Seats, Pending
<1>8. new.marked => PlaceIsFree(s, m)
    BY <1>1, <1>2, <1>3, <1>5, <1>7 DEF SetStatus
<1>9. seat' = [seat EXCEPT ![s] = [seat[s] EXCEPT ![m] = new]]
    <2>1. seat' = [seat EXCEPT ![s][m].status = p.status, ![s][m].marked = mark]
        BY <1>1, <1>2, <1>3, <1>5 DEF SetStatus
    <2> QED
        BY <1>4, <1>6, <2>1, Types
<1>10. crossed' = IF old.role = p.found THEN crossed ELSE crossed \cup {s}
    BY <1>1, <1>2, <1>3, <1>4 DEF SetStatus
<1>11. s \notin crossed' => (new.marked <=> new.role = "SUPER_OWNER" /\ new.status = "ACTIVE")
    BY <1>5, <1>7, <1>10
<1> QED
    BY <1>7, <1>8, <1>9, <1>10, <1>11, SeatStep DEF SetStatus

------------------------------------------------------------------------------
\* Theorems

LEMMA InitInv == Init => StoreInv
<1> SUFFICES ASSUME Init
             PROVE  StoreInv
    OBVIOUS
<1>1. /\ Unopened \in Storefronts /\ Unopened.label = 0
      /\ DOMAIN NoVersions = {} /\ NoVersions \in [{} -> Versions]
      /\ NoSeat \in Seats /\ ~ NoSeat.marked /\ NoSeat.role = "NONE"
    BY GovernanceAssumption
       DEF Unopened, Storefronts, NoVersions, NoSeat, Seats, Roles, Statuses, Visibilities, Exposure
<1>2. Opened = {}
    BY <1>1 DEF Init, Opened
<1>3. GovernanceInv
    <2>1. Cardinality({}) = 0
        BY FS_EmptySet
    <2> QED
        BY <1>1, <1>2, <2>1, IdleIs, GovernanceAssumption
           DEF Init, GovernanceInv, TypeOK, OwnedWithinAllowance
<1>4. \A s \in Shops : ShopOK(s)
    BY <1>1, <1>2 DEF Init, ShopOK, SuperOwner, Sits
<1>5. \A q \in Requests : RequestOK(request[q])
    BY IdleIs DEF Init
<1> QED
    BY <1>3, <1>4, <1>5 DEF StoreInv

LEMMA StepInv == StoreInv /\ [Next]_vars => StoreInv'
<1> SUFFICES ASSUME StoreInv, [Next]_vars
             PROVE  StoreInv'
    OBVIOUS
<1>1. CASE UNCHANGED vars
    <2>1. GovernanceInv'
        BY <1>1 DEF vars, StoreInv, GovernanceInv, TypeOK, OwnedWithinAllowance, Opened
    <2>2. \A s \in Shops : ShopOK(s)'
        BY <1>1 DEF vars, StoreInv, ShopOK, Opened, SuperOwner, Sits
    <2>3. \A q \in Requests : RequestOK(request[q])'
        BY <1>1 DEF vars, StoreInv, RequestOK, Opened
    <2> QED
        BY <2>1, <2>2, <2>3 DEF StoreInv
<1>2. ASSUME NEW q \in Requests,
             \/ BeginOpen(q) \/ BeginRevise(q) \/ BeginAppoint(q) \/ BeginSetStatus(q)
      PROVE  StoreInv'
    BY <1>2, BeginOpenStep, BeginReviseStep, BeginAppointStep, BeginSetStatusStep
<1>3. ASSUME NEW q \in Requests,
             \/ Open(q) \/ Revise(q) \/ Appoint(q) \/ SetStatus(q) \/ Refuse(q)
      PROVE  StoreInv'
    BY <1>3, OpenStep, ReviseStep, AppointStep, SetStatusStep, RefuseStep
<1> QED
    BY <1>1, <1>2, <1>3 DEF Next

LEMMA Invariance == Spec => []StoreInv
<1> QED
    BY InitInv, StepInv, PTL DEF Spec

\* However many requests open storefronts at the same time, the owner has no more of
\* them than is allowed: the count is read under the owner's lock.
THEOREM GovernanceInvariance == Spec => []GovernanceInv
<1>1. StoreInv => GovernanceInv
    BY DEF StoreInv
<1> QED
    BY <1>1, Invariance, PTL

\* The unique index over the marks keeps a storefront to one active super owner, and the
\* mark to the super owner, as long as no status is set by a role that has changed.
THEOREM SeatsAgree == Spec => []UncrossedSeatsAgree
<1>1. StoreInv => UncrossedSeatsAgree
    <2> SUFFICES ASSUME StoreInv, NEW s \in Opened \ crossed
                 PROVE  /\ \A m, n \in SuperOwners(s) : m = n
                        /\ \A m \in Members : seat[s][m].marked <=> SuperOwner(s, m)
        BY DEF UncrossedSeatsAgree
    <2>1. s \in Shops
        BY Types
    <2>2. ShopOK(s)
        BY <2>1 DEF StoreInv
    <2> QED
        BY <2>2 DEF ShopOK, SuperOwners
<1> QED
    BY <1>1, Invariance, PTL

\* The versions as the history shows them.
Shown(rows) == [n \in DOMAIN rows |-> [basis |-> rows[n].basis, state |-> rows[n].lifecycle]]

LEMMA ShownAdded ==
    ASSUME NEW rows, NEW label, NEW basis, NEW lifecycle
    PROVE  Shown(Added(rows, label, [basis |-> basis, lifecycle |-> lifecycle]))
             = History!Added(Shown(rows), label, [basis |-> basis, state |-> lifecycle])
    BY DEF Shown, Added, History!Added

\* Every commit is a step of the history: an opening creates a record, a revision adds
\* a version to it, and nothing else shows.
LEMMA HistoryStep ==
    ASSUME StoreInv, [Next]_vars
    PROVE  [History!Next]_(History!vars)
<1> DEFINE seen(s) == [current |-> shop[s].label, versions |-> Shown(version[s]),
                       straight |-> s \notin strayed]
<1>0. Recorded = [s \in Shops |-> seen(s)] /\ Recorded' = [s \in Shops |-> seen(s)']
    BY DEF Recorded, Shown
<1>1. ASSUME NEW q \in Requests, Open(q)
      PROVE  History!Next
    <2>1. PICK s \in Shops : s = request[q].shop
        BY Types DEF Pending
    <2>2. shop[s] = Unopened
        BY <1>1, <2>1 DEF Open, StoreInv, ShopOK
    <2>3. /\ shop' = [shop EXCEPT ![s].label = 1] /\ strayed' = strayed
          /\ version' = [version EXCEPT ![s] = Added(version[s], 1, FirstVersion)]
        BY <1>1, <2>1 DEF Open
    <2>4. /\ shop'[s].label = 1 /\ \A t \in Shops \ {s} : shop'[t] = shop[t]
          /\ version'[s] = Added(version[s], 1, FirstVersion)
          /\ \A t \in Shops \ {s} : version'[t] = version[t]
        BY <2>3, Types DEF Storefronts
    <2>5. Shown(version'[s]) = History!Added(Shown(version[s]), 1, [basis |-> 0, state |-> "DRAFT"])
        BY <2>4, ShownAdded DEF FirstVersion
    <2>6. Recorded[s].current = 0
        BY <1>0, <2>1, <2>2 DEF Unopened
    <2>7. Recorded' = [Recorded EXCEPT ![s].current = 1,
                                   ![s].versions = History!Added(Recorded[s].versions, 1,
                                                       [basis |-> 0, state |-> "DRAFT"])]
        BY <1>0, <2>1, <2>3, <2>4, <2>5
    <2>8. History!Create(s)
        BY <2>6, <2>7 DEF History!Create
    <2> QED
        BY <2>8 DEF History!Next
<1>2. ASSUME NEW q \in Requests, Revise(q)
      PROVE  History!Next
    <2>1. PICK p : p = request[q]
        OBVIOUS
    <2>2. PICK s : s = p.shop
        OBVIOUS
    <2>3. PICK from : from = version[s][p.base].lifecycle
        OBVIOUS
    <2>4. /\ s \in Shops /\ p \in Pending
          /\ p.base \in DOMAIN version[s] /\ p.label \in Labels \ DOMAIN version[s]
          /\ from # "CLOSED" /\ p.lifecycle \in Transitions[from] \cup {from}
          /\ p.follows /\ s \notin strayed => p.base = shop[s].label /\ p.label = p.base + 1
        BY <1>2, <2>1, <2>2, <2>3, RevisesOne
    <2>5. /\ shop' = [shop EXCEPT ![s] = [label |-> p.label, visibility |-> p.visibility]]
          /\ version' = [version EXCEPT ![s] =
                Added(version[s], p.label, [basis |-> p.base, lifecycle |-> p.lifecycle])]
          /\ strayed' = IF p.follows THEN strayed ELSE strayed \cup {s}
        BY <1>2, <2>1, <2>2 DEF Revise
    <2>6. /\ shop'[s].label = p.label /\ \A t \in Shops \ {s} : shop'[t] = shop[t]
          /\ version'[s] = Added(version[s], p.label,
                                 [basis |-> p.base, lifecycle |-> p.lifecycle])
          /\ \A t \in Shops \ {s} : version'[t] = version[t]
        BY <2>4, <2>5, Types
    <2>7. Shown(version'[s]) = History!Added(Shown(version[s]), p.label,
                                             [basis |-> p.base, state |-> p.lifecycle])
        BY <2>6, ShownAdded
    <2>8. PICK straight : straight = (s \notin strayed')
        OBVIOUS
    <2>9. /\ straight \in {Recorded[s].straight, FALSE}
          /\ straight => p.base = Recorded[s].current /\ p.label = p.base + 1
        BY <1>0, <2>4, <2>5, <2>8 DEF Pending
    <2>10. Recorded' = [Recorded EXCEPT ![s] =
              [current |-> p.label, straight |-> straight,
               versions |-> History!Added(Recorded[s].versions, p.label,
                                          [basis |-> p.base, state |-> p.lifecycle])]]
        <3>1. \A t \in Shops \ {s} : seen(t)' = seen(t)
            BY <2>5, <2>6
        <3>2. seen(s)' = [current |-> p.label, straight |-> straight,
                          versions |-> History!Added(Shown(version[s]), p.label,
                                                     [basis |-> p.base, state |-> p.lifecycle])]
            BY <2>6, <2>7, <2>8
        <3> QED
            BY <1>0, <2>4, <3>1, <3>2
    <2>11. /\ DOMAIN Recorded[s].versions = DOMAIN version[s]
           /\ Recorded[s].versions[p.base].state = from
        BY <1>0, <2>3, <2>4 DEF Shown
    <2>12. History!Revise(s)
        <3>1. /\ p.label \in Labels \ DOMAIN Recorded[s].versions
              /\ p.base \in DOMAIN Recorded[s].versions
              /\ Recorded[s].versions[p.base].state \notin {"CLOSED"}
              /\ p.lifecycle \in Transitions[Recorded[s].versions[p.base].state]
                                  \cup {Recorded[s].versions[p.base].state}
            BY <2>4, <2>11
        <3> QED
            BY <2>9, <2>10, <3>1 DEF History!Revise
    <2> QED
        BY <2>4, <2>12 DEF History!Next
<1>3. ASSUME ~ \E q \in Requests : Open(q) \/ Revise(q)
      PROVE  UNCHANGED <<shop, version, strayed>>
    BY <1>3 DEF Next, vars, BeginOpen, BeginRevise, BeginAppoint, BeginSetStatus, Begin, Appoint,
                SetStatus, Refuse
<1> QED
    BY <1>1, <1>2, <1>3 DEF History!vars, Recorded

\* Although every request decides on a snapshot and takes whatever label it is given: no
\* version is rewritten, each is an allowed move from the one it names, and where labels
\* are in line none is lost and no storefront leaves CLOSED.
THEOREM GovernanceRefinement == Spec => ImplementsHistory
<1>1. Init => History!Init
    <2>1. Shown(NoVersions) = [n \in {} |-> [basis |-> 0, state |-> "DRAFT"]]
        BY DEF Shown, NoVersions
    <2>2. Unopened.label = 0
        BY DEF Unopened
    <2> QED
        BY <2>1, <2>2 DEF Init, History!Init, History!Absent, Recorded, Shown
<1>2. StoreInv /\ [Next]_vars => [History!Next]_(History!vars)
    BY HistoryStep
<1> QED
    BY <1>1, <1>2, Invariance, PTL DEF Spec, ImplementsHistory, History!Spec
================================================================================
