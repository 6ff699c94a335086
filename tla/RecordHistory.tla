---------------------------- MODULE RecordHistory ----------------------------
(***************************************************************************)
(* What every versioned marketplace record promises to a reader of its history: *)
(* its versions are never rewritten, none takes another's label, and each moves  *)
(* from the version it names as the lifecycle allows.  As long as every label     *)
(* follows one in use, the versions are one line: the record's current version   *)
(* is the last, made from the one before it.  A label that somebody made up ends   *)
(* that promise for its record, and only that one.                             *)
(***************************************************************************)
EXTENDS Naturals

CONSTANTS
    Records,
    Labels,      \* labels that a version may carry
    Initial,     \* the state a record is created in
    Transitions, \* to which states a state may move
    Sealed       \* states from which there is no further version

VARIABLE record  \* [Records -> [current, versions, straight]], label 0 before it exists

Absent == [current |-> 0, versions |-> [n \in {} |-> [basis |-> 0, state |-> Initial]],
           straight |-> TRUE]

Init == record = [r \in Records |-> Absent]

Added(versions, label, new) ==
    [n \in DOMAIN versions \cup {label} |-> IF n = label THEN new ELSE versions[n]]

Create(r) ==
    /\ record[r].current = 0
    /\ record' = [record EXCEPT ![r].current = 1,
                                ![r].versions = Added(@, 1, [basis |-> 0, state |-> Initial])]

\* The version is made from any version, but from the last one as long as the labels
\* are in line.
Revise(r) ==
    LET old == record[r] IN
    \E label \in Labels \ DOMAIN old.versions, basis \in DOMAIN old.versions :
    \E straight \in {old.straight, FALSE} :
        /\ straight => basis = old.current /\ label = basis + 1
        /\ old.versions[basis].state \notin Sealed
        /\ \E state \in Transitions[old.versions[basis].state] \cup {old.versions[basis].state} :
              record' = [record EXCEPT ![r] =
                  [current |-> label, straight |-> straight,
                   versions |-> Added(old.versions, label, [basis |-> basis, state |-> state])]]

Next == \E r \in Records : Create(r) \/ Revise(r)

vars == <<record>>

Spec == Init /\ [][Next]_vars
==============================================================================
