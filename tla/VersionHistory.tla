--------------------------- MODULE VersionHistory ---------------------------
(***************************************************************************)
(* What the catalogue promises of the versions of a document type: each    *)
(* type has a history that only grows at its end, and the version in force *)
(* is the last one.                                                        *)
(***************************************************************************)
EXTENDS Naturals

CONSTANTS
  DocType,  \* document types
  Author,   \* who publishes
  Limit     \* longest history considered

VARIABLES
  length,   \* number of versions of each type
  author,   \* author[t][n], n <= length[t]: who published version n of t
  inForce   \* the numbers of the versions of each type that are in force

Init ==
  /\ length = [t \in DocType |-> 0]
  /\ author = [t \in DocType |-> [n \in {} |-> n]]
  /\ inForce = [t \in DocType |-> {}]

Publish(t, a) ==
  /\ length[t] < Limit
  /\ length' = [length EXCEPT ![t] = length[t] + 1]
  /\ author' = [author EXCEPT ![t] =
       [n \in 1 .. length[t] + 1 |-> IF n <= length[t] THEN author[t][n] ELSE a]]
  /\ inForce' = [inForce EXCEPT ![t] = {length[t] + 1}]

(* The loader brings several types at once, each with its first version.   *)
Load(new, a) ==
  /\ \A t \in new : length[t] = 0
  /\ length' = [t \in DocType |-> IF t \in new THEN 1 ELSE length[t]]
  /\ author' = [t \in DocType |-> IF t \in new THEN [n \in 1 .. 1 |-> a] ELSE author[t]]
  /\ inForce' = [t \in DocType |-> IF t \in new THEN {1} ELSE inForce[t]]

Next ==
  \/ \E t \in DocType, a \in Author : Publish(t, a)
  \/ \E new \in SUBSET DocType, a \in Author : Load(new, a)

Spec == Init /\ [][Next]_<<length, author, inForce>>
=============================================================================
