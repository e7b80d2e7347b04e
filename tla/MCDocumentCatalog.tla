-------------------------- MODULE MCDocumentCatalog -------------------------
(* Instances of DocumentCatalog for TLC.                                   *)
EXTENDS DocumentCatalog, TLC

CONSTANTS q1, q2, q3, f1, p1, t1, t2

MCCanonical == <<Family(f1), Policy(p1), Type(t1)>>

(* A shorter canonical list, for the run in which everything happens.      *)
MCShortCanonical == <<Family(f1), Type(t1)>>

Handlers == Permutations(Request)

(* Publishers and creators alone, for an instance with more of them.       *)
PublishNext ==
  \/ \E q \in Request : Create(q) \/ Publish(q) \/ Rollback(q)
  \/ Tick
PublishSpec == Init /\ [][PublishNext]_vars

(* What it takes to have versions and to list them.                        *)
ListNext ==
  \/ \E q \in Request : Seed(q) \/ Publish(q) \/ List(q) \/ Rollback(q)
ListSpec == Init /\ [][ListNext]_vars
=============================================================================
