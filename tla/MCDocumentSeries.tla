-------------------------- MODULE MCDocumentSeries --------------------------
(* Instances of DocumentSeries for TLC.                                    *)
EXTENDS DocumentSeries, TLC

CONSTANTS r1, r2, r3, org1, org2, sc1, sc2, s1, s2, v1, v2, v3

(* r1 has no organization, r2 and r3 are of org1.                          *)
MCOrgOfRequest == [r \in Request |-> IF r = r1 THEN None ELSE org1]

(* Two scopes, one of each organization.                                   *)
MCOrgOfScope == [sc \in Scope |-> IF sc = sc2 THEN org2 ELSE org1]

(* Primary keys are interchangeable, and so are requests of one principal. *)
KeySymmetry ==
  Permutations(SeriesId) \cup Permutations(ReservationId)
    \cup Permutations(Request \ {r1})

(* Bound: there is a key left for each handler that may insert numbers, so *)
(* that the keys of the model do not stop what the fairness asks for.      *)
RoomForReservations ==
  Cardinality({r \in Request : pc[r] \in {"reserve_lock", "reserve_commit"}})
    <= Cardinality({v \in ReservationId : reservations[v] = NoReservation})

MCFairSpec == Init /\ [][Next /\ RoomForReservations']_vars /\ Fairness
=============================================================================
