--------------------------- MODULE MCOrganization ---------------------------
(* Instances of Organization for TLC.                                      *)
EXTENDS Organization, TLC

CONSTANTS q1, q2, o1, b1, w1, w2, s1, rs, r1, u1, l1, l2, l3

Handlers == Permutations(Request)

VARIABLE part  \* which tables the handlers of this behaviour are about

(* Below an organization, branches meet neither roles nor users, and below *)
(* a branch, series do not meet warehouses, which only add the refusal to  *)
(* delete the branch: one behaviour has the ones or the others.            *)
TablesOf ==
  [structure |-> Org \cup Branch \cup Warehouse,
   numbering |-> Org \cup Branch \cup Series,
   access    |-> Org \cup Role \cup User]

(* Only a role is called AUDITOR.                                          *)
Plausible(work) ==
  work.new.code = AuditorCode => work.key \in Role

MCInit ==
  /\ Init
  /\ \A r \in SystemRole : row[r].code = AuditorCode
  /\ part \in DOMAIN TablesOf
MCNext ==
  /\ Next
  /\ \A q \in Request : job'[q].key \in TablesOf[part] \cup {None}
  /\ \A q \in Request : Plausible(job'[q])
  /\ UNCHANGED part
MCSpec == MCInit /\ [][MCNext]_<<vars, part>>
=============================================================================
