---------------------------- MODULE MCAuthSession ---------------------------
(* Instances of AuthSession for TLC.                                       *)
EXTENDS AuthSession

(* Without administrators, for a longer time.                              *)
PlainNext ==
  \/ \E q \in Request : Login(q) \/ Serve(q) \/ Logout(q) \/ Rollback(q)
  \/ Tick
PlainSpec ==
  Init /\ [][PlainNext /\ \A q \in Request : job'[q].op \notin Revoking]_vars
=============================================================================
