------------------------ MODULE MCAuthSessionHistory ------------------------
(* An instance of AuthSession, with what revocations missed, for TLC.      *)
EXTENDS AuthSessionHistory, TLC

CONSTANTS q1, q2, u1, u2

Interchangeable == Permutations(Request) \cup Permutations(User)
=============================================================================
