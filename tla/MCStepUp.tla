------------------------------ MODULE MCStepUp ------------------------------
(* Instances of StepUp, with what activations overlapped, for TLC.         *)
EXTENDS StepUpHistory, TLC

CONSTANTS q1, q2, s1, s2, f1, f2, k1, k2, c1, c2, high, critical

(* A CRITICAL grant is the shorter of the two.                             *)
MCGrantTTL == [p \in Policy |-> IF p = critical THEN 1 ELSE 2]

Interchangeable ==
  Permutations(Request) \cup Permutations(Session) \cup Permutations(FactorId)
    \cup Permutations(CodeId) \cup Permutations(ChallengeId)
=============================================================================
