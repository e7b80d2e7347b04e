---------------------------- MODULE StepUpProofs ----------------------------
(***************************************************************************)
(* Proofs about StepUp, for any number of requests, sessions, factors,     *)
(* codes and challenges.                                                   *)
(***************************************************************************)
EXTENDS StepUpHistory, TLAPS

HistoryOK ==
  /\ failures \in [ChallengeId -> Nat]
  /\ verified \in [ChallengeId -> [count : Nat, at : 0 .. MaxClock]]

(* The row of auth_sessions is locked by one request at a time.            *)
LockInv ==
  /\ \A q \in Request : pc[q] # "idle" => job[q].session \in Session
  /\ \A q \in Request : pc[q] = "idle" => job[q].session = None
  /\ \A q, r \in Request :
       job[q].session = job[r].session /\ job[q].session # None => q = r

(* A code is judged while its challenge is open, and nobody else touches   *)
(* the challenge until the verdict is written.                             *)
VerdictInv ==
  \A q \in Request :
    pc[q] \in {"accept", "reject"} =>
      /\ job[q].challenge \in ChallengeId
      /\ job[q].factor \in FactorId
      /\ challenge[job[q].challenge].session = job[q].session
      /\ challenge[job[q].challenge].status = "PENDING"
      /\ challenge[job[q].challenge].attempts = job[q].attempts
      /\ job[q].stamp < challenge[job[q].challenge].expires
      /\ job[q].stamp <= clock

(* What the other handlers keep for their last step.                       *)
OperationInv ==
  \A q \in Request :
    /\ pc[q] = "grant" => job[q].policy \in Policy
    /\ pc[q] \in {"confirm", "regenerate"} => job[q].factor \in FactorId
    /\ pc[q] # "idle" => reply[q] # "allowed"

(* What the status of a challenge says of what happened to it.             *)
ChallengeInv ==
  \A c \in ChallengeId :
    /\ challenge[c].attempts = failures[c]
    /\ challenge[c].status = "LOCKED" <=> failures[c] >= MaxAttempts
    /\ challenge[c].status = "none" => failures[c] = 0 /\ challenge[c].session = None
    /\ challenge[c].status # "none" => challenge[c].policy \in Policy
    /\ verified[c].count <= 1
    /\ verified[c].count > 0 => challenge[c].status \in {"VERIFIED", "EXPIRED"}

(* Every grant comes from a challenge that was answered.                   *)
GrantInv ==
  \A g \in grants :
    /\ verified[g.challenge].count > 0
    /\ challenge[g.challenge].session = g.session
    /\ challenge[g.challenge].policy = g.policy
    /\ g.expires <= verified[g.challenge].at + GrantTTL[g.policy]

Inv ==
  /\ TypeOK /\ HistoryOK /\ LockInv
  /\ VerdictInv /\ OperationInv /\ ChallengeInv /\ GrantInv

-----------------------------------------------------------------------------
(* The control part: what Goto and Finish assign.                          *)

LEMMA NoJobType == NoJob \in Job
  BY StepUpAssumption DEF NoJob, Job

LEMMA FinishControl ==
  ASSUME Inv, NEW r \in Request, NEW answer \in Answer, Finish(r, answer)
  PROVE  /\ pc' \in [Request -> Steps]
         /\ job' \in [Request -> Job]
         /\ reply' \in [Request -> Answer]
         /\ LockInv'
         /\ OperationInv'
  <1>1. "idle" \in Steps
    BY DEF Steps
  <1>2. /\ pc' \in [Request -> Steps]
        /\ job' \in [Request -> Job]
        /\ reply' \in [Request -> Answer]
    BY <1>1, NoJobType DEF Inv, TypeOK, Finish
  <1>3. \A q \in Request :
          /\ pc'[q] = IF q = r THEN "idle" ELSE pc[q]
          /\ job'[q] = IF q = r THEN NoJob ELSE job[q]
          /\ reply'[q] = IF q = r THEN answer ELSE reply[q]
    BY DEF Inv, TypeOK, Finish
  <1>4. LockInv'
    BY <1>3 DEF Inv, LockInv, NoJob
  <1>5. OperationInv'
    BY <1>3 DEF Inv, OperationInv
  <1>6. QED
    BY <1>2, <1>4, <1>5

(* A request that ends without writing.                                    *)
LEMMA FinishKeeps ==
  ASSUME Inv, NEW r \in Request, NEW answer \in Answer, Finish(r, answer),
         UNCHANGED <<tables, clock, history>>
  PROVE  Inv'
  <1>1. /\ pc' \in [Request -> Steps] /\ job' \in [Request -> Job]
        /\ reply' \in [Request -> Answer] /\ LockInv' /\ OperationInv'
    BY FinishControl
  <1>2. TypeOK' /\ HistoryOK'
    BY <1>1 DEF Inv, TypeOK, HistoryOK, tables, history
  <1>3. VerdictInv'
    BY DEF Inv, TypeOK, VerdictInv, Finish, tables
  <1>4. ChallengeInv' /\ GrantInv'
    BY DEF Inv, ChallengeInv, GrantInv, tables, history
  <1>5. QED
    BY <1>1, <1>2, <1>3, <1>4 DEF Inv

(* A request that begins: it takes the lock of its session.                *)
LEMMA EnterKeeps ==
  ASSUME Inv, NEW r \in Request, NEW s \in Session, Enters(r, s),
         NEW step \in Steps \ {"idle"}, NEW work \in Job, Goto(r, step, work),
         work.session = s,
         step = "grant" => work.policy \in Policy,
         step \in {"confirm", "regenerate"} => work.factor \in FactorId,
         step \in {"accept", "reject"} =>
           /\ work.challenge \in ChallengeId
           /\ work.factor \in FactorId
           /\ challenge[work.challenge].session = s
           /\ challenge[work.challenge].status = "PENDING"
           /\ challenge[work.challenge].attempts = work.attempts
           /\ work.stamp < challenge[work.challenge].expires
           /\ work.stamp <= clock,
         UNCHANGED <<tables, clock, history>>
  PROVE  Inv'
  <1>1. "other" \in Answer
    BY DEF Answer
  <1>2. TypeOK' /\ HistoryOK'
    BY <1>1 DEF Inv, TypeOK, HistoryOK, Goto, tables, history
  <1>3. \A q \in Request :
          /\ pc'[q] = IF q = r THEN step ELSE pc[q]
          /\ job'[q] = IF q = r THEN work ELSE job[q]
          /\ reply'[q] = IF q = r THEN "other" ELSE reply[q]
    BY DEF Inv, TypeOK, Goto
  <1>4. s # None
    BY StepUpAssumption
  <1>5. LockInv'
    BY <1>3, <1>4 DEF Inv, LockInv, Enters, SessionUnlocked
  <1>6. VerdictInv' /\ OperationInv'
    BY <1>3 DEF Inv, VerdictInv, OperationInv, tables
  <1>7. ChallengeInv' /\ GrantInv'
    BY DEF Inv, ChallengeInv, GrantInv, tables, history
  <1>8. QED
    BY <1>2, <1>5, <1>6, <1>7 DEF Inv

LEMMA InitInv == Init => Inv
  <1> SUFFICES ASSUME Init PROVE Inv
    OBVIOUS
  <1> USE DEF Init
  <1>1. TypeOK
    <2>1. "idle" \in Steps /\ "other" \in Answer
      BY DEF Steps, Answer
    <2>2. [status |-> "none", lastUsed |-> None] \in FactorRow
      BY DEF FactorRow
    <2>3. [factor |-> None, state |-> "none"] \in CodeRow
      BY DEF CodeRow
    <2>4. [session |-> None, policy |-> None, status |-> "none", expires |-> 0,
           attempts |-> 0] \in ChallengeRow
      BY DEF ChallengeRow
    <2>5. QED
      BY <2>1, <2>2, <2>3, <2>4, NoJobType, StepUpAssumption DEF TypeOK
  <1>2. HistoryOK
    BY StepUpAssumption DEF HistoryOK
  <1>3. LockInv /\ VerdictInv /\ OperationInv
    BY DEF LockInv, VerdictInv, OperationInv, NoJob
  <1>4. ChallengeInv /\ GrantInv
    BY StepUpAssumption DEF ChallengeInv, GrantInv
  <1>5. QED
    BY <1>1, <1>2, <1>3, <1>4 DEF Inv

-----------------------------------------------------------------------------
(* Sensitive operations.                                                   *)

LEMMA StartOperationInv ==
  ASSUME Inv, NEW r \in Request, NEW s \in Session, NEW p \in Policy,
         StartOperation(r, s, p)
  PROVE  Inv'
  <1>1. CASE Having("ACTIVE") = {}
    <2>1. Finish(r, "other") /\ "other" \in Answer
      BY <1>1 DEF StartOperation, Answer
    <2>2. QED
      BY <2>1, FinishKeeps DEF StartOperation
  <1>2. CASE Having("ACTIVE") # {}
    <2> DEFINE work == [NoJob EXCEPT !.session = s, !.policy = p, !.stamp = clock]
    <2>1. Goto(r, "grant", work)
      BY <1>2 DEF StartOperation
    <2>2. work \in Job
      BY NoJobType DEF Inv, TypeOK, NoJob, Job
    <2>3. work.session = s /\ work.policy = p /\ "grant" \in Steps \ {"idle"}
      BY DEF NoJob, Steps
    <2> HIDE DEF work
    <2>4. QED
      BY <2>1, <2>2, <2>3, EnterKeeps DEF StartOperation
  <1>3. QED
    BY <1>1, <1>2

LEMMA CreateChallengeInv ==
  ASSUME Inv, NEW r \in Request, NEW c \in ChallengeId, CreateChallenge(r, c)
  PROVE  Inv'
  <1> DEFINE row == [session |-> job[r].session, policy |-> job[r].policy,
                     status |-> "PENDING", expires |-> job[r].stamp + ChallengeTTL,
                     attempts |-> 0]
  <1>1. /\ pc' \in [Request -> Steps] /\ job' \in [Request -> Job]
        /\ reply' \in [Request -> Answer] /\ LockInv' /\ OperationInv'
    BY FinishControl DEF CreateChallenge, Answer
  <1>2. row \in ChallengeRow /\ job[r].policy \in Policy /\ job[r].session \in Session
    <2>1. job[r].session \in Session /\ job[r].policy \in Policy
      BY DEF Inv, LockInv, OperationInv, CreateChallenge
    <2>2. job[r].stamp + ChallengeTTL \in Nat
      BY StepUpAssumption DEF Inv, TypeOK, Job
    <2>3. QED
      BY <2>1, <2>2 DEF ChallengeRow
  <1>3. challenge' = [challenge EXCEPT ![c] = row] /\ challenge[c].status = "none"
    BY DEF CreateChallenge
  <1>4. /\ row.session = job[r].session /\ row.policy = job[r].policy
        /\ row.status = "PENDING" /\ row.attempts = 0
    OBVIOUS
  <1> HIDE DEF row
  <1>5. \A d \in ChallengeId : challenge'[d] = IF d = c THEN row ELSE challenge[d]
    BY <1>3 DEF Inv, TypeOK
  <1>6. TypeOK' /\ HistoryOK'
    BY <1>1, <1>2, <1>3 DEF Inv, TypeOK, HistoryOK, CreateChallenge, history
  <1>7. VerdictInv'
    <2>1. \A q \in Request : pc'[q] \in {"accept", "reject"} =>
            /\ pc[q] \in {"accept", "reject"} /\ job'[q] = job[q]
            /\ job[q].challenge # c
      BY <1>3 DEF Inv, TypeOK, VerdictInv, CreateChallenge, Finish
    <2>2. QED
      BY <2>1, <1>5 DEF Inv, VerdictInv, CreateChallenge
  <1>8. ChallengeInv'
    BY <1>2, <1>3, <1>4, <1>5, StepUpAssumption
    DEF Inv, HistoryOK, ChallengeInv, CreateChallenge, history
  <1>9. GrantInv'
    <2>1. \A g \in grants : g.challenge \in ChallengeId /\ g.challenge # c
      BY <1>3 DEF Inv, TypeOK, GrantRow, GrantInv, ChallengeInv
    <2>2. QED
      BY <2>1, <1>5 DEF Inv, GrantInv, CreateChallenge, history
  <1>10. QED
    BY <1>1, <1>6, <1>7, <1>8, <1>9 DEF Inv

-----------------------------------------------------------------------------
(* Verification of a code.                                                 *)

(* What stays true of a challenge whose session r has locked, when r       *)
(* closes or counts: the verdicts of the others are about other ones.      *)
LEMMA OthersElsewhere ==
  ASSUME Inv, NEW r \in Request, NEW q \in Request, NEW c \in ChallengeId,
         q # r, pc[q] \in {"accept", "reject"},
         \/ Enters(r, challenge[c].session)
         \/ job[r].session = challenge[c].session
  PROVE  job[q].challenge # c
  BY StepUpAssumption DEF Inv, LockInv, VerdictInv, Enters, SessionUnlocked

LEMMA RefuseChallengeInv ==
  ASSUME Inv, NEW r \in Request, NEW s \in Session, NEW c \in ChallengeId,
         RefuseChallenge(r, s, c)
  PROVE  Inv'
  <1>1. /\ pc' \in [Request -> Steps] /\ job' \in [Request -> Job]
        /\ reply' \in [Request -> Answer] /\ LockInv' /\ OperationInv'
    BY FinishControl DEF RefuseChallenge, Answer
  <1>2. CASE Open(c) # "expired"
    <2>1. UNCHANGED <<tables, clock, history>> /\ Finish(r, "other") /\ "other" \in Answer
      BY <1>2 DEF RefuseChallenge, tables, Answer
    <2>2. QED
      BY <2>1, FinishKeeps
  <1>3. CASE Open(c) = "expired"
    <2>1. challenge' = [challenge EXCEPT ![c].status = "EXPIRED"]
      BY <1>3 DEF RefuseChallenge
    <2>2. challenge[c] \in ChallengeRow
      BY DEF Inv, TypeOK
    <2>3. \A d \in ChallengeId :
            /\ challenge'[d].session = challenge[d].session
            /\ challenge'[d].policy = challenge[d].policy
            /\ challenge'[d].attempts = challenge[d].attempts
            /\ challenge'[d].expires = challenge[d].expires
            /\ challenge'[d].status = IF d = c THEN "EXPIRED" ELSE challenge[d].status
      BY <2>1, <2>2 DEF Inv, TypeOK, ChallengeRow
    <2>4. [challenge[c] EXCEPT !.status = "EXPIRED"] \in ChallengeRow
      BY <2>2 DEF ChallengeRow
    <2>5. TypeOK' /\ HistoryOK'
      BY <1>1, <2>1, <2>4 DEF Inv, TypeOK, HistoryOK, RefuseChallenge, history
    <2>6. challenge[c].status \notin {"LOCKED", "none"}
      <3>1. challenge[c].session \in Session
        BY DEF RefuseChallenge
      <3>2. challenge[c].session # None
        BY <3>1, StepUpAssumption
      <3>3. QED
        BY <1>3, <3>2 DEF Inv, ChallengeInv, Open
    <2>7. VerdictInv'
      <3>1. \A q \in Request : pc'[q] \in {"accept", "reject"} =>
              /\ q # r /\ pc[q] \in {"accept", "reject"} /\ job'[q] = job[q]
        BY DEF Inv, TypeOK, RefuseChallenge, Finish
      <3>2. Enters(r, challenge[c].session)
        BY DEF RefuseChallenge
      <3>3. QED
        BY <2>3, <3>1, <3>2, OthersElsewhere DEF Inv, VerdictInv, RefuseChallenge
    <2>8. ChallengeInv'
      BY <2>3, <2>6 DEF Inv, ChallengeInv, RefuseChallenge, history
    <2>9. GrantInv'
      BY <2>3 DEF Inv, TypeOK, GrantRow, GrantInv, RefuseChallenge, history
    <2>10. QED
      BY <1>1, <2>5, <2>7, <2>8, <2>9 DEF Inv
  <1>4. QED
    BY <1>2, <1>3

LEMMA VerificationType ==
  ASSUME Inv, NEW s \in Session, NEW c \in ChallengeId, NEW f \in FactorId,
         challenge[c].session = s, Open(c) = "open"
  PROVE  /\ Verification(s, c, f) \in Job
         /\ Verification(s, c, f).session = s
         /\ Verification(s, c, f).challenge = c
         /\ Verification(s, c, f).factor = f
         /\ Verification(s, c, f).attempts = challenge[c].attempts
         /\ Verification(s, c, f).stamp = clock /\ clock <= clock
         /\ challenge[c].status = "PENDING" /\ clock < challenge[c].expires
  <1>1. challenge[c].attempts \in Nat /\ challenge[c].expires \in Nat /\ clock \in Nat
    BY StepUpAssumption DEF Inv, TypeOK, ChallengeRow
  <1>2. challenge[c].status = "PENDING" /\ ~(challenge[c].expires <= clock)
    BY DEF Open
  <1>3. clock <= clock /\ clock < challenge[c].expires
    BY <1>1, <1>2
  <1>4. QED
    BY <1>1, <1>2, <1>3, NoJobType DEF Inv, TypeOK, Verification, NoJob, Job

LEMMA VerifyTotpInv ==
  ASSUME Inv, NEW r \in Request, NEW s \in Session, NEW c \in ChallengeId,
         NEW f \in FactorId, NEW matches \in BOOLEAN, VerifyTotp(r, s, c, f, matches)
  PROVE  Inv'
  <1>1. PICK step \in {"accept", "reject"} : Goto(r, step, Verification(s, c, f))
    BY DEF VerifyTotp
  <1>2. step \in Steps \ {"idle"} /\ step # "grant"
    BY DEF Steps
  <1>3. Enters(r, s) /\ challenge[c].session = s /\ Open(c) = "open"
    BY DEF VerifyTotp, Verifying
  <1>4. UNCHANGED <<tables, clock, history>>
    BY DEF VerifyTotp
  <1>5. QED
    BY <1>1, <1>2, <1>3, <1>4, VerificationType, EnterKeeps

LEMMA VerifyRecoveryCodeInv ==
  ASSUME Inv, NEW r \in Request, NEW s \in Session, NEW c \in ChallengeId,
         NEW f \in FactorId, NEW k \in CodeId, VerifyRecoveryCode(r, s, c, f, k)
  PROVE  Inv'
  <1> DEFINE spending == [Verification(s, c, f) EXCEPT !.code = k]
  <1>1. PICK step \in {"accept", "reject"}, work \in {spending, Verification(s, c, f)} :
          Goto(r, step, work)
    BY DEF VerifyRecoveryCode
  <1>2. step \in Steps \ {"idle"} /\ step # "grant"
    BY DEF Steps
  <1>3. Enters(r, s) /\ challenge[c].session = s /\ Open(c) = "open"
    BY DEF VerifyRecoveryCode, Verifying
  <1>4. UNCHANGED <<tables, clock, history>>
    BY DEF VerifyRecoveryCode
  <1>5. /\ work \in Job /\ work.session = s /\ work.challenge = c /\ work.factor = f
        /\ work.attempts = challenge[c].attempts /\ work.stamp = clock
    BY <1>3, VerificationType DEF Job
  <1>6. /\ challenge[c].status = "PENDING" /\ clock < challenge[c].expires
        /\ clock <= clock
    BY <1>3, VerificationType
  <1> HIDE DEF spending
  <1>7. QED
    BY <1>1, <1>2, <1>3, <1>4, <1>5, <1>6, EnterKeeps

LEMMA RejectCodeInv ==
  ASSUME Inv, NEW r \in Request, RejectCode(r)
  PROVE  Inv'
  <1> DEFINE c == job[r].challenge
             n == job[r].attempts + 1
             st == IF n >= MaxAttempts THEN "LOCKED" ELSE challenge[c].status
  <1>1. /\ c \in ChallengeId /\ challenge[c].session = job[r].session
        /\ challenge[c].status = "PENDING" /\ challenge[c].attempts = job[r].attempts
    BY DEF Inv, VerdictInv, RejectCode
  <1>2. challenge[c] \in ChallengeRow /\ n \in Nat
    BY <1>1 DEF Inv, TypeOK, ChallengeRow
  <1>3. /\ pc' \in [Request -> Steps] /\ job' \in [Request -> Job]
        /\ reply' \in [Request -> Answer] /\ LockInv' /\ OperationInv'
    BY FinishControl DEF RejectCode, Answer
  <1>4. /\ challenge' = [challenge EXCEPT ![c].attempts = n, ![c].status = st]
        /\ failures' = [failures EXCEPT ![c] = failures[c] + 1]
        /\ UNCHANGED <<factor, code, grants, clock, verified, redeemed>>
    BY DEF RejectCode
  <1>5. st \in {"LOCKED", "PENDING"} /\ (st = "LOCKED" <=> n >= MaxAttempts)
    BY <1>1
  <1>6. pc[r] = "reject" /\ Finish(r, "other")
    BY DEF RejectCode
  <1> HIDE DEF c, n, st
  <1>7. \A d \in ChallengeId :
          /\ challenge'[d].session = challenge[d].session
          /\ challenge'[d].policy = challenge[d].policy
          /\ challenge'[d].expires = challenge[d].expires
          /\ d # c => challenge'[d] = challenge[d]
          /\ challenge'[c].attempts = n
          /\ challenge'[c].status = st
    BY <1>1, <1>2, <1>4 DEF Inv, TypeOK, ChallengeRow
  <1>8. challenge' \in [ChallengeId -> ChallengeRow]
    <2>1. [challenge[c] EXCEPT !.attempts = n, !.status = st] \in ChallengeRow
      BY <1>2, <1>5 DEF ChallengeRow
    <2>2. challenge' = [challenge EXCEPT ![c] =
                          [challenge[c] EXCEPT !.attempts = n, !.status = st]]
      BY <1>1, <1>2, <1>4 DEF Inv, TypeOK, ChallengeRow
    <2>3. QED
      BY <2>1, <2>2 DEF Inv, TypeOK
  <1>9. TypeOK' /\ HistoryOK'
    BY <1>1, <1>3, <1>4, <1>8 DEF Inv, TypeOK, HistoryOK
  <1>10. VerdictInv'
    <2>1. \A q \in Request : pc'[q] \in {"accept", "reject"} =>
            /\ q # r /\ pc[q] \in {"accept", "reject"} /\ job'[q] = job[q]
      BY <1>6 DEF Inv, TypeOK, Finish
    <2>2. clock' = clock
      BY <1>4
    <2>3. \A q \in Request : q # r /\ pc[q] \in {"accept", "reject"} => job[q].challenge # c
      BY <1>1, OthersElsewhere
    <2>4. ASSUME NEW q \in Request, pc'[q] \in {"accept", "reject"}
          PROVE  challenge'[job'[q].challenge] = challenge[job[q].challenge]
      BY <1>7, <2>1, <2>3, <2>4 DEF Inv, VerdictInv
    <2>5. QED
      BY <2>1, <2>2, <2>4 DEF Inv, VerdictInv
  <1>11. ChallengeInv'
    <2>1. failures[c] + 1 = n
      BY <1>1 DEF Inv, ChallengeInv, n, c
    <2>2. challenge[c].policy \in Policy /\ verified[c].count <= 1 /\ ~(verified[c].count > 0)
      BY <1>1 DEF Inv, ChallengeInv
    <2>3. \A d \in ChallengeId : failures'[d] = IF d = c THEN n ELSE failures[d]
      BY <1>4, <2>1 DEF Inv, HistoryOK
    <2>4. /\ challenge'[c].attempts = failures'[c]
          /\ challenge'[c].status = "LOCKED" <=> failures'[c] >= MaxAttempts
          /\ challenge'[c].status \in {"LOCKED", "PENDING"}
          /\ challenge'[c].policy \in Policy
          /\ verified'[c].count <= 1
          /\ ~(verified'[c].count > 0)
      BY <1>1, <1>4, <1>5, <1>7, <2>2, <2>3
    <2>5. \A d \in ChallengeId \ {c} :
            challenge'[d] = challenge[d] /\ failures'[d] = failures[d] /\ verified'[d] = verified[d]
      BY <1>4, <1>7, <2>3
    <2>6. QED
      BY <2>4, <2>5 DEF Inv, ChallengeInv
  <1>12. GrantInv'
    BY <1>4, <1>7 DEF Inv, TypeOK, GrantRow, GrantInv
  <1>13. QED
    BY <1>3, <1>9, <1>10, <1>11, <1>12 DEF Inv

LEMMA SpendType ==
  ASSUME Inv, NEW r \in Request, pc[r] = "accept", Spend(r)
  PROVE  factor' \in [FactorId -> FactorRow] /\ code' \in [CodeId -> CodeRow]
  <1>1. job[r] \in Job /\ job[r].factor \in FactorId
    BY DEF Inv, TypeOK, VerdictInv
  <1>2. job[r].stamp \in 0 .. MaxClock /\ job[r].code \in CodeId \cup {None}
    BY <1>1 DEF Job
  <1>3. CASE job[r].code = None
    <2>1. [factor[job[r].factor] EXCEPT !.lastUsed = job[r].stamp] \in FactorRow
      BY <1>1, <1>2 DEF Inv, TypeOK, FactorRow
    <2>2. QED
      BY <1>3, <2>1 DEF Inv, TypeOK, Spend
  <1>4. CASE job[r].code # None
    <2>1. [code[job[r].code] EXCEPT !.state = "used"] \in CodeRow
      BY <1>2, <1>4 DEF Inv, TypeOK, CodeRow
    <2>2. QED
      BY <1>4, <2>1 DEF Inv, TypeOK, Spend
  <1>5. QED
    BY <1>3, <1>4

LEMMA AcceptCodeInv ==
  ASSUME Inv, NEW r \in Request, AcceptCode(r)
  PROVE  Inv'
  <1> DEFINE c == job[r].challenge
             p == challenge[c].policy
             g == [session |-> job[r].session, policy |-> p, challenge |-> c,
                   expires |-> job[r].stamp + GrantTTL[p]]
             w == [count |-> verified[c].count + 1, at |-> job[r].stamp]
  <1>1. /\ c \in ChallengeId /\ challenge[c].session = job[r].session
        /\ challenge[c].status = "PENDING" /\ pc[r] = "accept" /\ Finish(r, "other")
    BY DEF Inv, VerdictInv, AcceptCode
  <1>2. p \in Policy /\ verified[c].count = 0
    BY <1>1 DEF Inv, HistoryOK, ChallengeInv
  <1>3. job[r].session \in Session /\ job[r].stamp \in 0 .. MaxClock
    BY <1>1 DEF Inv, TypeOK, LockInv, Job
  <1>4. /\ challenge' = [challenge EXCEPT ![c].status = "VERIFIED"]
        /\ grants' = grants \cup {g}
        /\ verified' = [verified EXCEPT ![c] = w]
        /\ UNCHANGED <<clock, failures>>
    BY DEF AcceptCode, Answered
  <1>5. /\ pc' \in [Request -> Steps] /\ job' \in [Request -> Job]
        /\ reply' \in [Request -> Answer] /\ LockInv' /\ OperationInv'
    BY FinishControl DEF AcceptCode, Answer
  <1>6. GrantTTL[p] \in Nat
    BY <1>2, StepUpAssumption
  <1>7. g \in GrantRow /\ w \in [count : Nat, at : 0 .. MaxClock] /\ w.count = 1
    BY <1>1, <1>2, <1>3, <1>6, StepUpAssumption DEF GrantRow
  <1>8. /\ g.session = challenge[c].session /\ g.policy = challenge[c].policy
        /\ g.challenge = c /\ g.expires <= w.at + GrantTTL[g.policy]
    BY <1>1, <1>3, <1>6, StepUpAssumption
  <1> HIDE DEF c, p, g, w
  <1>9. challenge[c] \in ChallengeRow
    BY <1>1 DEF Inv, TypeOK
  <1>10. \A d \in ChallengeId :
           /\ challenge'[d].session = challenge[d].session
           /\ challenge'[d].policy = challenge[d].policy
           /\ challenge'[d].attempts = challenge[d].attempts
           /\ challenge'[d].expires = challenge[d].expires
           /\ challenge'[d].status = IF d = c THEN "VERIFIED" ELSE challenge[d].status
    BY <1>1, <1>4, <1>9 DEF Inv, TypeOK, ChallengeRow
  <1>11. \A d \in ChallengeId : verified'[d] = IF d = c THEN w ELSE verified[d]
    BY <1>1, <1>4 DEF Inv, HistoryOK
  <1>12. TypeOK'
    <2>1. [challenge[c] EXCEPT !.status = "VERIFIED"] \in ChallengeRow
      BY <1>9 DEF ChallengeRow
    <2>2. challenge' \in [ChallengeId -> ChallengeRow]
      BY <1>1, <1>4, <2>1 DEF Inv, TypeOK
    <2>3. factor' \in [FactorId -> FactorRow] /\ code' \in [CodeId -> CodeRow]
      BY <1>1, SpendType DEF AcceptCode
    <2>4. grants' \subseteq GrantRow /\ clock' \in 0 .. MaxClock
      BY <1>4, <1>7 DEF Inv, TypeOK
    <2>5. QED
      BY <1>5, <2>2, <2>3, <2>4 DEF TypeOK
  <1>13. HistoryOK'
    BY <1>1, <1>4, <1>7 DEF Inv, HistoryOK
  <1>14. VerdictInv'
    <2>1. \A q \in Request : pc'[q] \in {"accept", "reject"} =>
            /\ q # r /\ pc[q] \in {"accept", "reject"} /\ job'[q] = job[q]
      BY <1>1 DEF Inv, TypeOK, Finish
    <2>2. QED
      BY <1>1, <1>4, <1>10, <2>1, OthersElsewhere DEF Inv, VerdictInv
  <1>15. ChallengeInv'
    <2>1. challenge[c].attempts = failures[c] /\ ~(failures[c] >= MaxAttempts)
          /\ challenge[c].policy \in Policy
      BY <1>1 DEF Inv, ChallengeInv
    <2>2. QED
      BY <1>1, <1>4, <1>7, <1>10, <1>11, <2>1 DEF Inv, ChallengeInv
  <1>16. GrantInv'
    <2>1. \A h \in grants : h.challenge \in ChallengeId /\ h.challenge # c
      BY <1>2 DEF Inv, TypeOK, GrantRow, GrantInv
    <2>2. QED
      BY <1>1, <1>4, <1>7, <1>8, <1>10, <1>11, <2>1 DEF Inv, GrantInv
  <1>17. QED
    BY <1>5, <1>12, <1>13, <1>14, <1>15, <1>16 DEF Inv

-----------------------------------------------------------------------------
(* Management of the factors.                                              *)

(* A request that ends with changes to factors and codes, and perhaps with *)
(* fewer grants.                                                           *)
LEMMA ManageKeeps ==
  ASSUME Inv, NEW r \in Request, Finish(r, "other"),
         factor' \in [FactorId -> FactorRow], code' \in [CodeId -> CodeRow],
         grants' \subseteq grants, UNCHANGED <<challenge, clock, history>>
  PROVE  Inv'
  <1>1. /\ pc' \in [Request -> Steps] /\ job' \in [Request -> Job]
        /\ reply' \in [Request -> Answer] /\ LockInv' /\ OperationInv'
    BY FinishControl DEF Answer
  <1>2. TypeOK' /\ HistoryOK'
    BY <1>1 DEF Inv, TypeOK, HistoryOK, history
  <1>3. VerdictInv'
    BY DEF Inv, TypeOK, VerdictInv, Finish
  <1>4. ChallengeInv' /\ GrantInv'
    BY DEF Inv, ChallengeInv, GrantInv, history
  <1>5. QED
    BY <1>1, <1>2, <1>3, <1>4 DEF Inv

LEMMA RowSets ==
  ASSUME Inv, NEW st
  PROVE  /\ Having(st) \subseteq FactorId
          /\ clock \in 0 .. MaxClock /\ grants \in SUBSET GrantRow
  BY DEF Inv, TypeOK, Having

LEMMA StartEnrollmentInv ==
  ASSUME Inv, NEW r \in Request, NEW s \in Session, StartEnrollment(r, s)
  PROVE  Inv'
  <1> DEFINE work == [NoJob EXCEPT !.session = s, !.rows = Having("PENDING")]
  <1>1. Goto(r, "enroll", work) /\ Enters(r, s) /\ UNCHANGED <<tables, clock, history>>
    BY DEF StartEnrollment
  <1>2. work \in Job /\ work.session = s
    BY NoJobType, RowSets DEF NoJob, Job
  <1>3. "enroll" \in Steps \ {"idle"}
    BY DEF Steps
  <1> HIDE DEF work
  <1>4. QED
    BY <1>1, <1>2, <1>3, EnterKeeps

LEMMA StartConfirmationInv ==
  ASSUME Inv, NEW r \in Request, NEW s \in Session, NEW f \in FactorId,
         NEW matches \in BOOLEAN, StartConfirmation(r, s, f, matches)
  PROVE  Inv'
  <1> DEFINE work == [NoJob EXCEPT !.session = s, !.factor = f, !.rows = Having("ACTIVE")]
  <1>1. /\ Enters(r, s) /\ UNCHANGED <<tables, clock, history>>
        /\ Goto(r, "confirm", work) \/ Finish(r, "other")
    BY DEF StartConfirmation
  <1>2. work \in Job /\ work.session = s /\ work.factor \in FactorId
    BY NoJobType, RowSets DEF NoJob, Job
  <1>3. "confirm" \in Steps \ {"idle"} /\ "other" \in Answer
    BY DEF Steps, Answer
  <1> HIDE DEF work
  <1>4. QED
    BY <1>1, <1>2, <1>3, EnterKeeps, FinishKeeps

LEMMA StartDisableInv ==
  ASSUME Inv, NEW r \in Request, NEW s \in Session, StartDisable(r, s)
  PROVE  Inv'
  <1> DEFINE work == [NoJob EXCEPT !.session = s, !.rows = Having("ACTIVE"),
                                   !.grants = grants]
  <1>1. Goto(r, "disable", work) /\ Enters(r, s) /\ UNCHANGED <<tables, clock, history>>
    BY DEF StartDisable
  <1>2. work \in Job /\ work.session = s
    BY NoJobType, RowSets DEF NoJob, Job
  <1>3. "disable" \in Steps \ {"idle"}
    BY DEF Steps
  <1> HIDE DEF work
  <1>4. QED
    BY <1>1, <1>2, <1>3, EnterKeeps

LEMMA StartRegenerationInv ==
  ASSUME Inv, NEW r \in Request, NEW s \in Session, NEW f \in FactorId,
         StartRegeneration(r, s, f)
  PROVE  Inv'
  <1> DEFINE work == [NoJob EXCEPT !.session = s, !.factor = f, !.rows = CodesOf({f})]
  <1>1. Goto(r, "regenerate", work) /\ Enters(r, s) /\ UNCHANGED <<tables, clock, history>>
    BY DEF StartRegeneration
  <1>2. CodesOf({f}) \subseteq CodeId
    BY DEF CodesOf
  <1>3. work \in Job /\ work.session = s /\ work.factor \in FactorId
    BY <1>2, NoJobType DEF NoJob, Job
  <1>4. "regenerate" \in Steps \ {"idle"}
    BY DEF Steps
  <1> HIDE DEF work
  <1>5. QED
    BY <1>1, <1>3, <1>4, EnterKeeps

LEMMA FactorStatusType ==
  ASSUME Inv, NEW g \in FactorId, NEW st \in {"PENDING", "ACTIVE", "DISABLED", "deleted"}
  PROVE  [factor[g] EXCEPT !.status = st] \in FactorRow
  BY DEF Inv, TypeOK, FactorRow

LEMMA WithoutCodesType ==
  ASSUME Inv, NEW ks
  PROVE  WithoutCodes(ks) \in [CodeId -> CodeRow]
  <1>1. \A k \in CodeId : [code[k] EXCEPT !.state = "deleted"] \in CodeRow
    BY DEF Inv, TypeOK, CodeRow
  <1>2. QED
    BY <1>1 DEF Inv, TypeOK, WithoutCodes

LEMMA IssuedType ==
  ASSUME Inv, NEW f \in FactorId, NEW new
  PROVE  Issued(f, new) \in [CodeId -> CodeRow]
  <1>1. [factor |-> f, state |-> "unused"] \in CodeRow
    BY DEF CodeRow
  <1>2. QED
    BY <1>1 DEF Inv, TypeOK, Issued

LEMMA CommitEnrollmentInv ==
  ASSUME Inv, NEW r \in Request, NEW f \in FactorId, CommitEnrollment(r, f)
  PROVE  Inv'
  <1>1. [status |-> "PENDING", lastUsed |-> None] \in FactorRow
    BY DEF FactorRow
  <1>2. factor' \in [FactorId -> FactorRow]
    BY <1>1, FactorStatusType DEF Inv, TypeOK, CommitEnrollment
  <1>3. code' \in [CodeId -> CodeRow]
    BY WithoutCodesType DEF CommitEnrollment
  <1>4. QED
    BY <1>2, <1>3, ManageKeeps DEF CommitEnrollment

LEMMA CommitConfirmationInv ==
  ASSUME Inv, NEW r \in Request, NEW new \in SUBSET CodeId, CommitConfirmation(r, new)
  PROVE  Inv'
  <1>1. factor' \in [FactorId -> FactorRow]
    BY FactorStatusType DEF Inv, TypeOK, CommitConfirmation, Confirmed
  <1>2. code' \in [CodeId -> CodeRow]
    BY IssuedType DEF Inv, OperationInv, CommitConfirmation
  <1>3. QED
    BY <1>1, <1>2, ManageKeeps DEF CommitConfirmation

LEMMA CommitDisableInv ==
  ASSUME Inv, NEW r \in Request, CommitDisable(r)
  PROVE  Inv'
  <1>1. factor' \in [FactorId -> FactorRow]
    BY FactorStatusType DEF Inv, TypeOK, CommitDisable
  <1>2. code' \in [CodeId -> CodeRow] /\ grants' \subseteq grants
    BY DEF Inv, TypeOK, CommitDisable
  <1>3. QED
    BY <1>1, <1>2, ManageKeeps DEF CommitDisable

LEMMA CommitRegenerationInv ==
  ASSUME Inv, NEW r \in Request, NEW new \in SUBSET CodeId, CommitRegeneration(r, new)
  PROVE  Inv'
  <1>1. code' \in [CodeId -> CodeRow]
    BY IssuedType, WithoutCodesType DEF Inv, OperationInv, CommitRegeneration
  <1>2. QED
    BY <1>1, ManageKeeps DEF Inv, TypeOK, CommitRegeneration

-----------------------------------------------------------------------------
LEMMA RollbackInv ==
  ASSUME Inv, NEW r \in Request, Rollback(r)
  PROVE  Inv'
  BY FinishKeeps DEF Rollback, Answer

LEMMA AllowOperationInv ==
  ASSUME Inv, NEW r \in Request, AllowOperation(r)
  PROVE  Inv'
  BY FinishKeeps DEF AllowOperation, Answer

LEMMA TickInv ==
  ASSUME Inv, Tick
  PROVE  Inv'
  <1>1. clock' \in 0 .. MaxClock
    BY StepUpAssumption DEF Inv, TypeOK, Tick
  <1>2. TypeOK' /\ HistoryOK'
    BY <1>1 DEF Inv, TypeOK, HistoryOK, Tick, tables, history
  <1>3. VerdictInv'
    <2>1. \A q \in Request : job[q].stamp \in Nat
      BY StepUpAssumption DEF Inv, TypeOK, Job
    <2>2. clock \in Nat /\ clock' = clock + 1
      BY StepUpAssumption DEF Inv, TypeOK, Tick
    <2>3. \A q \in Request : job[q].stamp <= clock => job[q].stamp <= clock'
      BY <2>1, <2>2
    <2>4. QED
      BY <2>3 DEF Inv, VerdictInv, Tick, tables
  <1>4. LockInv' /\ OperationInv'
    BY DEF Inv, LockInv, OperationInv, Tick, tables
  <1>5. ChallengeInv' /\ GrantInv'
    BY DEF Inv, ChallengeInv, GrantInv, Tick, tables, history
  <1>6. QED
    BY <1>2, <1>3, <1>4, <1>5 DEF Inv

LEMMA NextInv == Inv /\ [Next]_vars => Inv'
  <1> SUFFICES ASSUME Inv, [Next]_vars PROVE Inv'
    OBVIOUS
  <1>1. ASSUME NEW r \in Request, Operate(r) PROVE Inv'
    BY <1>1, StartOperationInv, AllowOperationInv, CreateChallengeInv DEF Operate
  <1>2. ASSUME NEW r \in Request, Verify(r) PROVE Inv'
    BY <1>2, RefuseChallengeInv, VerifyTotpInv, VerifyRecoveryCodeInv, RejectCodeInv,
       AcceptCodeInv DEF Verify
  <1>3. ASSUME NEW r \in Request, Manage(r) PROVE Inv'
    BY <1>3, StartEnrollmentInv, StartConfirmationInv, StartDisableInv,
       StartRegenerationInv, CommitEnrollmentInv, CommitConfirmationInv,
       CommitRegenerationInv, CommitDisableInv DEF Manage
  <1>4. CASE UNCHANGED vars
    <2>1. TypeOK' /\ HistoryOK'
      BY <1>4 DEF Inv, TypeOK, HistoryOK, vars, tables, history
    <2>2. LockInv' /\ VerdictInv' /\ OperationInv' /\ ChallengeInv' /\ GrantInv'
      BY <1>4 DEF Inv, LockInv, VerdictInv, OperationInv, ChallengeInv, GrantInv,
                  vars, tables, history
    <2>3. QED
      BY <2>1, <2>2 DEF Inv
  <1>5. QED
    BY <1>1, <1>2, <1>3, <1>4, RollbackInv, TickInv DEF Next

LEMMA InvAlways == Spec => []Inv
  <1>1. QED
    BY InitInv, NextInv, PTL DEF Spec

(* Rows, positions and verdicts keep their type whatever the interleaving  *)
(* of the multi-factor endpoints.                                          *)
THEOREM TypeCorrect == Spec => []TypeOK
  <1>1. Inv => TypeOK
    BY DEF Inv
  <1>2. QED
    BY <1>1, InvAlways, PTL

(* verify_step_up counts every rejected code although it increments what   *)
(* it read without a lock: the lock of the session is enough.              *)
THEOREM AttemptsCounted == Spec => []AttemptsAreExact
  <1>1. Inv => AttemptsAreExact
    BY DEF Inv, ChallengeInv, AttemptsAreExact
  <1>2. QED
    BY <1>1, InvAlways, PTL

(* No two answers to one challenge are both turned into a grant.           *)
THEOREM OneGrant == Spec => []OneGrantPerChallenge
  <1>1. Inv => OneGrantPerChallenge
    BY DEF Inv, ChallengeInv, OneGrantPerChallenge
  <1>2. QED
    BY <1>1, InvAlways, PTL

-----------------------------------------------------------------------------
(* How each step treats a challenge that is locked.                        *)
LEMMA LockedStep ==
  ASSUME Inv, [Next]_vars, NEW c \in ChallengeId, challenge[c].status = "LOCKED"
  PROVE  challenge'[c] = challenge[c] /\ verified'[c] = verified[c]
  <1>1. ASSUME NEW r \in Request, NEW d \in ChallengeId, CreateChallenge(r, d)
        PROVE  challenge'[c] = challenge[c] /\ verified'[c] = verified[c]
    BY <1>1 DEF CreateChallenge, history, Inv, TypeOK
  <1>2. ASSUME NEW r \in Request, NEW s \in Session, NEW d \in ChallengeId,
               RefuseChallenge(r, s, d)
        PROVE  challenge'[c] = challenge[c] /\ verified'[c] = verified[c]
    BY <1>2 DEF RefuseChallenge, Open, history, Inv, TypeOK
  <1>3. ASSUME NEW r \in Request, RejectCode(r)
        PROVE  challenge'[c] = challenge[c] /\ verified'[c] = verified[c]
    <2>1. job[r].challenge # c
      BY <1>3 DEF RejectCode, Inv, VerdictInv
    <2>2. QED
      BY <1>3, <2>1 DEF RejectCode, Inv, TypeOK
  <1>4. ASSUME NEW r \in Request, AcceptCode(r)
        PROVE  challenge'[c] = challenge[c] /\ verified'[c] = verified[c]
    <2>1. job[r].challenge # c
      BY <1>4 DEF AcceptCode, Inv, VerdictInv
    <2>2. QED
      BY <1>4, <2>1 DEF AcceptCode, Answered, Inv, TypeOK, HistoryOK
  <1>5. CASE UNCHANGED <<challenge, verified>>
    BY <1>5
  <1>6. ASSUME NEW r \in Request, Manage(r) \/ Rollback(r) \/ AllowOperation(r)
               \/ \E s \in Session, p \in Policy : StartOperation(r, s, p)
        PROVE  UNCHANGED <<challenge, verified>>
    BY <1>6 DEF Manage, StartEnrollment, StartConfirmation, StartDisable,
                StartRegeneration, CommitEnrollment, CommitConfirmation,
                CommitRegeneration, CommitDisable, Rollback, AllowOperation,
                StartOperation, tables, history
  <1>7. ASSUME NEW r \in Request, NEW s \in Session, NEW d \in ChallengeId, NEW f \in FactorId,
               \/ \E matches \in BOOLEAN : VerifyTotp(r, s, d, f, matches)
               \/ \E k \in CodeId : VerifyRecoveryCode(r, s, d, f, k)
        PROVE  UNCHANGED <<challenge, verified>>
    BY <1>7 DEF VerifyTotp, VerifyRecoveryCode, tables, history
  <1>8. CASE Tick \/ UNCHANGED vars
    BY <1>8 DEF Tick, vars, tables, history
  <1>9. QED
    BY <1>1, <1>2, <1>3, <1>4, <1>5, <1>6, <1>7, <1>8 DEF Next, Operate, Verify

(* A locked challenge never opens again and never yields a grant.          *)
THEOREM LockIsFinal == Spec => LockedForGood
  <1>1. Inv /\ [Next]_vars =>
          [\A c \in ChallengeId :
             challenge[c].status = "LOCKED" =>
               challenge'[c] = challenge[c] /\ verified'[c] = verified[c]]_vars
    BY LockedStep
  <1>2. QED
    BY <1>1, InvAlways, PTL DEF Spec, LockedForGood

(* Only a request with a valid grant is let through.                       *)
LEMMA AllowedStep ==
  ASSUME Inv, Next, NEW q \in Request, pc[q] = "grant", reply'[q] = "allowed"
  PROVE  ValidGrants(q) # {}
  <1>1. reply[q] # "allowed"
    BY DEF Inv, OperationInv
  <1>2. ASSUME NEW r \in Request,
               \/ Operate(r) /\ ~AllowOperation(r)
               \/ Verify(r) \/ Manage(r) \/ Rollback(r)
        PROVE  reply' = [reply EXCEPT ![r] = "other"]
    <2>1. CASE Operate(r) /\ ~AllowOperation(r)
      BY <2>1 DEF Operate, StartOperation, CreateChallenge, Finish, Goto
    <2>2. CASE Verify(r)
      BY <2>2 DEF Verify, RefuseChallenge, VerifyTotp, VerifyRecoveryCode, RejectCode,
                  AcceptCode, Finish, Goto
    <2>3. CASE Manage(r)
      BY <2>3 DEF Manage, StartEnrollment, StartConfirmation, StartDisable,
                  StartRegeneration, CommitEnrollment, CommitConfirmation,
                  CommitRegeneration, CommitDisable, Finish, Goto
    <2>4. CASE Rollback(r)
      BY <2>4 DEF Rollback, Finish
    <2>5. QED
      BY <1>2, <2>1, <2>2, <2>3, <2>4
  <1>3. ~Tick
    BY <1>1 DEF Tick
  <1>4. PICK r \in Request : AllowOperation(r)
    <2>1. SUFFICES ASSUME NEW r \in Request, reply' = [reply EXCEPT ![r] = "other"]
                   PROVE  FALSE
      BY <1>2, <1>3 DEF Next, Operate
    <2>2. QED
      BY <1>1, <2>1 DEF Inv, TypeOK
  <1>5. r = q
    BY <1>1, <1>4 DEF AllowOperation, Finish, Inv, TypeOK
  <1>6. QED
    BY <1>4, <1>5 DEF AllowOperation

(* A valid grant is the proof its operation needs.                         *)
LEMMA GrantProves ==
  ASSUME Inv, NEW q \in Request, ValidGrants(q) # {}
  PROVE  \E c \in ChallengeId :
           /\ verified[c].count > 0
           /\ challenge[c].session = job[q].session
           /\ challenge[c].policy = job[q].policy
           /\ job[q].stamp < verified[c].at + GrantTTL[job[q].policy]
  <1>1. PICK g \in ValidGrants(q) : TRUE
    OBVIOUS
  <1>2. /\ g \in grants /\ g.session = job[q].session
        /\ g.policy = job[q].policy /\ g.expires > job[q].stamp
    BY <1>1 DEF ValidGrants
  <1>3. g.challenge \in ChallengeId /\ g.policy \in Policy /\ g.expires \in Nat
    BY <1>2 DEF Inv, TypeOK, GrantRow
  <1>4. /\ verified[g.challenge].count > 0
        /\ challenge[g.challenge].session = g.session
        /\ challenge[g.challenge].policy = g.policy
        /\ g.expires <= verified[g.challenge].at + GrantTTL[g.policy]
    BY <1>2 DEF Inv, GrantInv
  <1>5. /\ verified[g.challenge].at \in Nat /\ GrantTTL[g.policy] \in Nat
        /\ job[q].stamp \in Nat
    BY <1>3, StepUpAssumption DEF Inv, HistoryOK, TypeOK, Job
  <1>6. job[q].stamp < verified[g.challenge].at + GrantTTL[job[q].policy]
    BY <1>2, <1>3, <1>4, <1>5
  <1>7. QED
    BY <1>2, <1>3, <1>4, <1>6

(* An operation is let through on the strength of an answer to a challenge *)
(* of its own session and policy that is not older than the policy allows. *)
THEOREM AllowedByProof == Spec => AllowedOnFreshProof
  <1>1. ASSUME Inv, Next, NEW q \in Request, pc[q] = "grant", reply'[q] = "allowed"
        PROVE  \E c \in ChallengeId :
                 /\ verified[c].count > 0
                 /\ challenge[c].session = job[q].session
                 /\ challenge[c].policy = job[q].policy
                 /\ job[q].stamp < verified[c].at + GrantTTL[job[q].policy]
    BY <1>1, AllowedStep, GrantProves
  <1>2. ASSUME Inv, UNCHANGED vars, NEW q \in Request, pc[q] = "grant"
        PROVE  reply'[q] # "allowed"
    BY <1>2 DEF Inv, OperationInv, vars
  <1>3. Inv /\ [Next]_vars =>
          [\A q \in Request :
             pc[q] = "grant" /\ reply'[q] = "allowed" =>
               \E c \in ChallengeId :
                 /\ verified[c].count > 0
                 /\ challenge[c].session = job[q].session
                 /\ challenge[c].policy = job[q].policy
                 /\ job[q].stamp < verified[c].at + GrantTTL[job[q].policy]]_vars
    BY <1>1, <1>2
  <1>4. QED
    BY <1>3, InvAlways, PTL DEF Spec, AllowedOnFreshProof

-----------------------------------------------------------------------------
(* What a confirmation replaces.                                           *)

Active(f) == factor[f].status = "ACTIVE"

(* Whoever confirms a factor has read every active one, or was at it when  *)
(* that one was activated.                                                 *)
ReplacementInv ==
  /\ \A r \in Request : pc[r] = "confirm" =>
       \A g \in FactorId : Active(g) =>
         g \in job[r].rows \cup {job[r].factor} \/ job[r].factor \in rivals[g]
  /\ ConfirmationReplaces

(* Only the commit of a confirmation activates a factor.                   *)
LEMMA Activations ==
  ASSUME Inv, [Next]_vars, NEW g \in FactorId, Active(g)'
  PROVE  \/ Active(g)
         \/ \E q \in Request, new \in SUBSET CodeId :
              CommitConfirmation(q, new) /\ g = job[q].factor
  <1>1. \A f \in FactorId : factor[f] \in FactorRow
    BY DEF Inv, TypeOK
  <1>2. CASE UNCHANGED factor
    BY <1>2 DEF Active
  <1>3. ASSUME NEW q \in Request, AcceptCode(q)
        PROVE  Active(g)
    <2>1. CASE job[q].code = None
      <3>1. factor' = [factor EXCEPT ![job[q].factor].lastUsed = job[q].stamp]
        BY <1>3, <2>1 DEF AcceptCode, Spend
      <3>2. factor'[g].status = factor[g].status
        BY <1>1, <3>1 DEF FactorRow, Inv, TypeOK
      <3>3. QED
        BY <3>2 DEF Active
    <2>2. CASE job[q].code # None
      BY <1>3, <2>2 DEF AcceptCode, Spend, Active
    <2>3. QED
      BY <2>1, <2>2
  <1>4. ASSUME NEW q \in Request, NEW f \in FactorId, CommitEnrollment(q, f)
        PROVE  Active(g)
    <2>1. [factor[g] EXCEPT !.status = "deleted"].status = "deleted"
      BY <1>1 DEF FactorRow
    <2>2. factor'[g] = IF g = f THEN [status |-> "PENDING", lastUsed |-> None]
                       ELSE IF g \in job[q].rows
                         THEN [factor[g] EXCEPT !.status = "deleted"]
                       ELSE factor[g]
      BY <1>4 DEF CommitEnrollment
    <2>3. QED
      BY <2>1, <2>2 DEF Active
  <1>5. ASSUME NEW q \in Request, CommitDisable(q)
        PROVE  Active(g)
    <2>1. [factor[g] EXCEPT !.status = "DISABLED"].status = "DISABLED"
      BY <1>1 DEF FactorRow
    <2>2. factor'[g] = IF g \in job[q].rows
                         THEN [factor[g] EXCEPT !.status = "DISABLED"] ELSE factor[g]
      BY <1>5 DEF CommitDisable
    <2>3. QED
      BY <2>1, <2>2 DEF Active
  <1>6. ASSUME NEW q \in Request, NEW new \in SUBSET CodeId, CommitConfirmation(q, new)
        PROVE  Active(g) \/ g = job[q].factor
    <2>1. [factor[g] EXCEPT !.status = "DISABLED"].status = "DISABLED"
      BY <1>1 DEF FactorRow
    <2>2. g # job[q].factor =>
            factor'[g] = IF g \in job[q].rows
                           THEN [factor[g] EXCEPT !.status = "DISABLED"] ELSE factor[g]
      BY <1>6 DEF CommitConfirmation, Confirmed
    <2>3. QED
      BY <2>1, <2>2 DEF Active
  <1>7. ASSUME NEW q \in Request, Operate(q) \/ Verify(q)
        PROVE  UNCHANGED factor \/ AcceptCode(q)
    BY <1>7 DEF Operate, Verify, StartOperation, AllowOperation, CreateChallenge,
       RefuseChallenge, VerifyTotp, VerifyRecoveryCode, RejectCode, tables
  <1>8. ASSUME NEW q \in Request, Manage(q)
        PROVE  \/ UNCHANGED factor
               \/ CommitDisable(q)
               \/ \E f \in FactorId : CommitEnrollment(q, f)
               \/ \E new \in SUBSET CodeId : CommitConfirmation(q, new)
    BY <1>8 DEF Manage, StartEnrollment, StartConfirmation, StartDisable,
       StartRegeneration, CommitRegeneration, tables
  <1>9. (\E q \in Request : Rollback(q)) \/ Tick \/ UNCHANGED vars => UNCHANGED factor
    BY DEF Rollback, Tick, tables, vars
  <1>10. QED
    BY <1>2, <1>3, <1>4, <1>5, <1>6, <1>7, <1>8, <1>9 DEF Next

(* A confirmation reads the active factors once, when it begins.           *)
LEMMA Confirmations ==
  ASSUME Inv, [Next]_vars, NEW r \in Request, pc'[r] = "confirm"
  PROVE  \/ pc[r] = "confirm" /\ job'[r] = job[r]
         \/ UNCHANGED factor /\ job'[r].rows = Having("ACTIVE")
  <1>1. pc \in [Request -> Steps] /\ job \in [Request -> Job]
    BY DEF Inv, TypeOK
  <1> DEFINE Kept == pc[r] = "confirm" /\ job'[r] = job[r]
  <1>2. ASSUME NEW q \in Request, NEW answer, Finish(q, answer)
        PROVE  Kept
    BY <1>1, <1>2 DEF Finish
  <1>3. ASSUME NEW q \in Request, NEW step, NEW work, Goto(q, step, work),
               step \in {"grant", "accept", "reject", "enroll", "disable", "regenerate"}
        PROVE  Kept
    BY <1>1, <1>3 DEF Goto
  <1> HIDE DEF Kept
  <1>4. ASSUME NEW q \in Request, Operate(q)
        PROVE  Kept
    BY <1>2, <1>3, <1>4 DEF Operate, StartOperation, AllowOperation, CreateChallenge
  <1>5. ASSUME NEW q \in Request, Verify(q)
        PROVE  Kept
    <2>1. ASSUME NEW s \in Session, NEW c \in ChallengeId, RefuseChallenge(q, s, c)
          PROVE  Kept
      BY <1>2, <2>1 DEF RefuseChallenge
    <2>2. ASSUME NEW s \in Session, NEW c \in ChallengeId, NEW f \in FactorId,
                 NEW matches \in BOOLEAN, VerifyTotp(q, s, c, f, matches)
          PROVE  Kept
      <3>1. PICK step \in {"accept", "reject"} : Goto(q, step, Verification(s, c, f))
        BY <2>2 DEF VerifyTotp
      <3>2. QED
        BY <1>3, <3>1
    <2>3. ASSUME NEW s \in Session, NEW c \in ChallengeId, NEW f \in FactorId,
                 NEW k \in CodeId, VerifyRecoveryCode(q, s, c, f, k)
          PROVE  Kept
      BY <1>3, <2>3 DEF VerifyRecoveryCode
    <2>4. ASSUME RejectCode(q) \/ AcceptCode(q)
          PROVE  Kept
      BY <1>2, <2>4 DEF RejectCode, AcceptCode
    <2>5. QED
      BY <1>5, <2>1, <2>2, <2>3, <2>4 DEF Verify
  <1>6. ASSUME NEW q \in Request, NEW s \in Session, NEW f \in FactorId,
               NEW matches \in BOOLEAN, StartConfirmation(q, s, f, matches)
        PROVE  Kept \/ (UNCHANGED factor /\ job'[r].rows = Having("ACTIVE"))
    <2> DEFINE work == [NoJob EXCEPT !.session = s, !.factor = f, !.rows = Having("ACTIVE")]
    <2>1. work.rows = Having("ACTIVE")
      BY DEF NoJob
    <2>2. UNCHANGED factor /\ (Finish(q, "other") \/ Goto(q, "confirm", work))
      BY <1>6 DEF StartConfirmation, tables
    <2> HIDE DEF work
    <2>3. CASE Finish(q, "other")
      BY <1>2, <2>3
    <2>4. CASE Goto(q, "confirm", work)
      BY <1>1, <2>1, <2>2, <2>4 DEF Goto, Kept
    <2>5. QED
      BY <2>2, <2>3, <2>4
  <1>7. ASSUME NEW q \in Request, NEW s \in Session, NEW f \in FactorId,
               StartRegeneration(q, s, f)
        PROVE  Kept
    BY <1>3, <1>7 DEF StartRegeneration
  <1>8. CASE Tick \/ UNCHANGED vars
    BY <1>8 DEF Tick, vars, Kept
  <1>9. ASSUME NEW q \in Request,
                \/ \E s \in Session : StartEnrollment(q, s) \/ StartDisable(q, s)
                \/ CommitDisable(q) \/ Rollback(q)
         PROVE  Kept
    BY <1>2, <1>3, <1>9 DEF StartEnrollment, StartDisable, CommitDisable, Rollback
  <1>10. ASSUME NEW q \in Request,
                \/ \E f \in FactorId : CommitEnrollment(q, f)
                \/ \E new \in SUBSET CodeId :
                     CommitConfirmation(q, new) \/ CommitRegeneration(q, new)
         PROVE  Kept
    BY <1>2, <1>10 DEF CommitEnrollment, CommitConfirmation, CommitRegeneration
  <1>11. QED
    BY <1>4, <1>5, <1>6, <1>7, <1>8, <1>9, <1>10 DEF Next, Manage, Kept

LEMMA ReplacementInvInit == HistoryInit => ReplacementInv
  BY DEF HistoryInit, Init, ReplacementInv, ConfirmationReplaces, Having, Active

LEMMA ReplacementInvNext ==
  ASSUME Inv, ReplacementInv, [HistoryNext]_<<vars, rivals>>
  PROVE  ReplacementInv'
  <1>1. [Next]_vars /\ (Remember \/ UNCHANGED <<vars, rivals>>)
    BY DEF HistoryNext
  <1>2. ASSUME NEW g \in FactorId, Active(g), Active(g)'
        PROVE  rivals'[g] = rivals[g]
    BY <1>1, <1>2 DEF Remember, Activates, Active
  <1>3. ASSUME NEW g \in FactorId, ~Active(g), Active(g)', NEW r \in Request,
               pc[r] = "confirm"
        PROVE  job[r].factor = g \/ job[r].factor \in rivals'[g]
    <2>1. Remember
      BY <1>1, <1>3 DEF Active, vars, tables
    <2>2. rivals'[g] = Confirming \ {g}
      BY <1>3, <2>1 DEF Remember, Activates, Active
    <2>3. QED
      BY <1>3, <2>2 DEF Confirming
  <1>4. ASSUME NEW r \in Request, pc'[r] = "confirm", NEW g \in FactorId, Active(g)'
        PROVE  g \in job'[r].rows \cup {job'[r].factor} \/ job'[r].factor \in rivals'[g]
    <2>1. CASE pc[r] = "confirm" /\ job'[r] = job[r]
      <3>1. CASE Active(g)
        BY <1>2, <1>4, <2>1, <3>1 DEF ReplacementInv
      <3>2. CASE ~Active(g)
        BY <1>3, <1>4, <2>1, <3>2
      <3>3. QED
        BY <3>1, <3>2
    <2>2. CASE UNCHANGED factor /\ job'[r].rows = Having("ACTIVE")
      BY <1>4, <2>2 DEF Having, Active
    <2>3. QED
      BY <1>1, <1>4, <2>1, <2>2, Confirmations
  <1>5. ASSUME NEW f \in FactorId, NEW g \in FactorId, Active(f)', Active(g)', f # g
        PROVE  f \in rivals'[g] \/ g \in rivals'[f]
    <2>1. CASE Active(f) /\ Active(g)
      <3>1. f \in rivals[g] \/ g \in rivals[f]
        BY <1>5, <2>1 DEF ReplacementInv, ConfirmationReplaces, Having, Active
      <3>2. QED
        BY <1>2, <1>5, <2>1, <3>1
    <2>2. ASSUME NEW x \in FactorId, NEW y \in FactorId, x # y, Active(x)', Active(y)',
                 ~Active(x)
          PROVE  x \in rivals'[y]
      <3>1. PICK q \in Request, new \in SUBSET CodeId :
              CommitConfirmation(q, new) /\ x = job[q].factor
        BY <1>1, <2>2, Activations
      <3>2. pc[q] = "confirm"
        BY <3>1 DEF CommitConfirmation
      <3>3. [factor[y] EXCEPT !.status = "DISABLED"].status = "DISABLED"
        BY DEF Inv, TypeOK, FactorRow
      <3>4. factor'[y] = IF y \in job[q].rows
                           THEN [factor[y] EXCEPT !.status = "DISABLED"] ELSE factor[y]
        BY <2>2, <3>1 DEF CommitConfirmation, Confirmed
      <3>5. Active(y) /\ y \notin job[q].rows
        BY <2>2, <3>3, <3>4 DEF Active
      <3>6. x \in rivals[y]
        BY <2>2, <3>1, <3>2, <3>5 DEF ReplacementInv
      <3>7. QED
        BY <1>2, <2>2, <3>5, <3>6
    <2>3. QED
      BY <1>5, <2>1, <2>2
  <1>6. ConfirmationReplaces'
    BY <1>5 DEF ConfirmationReplaces, Having, Active
  <1>7. QED
    BY <1>4, <1>6 DEF ReplacementInv

LEMMA HistoryRefines == HistorySpec => Spec
  <1>1. HistoryInit => Init
    BY DEF HistoryInit
  <1>2. [HistoryNext]_<<vars, rivals>> => [Next]_vars
    BY DEF HistoryNext
  <1>3. QED
    BY <1>1, <1>2, PTL DEF HistorySpec, Spec

(* Two factors are active together only if their confirmations overlapped. *)
THEOREM ReplacedUnlessOverlapping == HistorySpec => []ConfirmationReplaces
  <1>1. HistorySpec => []Inv
    BY HistoryRefines, InvAlways, PTL
  <1>2. Inv /\ ReplacementInv /\ [HistoryNext]_<<vars, rivals>> => ReplacementInv'
    BY ReplacementInvNext
  <1>3. ReplacementInv => ConfirmationReplaces
    BY DEF ReplacementInv
  <1>4. QED
    BY <1>1, <1>2, <1>3, ReplacementInvInit, PTL DEF HistorySpec
-----------------------------------------------------------------------------
(* StepUp implements ChallengeLedger.                                      *)

PhaseMap == [c \in ChallengeId |-> Phase(c)]
PurposeMap == [c \in ChallengeId |-> Purpose(challenge[c])]
EndsMap == [c \in ChallengeId |-> challenge[c].expires]
AskingMap == [q \in Request |-> Asked(q)]
AllowedSet == {q \in Request : reply[q] = "allowed"}
Nothing == [session |-> None, policy |-> None, at |-> 0]

Outside ==
  <<PhaseMap, PurposeMap, EndsMap, failures, verified, AskingMap, AllowedSet, clock>>

Permitted == [Ledger!Next]_Outside

LEMMA FinishOutside ==
  ASSUME Inv, NEW q \in Request, NEW answer, Finish(q, answer)
  PROVE  /\ AskingMap' = [AskingMap EXCEPT ![q] = Nothing]
         /\ AllowedSet' = IF answer = "allowed" THEN AllowedSet \cup {q}
                                                ELSE AllowedSet \ {q}
  <1>1. \A r \in Request :
          /\ pc'[r] = IF r = q THEN "idle" ELSE pc[r]
          /\ job'[r] = IF r = q THEN NoJob ELSE job[r]
          /\ reply'[r] = IF r = q THEN answer ELSE reply[r]
    BY DEF Inv, TypeOK, Finish
  <1>2. \A r \in Request : Asked(r)' = IF r = q THEN Nothing ELSE Asked(r)
    BY <1>1 DEF Asked, Nothing
  <1>3. QED
    BY <1>1, <1>2 DEF AskingMap, AllowedSet

LEMMA GotoOutside ==
  ASSUME Inv, NEW q \in Request, NEW step, NEW work, Goto(q, step, work)
  PROVE  /\ AskingMap' = [AskingMap EXCEPT ![q] =
              IF step = "grant"
                THEN [session |-> work.session, policy |-> work.policy, at |-> work.stamp]
                ELSE Nothing]
         /\ AllowedSet' = AllowedSet \ {q}
  <1>1. \A r \in Request :
          /\ pc'[r] = IF r = q THEN step ELSE pc[r]
          /\ job'[r] = IF r = q THEN work ELSE job[r]
          /\ reply'[r] = IF r = q THEN "other" ELSE reply[r]
    BY DEF Inv, TypeOK, Goto
  <1>2. \A r \in Request : Asked(r)' =
          IF r = q
            THEN IF step = "grant"
                   THEN [session |-> work.session, policy |-> work.policy, at |-> work.stamp]
                   ELSE Nothing
            ELSE Asked(r)
    BY <1>1 DEF Asked, Nothing
  <1>3. QED
    BY <1>1, <1>2 DEF AskingMap, AllowedSet

LEMMA ChallengesSame ==
  ASSUME UNCHANGED challenge
  PROVE  UNCHANGED <<PhaseMap, PurposeMap, EndsMap>>
  BY DEF PhaseMap, PurposeMap, EndsMap, Phase, Purpose

(* Steps of a request that neither ask for an operation nor touch a        *)
(* challenge.                                                              *)
LEMMA Settles ==
  ASSUME Inv, NEW q \in Request, NEW step, NEW work,
         Finish(q, "other") \/ (Goto(q, step, work) /\ step # "grant"),
         UNCHANGED <<challenge, failures, verified, clock>>
  PROVE  Permitted
  <1>1. /\ AskingMap' = [AskingMap EXCEPT ![q] = Nothing]
        /\ AllowedSet' = AllowedSet \ {q}
    BY FinishOutside, GotoOutside
  <1>2. Ledger!Other(q)
    BY <1>1, ChallengesSame
    DEF Ledger!Other, Ledger!Settle, Ledger!challenges, Ledger!NoRequest, PhaseMap,
        PurposeMap, EndsMap, AskingMap, AllowedSet, Nothing
  <1>3. QED
    BY <1>2 DEF Permitted, Ledger!Next

LEMMA OperateRefines ==
  ASSUME Inv, NEW q \in Request, Operate(q)
  PROVE  Permitted
  <1>1. ASSUME NEW s \in Session, NEW p \in Policy, StartOperation(q, s, p)
        PROVE  Permitted
    <2> DEFINE work == [NoJob EXCEPT !.session = s, !.policy = p, !.stamp = clock]
    <2>1. work.session = s /\ work.policy = p /\ work.stamp = clock
      BY DEF NoJob
    <2>2. UNCHANGED <<challenge, failures, verified, clock>> /\ pc[q] = "idle"
      BY <1>1 DEF StartOperation, Enters, tables, history
    <2>3. Finish(q, "other") \/ Goto(q, "grant", work)
      BY <1>1 DEF StartOperation
    <2> HIDE DEF work
    <2>4. CASE Finish(q, "other")
      BY <2>2, <2>4, Settles
    <2>5. CASE Goto(q, "grant", work)
      <3>1. /\ AskingMap' = [AskingMap EXCEPT ![q] =
                 [session |-> s, policy |-> p, at |-> clock]]
            /\ AllowedSet' = AllowedSet \ {q}
        BY <2>1, <2>5, GotoOutside
      <3>2. AskingMap[q] = Nothing
        BY <2>2 DEF AskingMap, Asked, Nothing
      <3>3. Ledger!Ask(q, s, p)
        BY <2>2, <3>1, <3>2, ChallengesSame
        DEF Ledger!Ask, Ledger!challenges, Ledger!NoRequest, PhaseMap, PurposeMap,
            EndsMap, AskingMap, AllowedSet, Nothing
      <3>4. QED
        BY <3>3 DEF Permitted, Ledger!Next
    <2>6. QED
      BY <2>3, <2>4, <2>5
  <1>2. ASSUME pc[q] = "grant"
        PROVE  /\ AskingMap[q] = [session |-> job[q].session, policy |-> job[q].policy,
                                  at |-> job[q].stamp]
               /\ AskingMap[q] # Nothing
    <2>1. job[q].policy \in Policy
      BY <1>2 DEF Inv, OperationInv
    <2>2. QED
      BY <1>2, <2>1, StepUpAssumption DEF AskingMap, Asked, Nothing
  <1>3. CASE AllowOperation(q)
    <2>1. /\ pc[q] = "grant" /\ ValidGrants(q) # {} /\ Finish(q, "allowed")
          /\ UNCHANGED <<challenge, failures, verified, clock>>
      BY <1>3 DEF AllowOperation, tables, history
    <2>2. /\ AskingMap' = [AskingMap EXCEPT ![q] = Nothing]
          /\ AllowedSet' = AllowedSet \cup {q}
      BY <2>1, FinishOutside
    <2>3. PICK c \in ChallengeId :
           /\ verified[c].count > 0
           /\ challenge[c].session = job[q].session
           /\ challenge[c].policy = job[q].policy
           /\ job[q].stamp < verified[c].at + GrantTTL[job[q].policy]
      BY <2>1, GrantProves
    <2>4. Ledger!Proves(c, q)
      <3>1. PurposeMap[c] = [session |-> job[q].session, policy |-> job[q].policy]
        BY <2>3 DEF PurposeMap, Purpose
      <3>2. /\ AskingMap[q].session = job[q].session
            /\ AskingMap[q].policy = job[q].policy
            /\ AskingMap[q].at = job[q].stamp
        BY <1>2, <2>1
      <3>3. QED
        BY <2>3, <3>1, <3>2 DEF Ledger!Proves, PurposeMap, AskingMap
    <2>5. Ledger!Allow(q)
      BY <1>2, <2>1, <2>2, <2>4, ChallengesSame
      DEF Ledger!Allow, Ledger!challenges, Ledger!NoRequest, PhaseMap, PurposeMap,
          EndsMap, AskingMap, AllowedSet, Nothing
    <2>6. QED
      BY <2>5 DEF Permitted, Ledger!Next
  <1>4. ASSUME NEW c \in ChallengeId, CreateChallenge(q, c)
        PROVE  Permitted
    <2> DEFINE row == [session |-> job[q].session, policy |-> job[q].policy,
                       status |-> "PENDING", expires |-> job[q].stamp + ChallengeTTL,
                       attempts |-> 0]
    <2>1. /\ pc[q] = "grant" /\ challenge[c].status = "none" /\ Finish(q, "other")
          /\ challenge' = [challenge EXCEPT ![c] = row]
          /\ UNCHANGED <<failures, verified, clock>>
      BY <1>4 DEF CreateChallenge, history
    <2>2. /\ row.session = job[q].session /\ row.policy = job[q].policy
          /\ row.status = "PENDING" /\ row.expires = job[q].stamp + ChallengeTTL
      OBVIOUS
    <2> HIDE DEF row
    <2>3. \A d \in ChallengeId : challenge'[d] = IF d = c THEN row ELSE challenge[d]
      BY <2>1 DEF Inv, TypeOK
    <2>4. /\ AskingMap' = [AskingMap EXCEPT ![q] = Nothing]
          /\ AllowedSet' = AllowedSet \ {q}
      BY <2>1, FinishOutside
    <2>5. PhaseMap[c] = "none" /\ PhaseMap' = [PhaseMap EXCEPT ![c] = "open"]
      BY <2>1, <2>2, <2>3 DEF PhaseMap, Phase
    <2>6. /\ AskingMap[q].session = job[q].session /\ AskingMap[q].policy = job[q].policy
          /\ AskingMap[q].at = job[q].stamp
      BY <1>2, <2>1
    <2>7. PurposeMap' = [PurposeMap EXCEPT ![c] =
            [session |-> AskingMap[q].session, policy |-> AskingMap[q].policy]]
      BY <2>2, <2>3, <2>6 DEF PurposeMap, Purpose
    <2>8. EndsMap' = [EndsMap EXCEPT ![c] = AskingMap[q].at + ChallengeTTL]
      BY <2>2, <2>3, <2>6 DEF EndsMap
    <2>9. Ledger!Issue(q, c)
      BY <1>2, <2>1, <2>4, <2>5, <2>7, <2>8
      DEF Ledger!Issue, Ledger!Settle, Ledger!NoRequest, PhaseMap, PurposeMap,
          EndsMap, AskingMap, AllowedSet, Nothing
    <2>10. QED
      BY <2>9 DEF Permitted, Ledger!Next
  <1>5. QED
    BY <1>1, <1>3, <1>4 DEF Operate

(* A challenge whose status is overwritten keeps its purpose and its end.  *)
LEMMA StatusOutside ==
  ASSUME Inv, NEW c \in ChallengeId, NEW st, NEW n,
         \/ challenge' = [challenge EXCEPT ![c].status = st]
         \/ challenge' = [challenge EXCEPT ![c].attempts = n, ![c].status = st]
  PROVE  /\ PurposeMap' = PurposeMap /\ EndsMap' = EndsMap
         /\ challenge'[c].status = st
         /\ \A d \in ChallengeId \ {c} : Phase(d)' = Phase(d)
  <1>1. challenge[c] \in ChallengeRow
    BY DEF Inv, TypeOK
  <1>2. \A d \in ChallengeId \ {c} : challenge'[d] = challenge[d]
    BY DEF Inv, TypeOK
  <1>3. /\ challenge'[c].status = st
        /\ challenge'[c].session = challenge[c].session
        /\ challenge'[c].policy = challenge[c].policy
        /\ challenge'[c].expires = challenge[c].expires
    BY <1>1 DEF Inv, TypeOK, ChallengeRow
  <1>4. QED
    BY <1>2, <1>3 DEF PurposeMap, Purpose, EndsMap, Phase

LEMMA VerifyRefines ==
  ASSUME Inv, NEW q \in Request, Verify(q)
  PROVE  Permitted
  <1>1. ASSUME NEW s \in Session, NEW c \in ChallengeId, RefuseChallenge(q, s, c)
        PROVE  Permitted
    <2>1. /\ Finish(q, "other") /\ UNCHANGED <<failures, verified, clock>>
          /\ challenge[c] \in ChallengeRow /\ challenge[c].session = s
      BY <1>1 DEF RefuseChallenge, history, Inv, TypeOK
    <2>2. CASE Open(c) # "expired"
      <3>1. UNCHANGED challenge
        BY <1>1, <2>2 DEF RefuseChallenge
      <3>2. QED
        BY <2>1, <3>1, Settles
    <2>3. CASE Open(c) = "expired"
      <3>1. challenge' = [challenge EXCEPT ![c].status = "EXPIRED"]
        BY <1>1, <2>3 DEF RefuseChallenge
      <3>2. challenge[c].status \notin {"LOCKED", "none"}
        BY <2>1, <2>3, StepUpAssumption DEF Inv, ChallengeInv, Open
      <3>3. challenge[c].status \in {"PENDING", "VERIFIED", "EXPIRED"}
        BY <2>1, <3>2 DEF ChallengeRow
      <3>4. /\ AskingMap' = [AskingMap EXCEPT ![q] = Nothing]
            /\ AllowedSet' = AllowedSet \ {q}
        BY <2>1, FinishOutside
      <3>5. PurposeMap' = PurposeMap /\ EndsMap' = EndsMap
        BY <3>1, StatusOutside
      <3>6. PhaseMap' = [PhaseMap EXCEPT ![c] = "void"]
        <4>1. /\ challenge'[c].status = "EXPIRED"
              /\ \A d \in ChallengeId \ {c} : Phase(d)' = Phase(d)
          BY <3>1, StatusOutside
        <4>2. Phase(c)' = "void"
          BY <4>1 DEF Phase
        <4>3. QED
          BY <4>1, <4>2 DEF PhaseMap
      <3>7. CASE challenge[c].status = "EXPIRED"
        <4>1. PhaseMap' = PhaseMap
          BY <3>6, <3>7 DEF PhaseMap, Phase
        <4>2. Ledger!Other(q)
          BY <2>1, <3>4, <3>5, <4>1
          DEF Ledger!Other, Ledger!Settle, Ledger!challenges, Ledger!NoRequest,
              PhaseMap, PurposeMap, EndsMap, AskingMap, AllowedSet, Nothing
        <4>3. QED
          BY <4>2 DEF Permitted, Ledger!Next
      <3>8. CASE challenge[c].status # "EXPIRED"
        <4>1. \/ PhaseMap[c] = "answered"
              \/ PhaseMap[c] = "open" /\ EndsMap[c] <= clock
          BY <2>3, <3>3, <3>8 DEF PhaseMap, Phase, EndsMap, Open
        <4>2. Ledger!Void(q, c)
          BY <2>1, <3>4, <3>5, <3>6, <4>1
          DEF Ledger!Void, Ledger!Settle, Ledger!NoRequest, PhaseMap, PurposeMap,
              EndsMap, AskingMap, AllowedSet, Nothing
        <4>3. QED
          BY <4>2 DEF Permitted, Ledger!Next
      <3>9. QED
        BY <3>7, <3>8
    <2>4. QED
      BY <2>2, <2>3
  <1>2. ASSUME NEW s \in Session, NEW c \in ChallengeId, NEW f \in FactorId,
               \/ \E matches \in BOOLEAN : VerifyTotp(q, s, c, f, matches)
               \/ \E k \in CodeId : VerifyRecoveryCode(q, s, c, f, k)
        PROVE  Permitted
    <2>1. PICK step, work : Goto(q, step, work) /\ step \in {"accept", "reject"}
      BY <1>2 DEF VerifyTotp, VerifyRecoveryCode
    <2>2. UNCHANGED <<challenge, failures, verified, clock>>
      BY <1>2 DEF VerifyTotp, VerifyRecoveryCode, tables, history
    <2>3. QED
      BY <2>1, <2>2, Settles
  <1>3. CASE RejectCode(q)
    <2>1. PICK c \in ChallengeId : c = job[q].challenge
      BY <1>3 DEF RejectCode, Inv, VerdictInv
    <2>2. /\ challenge[c].status = "PENDING" /\ challenge[c].attempts = job[q].attempts
          /\ challenge[c].attempts = failures[c]
      BY <1>3, <2>1 DEF RejectCode, Inv, VerdictInv, ChallengeInv
    <2>3. PICK st : st = IF failures[c] + 1 >= MaxAttempts THEN "LOCKED" ELSE "PENDING"
      OBVIOUS
    <2>4. /\ challenge' = [challenge EXCEPT ![c].attempts = failures[c] + 1, ![c].status = st]
          /\ failures' = [failures EXCEPT ![c] = failures[c] + 1]
          /\ Finish(q, "other") /\ UNCHANGED <<verified, clock>>
      BY <1>3, <2>1, <2>2, <2>3 DEF RejectCode
    <2>5. /\ AskingMap' = [AskingMap EXCEPT ![q] = Nothing]
          /\ AllowedSet' = AllowedSet \ {q}
      BY <2>4, FinishOutside
    <2>6. PurposeMap' = PurposeMap /\ EndsMap' = EndsMap
      BY <2>4, StatusOutside
    <2>7. PhaseMap' = [PhaseMap EXCEPT ![c] =
            IF failures[c] + 1 >= MaxAttempts THEN "locked" ELSE "open"]
      <3>1. challenge'[c].status = st /\ \A d \in ChallengeId \ {c} : Phase(d)' = Phase(d)
        BY <2>4, StatusOutside
      <3>2. Phase(c)' = IF failures[c] + 1 >= MaxAttempts THEN "locked" ELSE "open"
        BY <2>3, <3>1 DEF Phase
      <3>3. QED
        BY <3>1, <3>2 DEF PhaseMap
    <2>8. PhaseMap[c] = "open"
      BY <2>2 DEF PhaseMap, Phase
    <2>9. Ledger!Wrong(q, c)
      BY <2>4, <2>5, <2>6, <2>7, <2>8
      DEF Ledger!Wrong, Ledger!Settle, Ledger!NoRequest, PhaseMap, PurposeMap,
          EndsMap, AskingMap, AllowedSet, Nothing
    <2>10. QED
      BY <2>9 DEF Permitted, Ledger!Next
  <1>4. CASE AcceptCode(q)
    <2>1. PICK c \in ChallengeId, at \in 0 .. MaxClock :
            c = job[q].challenge /\ at = job[q].stamp
      BY <1>4 DEF AcceptCode, Inv, VerdictInv, TypeOK, Job
    <2>2. challenge[c].status = "PENDING" /\ at < challenge[c].expires /\ at <= clock
      BY <1>4, <2>1 DEF AcceptCode, Inv, VerdictInv
    <2>3. at \in 0 .. clock
      BY <2>1, <2>2, StepUpAssumption DEF Inv, TypeOK
    <2>4. /\ challenge' = [challenge EXCEPT ![c].status = "VERIFIED"]
          /\ verified' = [verified EXCEPT ![c] =
               [count |-> verified[c].count + 1, at |-> at]]
          /\ Finish(q, "other") /\ UNCHANGED <<failures, clock>>
      BY <1>4, <2>1 DEF AcceptCode, Answered
    <2>5. /\ AskingMap' = [AskingMap EXCEPT ![q] = Nothing]
          /\ AllowedSet' = AllowedSet \ {q}
      BY <2>4, FinishOutside
    <2>6. PurposeMap' = PurposeMap /\ EndsMap' = EndsMap
      BY <2>4, StatusOutside
    <2>7. PhaseMap' = [PhaseMap EXCEPT ![c] = "answered"]
      <3>1. /\ challenge'[c].status = "VERIFIED"
            /\ \A d \in ChallengeId \ {c} : Phase(d)' = Phase(d)
        BY <2>4, StatusOutside
      <3>2. Phase(c)' = "answered"
        BY <3>1 DEF Phase
      <3>3. QED
        BY <3>1, <3>2 DEF PhaseMap
    <2>8. PhaseMap[c] = "open" /\ at < EndsMap[c]
      BY <2>2 DEF PhaseMap, Phase, EndsMap
    <2>9. Ledger!Right(q, c, at)
      BY <2>2, <2>4, <2>5, <2>6, <2>7, <2>8
      DEF Ledger!Right, Ledger!Settle, Ledger!NoRequest, PhaseMap, PurposeMap,
          EndsMap, AskingMap, AllowedSet, Nothing
    <2>10. QED
      BY <2>3, <2>9 DEF Permitted, Ledger!Next
  <1>5. QED
    BY <1>1, <1>2, <1>3, <1>4 DEF Verify

(* Managing factors and codes is not seen.                                 *)
LEMMA ManageRefines ==
  ASSUME Inv, NEW q \in Request, Manage(q) \/ Rollback(q)
  PROVE  Permitted
  <1>1. UNCHANGED <<challenge, failures, verified, clock>>
    BY DEF Manage, StartEnrollment, StartConfirmation, StartDisable, StartRegeneration,
       CommitEnrollment, CommitConfirmation, CommitDisable, CommitRegeneration, Rollback,
       tables, history
  <1>2. CASE Finish(q, "other")
    BY <1>1, <1>2, Settles
  <1>3. ASSUME NEW step \in {"enroll", "confirm", "disable", "regenerate"}, NEW work,
               Goto(q, step, work)
        PROVE  Permitted
    BY <1>1, <1>3, Settles
  <1>4. ASSUME NEW s \in Session, StartEnrollment(q, s) \/ StartDisable(q, s)
        PROVE  Permitted
    BY <1>3, <1>4 DEF StartEnrollment, StartDisable
  <1>5. ASSUME NEW s \in Session, NEW f \in FactorId,
               \/ StartRegeneration(q, s, f)
               \/ \E matches \in BOOLEAN : StartConfirmation(q, s, f, matches)
        PROVE  Permitted
    BY <1>2, <1>3, <1>5 DEF StartRegeneration, StartConfirmation
  <1>6. CASE \/ \E f \in FactorId : CommitEnrollment(q, f)
             \/ \E new \in SUBSET CodeId :
                  CommitConfirmation(q, new) \/ CommitRegeneration(q, new)
             \/ CommitDisable(q) \/ Rollback(q)
    BY <1>2, <1>6 DEF CommitEnrollment, CommitConfirmation, CommitRegeneration,
       CommitDisable, Rollback
  <1>7. QED
    BY <1>4, <1>5, <1>6 DEF Manage

LEMMA StepRefines ==
  ASSUME Inv, [Next]_vars
  PROVE  Permitted
  <1>1. CASE Tick
    <2>1. UNCHANGED <<challenge, failures, verified, pc, job, reply>> /\ clock' = clock + 1
      BY <1>1 DEF Tick, tables, history
    <2>2. AskingMap' = AskingMap /\ AllowedSet' = AllowedSet
      BY <2>1 DEF AskingMap, Asked, AllowedSet
    <2>3. Ledger!Tick
      BY <2>1, <2>2, ChallengesSame
      DEF Ledger!Tick, Ledger!challenges, PhaseMap, PurposeMap, EndsMap, AskingMap,
          AllowedSet
    <2>4. QED
      BY <2>3 DEF Permitted, Ledger!Next
  <1>2. CASE UNCHANGED vars
    <2>1. UNCHANGED <<challenge, failures, verified, clock, pc, job, reply>>
      BY <1>2 DEF vars, tables, history
    <2>2. AskingMap' = AskingMap /\ AllowedSet' = AllowedSet
      BY <2>1 DEF AskingMap, Asked, AllowedSet
    <2>3. QED
      BY <2>1, <2>2, ChallengesSame DEF Permitted, Outside
  <1>3. QED
    BY <1>1, <1>2, OperateRefines, VerifyRefines, ManageRefines DEF Next

LEMMA InitRefines == Init => Ledger!Init
  <1>1. ASSUME Init
        PROVE  /\ PhaseMap = [c \in ChallengeId |-> "none"]
               /\ PurposeMap = [c \in ChallengeId |-> [session |-> None, policy |-> None]]
               /\ EndsMap = [c \in ChallengeId |-> 0]
               /\ AskingMap = [q \in Request |-> Nothing]
               /\ AllowedSet = {}
    BY <1>1 DEF Init, PhaseMap, Phase, PurposeMap, Purpose, EndsMap, AskingMap, Asked,
       Nothing, AllowedSet
  <1>2. QED
    BY <1>1 DEF Init, Ledger!Init, Ledger!NoPurpose, Ledger!NoRequest, PhaseMap,
       PurposeMap, EndsMap, AskingMap, AllowedSet, Nothing

(* Every behaviour of the endpoints is, seen from outside, one of the      *)
(* challenges ChallengeLedger describes, whatever they read before they    *)
(* write and whatever is enrolled, replaced or disabled in between.        *)
THEOREM LedgerRefinement == Spec => ImplementsLedger
  <1>1. Inv /\ [Next]_vars => Permitted
    BY StepRefines
  <1>2. QED
    BY <1>1, InvAlways, InitRefines, PTL
    DEF Spec, ImplementsLedger, Ledger!Spec, Ledger!vars, Permitted, Outside,
        PhaseMap, PurposeMap, EndsMap, AskingMap, AllowedSet
=============================================================================
