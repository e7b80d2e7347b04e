------------------------------- MODULE StepUp -------------------------------
(***************************************************************************)
(* Multi-factor authentication of one user: StepUpPolicyEngine and         *)
(* MfaService over user_mfa_factors, mfa_recovery_codes,                   *)
(* step_up_challenges and step_up_grants.  Every statement of these        *)
(* services filters by the user, so users never meet.                      *)
(*                                                                         *)
(* None of the tables is locked when it is read.  Requests of one session  *)
(* are serialized all the same, by the row of auth_sessions that           *)
(* verify_session updates before anything else (see AuthSession); requests *)
(* of two sessions of the user are not.  A handler reads in its first step *)
(* and writes in its last; job[q] is what it read.                         *)
(***************************************************************************)
EXTENDS Naturals, FiniteSets

CONSTANTS
  Request,
  Session,       \* live sessions of the user
  FactorId, CodeId, ChallengeId,   \* primary keys
  Policy,        \* HIGH_RISK_ACTION, CRITICAL_RISK_ACTION
  GrantTTL,      \* grant_ttl_seconds of each policy, in TOTP steps of 30 s
  ChallengeTTL,  \* STEP_UP_CHALLENGE_TTL_SECONDS, in the same steps
  MaxAttempts,   \* STEP_UP_MAX_ATTEMPTS (5)
  CodesPerFactor,  \* generate_recovery_codes(8)
  MaxClock,      \* bound: instants
  None

ASSUME StepUpAssumption ==
  /\ GrantTTL \in [Policy -> Nat \ {0}]
  /\ ChallengeTTL \in Nat \ {0}
  /\ MaxAttempts \in Nat \ {0}
  /\ CodesPerFactor \in Nat \ {0}
  /\ MaxClock \in Nat
  /\ None \notin Session \cup FactorId \cup CodeId \cup ChallengeId \cup Policy \cup Nat

VARIABLES
  factor,     \* user_mfa_factors
  code,       \* mfa_recovery_codes
  challenge,  \* step_up_challenges
  grants,     \* step_up_grants
  clock,
  failures,   \* history: rejected verifications of a challenge
  verified,   \* history: successful ones, and the time of the last
  redeemed,   \* history: how often a recovery code was spent
  pc, job,
  reply       \* whether an operation was let through

tables == <<factor, code, challenge, grants>>
history == <<failures, verified, redeemed>>
vars == <<tables, clock, history, pc, job, reply>>

-----------------------------------------------------------------------------
(* Rows; a key that was deleted is not used again.                         *)

FactorRow ==
  [status : {"none", "PENDING", "ACTIVE", "DISABLED", "deleted"},
   lastUsed : (0 .. MaxClock) \cup {None}]  \* last_used_counter

CodeRow == [factor : FactorId \cup {None}, state : {"none", "unused", "used", "deleted"}]

ChallengeRow ==
  [session : Session \cup {None}, policy : Policy \cup {None},
   status : {"none", "PENDING", "VERIFIED", "EXPIRED", "LOCKED"},
   expires : Nat, attempts : Nat]

GrantRow == [session : Session, policy : Policy, challenge : ChallengeId, expires : Nat]

Having(status) == {f \in FactorId : factor[f].status = status}
CodesOf(fs) == {k \in CodeId : code[k].factor \in fs /\ code[k].state \in {"unused", "used"}}
Fresh == {k \in CodeId : code[k].state = "none"}

Steps == {"idle", "grant", "accept", "reject", "enroll", "confirm", "disable", "regenerate"}

NoJob == [session |-> None, policy |-> None, challenge |-> None, factor |-> None,
          code |-> None, attempts |-> 0, stamp |-> 0, rows |-> {}, grants |-> {}]

Goto(q, step, work) ==
  /\ pc' = [pc EXCEPT ![q] = step]
  /\ job' = [job EXCEPT ![q] = work]
  /\ reply' = [reply EXCEPT ![q] = "other"]

Finish(q, answer) ==
  /\ pc' = [pc EXCEPT ![q] = "idle"]
  /\ job' = [job EXCEPT ![q] = NoJob]
  /\ reply' = [reply EXCEPT ![q] = answer]

(* Fault: last_seen_at is not flushed, so no lock is taken.                *)
SessionUnlocked_NoFlush(s) == TRUE

SessionUnlocked(s) == \A q \in Request : job[q].session # s

(* The beginning of every handler: it holds the session until it ends.     *)
Enters(q, s) == pc[q] = "idle" /\ SessionUnlocked(s)

-----------------------------------------------------------------------------
(* evaluate_step_up, before an operation of HIGH or CRITICAL risk.         *)

StartOperation(q, s, p) ==
  /\ Enters(q, s)
  /\ IF Having("ACTIVE") = {}
       THEN Finish(q, "other")
       ELSE Goto(q, "grant", [NoJob EXCEPT !.session = s, !.policy = p,
                                          !.stamp = clock])
  /\ UNCHANGED <<tables, clock, history>>

(* Fault: a grant of another session counts.                               *)
ValidGrants_AnySession(q) ==
  {g \in grants : g.policy = job[q].policy /\ g.expires > job[q].stamp}

ValidGrants(q) ==
  {g \in grants : /\ g.session = job[q].session
                  /\ g.policy = job[q].policy
                  /\ g.expires > job[q].stamp}

AllowOperation(q) ==
  /\ pc[q] = "grant"
  /\ ValidGrants(q) # {}
  /\ Finish(q, "allowed")
  /\ UNCHANGED <<tables, clock, history>>

CreateChallenge(q, c) ==
  /\ pc[q] = "grant"
  /\ ValidGrants(q) = {}
  /\ challenge[c].status = "none"
  /\ challenge' = [challenge EXCEPT ![c] =
       [session |-> job[q].session, policy |-> job[q].policy, status |-> "PENDING",
        expires |-> job[q].stamp + ChallengeTTL, attempts |-> 0]]
  /\ Finish(q, "other")
  /\ UNCHANGED <<factor, code, grants, clock, history>>

-----------------------------------------------------------------------------
(* verify_step_up.                                                         *)

Open(c) ==
  IF challenge[c].status = "LOCKED" THEN "locked"
  ELSE IF challenge[c].status # "PENDING" \/ challenge[c].expires <= clock
    THEN "expired" ELSE "open"

RefuseChallenge(q, s, c) ==
  /\ Enters(q, s)
  /\ challenge[c].session = s
  /\ Open(c) # "open" \/ Having("ACTIVE") = {}
  /\ challenge' = IF Open(c) = "expired"
                    THEN [challenge EXCEPT ![c].status = "EXPIRED"]
                    ELSE challenge
  /\ Finish(q, "other")
  /\ UNCHANGED <<factor, code, grants, clock, history>>

(* The challenge is open and the user has an active factor f.              *)
Verifying(q, s, c, f) ==
  /\ Enters(q, s)
  /\ challenge[c].session = s
  /\ Open(c) = "open"
  /\ f \in Having("ACTIVE")

Verification(s, c, f) ==
  [NoJob EXCEPT !.session = s, !.challenge = c, !.factor = f,
                !.attempts = challenge[c].attempts, !.stamp = clock]

(* A code from the application is taken once the counter is past the one   *)
(* stored with the factor (matches: pyotp accepted it).                    *)
VerifyTotp(q, s, c, f, matches) ==
  /\ Verifying(q, s, c, f)
  /\ LET unused == factor[f].lastUsed = None \/ clock > factor[f].lastUsed
     IN  Goto(q, IF matches /\ unused THEN "accept" ELSE "reject", Verification(s, c, f))
  /\ UNCHANGED <<tables, clock, history>>

VerifyRecoveryCode(q, s, c, f, k) ==
  /\ Verifying(q, s, c, f)
  /\ k \notin Fresh
  /\ IF code[k] = [factor |-> f, state |-> "unused"]
       THEN Goto(q, "accept", [Verification(s, c, f) EXCEPT !.code = k])
       ELSE Goto(q, "reject", Verification(s, c, f))
  /\ UNCHANGED <<tables, clock, history>>

(* The attempt is counted from the value that was read.                    *)
RejectCode(q) ==
  LET c == job[q].challenge
      n == job[q].attempts + 1
  IN  /\ pc[q] = "reject"
      /\ challenge' = [challenge EXCEPT
           ![c].attempts = n,
           ![c].status = IF n >= MaxAttempts THEN "LOCKED" ELSE challenge[c].status]
      /\ failures' = [failures EXCEPT ![c] = failures[c] + 1]
      /\ Finish(q, "other")
      /\ UNCHANGED <<factor, code, grants, clock, verified, redeemed>>

(* The rows the handler updates or refers to must still be there, or the   *)
(* flush fails.                                                            *)
RowsRemain(q) ==
  /\ factor[job[q].factor].status # "deleted"
  /\ job[q].code # None => code[job[q].code].state # "deleted"

(* Fault: the challenge stays open.                                        *)
Answered_StaysOpen(q) == challenge

Answered(q) == [challenge EXCEPT ![job[q].challenge].status = "VERIFIED"]

Spend(q) ==
  IF job[q].code = None
    THEN /\ factor' = [factor EXCEPT ![job[q].factor].lastUsed = job[q].stamp]
         /\ UNCHANGED code
    ELSE /\ code' = [code EXCEPT ![job[q].code].state = "used"]
         /\ UNCHANGED factor

AcceptCode(q) ==
  LET c == job[q].challenge
      k == job[q].code
      s == job[q].session
      p == challenge[c].policy
  IN  /\ pc[q] = "accept"
      /\ RowsRemain(q)
      /\ Spend(q)
      /\ challenge' = Answered(q)
      /\ grants' = grants \cup
           {[session |-> s, policy |-> p, challenge |-> c,
             expires |-> job[q].stamp + GrantTTL[p]]}
      /\ verified' = [verified EXCEPT ![c] =
           [count |-> verified[c].count + 1, at |-> job[q].stamp]]
      /\ redeemed' = IF k = None THEN redeemed
                     ELSE [redeemed EXCEPT ![k] = redeemed[k] + 1]
      /\ Finish(q, "other")
      /\ UNCHANGED <<clock, failures>>

-----------------------------------------------------------------------------
(* enroll_totp: pending enrollments are deleted, by their key, whatever    *)
(* has become of them since they were read; a new one is inserted.  (The   *)
(* password is checked first; a wrong one ends the request.)               *)
StartEnrollment(q, s) ==
  /\ Enters(q, s)
  /\ Goto(q, "enroll", [NoJob EXCEPT !.session = s, !.rows = Having("PENDING")])
  /\ UNCHANGED <<tables, clock, history>>

WithoutCodes(ks) ==
  [k \in CodeId |-> IF k \in ks THEN [code[k] EXCEPT !.state = "deleted"] ELSE code[k]]

CommitEnrollment(q, f) ==
  /\ pc[q] = "enroll"
  /\ factor[f].status = "none"
  /\ factor' = [g \in FactorId |->
       IF g = f THEN [status |-> "PENDING", lastUsed |-> None]
       ELSE IF g \in job[q].rows THEN [factor[g] EXCEPT !.status = "deleted"]
       ELSE factor[g]]
  /\ code' = WithoutCodes(CodesOf(job[q].rows))
  /\ Finish(q, "other")
  /\ UNCHANGED <<challenge, grants, clock, history>>

(* confirm_totp: a wrong code is only audited; the right one replaces the  *)
(* factors read as active by f, and issues its recovery codes.             *)
StartConfirmation(q, s, f, matches) ==
  /\ Enters(q, s)
  /\ factor[f].status = "PENDING"
  /\ IF matches
       THEN Goto(q, "confirm", [NoJob EXCEPT !.session = s, !.factor = f,
                                             !.rows = Having("ACTIVE")])
       ELSE Finish(q, "other")
  /\ UNCHANGED <<tables, clock, history>>

Issued(f, new) ==
  [k \in CodeId |-> IF k \in new THEN [factor |-> f, state |-> "unused"] ELSE code[k]]

(* Fault: the factor that was active before stays active.                  *)
Confirmed_KeepsOld(q) == [factor EXCEPT ![job[q].factor].status = "ACTIVE"]

Confirmed(q) ==
  [g \in FactorId |->
     IF g = job[q].factor THEN [factor[g] EXCEPT !.status = "ACTIVE"]
     ELSE IF g \in job[q].rows THEN [factor[g] EXCEPT !.status = "DISABLED"]
     ELSE factor[g]]

CommitConfirmation(q, new) ==
  LET f == job[q].factor
  IN  /\ pc[q] = "confirm"
      /\ \A g \in job[q].rows \cup {f} : factor[g].status # "deleted"
      /\ new \in SUBSET Fresh /\ Cardinality(new) = CodesPerFactor
      /\ factor' = Confirmed(q)
      /\ code' = Issued(f, new)
      /\ Finish(q, "other")
      /\ UNCHANGED <<challenge, grants, clock, history>>

(* disable_mfa (after the password): the factors and grants that were read *)
(* go.                                                                     *)
StartDisable(q, s) ==
  /\ Enters(q, s)
  /\ Goto(q, "disable", [NoJob EXCEPT !.session = s, !.rows = Having("ACTIVE"),
                                      !.grants = grants])
  /\ UNCHANGED <<tables, clock, history>>

CommitDisable(q) ==
  /\ pc[q] = "disable"
  /\ \A g \in job[q].rows : factor[g].status # "deleted"
  /\ factor' = [g \in FactorId |->
       IF g \in job[q].rows THEN [factor[g] EXCEPT !.status = "DISABLED"] ELSE factor[g]]
  /\ grants' = grants \ job[q].grants
  /\ Finish(q, "other")
  /\ UNCHANGED <<code, challenge, clock, history>>

(* regenerate_recovery_codes: the codes that were read are replaced.       *)
StartRegeneration(q, s, f) ==
  /\ Enters(q, s)
  /\ f \in Having("ACTIVE")
  /\ Goto(q, "regenerate", [NoJob EXCEPT !.session = s, !.factor = f,
                                         !.rows = CodesOf({f})])
  /\ UNCHANGED <<tables, clock, history>>

CommitRegeneration(q, new) ==
  LET f == job[q].factor
  IN  /\ pc[q] = "regenerate"
      /\ factor[f].status # "deleted"
      /\ new \in SUBSET Fresh /\ Cardinality(new) = CodesPerFactor
      /\ code' = [k \in CodeId |->
           IF k \in new THEN Issued(f, new)[k] ELSE WithoutCodes(job[q].rows)[k]]
      /\ Finish(q, "other")
      /\ UNCHANGED <<factor, challenge, grants, clock, history>>

-----------------------------------------------------------------------------
(* A flush that fails, or a lost connection: nothing is written.           *)
Rollback(q) ==
  /\ pc[q] # "idle"
  /\ Finish(q, "other")
  /\ UNCHANGED <<tables, clock, history>>

Tick ==
  /\ clock < MaxClock
  /\ clock' = clock + 1
  /\ UNCHANGED <<tables, history, pc, job, reply>>

Init ==
  /\ factor = [f \in FactorId |-> [status |-> "none", lastUsed |-> None]]
  /\ code = [k \in CodeId |-> [factor |-> None, state |-> "none"]]
  /\ challenge = [c \in ChallengeId |->
       [session |-> None, policy |-> None, status |-> "none", expires |-> 0, attempts |-> 0]]
  /\ grants = {}
  /\ clock = 0
  /\ failures = [c \in ChallengeId |-> 0]
  /\ verified = [c \in ChallengeId |-> [count |-> 0, at |-> 0]]
  /\ redeemed = [k \in CodeId |-> 0]
  /\ pc = [q \in Request |-> "idle"]
  /\ job = [q \in Request |-> NoJob]
  /\ reply = [q \in Request |-> "other"]

Operate(q) ==
  \/ \E s \in Session, p \in Policy : StartOperation(q, s, p)
  \/ AllowOperation(q)
  \/ \E c \in ChallengeId : CreateChallenge(q, c)

Verify(q) ==
  \/ \E s \in Session, c \in ChallengeId :
       \/ RefuseChallenge(q, s, c)
       \/ \E f \in FactorId :
            \/ \E matches \in BOOLEAN : VerifyTotp(q, s, c, f, matches)
            \/ \E k \in CodeId : VerifyRecoveryCode(q, s, c, f, k)
  \/ RejectCode(q)
  \/ AcceptCode(q)

Manage(q) ==
  \/ \E s \in Session :
       \/ StartEnrollment(q, s)
       \/ \E f \in FactorId, matches \in BOOLEAN : StartConfirmation(q, s, f, matches)
       \/ StartDisable(q, s)
       \/ \E f \in FactorId : StartRegeneration(q, s, f)
  \/ \E f \in FactorId : CommitEnrollment(q, f)
  \/ \E new \in SUBSET CodeId : CommitConfirmation(q, new) \/ CommitRegeneration(q, new)
  \/ CommitDisable(q)

Next ==
  \/ \E q \in Request : Operate(q) \/ Verify(q) \/ Manage(q) \/ Rollback(q)
  \/ Tick

Spec == Init /\ [][Next]_vars

-----------------------------------------------------------------------------
(* Properties.                                                             *)

Job ==
  [session : Session \cup {None}, policy : Policy \cup {None},
   challenge : ChallengeId \cup {None}, factor : FactorId \cup {None},
   code : CodeId \cup {None}, attempts : Nat, stamp : 0 .. MaxClock,
   rows : (SUBSET FactorId) \cup (SUBSET CodeId), grants : SUBSET GrantRow]

Answer == {"allowed", "other"}

(* Tables, positions and answers have the shape the code gives them.       *)
TypeOK ==
  /\ factor \in [FactorId -> FactorRow]
  /\ code \in [CodeId -> CodeRow]
  /\ challenge \in [ChallengeId -> ChallengeRow]
  /\ grants \subseteq GrantRow
  /\ clock \in 0 .. MaxClock
  /\ pc \in [Request -> Steps]
  /\ job \in [Request -> Job]
  /\ reply \in [Request -> Answer]

(* Whatever requests of a session overlap, every rejected code is counted  *)
(* once, and the challenge is locked with the one that reaches the limit.  *)
AttemptsAreExact ==
  \A c \in ChallengeId :
    /\ challenge[c].attempts = failures[c]
    /\ challenge[c].status = "LOCKED" <=> failures[c] >= MaxAttempts

(* A locked challenge stays locked and yields no grant, not even to a code *)
(* that was checked before it was locked.                                  *)
LockedForGood ==
  [][\A c \in ChallengeId :
       challenge[c].status = "LOCKED" =>
         challenge'[c] = challenge[c] /\ verified'[c] = verified[c]]_vars

(* A challenge is good for one grant, however often its answer arrives.    *)
OneGrantPerChallenge == \A c \in ChallengeId : verified[c].count <= 1

(* An operation is let through only if a challenge of its own session and  *)
(* of its own policy was answered no longer ago than the policy allows,    *)
(* though the factor and the grant are read one after the other.           *)
AllowedOnFreshProof ==
  [][\A q \in Request :
       pc[q] = "grant" /\ reply'[q] = "allowed" =>
         \E c \in ChallengeId :
           /\ verified[c].count > 0
           /\ challenge[c].session = job[q].session
           /\ challenge[c].policy = job[q].policy
           /\ job[q].stamp < verified[c].at + GrantTTL[job[q].policy]]_vars

(* mfa_router.py: recovery codes are single-use.  See the README.          *)
CodeIsSingleUse == \A k \in CodeId : redeemed[k] <= 1

-----------------------------------------------------------------------------
(* Seen from outside, challenges are issued, answered and closed.          *)

Phase(c) ==
  CASE challenge[c].status = "PENDING" -> "open"
    [] challenge[c].status = "VERIFIED" -> "answered"
    [] challenge[c].status = "LOCKED" -> "locked"
    [] challenge[c].status = "EXPIRED" -> "void"
    [] OTHER -> "none"

Purpose(row) == [session |-> row.session, policy |-> row.policy]
Asked(q) ==
  IF pc[q] = "grant"
    THEN [session |-> job[q].session, policy |-> job[q].policy, at |-> job[q].stamp]
    ELSE [session |-> None, policy |-> None, at |-> 0]

Ledger == INSTANCE ChallengeLedger WITH
  Client <- Request,
  Challenge <- ChallengeId,
  Nobody <- None,
  phase <- [c \in ChallengeId |-> Phase(c)],
  purpose <- [c \in ChallengeId |-> Purpose(challenge[c])],
  ends <- [c \in ChallengeId |-> challenge[c].expires],
  wrong <- failures,
  right <- verified,
  asking <- [q \in Request |-> Asked(q)],
  allowed <- {q \in Request : reply[q] = "allowed"},
  now <- clock

(* Whatever factors are enrolled, replaced or disabled in between, and     *)
(* whatever requests of several sessions read and write in turn: a         *)
(* challenge yields one proof at most, and in time; once it is locked or   *)
(* answered nothing opens it again; and only a fresh proof of the same     *)
(* session and policy lets an operation through.                           *)
ImplementsLedger == Ledger!Spec
=============================================================================
