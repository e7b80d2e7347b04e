--------------------------- MODULE ChallengeLedger --------------------------
(***************************************************************************)
(* What step-up authentication promises of one user.  A challenge is       *)
(* issued to a session that asked for an operation without proof; wrong    *)
(* answers add up until they lock it, one right answer in time is the      *)
(* proof, and whatever closes a challenge closes it for good.  An          *)
(* operation is allowed on a proof of its own session and policy that is   *)
(* fresh enough.  Nothing is said of factors, codes, grants, nor of what   *)
(* requests read before they write.                                        *)
(***************************************************************************)
EXTENDS Naturals

CONSTANTS
  Client,  \* who asks for operations and answers challenges
  Session, Policy, Challenge,
  GrantTTL, ChallengeTTL, MaxAttempts,
  Nobody

VARIABLES
  phase,    \* "none", "open", "answered", "locked" or "void"
  purpose,  \* the session and the policy a challenge was issued for
  ends,     \* when a challenge can no longer be answered
  wrong,    \* wrong answers to a challenge
  right,    \* right ones, and the time of the last
  asking,   \* the operation a client waits for
  allowed,  \* clients whose operation has just been let through
  now

vars == <<phase, purpose, ends, wrong, right, asking, allowed, now>>
challenges == <<phase, purpose, ends, wrong, right>>

NoPurpose == [session |-> Nobody, policy |-> Nobody]
NoRequest == [session |-> Nobody, policy |-> Nobody, at |-> 0]

Init ==
  /\ phase = [c \in Challenge |-> "none"]
  /\ purpose = [c \in Challenge |-> NoPurpose]
  /\ ends = [c \in Challenge |-> 0]
  /\ wrong = [c \in Challenge |-> 0]
  /\ right = [c \in Challenge |-> [count |-> 0, at |-> 0]]
  /\ asking = [q \in Client |-> NoRequest]
  /\ allowed = {}
  /\ now = 0

(* Whatever else a client does, what it asked for is settled.              *)
Settle(q) ==
  /\ asking' = [asking EXCEPT ![q] = NoRequest]
  /\ allowed' = allowed \ {q}
  /\ UNCHANGED now

Ask(q, s, p) ==
  /\ asking[q] = NoRequest
  /\ asking' = [asking EXCEPT ![q] = [session |-> s, policy |-> p, at |-> now]]
  /\ allowed' = allowed \ {q}
  /\ UNCHANGED <<challenges, now>>

(* A proof for the request of q, not older than its policy allows.         *)
Proves(c, q) ==
  /\ right[c].count > 0
  /\ purpose[c] = [session |-> asking[q].session, policy |-> asking[q].policy]
  /\ asking[q].at < right[c].at + GrantTTL[asking[q].policy]

Allow(q) ==
  /\ asking[q] # NoRequest
  /\ \E c \in Challenge : Proves(c, q)
  /\ asking' = [asking EXCEPT ![q] = NoRequest]
  /\ allowed' = allowed \cup {q}
  /\ UNCHANGED <<challenges, now>>

Issue(q, c) ==
  /\ asking[q] # NoRequest
  /\ phase[c] = "none"
  /\ phase' = [phase EXCEPT ![c] = "open"]
  /\ purpose' = [purpose EXCEPT ![c] =
       [session |-> asking[q].session, policy |-> asking[q].policy]]
  /\ ends' = [ends EXCEPT ![c] = asking[q].at + ChallengeTTL]
  /\ Settle(q)
  /\ UNCHANGED <<wrong, right>>

Wrong(q, c) ==
  /\ phase[c] = "open"
  /\ wrong' = [wrong EXCEPT ![c] = wrong[c] + 1]
  /\ phase' = [phase EXCEPT ![c] = IF wrong[c] + 1 >= MaxAttempts THEN "locked" ELSE "open"]
  /\ Settle(q)
  /\ UNCHANGED <<purpose, ends, right>>

Right(q, c, at) ==
  /\ phase[c] = "open"
  /\ at <= now /\ at < ends[c]
  /\ right' = [right EXCEPT ![c] = [count |-> right[c].count + 1, at |-> at]]
  /\ phase' = [phase EXCEPT ![c] = "answered"]
  /\ Settle(q)
  /\ UNCHANGED <<purpose, ends, wrong>>

(* A challenge is presented again after its answer or its end.             *)
Void(q, c) ==
  /\ phase[c] = "answered" \/ (phase[c] = "open" /\ ends[c] <= now)
  /\ phase' = [phase EXCEPT ![c] = "void"]
  /\ Settle(q)
  /\ UNCHANGED <<purpose, ends, wrong, right>>

Other(q) == Settle(q) /\ UNCHANGED challenges

Tick == now' = now + 1 /\ UNCHANGED <<challenges, asking, allowed>>

Next ==
  \/ \E q \in Client :
       \/ \E s \in Session, p \in Policy : Ask(q, s, p)
       \/ Allow(q) \/ Other(q)
       \/ \E c \in Challenge :
            \/ Issue(q, c) \/ Wrong(q, c) \/ Void(q, c)
            \/ \E at \in 0 .. now : Right(q, c, at)
  \/ Tick

Spec == Init /\ [][Next]_vars
=============================================================================
