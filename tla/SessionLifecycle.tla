-------------------------- MODULE SessionLifecycle --------------------------
(***************************************************************************)
(* What login sessions promise: a session is opened once for a user and    *)
(* an absolute end, authenticates requests while it is open, not ended,    *)
(* not idle and its user enabled, and is closed for good.  A user who is   *)
(* disabled stays disabled.  Nothing is said of rows, locks and            *)
(* transactions, nor of last_seen_at.                                      *)
(***************************************************************************)
EXTENDS Naturals

CONSTANTS
  Client,   \* who makes requests
  User, SessionId,
  IdleTimeout, AbsoluteTTL,
  Nobody

VARIABLES
  enabled,  \* users that may log in and be served
  phase,    \* "none", "open" or "closed"
  owner,    \* the user of a session
  ends,     \* its absolute end
  last,     \* when it last authenticated a request, or the login
  serving,  \* the session that authenticated the request of a client
  now

vars == <<enabled, phase, owner, ends, last, serving, now>>

Init ==
  /\ enabled = User
  /\ phase = [s \in SessionId |-> "none"]
  /\ owner = [s \in SessionId |-> Nobody]
  /\ ends = [s \in SessionId |-> 0]
  /\ last = [s \in SessionId |-> 0]
  /\ serving = [q \in Client |-> Nobody]
  /\ now = 0

(* A login, whose password was checked at the moment at.                   *)
Open(s, u, at) ==
  /\ phase[s] = "none"
  /\ at <= now
  /\ phase' = [phase EXCEPT ![s] = "open"]
  /\ owner' = [owner EXCEPT ![s] = u]
  /\ ends' = [ends EXCEPT ![s] = at + AbsoluteTTL]
  /\ last' = [last EXCEPT ![s] = at]
  /\ UNCHANGED <<enabled, serving, now>>

Authenticate(q, s) ==
  /\ serving[q] = Nobody
  /\ phase[s] = "open" /\ owner[s] \in enabled
  /\ now < ends[s] /\ now <= last[s] + IdleTimeout
  /\ last' = [last EXCEPT ![s] = now]
  /\ serving' = [serving EXCEPT ![q] = s]
  /\ UNCHANGED <<enabled, phase, owner, ends, now>>

Answer(q) ==
  /\ serving' = [serving EXCEPT ![q] = Nobody]
  /\ UNCHANGED <<enabled, phase, owner, ends, last, now>>

Closing(S) ==
  phase' = [s \in SessionId |-> IF s \in S THEN "closed" ELSE phase[s]]

(* A logout, or a session found idle.                                      *)
Close(s) ==
  /\ phase[s] = "open"
  /\ Closing({s})
  /\ UNCHANGED <<enabled, owner, ends, last, serving, now>>

(* A change of password or a deactivation, the last thing its request does.*)
Revoke(q, u, S, off) ==
  /\ serving[q] # Nobody
  /\ \A s \in S : phase[s] # "none" /\ owner[s] = u
  /\ Closing(S)
  /\ enabled' = IF off THEN enabled \ {u} ELSE enabled
  /\ serving' = [serving EXCEPT ![q] = Nobody]
  /\ UNCHANGED <<owner, ends, last, now>>

Tick == now' = now + 1 /\ UNCHANGED <<enabled, phase, owner, ends, last, serving>>

Next ==
  \/ \E s \in SessionId :
       \/ \E u \in User, at \in 0 .. now : Open(s, u, at)
       \/ Close(s)
  \/ \E q \in Client :
       \/ \E s \in SessionId : Authenticate(q, s)
       \/ Answer(q)
       \/ \E u \in User, S \in SUBSET SessionId, off \in BOOLEAN : Revoke(q, u, S, off)
  \/ Tick

Spec == Init /\ [][Next]_vars
=============================================================================
