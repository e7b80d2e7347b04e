----------------------------- MODULE AuthSession ----------------------------
(***************************************************************************)
(* Login sessions: AuthService.login, verify_session, logout, update_user  *)
(* and disable_user over the tables users and auth_sessions.               *)
(*                                                                         *)
(* Every authenticated handler first runs verify_session in its own        *)
(* database session.  That writes last_seen_at with a flush, which takes   *)
(* the lock of the auth_sessions row until the handler ends, and which     *)
(* survives only if the handler commits.  The variables are the committed  *)
(* tables; job[q] is what the running transaction of q read or wrote.  The *)
(* audit events these transactions insert are left out: no handler reads   *)
(* them and no property below tells them apart.                            *)
(***************************************************************************)
EXTENDS Naturals, FiniteSets

CONSTANTS
  Request,      \* handlers that run concurrently
  User,
  SessionId,    \* primary keys of auth_sessions, in the order of the index
  IdleTimeout,  \* SESSION_IDLE_TIMEOUT_MINUTES (30)
  AbsoluteTTL,  \* SESSION_ABSOLUTE_TTL_MINUTES (480)
  MaxClock,     \* bound: instants
  None          \* NULL

ASSUME SessionAssumption ==
  /\ IdleTimeout \in Nat /\ AbsoluteTTL \in Nat
  /\ MaxClock \in Nat
  /\ SessionId \subseteq Nat
  /\ None \notin Request \cup User \cup SessionId \cup Nat

VARIABLES
  active,    \* User.is_active
  session,   \* rows of auth_sessions
  used,      \* history: when a session last authenticated a request
  clock,     \* datetime.now(utc)
  pc, job,
  reply      \* what the last step answered to whom

tables == <<active, session>>
vars == <<tables, used, clock, pc, job, reply>>

-----------------------------------------------------------------------------
(* Rows and positions.                                                     *)

NoSession == [user |-> None, expires |-> 0, seen |-> 0, revoked |-> FALSE]
SessionRow ==
  [user : User \cup {None}, expires : Nat, seen : 0 .. MaxClock,
   revoked : BOOLEAN]  \* revoked_at IS NOT NULL

Exists(s) == session[s] # NoSession
Live(s) == Exists(s) /\ ~session[s].revoked

NoJob == [session |-> None, op |-> None, target |-> None,
          stamp |-> 0, todo |-> {}, held |-> {}, writesUser |-> FALSE]

(* What an authenticated handler does next: read only, commit something    *)
(* else, change only the display_name of a user, or revoke his sessions.   *)
Revoking == {"password", "disable"}
Editing == {"rename"} \cup Revoking
Op == {"read", "write"} \cup Editing

Steps == {"idle", "login", "login_commit", "expire", "touch", "work",
          "lock_user", "lock_sessions", "logout"}

(* Positions in which a principal has been established for the request.    *)
Authenticated(q) == pc[q] \in {"touch", "work", "lock_user", "lock_sessions"}

Goto(q, step, work) ==
  /\ pc' = [pc EXCEPT ![q] = step]
  /\ job' = [job EXCEPT ![q] = work]
  /\ reply' = [r \in Request |-> "none"]

Finish(q, answer) ==
  /\ pc' = [pc EXCEPT ![q] = "idle"]
  /\ job' = [job EXCEPT ![q] = NoJob]
  /\ reply' = [r \in Request |-> IF r = q THEN answer ELSE "none"]

-----------------------------------------------------------------------------
(* Locks.                                                                  *)

HoldsSession(q, s) ==
  \/ pc[q] \in {"work", "lock_user", "lock_sessions"} /\ job[q].session = s
  \/ s \in job[q].held

HoldsUser(q, u) ==
  \/ pc[q] = "login_commit" /\ job[q].target = u
  \/ pc[q] = "lock_sessions" /\ job[q].target = u /\ job[q].writesUser

(* Fault: last_seen_at is not flushed, so no lock is taken.                *)
SessionUnlocked_NoFlush(q, s) == TRUE

SessionUnlocked(q, s) == \A r \in Request \ {q} : ~HoldsSession(r, s)
UserUnlocked(q, u) == \A r \in Request \ {q} : ~HoldsUser(r, u)

(* The flush updates the rows of a table in the order of their keys.       *)
IsNext(q, s) == s \in job[q].todo /\ \A t \in job[q].todo : s <= t

(* q waits for a lock that r holds.                                        *)
WaitsFor(q, r) ==
  /\ q # r
  /\ \/ pc[q] \in {"touch", "expire", "logout"} /\ HoldsSession(r, job[q].session)
     \/ pc[q] = "login" /\ HoldsUser(r, job[q].target)
     \/ /\ \/ pc[q] = "lock_user" /\ job[q].writesUser
           \/ pc[q] = "work" /\ job[q].op = "rename"
        /\ HoldsUser(r, job[q].target)
     \/ \E s \in job[q].todo :
          pc[q] = "lock_sessions" /\ IsNext(q, s) /\ HoldsSession(r, s)

-----------------------------------------------------------------------------
(* login.  The user is read and the password checked (verified says with   *)
(* which result); then the session is inserted and last_login_at updated,  *)
(* which locks the row of the user.                                        *)

(* Bound: there is a session row left for each login under way.            *)
RoomForLogin ==
  Cardinality({r \in Request : pc[r] \in {"login", "login_commit"}})
    < Cardinality({s \in SessionId : ~Exists(s)})

StartLogin(q, u, verified) ==
  /\ pc[q] = "idle"
  /\ RoomForLogin
  /\ IF active[u] /\ verified
       THEN Goto(q, "login", [NoJob EXCEPT !.target = u, !.stamp = clock])
       ELSE Finish(q, "unauthorized")
  /\ UNCHANGED <<tables, used, clock>>

UpdateLastLogin(q) ==
  /\ pc[q] = "login"
  /\ UserUnlocked(q, job[q].target)
  /\ Goto(q, "login_commit", job[q])
  /\ UNCHANGED <<tables, used, clock>>

CommitLogin(q, s) ==
  /\ pc[q] = "login_commit"
  /\ ~Exists(s)
  /\ session' = [session EXCEPT ![s] =
       [user |-> job[q].target,
        expires |-> job[q].stamp + AbsoluteTTL, seen |-> job[q].stamp,
        revoked |-> FALSE]]
  /\ used' = [used EXCEPT ![s] = job[q].stamp]
  /\ Finish(q, "none")
  /\ UNCHANGED <<active, clock>>

-----------------------------------------------------------------------------
(* verify_session, and the beginning of every authenticated handler.       *)

(* Fault: the user is not looked up.                                       *)
Verdict_NoUserCheck(s) ==
  IF ~Live(s) \/ session[s].expires <= clock THEN "refuse"
  ELSE IF clock > session[s].seen + IdleTimeout THEN "expire"
  ELSE "accept"

Verdict(s) ==
  IF ~Live(s) \/ session[s].expires <= clock THEN "refuse"
  ELSE IF clock > session[s].seen + IdleTimeout THEN "expire"
  ELSE IF ~active[session[s].user] THEN "refuse"
  ELSE "accept"

(* The checks read the row without a lock; target is the user whose row    *)
(* the handler writes, himself or another, None for other handlers.        *)
StartRequest(q, s, op, target) ==
  LET verified == [NoJob EXCEPT !.session = s, !.stamp = clock]
      work == [verified EXCEPT !.op = op, !.target = target]
  IN  /\ pc[q] = "idle"
      /\ target # None <=> op \in Editing
      /\ CASE Verdict(s) = "refuse" -> Finish(q, "unauthorized") /\ UNCHANGED used
           [] Verdict(s) = "expire" -> Goto(q, "expire", verified) /\ UNCHANGED used
           [] Verdict(s) = "accept" -> /\ Goto(q, "touch", work)
                                       /\ used' = [used EXCEPT ![s] = clock]
      /\ UNCHANGED <<tables, clock>>

ExpireSession(q) ==
  /\ pc[q] = "expire"
  /\ SessionUnlocked(q, job[q].session)
  /\ session' = [session EXCEPT ![job[q].session].revoked = TRUE]
  /\ Finish(q, "unauthorized")
  /\ UNCHANGED <<active, used, clock>>

(* Fault: plain handlers update the row of the user as well.               *)
Touch_AlsoUser(q) ==
  /\ pc[q] = "touch"
  /\ SessionUnlocked(q, job[q].session)
  /\ IF job[q].op \in Editing
       THEN Goto(q, "work", job[q])
       ELSE Goto(q, "lock_user", [job[q] EXCEPT
              !.writesUser = TRUE, !.target = session[job[q].session].user])
  /\ UNCHANGED <<tables, used, clock>>

(* The flush of last_seen_at.                                              *)
Touch(q) ==
  /\ pc[q] = "touch"
  /\ SessionUnlocked(q, job[q].session)
  /\ Goto(q, "work", job[q])
  /\ UNCHANGED <<tables, used, clock>>

-----------------------------------------------------------------------------
(* The handler proper.                                                     *)

(* A handler that only reads never commits: its last_seen_at is lost.      *)
EndRead(q) ==
  /\ pc[q] = "work" /\ job[q].op = "read"
  /\ Finish(q, "done")
  /\ UNCHANGED <<tables, used, clock>>

(* Fault: the row is written as it was read before the lock was granted.   *)
Seen_StaleRow(q) ==
  [session EXCEPT ![job[q].session].seen = job[q].stamp,
                  ![job[q].session].revoked = FALSE]

(* auth_sessions once the work of q is committed: one column changes.      *)
Seen(q) == [session EXCEPT ![job[q].session].seen = job[q].stamp]

(* update_user with a display_name and no password updates the row of the  *)
(* user just before it commits, and waits for it under the session lock.   *)
CommitWrite(q) ==
  /\ pc[q] = "work" /\ job[q].op \in {"write", "rename"}
  /\ job[q].op = "rename" => UserUnlocked(q, job[q].target)
  /\ session' = Seen(q)
  /\ Finish(q, "done")
  /\ UNCHANGED <<active, used, clock>>

(* Fault: who changes his own password keeps the session he does it in.    *)
LiveSessions_KeepsOwn(q) ==
  {s \in SessionId : /\ Live(s) /\ session[s].user = job[q].target
                     /\ s # job[q].session}

LiveSessions(q) ==
  {s \in SessionId : Live(s) /\ session[s].user = job[q].target}

(* update_user with a password, disable_user: the user is read, the live   *)
(* sessions are selected, then one flush updates the user and each session *)
(* (a user who was read as inactive is not updated again).                 *)
SelectSessions(q) ==
  /\ pc[q] = "work" /\ job[q].op \in Revoking
  /\ Goto(q, "lock_user", [job[q] EXCEPT
       !.todo = LiveSessions(q),
       !.writesUser = job[q].op = "password" \/ active[job[q].target]])
  /\ UNCHANGED <<tables, used, clock>>

LockUser(q) ==
  /\ pc[q] = "lock_user"
  /\ job[q].writesUser => UserUnlocked(q, job[q].target)
  /\ Goto(q, "lock_sessions", job[q])
  /\ UNCHANGED <<tables, used, clock>>

LockSession(q, s) ==
  /\ pc[q] = "lock_sessions"
  /\ IsNext(q, s)
  /\ SessionUnlocked(q, s)
  /\ Goto(q, "lock_sessions", [job[q] EXCEPT !.todo = job[q].todo \ {s},
                                             !.held = job[q].held \cup {s}])
  /\ UNCHANGED <<tables, used, clock>>

Revoked(q, table) ==
  [s \in SessionId |->
     IF s \in job[q].held THEN [table[s] EXCEPT !.revoked = TRUE] ELSE table[s]]

CommitRevocation(q) ==
  LET u == job[q].target
  IN  /\ pc[q] = "lock_sessions" /\ job[q].todo = {}
      /\ session' = Revoked(q, Seen(q))
      /\ IF job[q].op = "disable"
           THEN active' = [active EXCEPT ![u] = FALSE]
           ELSE UNCHANGED active
      /\ Finish(q, "done")
      /\ UNCHANGED <<used, clock>>

-----------------------------------------------------------------------------
(* logout: the session is read and, unless revoked, revoked.               *)

StartLogout(q, s) ==
  /\ pc[q] = "idle"
  /\ Live(s)
  /\ Goto(q, "logout", [NoJob EXCEPT !.session = s])
  /\ UNCHANGED <<tables, used, clock>>

(* Fault: a session that is revoked in the meantime is waited for.         *)
CommitLogout_Insists(q) ==
  LET s == job[q].session
  IN  /\ pc[q] = "logout"
      /\ SessionUnlocked(q, s)
      /\ Live(s)
      /\ session' = [session EXCEPT ![s].revoked = TRUE]
      /\ Finish(q, "none")
      /\ UNCHANGED <<active, used, clock>>

CommitLogout(q) ==
  LET s == job[q].session
  IN  /\ pc[q] = "logout"
      /\ SessionUnlocked(q, s)
      /\ session' = [session EXCEPT ![s].revoked = TRUE]
      /\ Finish(q, "none")
      /\ UNCHANGED <<active, used, clock>>

-----------------------------------------------------------------------------
(* The transaction of q is lost with its handler or connection.            *)
Rollback(q) ==
  /\ pc[q] # "idle"
  /\ Finish(q, "none")
  /\ UNCHANGED <<tables, used, clock>>

(* A deadlock: q waits, perhaps through others, for itself.                *)
Deadlocked(q) ==
  \E n \in 1 .. Cardinality(Request) : \E path \in [0 .. n -> Request] :
    /\ path[0] = q /\ path[n] = q
    /\ \A i \in 1 .. n : WaitsFor(path[i - 1], path[i])

(* PostgreSQL breaks a deadlock after deadlock_timeout by aborting one of  *)
(* the transactions; its handler answers 500.                              *)
DeadlockAbort(q) ==
  /\ Deadlocked(q)
  /\ Finish(q, "deadlock")
  /\ UNCHANGED <<tables, used, clock>>

Tick ==
  /\ clock < MaxClock
  /\ clock' = clock + 1
  /\ UNCHANGED <<tables, used, pc, job, reply>>

-----------------------------------------------------------------------------
Init ==
  /\ active = [u \in User |-> TRUE]
  /\ session = [s \in SessionId |-> NoSession]
  /\ used = [s \in SessionId |-> 0]
  /\ clock = 0
  /\ pc = [q \in Request |-> "idle"]
  /\ job = [q \in Request |-> NoJob]
  /\ reply = [q \in Request |-> "none"]

Login(q) ==
  \/ \E u \in User, verified \in BOOLEAN : StartLogin(q, u, verified)
  \/ UpdateLastLogin(q)
  \/ \E s \in SessionId : CommitLogin(q, s)

Serve(q) ==
  \/ \E s \in SessionId, op \in Op, target \in User \cup {None} :
       StartRequest(q, s, op, target)
  \/ ExpireSession(q) \/ Touch(q) \/ EndRead(q) \/ CommitWrite(q)

Revoke(q) ==
  \/ SelectSessions(q) \/ LockUser(q) \/ \E s \in SessionId : LockSession(q, s)
  \/ CommitRevocation(q)

Logout(q) == (\E s \in SessionId : StartLogout(q, s)) \/ CommitLogout(q)

Next ==
  \/ \E q \in Request : Login(q) \/ Serve(q) \/ Revoke(q) \/ Logout(q)
                          \/ Rollback(q) \/ DeadlockAbort(q)
  \/ Tick

Spec == Init /\ [][Next]_vars

(* The steps of a handler once it runs; at each position just one is left. *)
Continue(q) ==
  \/ UpdateLastLogin(q) \/ \E s \in SessionId : CommitLogin(q, s)
  \/ ExpireSession(q) \/ Touch(q) \/ EndRead(q) \/ CommitWrite(q)
  \/ Revoke(q)
  \/ CommitLogout(q)

(* Handlers run on, locks are granted in order of arrival, and deadlocks   *)
(* are detected.                                                           *)
Fairness ==
  \A q \in Request : SF_vars(Continue(q)) /\ WF_vars(DeadlockAbort(q))

FairSpec == Spec /\ Fairness

-----------------------------------------------------------------------------
(* Properties.                                                             *)

Job ==
  [session : SessionId \cup {None}, op : Op \cup {None},
   target : User \cup {None},
   stamp : 0 .. MaxClock, todo : SUBSET SessionId, held : SUBSET SessionId,
   writesUser : BOOLEAN]

(* Tables, positions and answers have the shape the code gives them.       *)
TypeOK ==
  /\ active \in [User -> BOOLEAN]
  /\ session \in [SessionId -> SessionRow]
  /\ used \in [SessionId -> 0 .. MaxClock]
  /\ clock \in 0 .. MaxClock
  /\ pc \in [Request -> Steps]
  /\ job \in [Request -> Job]
  /\ reply \in [Request -> {"none", "unauthorized", "done", "deadlock"}]

(* The idle limit counts from the last request a session authenticated: no *)
(* concurrent commit of an older or newer last_seen_at lets a session      *)
(* authenticate a request more than the limit after the one before, or     *)
(* after its absolute end.                                                 *)
IdleWindowIsFromUse ==
  [][\A s \in SessionId :
       Exists(s) /\ used'[s] # used[s] =>
         clock <= used[s] + IdleTimeout /\ clock < session[s].expires]_vars

(* A revoked session stays revoked, whatever a handler that read it before *)
(* writes afterwards, and a session never changes hands or is prolonged.   *)
RevokedForGood ==
  [][\A s \in SessionId :
       Exists(s) =>
         /\ session[s].revoked => session'[s].revoked
         /\ session'[s] = [session[s] EXCEPT !.seen = session'[s].seen,
                                             !.revoked = session'[s].revoked]]_vars

(* Nobody revokes a session under a handler that is working with it: a     *)
(* logout, a password change or a deactivation waits until it has ended.   *)
WorkKeepsItsSession ==
  [][\A s \in SessionId :
       Live(s) /\ session'[s].revoked =>
         \A q \in Request :
           /\ pc[q] \in {"work", "lock_user", "lock_sessions"}
           /\ job[q].session = s
           => pc'[q] = "idle"]_vars

(* From the moment disable_user commits, no further request is served for  *)
(* the user, not even through a session a concurrent login opened behind   *)
(* its back, and he is never active again.                                 *)
ServedFor(u) ==
  {q \in Request : Authenticated(q) /\ session[job[q].session].user = u}

DisabledUsersGainNothing ==
  [][\A u \in User :
       ~active[u] => ~active'[u] /\ ServedFor(u)' \subseteq ServedFor(u)]_vars

(* Over the rows of users and auth_sessions, the deadlock detection aborts *)
(* only handlers that edit a user: password changes, deactivations, and a  *)
(* change of display_name that waits for one of these of the same user.    *)
(* The flush of last_seen_at never costs any other handler its             *)
(* transaction, nor a login or a logout.                                   *)
OnlyUserEditsDeadlock ==
  \A q \in Request :
    Deadlocked(q) =>
      \/ job[q].op \in Revoking
      \/ /\ job[q].op = "rename"
         /\ \E r \in Request : /\ WaitsFor(q, r) /\ job[r].op \in Revoking
                               /\ job[r].target = job[q].target

(* Every handler ends, deadlocks between administrators included.          *)
EveryRequestEnds ==
  \A q \in Request : pc[q] # "idle" ~> pc[q] = "idle"

(* authentication.md: a session is closed as idle only when nobody used it *)
(* for the limit.  See the README.                                         *)
ExpiryIsForInactivity ==
  \A q \in Request :
    pc[q] = "expire" => job[q].stamp > used[job[q].session] + IdleTimeout

-----------------------------------------------------------------------------
(* Seen from outside, sessions are opened, used and closed.                *)

Phase(s) ==
  IF ~Exists(s) THEN "none" ELSE IF session[s].revoked THEN "closed" ELSE "open"

Lifecycle == INSTANCE SessionLifecycle WITH
  Client <- Request,
  Nobody <- None,
  enabled <- {u \in User : active[u]},
  phase <- [s \in SessionId |-> Phase(s)],
  owner <- [s \in SessionId |-> session[s].user],
  ends <- [s \in SessionId |-> session[s].expires],
  last <- used,
  serving <- [q \in Request |-> IF Authenticated(q) THEN job[q].session ELSE None],
  now <- clock

(* Whatever the transactions of handlers read, overwrite, revoke or lose,  *)
(* together they do nothing to users and sessions but what SessionLifecycle*)
(* allows: a session that was closed, ended, unused for too long or of a   *)
(* disabled user authenticates no request, and nothing brings it back.     *)
ImplementsLifecycle == Lifecycle!Spec
=============================================================================
