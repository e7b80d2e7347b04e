-------------------------- MODULE AuthSessionProofs -------------------------
(***************************************************************************)
(* Proofs about AuthSession, for any number of requests, users, sessions   *)
(* and any limits.                                                         *)
(***************************************************************************)
EXTENDS AuthSessionHistory, TLAPS

(* What a handler knows at each of its positions.                          *)
PositionInv ==
  \A q \in Request :
    /\ pc[q] \in {"expire", "touch", "work", "lock_user", "lock_sessions", "logout"} =>
         job[q].session \in SessionId /\ Exists(job[q].session)
    /\ pc[q] \in {"login", "login_commit"} => job[q].target \in User
    /\ pc[q] \in {"lock_user", "lock_sessions"} => job[q].op \in Revoking
    /\ Authenticated(q) /\ job[q].op \in Revoking => job[q].target \in User
    /\ job[q].held # {} => pc[q] = "lock_sessions"
    /\ \A s \in job[q].todo \cup job[q].held : Exists(s)
    /\ Authenticated(q) => job[q].stamp <= used[job[q].session]
    /\ pc[q] # "idle" => job[q].stamp <= clock

(* A row of auth_sessions is locked by one handler at a time.              *)
LockInv ==
  \A q, r \in Request : \A s \in SessionId :
    HoldsSession(q, s) /\ HoldsSession(r, s) => q = r

(* A session belongs to a user, and what it stores as its last use is not  *)
(* later than its last use.                                                *)
RowInv ==
  \A s \in SessionId :
    /\ Exists(s) => session[s].user \in User
    /\ Exists(s) => session[s].seen <= used[s]
    /\ used[s] <= clock

Inv == TypeOK /\ PositionInv /\ LockInv /\ RowInv

-----------------------------------------------------------------------------
LEMMA NoJobType == NoJob \in Job
  BY SessionAssumption DEF NoJob, Job

LEMMA NoSessionType == NoSession \in SessionRow /\ NoSession.user \notin User
  BY SessionAssumption DEF NoSession, SessionRow

LEMMA InitInv == Init => Inv
  <1> SUFFICES ASSUME Init PROVE Inv
    OBVIOUS
  <1> USE DEF Init
  <1>1. TypeOK
    <2>1. "idle" \in Steps
      BY DEF Steps
    <2>2. QED
      BY <2>1, NoJobType, NoSessionType, SessionAssumption DEF TypeOK
  <1>2. PositionInv
    BY DEF PositionInv, Authenticated, NoJob
  <1>3. LockInv
    BY DEF LockInv, HoldsSession, NoJob
  <1>4. RowInv
    BY SessionAssumption DEF RowInv, Exists
  <1>5. QED
    BY <1>1, <1>2, <1>3, <1>4 DEF Inv

(* A request that ends, whatever it commits, as long as rows stay rows and *)
(* stored times do not pass the use of their session.                      *)
LEMMA FinishKeeps ==
  ASSUME Inv, NEW q \in Request,
         NEW answer \in {"none", "unauthorized", "done", "deadlock"}, Finish(q, answer),
         active' \in [User -> BOOLEAN],
         session' \in [SessionId -> SessionRow],
         used' \in [SessionId -> 0 .. MaxClock],
         UNCHANGED clock,
         \A s \in SessionId :
           /\ Exists(s) => session'[s] # NoSession /\ used'[s] = used[s]
           /\ session'[s] # NoSession =>
                session'[s].user \in User /\ session'[s].seen <= used'[s]
           /\ used'[s] <= clock
  PROVE  Inv'
  <1>1. TypeOK'
    <2>1. "idle" \in Steps
      BY DEF Steps
    <2>2. QED
      BY <2>1, NoJobType DEF Inv, TypeOK, Finish
  <1>2. \A r \in Request :
          /\ pc'[r] = IF r = q THEN "idle" ELSE pc[r]
          /\ job'[r] = IF r = q THEN NoJob ELSE job[r]
    BY DEF Inv, TypeOK, Finish
  <1>3. PositionInv'
    <2>1. \A r \in Request : job[r].todo \cup job[r].held \subseteq SessionId
      BY DEF Inv, TypeOK, Job
    <2>2. \A r \in Request : \A s \in job'[r].todo \cup job'[r].held : Exists(s)'
      BY <1>2, <2>1 DEF Inv, PositionInv, Exists, NoJob
    <2>3. QED
      BY <1>2, <2>2 DEF Inv, PositionInv, Authenticated, Exists, NoJob
  <1>4. LockInv'
    BY <1>2 DEF Inv, LockInv, HoldsSession, NoJob
  <1>5. RowInv'
    BY DEF Inv, RowInv, Exists
  <1>6. QED
    BY <1>1, <1>3, <1>4, <1>5 DEF Inv

LEMMA FinishIdle ==
  ASSUME Inv, NEW q \in Request,
         NEW answer \in {"none", "unauthorized", "done", "deadlock"}, Finish(q, answer),
         UNCHANGED <<tables, used, clock>>
  PROVE  Inv'
  <1>1. /\ active' \in [User -> BOOLEAN]
        /\ session' \in [SessionId -> SessionRow]
        /\ used' \in [SessionId -> 0 .. MaxClock]
    BY DEF Inv, TypeOK, tables
  <1>2. \A s \in SessionId :
           /\ Exists(s) => session'[s] # NoSession /\ used'[s] = used[s]
           /\ session'[s] # NoSession =>
                session'[s].user \in User /\ session'[s].seen <= used'[s]
           /\ used'[s] <= clock
    BY DEF Inv, RowInv, Exists, tables
  <1>3. QED
    BY <1>1, <1>2, FinishKeeps

(* A request that moves on: what it has to know in its new position.       *)
LEMMA GotoKeeps ==
  ASSUME Inv, NEW q \in Request, NEW step \in Steps \ {"idle"}, NEW work \in Job,
         Goto(q, step, work),
         UNCHANGED <<tables, clock>>,
         used' \in [SessionId -> 0 .. MaxClock],
         \A s \in SessionId : used[s] <= used'[s] /\ used'[s] <= clock,
         step \in {"expire", "touch", "work", "lock_user", "lock_sessions", "logout"} =>
           work.session \in SessionId /\ Exists(work.session),
         step \in {"login", "login_commit"} => work.target \in User,
         step \in {"lock_user", "lock_sessions"} => work.op \in Revoking,
         step \in {"touch", "work", "lock_user", "lock_sessions"} =>
           /\ work.op \in Revoking => work.target \in User
           /\ work.stamp <= used'[work.session],
         work.held # {} => step = "lock_sessions",
         \A s \in work.todo \cup work.held : Exists(s),
         work.stamp <= clock,
         \A r \in Request \ {q} : \A s \in SessionId :
           HoldsSession(r, s) =>
             /\ s \notin work.held
             /\ step \in {"work", "lock_user", "lock_sessions"} => work.session # s
  PROVE  Inv'
  <1>1. TypeOK'
    BY DEF Inv, TypeOK, Goto, tables
  <1>2. \A r \in Request :
          /\ pc'[r] = IF r = q THEN step ELSE pc[r]
          /\ job'[r] = IF r = q THEN work ELSE job[r]
    BY DEF Inv, TypeOK, Goto
  <1>3. PositionInv'
    <2>1. ASSUME NEW r \in Request \ {q}, Authenticated(r)
          PROVE  job[r].stamp <= used'[job[r].session]
      <3>1. /\ job[r].session \in SessionId /\ job[r].stamp \in Nat
            /\ job[r].stamp <= used[job[r].session]
        BY <2>1, SessionAssumption DEF Inv, PositionInv, TypeOK, Job, Authenticated
      <3>2. \A s \in SessionId : used[s] \in Nat /\ used'[s] \in Nat
        BY SessionAssumption DEF Inv, TypeOK
      <3>3. used[job[r].session] <= used'[job[r].session]
        BY <3>1
      <3>4. QED
        BY <3>1, <3>2, <3>3
    <2>2. QED
      BY <1>2, <2>1 DEF Inv, PositionInv, Authenticated, Exists, tables
  <1>4. LockInv'
    BY <1>2 DEF Inv, LockInv, HoldsSession
  <1>5. RowInv'
    <2>1. ASSUME NEW s \in SessionId, Exists(s)
          PROVE  session[s].seen <= used'[s]
      <3>1. session[s].seen \in Nat /\ used[s] \in Nat /\ used'[s] \in Nat
        BY SessionAssumption DEF Inv, TypeOK, SessionRow
      <3>2. QED
        BY <2>1, <3>1 DEF Inv, RowInv
    <2>2. QED
      BY <2>1 DEF Inv, RowInv, Exists, tables
  <1>6. QED
    BY <1>1, <1>3, <1>4, <1>5 DEF Inv

(* The common case: the history of uses does not change either.            *)
LEMMA UsedUnchanged ==
  ASSUME Inv, UNCHANGED <<used, clock>>
  PROVE  /\ used' \in [SessionId -> 0 .. MaxClock]
         /\ \A s \in SessionId : used[s] <= used'[s] /\ used'[s] <= clock
  <1>1. \A s \in SessionId : used[s] \in Nat
    BY SessionAssumption DEF Inv, TypeOK
  <1>2. QED
    BY <1>1 DEF Inv, TypeOK, RowInv

(* A request keeps what it knows and the locks it has.                     *)
LEMMA HeldByOne ==
  ASSUME Inv, NEW q \in Request, NEW r \in Request \ {q}, NEW s \in SessionId,
         HoldsSession(r, s)
  PROVE  /\ s \notin job[q].held
         /\ pc[q] \in {"work", "lock_user", "lock_sessions"} => job[q].session # s
  BY DEF Inv, LockInv, HoldsSession

-----------------------------------------------------------------------------
(* login and logout.                                                       *)

LEMMA StartLoginInv ==
  ASSUME Inv, NEW q \in Request, NEW u \in User, NEW ok \in BOOLEAN, StartLogin(q, u, ok)
  PROVE  Inv'
  <1> DEFINE work == [NoJob EXCEPT !.target = u, !.stamp = clock]
  <1>1. CASE Finish(q, "unauthorized")
    BY <1>1, FinishIdle DEF StartLogin
  <1>2. CASE Goto(q, "login", work)
    <2>1. /\ work \in Job /\ work.target = u /\ work.todo = {} /\ work.held = {}
          /\ "login" \in Steps \ {"idle"}
      BY NoJobType DEF Inv, TypeOK, NoJob, Job, Steps
    <2>2. work.stamp <= clock
      BY SessionAssumption DEF Inv, TypeOK, NoJob
    <2>3. UNCHANGED <<tables, used, clock>>
      BY DEF StartLogin
    <2> HIDE DEF work
    <2>4. QED
      BY <1>2, <2>1, <2>2, <2>3, UsedUnchanged, GotoKeeps
  <1>3. QED
    BY <1>1, <1>2 DEF StartLogin

LEMMA UpdateLastLoginInv ==
  ASSUME Inv, NEW q \in Request, UpdateLastLogin(q)
  PROVE  Inv'
  <1>1. /\ pc[q] = "login" /\ Goto(q, "login_commit", job[q])
        /\ UNCHANGED <<tables, used, clock>>
    BY DEF UpdateLastLogin
  <1>2. /\ job[q] \in Job /\ job[q].target \in User /\ job[q].held = {}
        /\ \A s \in job[q].todo \cup job[q].held : Exists(s)
        /\ job[q].stamp <= clock
        /\ "login_commit" \in Steps \ {"idle"}
    BY <1>1 DEF Inv, TypeOK, PositionInv, Steps
  <1>3. QED
    BY <1>1, <1>2, UsedUnchanged, GotoKeeps

LEMMA CommitLoginInv ==
  ASSUME Inv, NEW q \in Request, NEW s \in SessionId, CommitLogin(q, s)
  PROVE  Inv'
  <1> DEFINE row == [user |-> job[q].target, expires |-> job[q].stamp + AbsoluteTTL,
                     seen |-> job[q].stamp, revoked |-> FALSE]
  <1>1. /\ ~Exists(s)
        /\ session' = [session EXCEPT ![s] = row]
        /\ used' = [used EXCEPT ![s] = job[q].stamp]
        /\ Finish(q, "none")
        /\ UNCHANGED <<active, clock>>
    BY DEF CommitLogin
  <1>2. job[q].target \in User /\ job[q].stamp \in 0 .. MaxClock
    BY DEF Inv, TypeOK, PositionInv, Job, CommitLogin
  <1>3. /\ row \in SessionRow /\ row.user \in User /\ row.seen = job[q].stamp
        /\ row # NoSession
    BY <1>2, SessionAssumption DEF SessionRow, NoSession
  <1>4. job[q].stamp <= clock
    BY DEF Inv, PositionInv, CommitLogin
  <1> HIDE DEF row
  <1>5. /\ active' \in [User -> BOOLEAN] /\ session' \in [SessionId -> SessionRow]
        /\ used' \in [SessionId -> 0 .. MaxClock]
    BY <1>1, <1>2, <1>3 DEF Inv, TypeOK
  <1>6. ASSUME NEW t \in SessionId
        PROVE  /\ Exists(t) => session'[t] # NoSession /\ used'[t] = used[t]
               /\ session'[t] # NoSession =>
                    session'[t].user \in User /\ session'[t].seen <= used'[t]
               /\ used'[t] <= clock
    <2>1. CASE t = s
      <3>1. session'[t] = row /\ used'[t] = job[q].stamp /\ job[q].stamp \in Nat
        BY <1>1, <1>2, <2>1, SessionAssumption DEF Inv, TypeOK
      <3>2. QED
        BY <1>1, <1>3, <1>4, <2>1, <3>1
    <2>2. CASE t # s
      BY <1>1, <2>2 DEF Inv, TypeOK, RowInv, Exists
    <2>3. QED
      BY <2>1, <2>2
  <1>7. QED
    BY <1>1, <1>5, <1>6, FinishKeeps

(* A request that ends with updates of rows that are there.                *)
UpdatedRow(s, row) ==
  \/ row = session[s]
  \/ /\ Exists(s)
     /\ \E seen \in 0 .. MaxClock, revoked \in BOOLEAN :
          /\ seen <= used[s]
          /\ row = [session[s] EXCEPT !.seen = seen, !.revoked = revoked]

LEMMA UpdateKeeps ==
  ASSUME Inv, NEW q \in Request,
         NEW answer \in {"none", "unauthorized", "done", "deadlock"}, Finish(q, answer),
         UNCHANGED <<used, clock>>, active' \in [User -> BOOLEAN],
         NEW table, session' = [s \in SessionId |-> table[s]],
         \A s \in SessionId : UpdatedRow(s, table[s])
  PROVE  Inv'
  <1>1. ASSUME NEW s \in SessionId
        PROVE  /\ session'[s] \in SessionRow
               /\ Exists(s) => session'[s] # NoSession
               /\ session'[s] # NoSession =>
                    session'[s].user \in User /\ session'[s].seen <= used[s]
    <2>1. session'[s] = table[s] /\ session[s] \in SessionRow
      BY DEF Inv, TypeOK
    <2>2. CASE table[s] = session[s]
      BY <2>1, <2>2 DEF Inv, RowInv, Exists
    <2>3. CASE table[s] # session[s]
      <3>1. Exists(s) /\ session[s].user \in User
        BY <2>3 DEF UpdatedRow, Inv, RowInv
      <3>2. PICK seen \in 0 .. MaxClock, revoked \in BOOLEAN :
              /\ seen <= used[s]
              /\ table[s] = [session[s] EXCEPT !.seen = seen, !.revoked = revoked]
        BY <2>3 DEF UpdatedRow
      <3>3. /\ table[s] \in SessionRow /\ table[s].user = session[s].user
            /\ table[s].seen = seen
        BY <2>1, <3>2 DEF SessionRow
      <3>4. table[s] # NoSession
        BY <3>1, <3>3, NoSessionType
      <3>5. QED
        BY <2>1, <3>1, <3>2, <3>3, <3>4
    <2>4. QED
      BY <2>2, <2>3
  <1>2. session' \in [SessionId -> SessionRow]
    BY <1>1
  <1>3. used' \in [SessionId -> 0 .. MaxClock] /\ \A s \in SessionId : used'[s] <= clock
    BY UsedUnchanged
  <1>4. QED
    BY <1>1, <1>2, <1>3, FinishKeeps

LEMMA StartLogoutInv ==
  ASSUME Inv, NEW q \in Request, NEW s \in SessionId, StartLogout(q, s)
  PROVE  Inv'
  <1> DEFINE work == [NoJob EXCEPT !.session = s]
  <1>1. Goto(q, "logout", work) /\ UNCHANGED <<tables, used, clock>> /\ Exists(s)
    BY DEF StartLogout, Live
  <1>2. /\ work \in Job /\ work.session = s /\ work.todo = {} /\ work.held = {}
        /\ "logout" \in Steps \ {"idle"}
    BY NoJobType DEF Inv, TypeOK, NoJob, Job, Steps
  <1>3. work.stamp <= clock
    BY SessionAssumption DEF Inv, TypeOK, NoJob
  <1> HIDE DEF work
  <1>4. QED
    BY <1>1, <1>2, <1>3, UsedUnchanged, GotoKeeps

(* Revoking one session, and nothing else.                                 *)
LEMMA RevokeOne ==
  ASSUME Inv, NEW q \in Request, NEW s \in SessionId, Exists(s),
         NEW answer \in {"none", "unauthorized", "done", "deadlock"}, Finish(q, answer),
         session' = [session EXCEPT ![s].revoked = TRUE],
         UNCHANGED <<active, used, clock>>
  PROVE  Inv'
  <1> DEFINE table == [t \in SessionId |->
                         IF t = s THEN [session[s] EXCEPT !.revoked = TRUE]
                         ELSE session[t]]
  <1>1. session' = [t \in SessionId |-> table[t]] /\ active' \in [User -> BOOLEAN]
    BY DEF Inv, TypeOK
  <1>2. ASSUME NEW t \in SessionId PROVE UpdatedRow(t, table[t])
    <2>1. CASE t = s
      <3>1. /\ session[s] \in SessionRow /\ session[s].seen \in 0 .. MaxClock
            /\ session[s].seen <= used[s]
        BY DEF Inv, TypeOK, RowInv, SessionRow
      <3>2. table[t] = [session[s] EXCEPT !.seen = session[s].seen, !.revoked = TRUE]
        BY <2>1, <3>1 DEF SessionRow
      <3>3. QED
        BY <2>1, <3>1, <3>2 DEF UpdatedRow
    <2>2. CASE t # s
      BY <2>2 DEF UpdatedRow
    <2>3. QED
      BY <2>1, <2>2
  <1> HIDE DEF table
  <1>3. QED
    BY <1>1, <1>2, UpdateKeeps

LEMMA CommitLogoutInv ==
  ASSUME Inv, NEW q \in Request, CommitLogout(q)
  PROVE  Inv'
  <1>1. job[q].session \in SessionId /\ Exists(job[q].session)
    BY DEF CommitLogout, Inv, PositionInv
  <1>2. QED
    BY <1>1, RevokeOne DEF CommitLogout

-----------------------------------------------------------------------------
(* verify_session and the handlers behind it.                              *)

LEMMA ExpireSessionInv ==
  ASSUME Inv, NEW q \in Request, ExpireSession(q)
  PROVE  Inv'
  <1>1. job[q].session \in SessionId /\ Exists(job[q].session)
    BY DEF ExpireSession, Inv, PositionInv
  <1>2. QED
    BY <1>1, RevokeOne DEF ExpireSession

LEMMA StartRequestInv ==
  ASSUME Inv, NEW q \in Request, NEW s \in SessionId, NEW op \in Op,
         NEW target \in User \cup {None}, StartRequest(q, s, op, target)
  PROVE  Inv'
  <1> DEFINE verified == [NoJob EXCEPT !.session = s, !.stamp = clock]
             work == [verified EXCEPT !.op = op, !.target = target]
  <1>1. UNCHANGED <<tables, clock>> /\ (target # None <=> op \in Editing)
    BY DEF StartRequest
  <1>2. clock \in 0 .. MaxClock /\ clock \in Nat
    BY SessionAssumption DEF Inv, TypeOK
  <1>3. /\ work \in Job /\ work.session = s /\ work.todo = {} /\ work.held = {}
        /\ work.stamp = clock /\ work.op = op /\ work.target = target
        /\ verified \in Job /\ verified.session = s /\ verified.stamp = clock
        /\ verified.todo = {} /\ verified.held = {}
    BY <1>2, NoJobType DEF NoJob, Job
  <1>4. work.op \in Revoking => work.target \in User
    BY <1>1, <1>3 DEF Editing
  <1>5. clock <= clock /\ "touch" \in Steps \ {"idle"} /\ "expire" \in Steps \ {"idle"}
    BY <1>2 DEF Steps
  <1>6. CASE Verdict(s) = "refuse"
    <2>1. Finish(q, "unauthorized") /\ UNCHANGED <<tables, used, clock>>
      BY <1>6 DEF StartRequest
    <2>2. QED
      BY <2>1, FinishIdle
  <1>7. CASE Verdict(s) = "expire"
    <2>1. Goto(q, "expire", verified) /\ UNCHANGED <<used, clock>>
      BY <1>7 DEF StartRequest
    <2>2. Exists(s)
      BY <1>7 DEF Verdict, Live
    <2> HIDE DEF verified, work
    <2>3. QED
      BY <1>1, <1>3, <1>5, <2>1, <2>2, UsedUnchanged, GotoKeeps
  <1>8. CASE Verdict(s) = "accept"
    <2>1. Goto(q, "touch", work) /\ used' = [used EXCEPT ![s] = clock]
      BY <1>8 DEF StartRequest
    <2>2. Exists(s)
      BY <1>8 DEF Verdict, Live
    <2>3. used' \in [SessionId -> 0 .. MaxClock]
      BY <1>2, <2>1 DEF Inv, TypeOK
    <2>4. \A t \in SessionId : used[t] \in Nat /\ used[t] <= clock
      BY SessionAssumption DEF Inv, TypeOK, RowInv
    <2>5. \A t \in SessionId : used[t] <= used'[t] /\ used'[t] <= clock
      BY <1>5, <2>1, <2>4 DEF Inv, TypeOK
    <2>6. used'[s] = clock
      BY <2>1 DEF Inv, TypeOK
    <2> HIDE DEF work
    <2>7. QED
      BY <1>1, <1>3, <1>4, <1>5, <2>1, <2>2, <2>3, <2>5, <2>6, GotoKeeps
  <1>9. QED
    BY <1>6, <1>7, <1>8 DEF Verdict

(* A request that goes on with the same session and the same times.        *)
LEMMA WorkOn ==
  ASSUME Inv, NEW q \in Request, Authenticated(q),
         NEW step \in {"work", "lock_user", "lock_sessions"}, NEW work \in Job,
         Goto(q, step, work), UNCHANGED <<tables, used, clock>>,
         work.session = job[q].session, work.op = job[q].op,
         work.target = job[q].target, work.stamp = job[q].stamp,
         step \in {"lock_user", "lock_sessions"} => work.op \in Revoking,
         work.held # {} => step = "lock_sessions",
         \A s \in work.todo \cup work.held : Exists(s),
         \A r \in Request \ {q} : \A s \in SessionId :
           HoldsSession(r, s) => s \notin work.held /\ work.session # s
  PROVE  Inv'
  <1>1. /\ work.session \in SessionId /\ Exists(work.session)
        /\ work.op \in Revoking => work.target \in User
        /\ work.stamp <= used[work.session]
        /\ work.stamp <= clock
    BY DEF Inv, PositionInv, Authenticated
  <1>2. step \in Steps \ {"idle"} /\ step \notin {"login", "login_commit"}
    BY DEF Steps
  <1>3. QED
    BY <1>1, <1>2, UsedUnchanged, GotoKeeps

LEMMA TouchInv ==
  ASSUME Inv, NEW q \in Request, Touch(q)
  PROVE  Inv'
  <1>1. /\ pc[q] = "touch" /\ Authenticated(q) /\ Goto(q, "work", job[q])
        /\ UNCHANGED <<tables, used, clock>>
    BY DEF Touch, Authenticated
  <1>2. /\ job[q] \in Job /\ job[q].held = {}
        /\ \A s \in job[q].todo \cup job[q].held : Exists(s)
    BY <1>1 DEF Inv, TypeOK, PositionInv
  <1>3. \A r \in Request \ {q} : \A s \in SessionId :
          HoldsSession(r, s) => s \notin job[q].held /\ job[q].session # s
    BY <1>2 DEF Touch, SessionUnlocked
  <1>4. QED
    BY <1>1, <1>2, <1>3, WorkOn

LEMMA EndReadInv ==
  ASSUME Inv, NEW q \in Request, EndRead(q)
  PROVE  Inv'
  BY FinishIdle DEF EndRead

(* The row of a working handler's session, with the time of its start.     *)
LEMMA SeenRow ==
  ASSUME Inv, NEW q \in Request, Authenticated(q), NEW s \in SessionId
  PROVE  /\ UpdatedRow(s, Seen(q)[s])
         /\ UpdatedRow(s, [Seen(q)[s] EXCEPT !.revoked = TRUE])
            \/ ~Exists(s)
  <1>1. /\ job[q].session \in SessionId /\ Exists(job[q].session)
        /\ job[q].stamp \in 0 .. MaxClock /\ job[q].stamp <= used[job[q].session]
    BY DEF Inv, PositionInv, Authenticated, TypeOK, Job
  <1>2. /\ session[s] \in SessionRow /\ session[s].seen \in 0 .. MaxClock
        /\ session[s].revoked \in BOOLEAN
        /\ Exists(s) => session[s].seen <= used[s]
    BY DEF Inv, TypeOK, RowInv, SessionRow
  <1>3. CASE s = job[q].session
    <2>1. Seen(q)[s] = [session[s] EXCEPT !.seen = job[q].stamp]
      BY <1>3 DEF Seen, Inv, TypeOK
    <2>2. /\ Seen(q)[s] = [session[s] EXCEPT !.seen = job[q].stamp,
                                             !.revoked = session[s].revoked]
          /\ [Seen(q)[s] EXCEPT !.revoked = TRUE] =
               [session[s] EXCEPT !.seen = job[q].stamp, !.revoked = TRUE]
      BY <1>2, <2>1 DEF SessionRow
    <2>3. QED
      BY <1>1, <1>2, <1>3, <2>2 DEF UpdatedRow
  <1>4. CASE s # job[q].session
    <2>1. Seen(q)[s] = session[s]
      BY <1>4 DEF Seen, Inv, TypeOK
    <2>2. [Seen(q)[s] EXCEPT !.revoked = TRUE] =
            [session[s] EXCEPT !.seen = session[s].seen, !.revoked = TRUE]
      BY <1>2, <2>1 DEF SessionRow
    <2>3. QED
      BY <1>2, <2>1, <2>2 DEF UpdatedRow
  <1>5. QED
    BY <1>3, <1>4

LEMMA CommitWriteInv ==
  ASSUME Inv, NEW q \in Request, CommitWrite(q)
  PROVE  Inv'
  <1>1. /\ Authenticated(q) /\ session' = Seen(q) /\ Finish(q, "done")
        /\ UNCHANGED <<active, used, clock>>
    BY DEF CommitWrite, Authenticated
  <1> DEFINE table == Seen(q)
  <1>2. session' = [s \in SessionId |-> table[s]] /\ active' \in [User -> BOOLEAN]
    BY <1>1 DEF Inv, TypeOK, Seen
  <1>3. \A s \in SessionId : UpdatedRow(s, table[s])
    BY <1>1, SeenRow
  <1> HIDE DEF table
  <1>4. QED
    BY <1>1, <1>2, <1>3, UpdateKeeps

-----------------------------------------------------------------------------
(* Revoking the sessions of a user.                                        *)

LEMMA SelectSessionsInv ==
  ASSUME Inv, NEW q \in Request, SelectSessions(q)
  PROVE  Inv'
  <1> DEFINE work == [job[q] EXCEPT
               !.todo = LiveSessions(q),
               !.writesUser = job[q].op = "password" \/ active[job[q].target]]
  <1>1. /\ pc[q] = "work" /\ Authenticated(q) /\ job[q].op \in Revoking
        /\ Goto(q, "lock_user", work) /\ UNCHANGED <<tables, used, clock>>
    BY DEF SelectSessions, Authenticated
  <1>2. job[q] \in Job /\ job[q].held = {} /\ active[job[q].target] \in BOOLEAN
    BY <1>1 DEF Inv, TypeOK, PositionInv
  <1>3. /\ work.session = job[q].session /\ work.op = job[q].op
        /\ work.target = job[q].target /\ work.stamp = job[q].stamp
        /\ work.todo = LiveSessions(q)
        /\ work.held = {}
        /\ work \in Job
    BY <1>2 DEF Job, LiveSessions
  <1>4. \A s \in work.todo \cup work.held : Exists(s)
    BY <1>3 DEF Live, LiveSessions
  <1>5. \A r \in Request \ {q} : \A s \in SessionId :
          HoldsSession(r, s) => s \notin work.held /\ work.session # s
    BY <1>1, <1>3, HeldByOne
  <1> HIDE DEF work
  <1>6. QED
    BY <1>1, <1>3, <1>4, <1>5, WorkOn

LEMMA LockUserInv ==
  ASSUME Inv, NEW q \in Request, LockUser(q)
  PROVE  Inv'
  <1>1. /\ pc[q] = "lock_user" /\ Authenticated(q)
        /\ Goto(q, "lock_sessions", job[q]) /\ UNCHANGED <<tables, used, clock>>
    BY DEF LockUser, Authenticated
  <1>2. /\ job[q] \in Job /\ job[q].op \in Revoking
        /\ \A s \in job[q].todo \cup job[q].held : Exists(s)
    BY <1>1 DEF Inv, TypeOK, PositionInv
  <1>3. \A r \in Request \ {q} : \A s \in SessionId :
          HoldsSession(r, s) => s \notin job[q].held /\ job[q].session # s
    BY <1>1, HeldByOne
  <1>4. QED
    BY <1>1, <1>2, <1>3, WorkOn

LEMMA LockSessionInv ==
  ASSUME Inv, NEW q \in Request, NEW t \in SessionId, LockSession(q, t)
  PROVE  Inv'
  <1> DEFINE work == [job[q] EXCEPT !.todo = job[q].todo \ {t},
                                    !.held = job[q].held \cup {t}]
  <1>1. /\ pc[q] = "lock_sessions" /\ Authenticated(q) /\ t \in job[q].todo
        /\ Goto(q, "lock_sessions", work) /\ UNCHANGED <<tables, used, clock>>
        /\ SessionUnlocked(q, t)
    BY DEF LockSession, Authenticated, IsNext
  <1>2. /\ job[q] \in Job /\ job[q].op \in Revoking
        /\ \A s \in job[q].todo \cup job[q].held : Exists(s)
    BY <1>1 DEF Inv, TypeOK, PositionInv
  <1>3. /\ work.session = job[q].session /\ work.op = job[q].op
        /\ work.target = job[q].target /\ work.stamp = job[q].stamp
        /\ work.todo = job[q].todo \ {t} /\ work.held = job[q].held \cup {t}
        /\ work \in Job
    BY <1>2 DEF Job
  <1>4. \A s \in work.todo \cup work.held : Exists(s)
    BY <1>1, <1>2, <1>3
  <1>5. \A r \in Request \ {q} : \A s \in SessionId :
          HoldsSession(r, s) => s \notin work.held /\ work.session # s
    BY <1>1, <1>3, HeldByOne DEF SessionUnlocked
  <1> HIDE DEF work
  <1>6. QED
    BY <1>1, <1>2, <1>3, <1>4, <1>5, WorkOn

LEMMA CommitRevocationInv ==
  ASSUME Inv, NEW q \in Request, CommitRevocation(q)
  PROVE  Inv'
  <1> DEFINE table == [s \in SessionId |->
               IF s \in job[q].held THEN [Seen(q)[s] EXCEPT !.revoked = TRUE]
               ELSE Seen(q)[s]]
  <1>1. /\ Authenticated(q) /\ Finish(q, "done") /\ UNCHANGED <<used, clock>>
        /\ session' = [s \in SessionId |-> table[s]]
    BY DEF CommitRevocation, Authenticated, Revoked
  <1>2. active' \in [User -> BOOLEAN]
    BY DEF CommitRevocation, Inv, TypeOK
  <1>3. ASSUME NEW s \in SessionId PROVE UpdatedRow(s, table[s])
    <2>1. CASE s \in job[q].held
      <3>1. Exists(s)
        BY <2>1 DEF Inv, PositionInv
      <3>2. QED
        BY <1>1, <2>1, <3>1, SeenRow
    <2>2. CASE s \notin job[q].held
      BY <1>1, <2>2, SeenRow
    <2>3. QED
      BY <2>1, <2>2
  <1> HIDE DEF table
  <1>4. QED
    BY <1>1, <1>2, <1>3, UpdateKeeps

-----------------------------------------------------------------------------
LEMMA RollbackInv ==
  ASSUME Inv, NEW q \in Request, Rollback(q) \/ DeadlockAbort(q)
  PROVE  Inv'
  BY FinishIdle DEF Rollback, DeadlockAbort

LEMMA TickInv ==
  ASSUME Inv, Tick
  PROVE  Inv'
  <1>1. /\ clock \in Nat /\ clock < MaxClock /\ clock' = clock + 1
        /\ clock' \in 0 .. MaxClock
        /\ UNCHANGED <<active, session, used, pc, job, reply>>
    BY SessionAssumption DEF Tick, tables, Inv, TypeOK
  <1>2. TypeOK'
    BY <1>1 DEF Inv, TypeOK
  <1>3. PositionInv'
    <2>1. \A q \in Request : job[q].stamp \in Nat
      BY SessionAssumption DEF Inv, TypeOK, Job
    <2>2. \A q \in Request : pc[q] # "idle" => job[q].stamp <= clock'
      BY <1>1, <2>1 DEF Inv, PositionInv
    <2>3. QED
      BY <1>1, <2>2 DEF Inv, PositionInv, Authenticated, Exists
  <1>4. LockInv'
    BY <1>1 DEF Inv, LockInv, HoldsSession
  <1>5. RowInv'
    <2>1. \A s \in SessionId : used[s] \in Nat
      BY SessionAssumption DEF Inv, TypeOK
    <2>2. \A s \in SessionId : used[s] <= clock'
      BY <1>1, <2>1 DEF Inv, RowInv
    <2>3. QED
      BY <1>1, <2>2 DEF Inv, RowInv, Exists
  <1>6. QED
    BY <1>2, <1>3, <1>4, <1>5 DEF Inv

LEMMA StutterInv == Inv /\ UNCHANGED vars => Inv'
  BY DEF Inv, vars, tables, TypeOK, PositionInv, LockInv, RowInv,
         Authenticated, Exists, HoldsSession

LEMMA NextInv == Inv /\ [Next]_vars => Inv'
  <1> SUFFICES ASSUME Inv, [Next]_vars PROVE Inv'
    OBVIOUS
  <1>1. ASSUME NEW q \in Request, Login(q) PROVE Inv'
    BY <1>1, StartLoginInv, UpdateLastLoginInv, CommitLoginInv DEF Login
  <1>2. ASSUME NEW q \in Request, Serve(q) PROVE Inv'
    BY <1>2, StartRequestInv, ExpireSessionInv, TouchInv, EndReadInv, CommitWriteInv
       DEF Serve
  <1>3. ASSUME NEW q \in Request, Revoke(q) PROVE Inv'
    BY <1>3, SelectSessionsInv, LockUserInv, LockSessionInv, CommitRevocationInv
       DEF Revoke
  <1>4. ASSUME NEW q \in Request, Logout(q) PROVE Inv'
    BY <1>4, StartLogoutInv, CommitLogoutInv DEF Logout
  <1>5. QED
    BY <1>1, <1>2, <1>3, <1>4, RollbackInv, TickInv, StutterInv DEF Next

LEMMA InvAlways == Spec => []Inv
  BY InitInv, NextInv, PTL DEF Spec

(* Tables, positions and answers keep their shape.                         *)
THEOREM TypeCorrect == Spec => []TypeOK
  <1>1. Inv => TypeOK
    BY DEF Inv
  <1>2. QED
    BY <1>1, InvAlways, PTL

-----------------------------------------------------------------------------
(* What a step does to the rows of auth_sessions.                          *)

(* The handlers that write rows which are there.                           *)
Updating(q) ==
  ExpireSession(q) \/ CommitLogout(q) \/ CommitWrite(q) \/ CommitRevocation(q)

LEMMA Writers ==
  ASSUME [Next]_vars
  PROVE  \/ UNCHANGED session
         \/ \E q \in Request : \E s \in SessionId : CommitLogin(q, s)
         \/ \E q \in Request : Updating(q)
  BY DEF Next, Login, Serve, Revoke, Logout, Updating, StartLogin, UpdateLastLogin,
         StartRequest, Touch, EndRead, SelectSessions, LockUser, LockSession,
         StartLogout, Rollback, DeadlockAbort, Tick, tables, vars

SameButForUse(s, row) ==
  \E seen, revoked : row = [session[s] EXCEPT !.seen = seen, !.revoked = revoked]

(* A row keeps its owner and its end, and is revoked only by a handler     *)
(* that has locked it or finds it unlocked.                                *)
LEMMA Updates ==
  ASSUME Inv, NEW q \in Request, Updating(q), NEW s \in SessionId
  PROVE  /\ SameButForUse(s, session'[s])
         /\ session[s].revoked => session'[s].revoked
         /\ session'[s].revoked # session[s].revoked =>
              \/ HoldsSession(q, s)
              \/ SessionUnlocked(q, s) /\ pc[q] \in {"expire", "logout"}
         /\ pc'[q] = "idle"
  <1>1. /\ session[s] \in SessionRow /\ session \in [SessionId -> SessionRow]
        /\ job[q].session \in SessionId
    BY DEF Inv, TypeOK, PositionInv, Updating, ExpireSession, CommitLogout,
           CommitWrite, CommitRevocation
  <1>2. SameButForUse(s, session[s])
    <2>1. session[s] = [session[s] EXCEPT !.seen = session[s].seen,
                                          !.revoked = session[s].revoked]
      BY <1>1 DEF SessionRow
    <2>2. QED
      BY <2>1 DEF SameButForUse
  <1>3. pc'[q] = "idle"
    BY DEF Inv, TypeOK, Finish, Updating, ExpireSession, CommitLogout, CommitWrite,
           CommitRevocation
  <1>4. CASE ExpireSession(q) \/ CommitLogout(q)
    <2>1. /\ session' = [session EXCEPT ![job[q].session].revoked = TRUE]
          /\ SessionUnlocked(q, job[q].session) /\ pc[q] \in {"expire", "logout"}
      BY <1>4 DEF ExpireSession, CommitLogout
    <2>2. CASE s = job[q].session
      <3>1. session'[s] = [session[s] EXCEPT !.revoked = TRUE]
        BY <1>1, <2>1, <2>2
      <3>2. session'[s] = [session[s] EXCEPT !.seen = session[s].seen, !.revoked = TRUE]
        BY <1>1, <3>1 DEF SessionRow
      <3>3. session'[s].revoked
        BY <1>1, <3>1 DEF SessionRow
      <3>4. QED
        BY <1>3, <2>1, <2>2, <3>2, <3>3 DEF SameButForUse
    <2>3. CASE s # job[q].session
      <3>1. session'[s] = session[s]
        BY <1>1, <2>1, <2>3
      <3>2. QED
        BY <1>2, <1>3, <3>1
    <2>4. QED
      BY <2>2, <2>3
  <1>5. /\ Seen(q)[s].revoked = session[s].revoked
        /\ SameButForUse(s, Seen(q)[s])
        /\ SameButForUse(s, [Seen(q)[s] EXCEPT !.revoked = TRUE])
        /\ [Seen(q)[s] EXCEPT !.revoked = TRUE].revoked
    <2>1. CASE s = job[q].session
      <3>1. Seen(q)[s] = [session[s] EXCEPT !.seen = job[q].stamp]
        BY <1>1, <2>1 DEF Seen
      <3>2. /\ Seen(q)[s] = [session[s] EXCEPT !.seen = job[q].stamp,
                                               !.revoked = session[s].revoked]
            /\ [Seen(q)[s] EXCEPT !.revoked = TRUE] =
                 [session[s] EXCEPT !.seen = job[q].stamp, !.revoked = TRUE]
            /\ [Seen(q)[s] EXCEPT !.revoked = TRUE].revoked
            /\ Seen(q)[s].revoked = session[s].revoked
        BY <1>1, <3>1 DEF SessionRow
      <3>3. QED
        BY <3>2 DEF SameButForUse
    <2>2. CASE s # job[q].session
      <3>1. Seen(q)[s] = session[s]
        BY <1>1, <2>2 DEF Seen
      <3>2. /\ [session[s] EXCEPT !.revoked = TRUE] =
                 [session[s] EXCEPT !.seen = session[s].seen, !.revoked = TRUE]
            /\ [session[s] EXCEPT !.revoked = TRUE].revoked
        BY <1>1 DEF SessionRow
      <3>3. SameButForUse(s, [session[s] EXCEPT !.revoked = TRUE])
        BY <3>2 DEF SameButForUse
      <3>4. QED
        BY <1>2, <3>1, <3>2, <3>3
    <2>3. QED
      BY <2>1, <2>2
  <1>6. CASE CommitWrite(q)
    <2>1. session'[s] = Seen(q)[s]
      BY <1>6 DEF CommitWrite
    <2>2. QED
      BY <1>3, <1>5, <2>1
  <1>7. CASE CommitRevocation(q)
    <2>1. session'[s] = IF s \in job[q].held
                          THEN [Seen(q)[s] EXCEPT !.revoked = TRUE] ELSE Seen(q)[s]
      BY <1>7 DEF CommitRevocation, Revoked
    <2>2. s \in job[q].held => HoldsSession(q, s)
      BY DEF HoldsSession
    <2>3. QED
      BY <1>3, <1>5, <2>1, <2>2
  <1>8. QED
    BY <1>4, <1>6, <1>7 DEF Updating

(* A login that commits leaves the other rows alone.                       *)
LEMMA LoginAddsOne ==
  ASSUME Inv, NEW q \in Request, NEW t \in SessionId, CommitLogin(q, t),
         NEW s \in SessionId, Exists(s)
  PROVE  session'[s] = session[s]
  BY DEF CommitLogin, Inv, TypeOK

-----------------------------------------------------------------------------
LEMMA RevokedForGoodStep ==
  ASSUME Inv, [Next]_vars, NEW s \in SessionId, Exists(s)
  PROVE  /\ session[s].revoked => session'[s].revoked
         /\ session'[s] = [session[s] EXCEPT !.seen = session'[s].seen,
                                             !.revoked = session'[s].revoked]
  <1>1. session[s] \in SessionRow
    BY DEF Inv, TypeOK
  <1>2. CASE session'[s] = session[s]
    BY <1>1, <1>2 DEF SessionRow
  <1>3. CASE \E q \in Request : Updating(q)
    <2>1. PICK seen, revoked :
            session'[s] = [session[s] EXCEPT !.seen = seen, !.revoked = revoked]
      BY <1>3, Updates DEF SameButForUse
    <2>2. session'[s].seen = seen /\ session'[s].revoked = revoked
      BY <1>1, <2>1 DEF SessionRow
    <2>3. QED
      BY <1>3, <2>1, <2>2, Updates
  <1>4. QED
    BY <1>2, <1>3, Writers, LoginAddsOne

(* A revoked session stays revoked, and no session changes hands or is     *)
(* prolonged: the flush writes only the columns the handler set.           *)
THEOREM RevocationIsFinal == Spec => RevokedForGood
  <1>1. Inv /\ [Next]_vars =>
          [\A s \in SessionId : Exists(s) =>
             /\ session[s].revoked => session'[s].revoked
             /\ session'[s] = [session[s] EXCEPT !.seen = session'[s].seen,
                                                 !.revoked = session'[s].revoked]]_vars
    BY RevokedForGoodStep
  <1>2. QED
    BY <1>1, InvAlways, PTL DEF Spec, RevokedForGood

LEMMA WorkKeepsStep ==
  ASSUME Inv, [Next]_vars, NEW s \in SessionId, Live(s), session'[s].revoked,
         NEW r \in Request, pc[r] \in {"work", "lock_user", "lock_sessions"},
         job[r].session = s
  PROVE  pc'[r] = "idle"
  <1>1. HoldsSession(r, s)
    BY DEF HoldsSession
  <1>2. session'[s].revoked # session[s].revoked /\ Exists(s)
    BY DEF Live
  <1>3. PICK q \in Request : Updating(q)
    BY <1>2, Writers, LoginAddsOne
  <1>4. HoldsSession(q, s) \/ (SessionUnlocked(q, s) /\ pc[q] \in {"expire", "logout"})
    BY <1>2, <1>3, Updates
  <1>5. q = r
    BY <1>1, <1>4 DEF Inv, LockInv, SessionUnlocked
  <1>6. QED
    BY <1>3, <1>5, Updates

(* Nobody revokes a session under a handler that works with it.            *)
THEOREM WorkProtected == Spec => WorkKeepsItsSession
  <1>1. Inv /\ [Next]_vars =>
          [\A s \in SessionId : Live(s) /\ session'[s].revoked =>
             \A q \in Request :
               /\ pc[q] \in {"work", "lock_user", "lock_sessions"}
               /\ job[q].session = s
               => pc'[q] = "idle"]_vars
    BY WorkKeepsStep
  <1>2. QED
    BY <1>1, InvAlways, PTL DEF Spec, WorkKeepsItsSession

-----------------------------------------------------------------------------
(* Only verify_session uses a session that is there.                       *)
LEMMA Uses ==
  ASSUME Inv, [Next]_vars, NEW s \in SessionId, Exists(s), used'[s] # used[s]
  PROVE  Verdict(s) = "accept"
  <1>1. ASSUME NEW q \in Request, NEW t \in SessionId, CommitLogin(q, t)
        PROVE  used'[s] = used[s]
    BY <1>1 DEF CommitLogin, Inv, TypeOK
  <1>2. ASSUME NEW q \in Request, NEW t \in SessionId, NEW op \in Op,
               NEW target \in User \cup {None}, StartRequest(q, t, op, target)
        PROVE  t = s /\ Verdict(t) = "accept"
    <2>1. Verdict(t) \in {"refuse", "expire", "accept"}
      BY DEF Verdict
    <2>2. CASE Verdict(t) = "accept"
      <3>1. used' = [used EXCEPT ![t] = clock]
        BY <1>2, <2>2 DEF StartRequest
      <3>2. QED
        BY <2>2, <3>1 DEF Inv, TypeOK
    <2>3. CASE Verdict(t) # "accept"
      BY <1>2, <2>1, <2>3 DEF StartRequest
    <2>4. QED
      BY <2>2, <2>3
  <1>3. \/ \E q \in Request : \E t \in SessionId : CommitLogin(q, t)
        \/ \E q \in Request, t \in SessionId, op \in Op, target \in User \cup {None} :
             StartRequest(q, t, op, target)
    BY DEF Next, Login, Serve, Revoke, Logout, StartLogin, UpdateLastLogin,
           ExpireSession, Touch, EndRead, CommitWrite, SelectSessions, LockUser,
           LockSession, CommitRevocation, StartLogout, CommitLogout, Rollback,
           DeadlockAbort, Tick, vars
  <1>4. QED
    BY <1>1, <1>2, <1>3

LEMMA IdleWindowStep ==
  ASSUME Inv, [Next]_vars, NEW s \in SessionId, Exists(s), used'[s] # used[s]
  PROVE  clock <= used[s] + IdleTimeout /\ clock < session[s].expires
  <1>1. Verdict(s) = "accept"
    BY Uses
  <1>2. /\ clock \in Nat /\ session[s].seen \in Nat /\ session[s].expires \in Nat
        /\ used[s] \in Nat /\ IdleTimeout \in Nat
    BY SessionAssumption DEF Inv, TypeOK, SessionRow
  <1>3. ~(session[s].expires <= clock) /\ ~(clock > session[s].seen + IdleTimeout)
    BY <1>1 DEF Verdict
  <1>4. session[s].seen <= used[s]
    BY DEF Inv, RowInv
  <1>5. QED
    BY <1>2, <1>3, <1>4

(* The idle limit counts from the last use of the session: last_seen_at is *)
(* never ahead of it, whatever commits or is rolled back.                  *)
THEOREM IdleLimit == Spec => IdleWindowIsFromUse
  <1>1. Inv /\ [Next]_vars =>
          [\A s \in SessionId :
             Exists(s) /\ used'[s] # used[s] =>
               clock <= used[s] + IdleTimeout /\ clock < session[s].expires]_vars
    BY IdleWindowStep
  <1>2. QED
    BY <1>1, InvAlways, PTL DEF Spec, IdleWindowIsFromUse

-----------------------------------------------------------------------------
(* A handler comes to act for a session by verify_session only.            *)
LEMMA Principals ==
  ASSUME Inv, [Next]_vars, NEW r \in Request, Authenticated(r)'
  PROVE  \/ Authenticated(r) /\ job'[r].session = job[r].session
         \/ job'[r].session \in SessionId /\ Verdict(job'[r].session) = "accept"
  <1>1. pc \in [Request -> Steps] /\ job \in [Request -> Job]
    BY DEF Inv, TypeOK
  <1>2. ASSUME NEW q \in Request, NEW answer, Finish(q, answer)
        PROVE  Authenticated(r) /\ job'[r] = job[r]
    BY <1>1, <1>2 DEF Finish, Authenticated
  <1>3. ASSUME NEW q \in Request, NEW step, NEW work, Goto(q, step, work),
               step \in {"login", "login_commit", "expire", "logout"}
                 \/ (Authenticated(q) /\ work.session = job[q].session)
        PROVE  Authenticated(r) /\ job'[r].session = job[r].session
    BY <1>1, <1>3 DEF Goto, Authenticated
  <1>4. ASSUME NEW q \in Request, Login(q) \/ Logout(q)
        PROVE  Authenticated(r) /\ job'[r].session = job[r].session
    BY <1>2, <1>3, <1>4 DEF Login, Logout, StartLogin, UpdateLastLogin, CommitLogin,
       StartLogout, CommitLogout
  <1>5. ASSUME NEW q \in Request, NEW t \in SessionId, NEW op \in Op,
               NEW target \in User \cup {None}, StartRequest(q, t, op, target)
        PROVE  \/ Authenticated(r) /\ job'[r].session = job[r].session
               \/ job'[r].session = t /\ Verdict(t) = "accept"
    <2> DEFINE verified == [NoJob EXCEPT !.session = t, !.stamp = clock]
               work == [verified EXCEPT !.op = op, !.target = target]
    <2>1. work.session = t
      BY DEF NoJob
    <2> HIDE DEF verified, work
    <2>2. CASE Verdict(t) = "refuse"
      BY <1>2, <1>5, <2>2 DEF StartRequest
    <2>3. CASE Verdict(t) = "expire"
      <3>1. Goto(q, "expire", verified)
        BY <1>5, <2>3 DEF StartRequest, verified
      <3>2. QED
        BY <1>3, <3>1
    <2>4. CASE Verdict(t) = "accept"
      <3>1. Goto(q, "touch", work)
        BY <1>5, <2>4 DEF StartRequest, verified, work
      <3>2. QED
        BY <1>1, <2>1, <2>4, <3>1 DEF Goto, Authenticated
    <2>5. QED
      BY <2>2, <2>3, <2>4 DEF Verdict
  <1>6. ASSUME NEW q \in Request,
               ExpireSession(q) \/ Touch(q) \/ EndRead(q) \/ CommitWrite(q)
        PROVE  Authenticated(r) /\ job'[r].session = job[r].session
    <2>1. Touch(q) => Authenticated(q) /\ Goto(q, "work", job[q])
      BY DEF Touch, Authenticated
    <2>2. QED
      BY <1>2, <1>3, <1>6, <2>1 DEF ExpireSession, EndRead, CommitWrite
  <1>7. ASSUME NEW q \in Request, SelectSessions(q)
        PROVE  Authenticated(r) /\ job'[r].session = job[r].session
    <2> DEFINE work == [job[q] EXCEPT
               !.todo = LiveSessions(q),
               !.writesUser = job[q].op = "password" \/ active[job[q].target]]
    <2>1. work.session = job[q].session
      BY <1>1 DEF Job
    <2>2. Authenticated(q) /\ Goto(q, "lock_user", work)
      BY <1>7 DEF SelectSessions, Authenticated
    <2> HIDE DEF work
    <2>3. QED
      BY <1>3, <2>1, <2>2
  <1>8. ASSUME NEW q \in Request, NEW t \in SessionId, LockSession(q, t)
        PROVE  Authenticated(r) /\ job'[r].session = job[r].session
    <2> DEFINE work == [job[q] EXCEPT !.todo = job[q].todo \ {t},
                                      !.held = job[q].held \cup {t}]
    <2>1. work.session = job[q].session
      BY <1>1 DEF Job
    <2>2. Authenticated(q) /\ Goto(q, "lock_sessions", work)
      BY <1>8 DEF LockSession, Authenticated
    <2> HIDE DEF work
    <2>3. QED
      BY <1>3, <2>1, <2>2
  <1>9. ASSUME NEW q \in Request, LockUser(q) \/ CommitRevocation(q)
        PROVE  Authenticated(r) /\ job'[r].session = job[r].session
    <2>1. LockUser(q) => Authenticated(q) /\ Goto(q, "lock_sessions", job[q])
      BY DEF LockUser, Authenticated
    <2>2. QED
      BY <1>2, <1>3, <1>9, <2>1 DEF CommitRevocation
  <1>10. CASE Tick \/ UNCHANGED vars
    BY <1>10 DEF Tick, vars, Authenticated
  <1>11. ASSUME NEW q \in Request, Rollback(q) \/ DeadlockAbort(q)
         PROVE  Authenticated(r) /\ job'[r].session = job[r].session
    BY <1>2, <1>11 DEF Rollback, DeadlockAbort
  <1>12. QED
    BY <1>4, <1>5, <1>6, <1>7, <1>8, <1>9, <1>10, <1>11 DEF Next, Serve, Revoke

LEMMA DisabledStep ==
  ASSUME Inv, [Next]_vars, NEW u \in User, ~active[u]
  PROVE  ~active'[u] /\ ServedFor(u)' \subseteq ServedFor(u)
  <1>1. ~active'[u]
    <2>1. ASSUME NEW q \in Request, CommitRevocation(q)
          PROVE  ~active'[u]
      BY <2>1 DEF CommitRevocation, Inv, TypeOK
    <2>2. ASSUME \A q \in Request : ~CommitRevocation(q)
          PROVE  active' = active
      <3>1. ASSUME NEW q \in Request, Login(q) \/ Serve(q) \/ Logout(q)
            PROVE  active' = active
        BY <3>1 DEF Login, Serve, Logout, StartLogin, UpdateLastLogin, CommitLogin,
           StartRequest, ExpireSession, Touch, EndRead, CommitWrite, StartLogout,
           CommitLogout, tables
      <3>2. ASSUME NEW q \in Request, Revoke(q) \/ Rollback(q) \/ DeadlockAbort(q)
            PROVE  active' = active
        BY <2>2, <3>2 DEF Revoke, SelectSessions, LockUser, LockSession, Rollback,
           DeadlockAbort, tables
      <3>3. QED
        BY <3>1, <3>2 DEF Next, Tick, tables, vars
    <2>3. QED
      BY <2>1, <2>2
  <1>2. ASSUME NEW r \in Request, Authenticated(r)',
               session'[job'[r].session].user = u
        PROVE  Authenticated(r) /\ session[job[r].session].user = u
    <2> DEFINE s == job'[r].session
    <2>1. s \in SessionId /\ Exists(s)
      BY <1>2, Principals DEF Inv, PositionInv, Authenticated, Verdict, Live
    <2>2. session[s] \in SessionRow
      BY <2>1 DEF Inv, TypeOK
    <2>3. session'[s].user = session[s].user
      <3>1. session'[s] = [session[s] EXCEPT !.seen = session'[s].seen,
                                             !.revoked = session'[s].revoked]
        BY <2>1, RevokedForGoodStep
      <3>2. [session[s] EXCEPT !.seen = session'[s].seen,
                               !.revoked = session'[s].revoked].user = session[s].user
        BY <2>2 DEF SessionRow
      <3>3. QED
        BY <3>1, <3>2
    <2>4. Verdict(s) # "accept"
      BY <1>2, <2>3 DEF Verdict
    <2>5. QED
      BY <1>2, <2>3, <2>4, Principals
  <1>3. QED
    BY <1>1, <1>2 DEF ServedFor

(* Once disable_user has committed nobody is served for the user any more. *)
THEOREM DisablingIsFinal == Spec => DisabledUsersGainNothing
  <1>1. Inv /\ [Next]_vars =>
          [\A u \in User :
             ~active[u] => ~active'[u] /\ ServedFor(u)' \subseteq ServedFor(u)]_vars
    BY DisabledStep
  <1>2. QED
    BY <1>1, InvAlways, PTL DEF Spec, DisabledUsersGainNothing

-----------------------------------------------------------------------------
(* Of those who wait, only handlers that edit a user have locks that       *)
(* others wait for, and they wait for the row of the user first.           *)
LEMMA WaitersWithLocks ==
  ASSUME Inv, NEW q \in Request, NEW p \in Request, NEW r \in Request,
         WaitsFor(p, q), WaitsFor(q, r)
  PROVE  \/ pc[q] \in {"lock_user", "lock_sessions"} /\ job[q].op \in Revoking
         \/ pc[q] = "work" /\ job[q].op = "rename" /\ HoldsUser(r, job[q].target)
  <1>1. \/ \E s : HoldsSession(q, s)
        \/ \E u : HoldsUser(q, u)
    BY DEF WaitsFor
  <1>2. \/ pc[q] \in {"touch", "expire", "logout", "login", "lock_user", "lock_sessions"}
        \/ pc[q] = "work" /\ job[q].op = "rename" /\ HoldsUser(r, job[q].target)
    BY DEF WaitsFor
  <1>3. job[q].held # {} => pc[q] = "lock_sessions"
    BY DEF Inv, PositionInv
  <1>4. CASE pc[q] # "work"
    <2>1. pc[q] \in {"lock_user", "lock_sessions"}
      BY <1>1, <1>2, <1>3, <1>4 DEF HoldsSession, HoldsUser
    <2>2. QED
      BY <2>1 DEF Inv, PositionInv
  <1>5. QED
    BY <1>2, <1>4

(* Who waits and has the row of a user is about to revoke his sessions.    *)
LEMMA WaitersWithUsers ==
  ASSUME Inv, NEW q \in Request, NEW r \in Request, NEW u, HoldsUser(q, u), WaitsFor(q, r)
  PROVE  job[q].op \in Revoking /\ job[q].target = u
  <1>1. pc[q] = "lock_sessions" /\ job[q].target = u
    BY DEF WaitsFor, HoldsUser
  <1>2. QED
    BY <1>1 DEF Inv, PositionInv

(* A deadlock costs no handler its transaction but those that edit users.  *)
THEOREM DeadlocksOfEditors == Spec => []OnlyUserEditsDeadlock
  <1>1. Inv => OnlyUserEditsDeadlock
    <2> SUFFICES ASSUME Inv, NEW q \in Request, Deadlocked(q)
                 PROVE  \/ job[q].op \in Revoking
                        \/ /\ job[q].op = "rename"
                           /\ \E r \in Request :
                                /\ WaitsFor(q, r) /\ job[r].op \in Revoking
                                /\ job[r].target = job[q].target
      BY DEF OnlyUserEditsDeadlock
    <2>1. PICK n \in 1 .. Cardinality(Request) : \E path \in [0 .. n -> Request] :
            /\ path[0] = q /\ path[n] = q
            /\ \A i \in 1 .. n : WaitsFor(path[i - 1], path[i])
      BY DEF Deadlocked
    <2>2. PICK path \in [0 .. n -> Request] :
            /\ path[0] = q /\ path[n] = q
            /\ \A i \in 1 .. n : WaitsFor(path[i - 1], path[i])
      BY <2>1
    <2>3. n \in Nat /\ n >= 1
      OBVIOUS
    <2>4. /\ 1 \in 1 .. n /\ n \in 1 .. n /\ n - 1 \in 0 .. n /\ 1 \in 0 .. n
          /\ 1 - 1 = 0
      BY <2>3
    <2>5. WaitsFor(path[n - 1], path[n]) /\ WaitsFor(path[0], path[1])
      BY <2>2, <2>4
    <2>6. path[n - 1] \in Request /\ path[1] \in Request
      BY <2>4
    <2>7. n # 1
      BY <2>2, <2>5 DEF WaitsFor
    <2>8. 2 \in 1 .. n /\ 2 \in 0 .. n /\ 2 - 1 = 1
      BY <2>3, <2>7
    <2>9. WaitsFor(path[1], path[2]) /\ path[2] \in Request
      BY <2>2, <2>8
    <2>10. \/ job[q].op \in Revoking
           \/ job[q].op = "rename" /\ HoldsUser(path[1], job[q].target)
      BY <2>2, <2>5, <2>6, WaitersWithLocks
    <2>11. HoldsUser(path[1], job[q].target) =>
             job[path[1]].op \in Revoking /\ job[path[1]].target = job[q].target
      BY <2>6, <2>9, WaitersWithUsers
    <2>12. QED
      BY <2>2, <2>5, <2>6, <2>10, <2>11
  <1>2. QED
    BY <1>1, InvAlways, PTL

-----------------------------------------------------------------------------
(* What a revocation leaves behind.                                        *)

(* A live session of the user is about to be revoked, or was inserted too  *)
(* late to be selected.                                                    *)
SelectionInv ==
  \A q \in Request : Selected(q) =>
    /\ reply[q] = "none"
    /\ \A s \in SessionId :
         Live(s) /\ session[s].user = job[q].target =>
           s \in job[q].todo \cup job[q].held \cup missed[q]

(* Sessions come to life by being inserted, with their user.               *)
LEMMA LiveBefore ==
  ASSUME Inv, [Next]_vars, NEW s \in SessionId, Live(s)', s \notin Inserted
  PROVE  Live(s) /\ session'[s].user = session[s].user
  <1>1. Exists(s) /\ session[s] \in SessionRow
    BY DEF Inserted, Live, Inv, TypeOK
  <1>2. session'[s] = [session[s] EXCEPT !.seen = session'[s].seen,
                                         !.revoked = session'[s].revoked]
    BY <1>1, RevokedForGoodStep
  <1>3. [session[s] EXCEPT !.seen = session'[s].seen,
                           !.revoked = session'[s].revoked].user = session[s].user
    BY <1>1 DEF SessionRow
  <1>4. session[s].revoked => session'[s].revoked
    BY <1>1, RevokedForGoodStep
  <1>5. QED
    BY <1>1, <1>2, <1>3, <1>4 DEF Live

(* What a selecting handler keeps of its selection in one step.            *)
LEMMA Selecting ==
  ASSUME Inv, [Next]_vars, NEW r \in Request, Selected(r)'
  PROVE  \/ /\ Selected(r)
            /\ job'[r].target = job[r].target
            /\ job'[r].todo \cup job'[r].held = job[r].todo \cup job[r].held
            /\ reply'[r] \in {reply[r], "none"}
         \/ /\ ~Selected(r)
            /\ UNCHANGED session
            /\ job'[r].target = job[r].target
            /\ job'[r].todo = LiveSessions(r) /\ job'[r].held = {}
            /\ reply'[r] = "none"
  <1>1. /\ pc \in [Request -> Steps] /\ job \in [Request -> Job]
        /\ reply \in [Request -> {"none", "unauthorized", "done", "deadlock"}]
    BY DEF Inv, TypeOK
  <1> DEFINE Kept == /\ Selected(r) /\ job'[r] = job[r]
                     /\ reply'[r] \in {reply[r], "none"}
  <1>2. ASSUME NEW q \in Request, NEW answer, Finish(q, answer)
        PROVE  Kept
    BY <1>1, <1>2 DEF Finish, Selected
  <1>3. ASSUME NEW q \in Request, NEW step, NEW work, Goto(q, step, work),
               step \in {"login", "login_commit", "expire", "touch", "work", "logout"}
        PROVE  Kept
    BY <1>1, <1>3 DEF Goto, Selected
  <1> HIDE DEF Kept
  <1>4. ASSUME NEW q \in Request, Login(q) \/ Logout(q)
        PROVE  Kept
    BY <1>2, <1>3, <1>4 DEF Login, Logout, StartLogin, UpdateLastLogin, CommitLogin,
       StartLogout, CommitLogout
  <1>5. ASSUME NEW q \in Request, Serve(q)
        PROVE  Kept
    <2>1. ASSUME NEW s \in SessionId, NEW op \in Op, NEW target \in User \cup {None},
                 StartRequest(q, s, op, target)
          PROVE  Kept
      <3>1. Verdict(s) \in {"refuse", "expire", "accept"}
        BY DEF Verdict
      <3>2. CASE Verdict(s) = "refuse"
        BY <1>2, <2>1, <3>2 DEF StartRequest
      <3>3. CASE Verdict(s) = "expire"
        BY <1>3, <2>1, <3>3 DEF StartRequest
      <3>4. CASE Verdict(s) = "accept"
        BY <1>3, <2>1, <3>4 DEF StartRequest
      <3>5. QED
        BY <3>1, <3>2, <3>3, <3>4
    <2>2. QED
      BY <1>2, <1>3, <1>5, <2>1 DEF Serve, ExpireSession, Touch, EndRead, CommitWrite
  <1>6. CASE Tick \/ UNCHANGED vars
    BY <1>6 DEF Tick, vars, Selected, Kept
  <1>7. ASSUME NEW q \in Request, Rollback(q) \/ DeadlockAbort(q) \/ CommitRevocation(q)
        PROVE  Kept
    BY <1>2, <1>7 DEF Rollback, DeadlockAbort, CommitRevocation
  <1>8. ASSUME NEW q \in Request, LockUser(q)
        PROVE  Kept
    BY <1>1, <1>8 DEF LockUser, Goto, Selected, Kept
  <1>9. ASSUME NEW q \in Request, NEW t \in SessionId, LockSession(q, t), q = r
        PROVE  /\ Selected(r) /\ job'[r].target = job[r].target /\ reply'[r] = "none"
               /\ job'[r].todo \cup job'[r].held = job[r].todo \cup job[r].held
    <2> DEFINE work == [job[q] EXCEPT !.todo = job[q].todo \ {t},
                                      !.held = job[q].held \cup {t}]
    <2>1. /\ work.target = job[q].target /\ work.todo = job[q].todo \ {t}
          /\ work.held = job[q].held \cup {t} /\ t \in job[q].todo
      BY <1>1, <1>9 DEF Job, LockSession, IsNext
    <2>2. pc[q] = "lock_sessions" /\ Goto(q, "lock_sessions", work)
      BY <1>9 DEF LockSession
    <2> HIDE DEF work
    <2>3. job'[q] = work /\ reply'[q] = "none"
      BY <1>1, <2>2 DEF Goto
    <2>4. QED
      BY <1>9, <2>1, <2>2, <2>3 DEF Selected
  <1>10. ASSUME NEW q \in Request, NEW t \in SessionId, LockSession(q, t), q # r
         PROVE  Kept
    BY <1>1, <1>10 DEF LockSession, Goto, Selected, Kept
  <1>11. ASSUME NEW q \in Request, SelectSessions(q), q = r
         PROVE  /\ ~Selected(r) /\ UNCHANGED session
                /\ job'[r].target = job[r].target /\ reply'[r] = "none"
                /\ job'[r].todo = LiveSessions(r) /\ job'[r].held = {}
    <2> DEFINE work == [job[q] EXCEPT
               !.todo = LiveSessions(q),
               !.writesUser = job[q].op = "password" \/ active[job[q].target]]
    <2>1. /\ work.target = job[q].target /\ work.todo = LiveSessions(q)
          /\ work.held = job[q].held
      BY <1>1 DEF Job
    <2>2. pc[q] = "work" /\ Goto(q, "lock_user", work) /\ UNCHANGED session
      BY <1>11 DEF SelectSessions, tables
    <2>3. job[q].held = {}
      BY <2>2 DEF Inv, PositionInv
    <2> HIDE DEF work
    <2>4. job'[q] = work /\ reply'[q] = "none"
      BY <1>1, <2>2 DEF Goto
    <2>5. QED
      BY <1>11, <2>1, <2>2, <2>3, <2>4 DEF Selected
  <1>12. ASSUME NEW q \in Request, SelectSessions(q), q # r
         PROVE  Kept
    BY <1>1, <1>12 DEF SelectSessions, Goto, Selected, Kept
  <1>13. QED
    BY <1>4, <1>5, <1>6, <1>7, <1>8, <1>9, <1>10, <1>11, <1>12 DEF Next, Revoke, Kept

LEMMA SelectionInvInit == HistoryInit => SelectionInv
  BY DEF HistoryInit, Init, SelectionInv, Selected

LEMMA SelectionInvNext ==
  ASSUME Inv, SelectionInv, [HistoryNext]_<<vars, missed>>
  PROVE  SelectionInv'
  <1> SUFFICES ASSUME NEW q \in Request, Selected(q)'
               PROVE  /\ reply'[q] = "none"
                      /\ \A s \in SessionId :
                           Live(s)' /\ session'[s].user = job'[q].target =>
                             s \in job'[q].todo \cup job'[q].held \cup missed'[q]
    BY DEF SelectionInv
  <1>1. [Next]_vars /\ (Remember \/ UNCHANGED <<vars, missed>>)
    BY DEF HistoryNext
  <1>2. CASE Selected(q)
    <2>1. reply[q] = "none"
      BY <1>2 DEF SelectionInv
    <2>2. /\ job'[q].target = job[q].target
          /\ job'[q].todo \cup job'[q].held = job[q].todo \cup job[q].held
          /\ reply'[q] = "none"
      BY <1>1, <1>2, <2>1, Selecting
    <2>3. missed[q] \subseteq missed'[q]
      BY <1>1, <1>2 DEF Remember
    <2>4. ASSUME NEW s \in SessionId, Live(s)', session'[s].user = job'[q].target
          PROVE  s \in job'[q].todo \cup job'[q].held \cup missed'[q]
      <3>1. CASE s \in Inserted
        <4>1. Remember
          BY <1>1, <3>1 DEF Inserted, vars, tables, Exists
        <4>2. QED
          BY <1>2, <3>1, <4>1 DEF Remember
      <3>2. CASE s \notin Inserted
        <4>1. Live(s) /\ session'[s].user = session[s].user
          BY <1>1, <2>4, <3>2, LiveBefore
        <4>2. s \in job[q].todo \cup job[q].held \cup missed[q]
          BY <1>2, <2>2, <2>4, <4>1 DEF SelectionInv
        <4>3. QED
          BY <2>2, <2>3, <4>2
      <3>3. QED
        BY <3>1, <3>2
    <2>5. QED
      BY <2>2, <2>4
  <1>3. CASE ~Selected(q)
    <2>1. /\ UNCHANGED session /\ job'[q].target = job[q].target
          /\ job'[q].todo = LiveSessions(q) /\ reply'[q] = "none"
      BY <1>1, <1>3, Selecting
    <2>2. QED
      BY <2>1 DEF LiveSessions, Live, Exists
  <1>4. QED
    BY <1>2, <1>3

(* Only the commit of a revocation answers "done" from its positions, and  *)
(* it revokes everything that was selected.                                *)
LEMMA RevocationStep ==
  ASSUME Inv, SelectionInv, [HistoryNext]_<<vars, missed>>, NEW q \in Request,
         Selected(q), reply'[q] = "done", NEW s \in SessionId,
         Live(s)', session'[s].user = job[q].target
  PROVE  s \in missed[q]
  <1>1. [Next]_vars
    BY DEF HistoryNext
  <1>2. /\ job \in [Request -> Job]
        /\ reply \in [Request -> {"none", "unauthorized", "done", "deadlock"}]
    BY DEF Inv, TypeOK
  <1>3. reply[q] = "none"
    BY DEF SelectionInv
  <1>4. CommitRevocation(q)
    <2>1. ASSUME NEW p \in Request, Login(p) \/ Logout(p)
          PROVE  p = q /\ reply'[p] # "done"
      BY <1>2, <1>3, <2>1 DEF Login, Logout, StartLogin, UpdateLastLogin, CommitLogin,
         StartLogout, CommitLogout, Finish, Goto
    <2>2. ASSUME NEW p \in Request, Serve(p)
          PROVE  p = q /\ pc[p] \notin {"lock_user", "lock_sessions"}
      BY <1>2, <1>3, <2>2 DEF Serve, StartRequest, Verdict, ExpireSession, Touch, EndRead,
         CommitWrite, Finish, Goto
    <2>3. ASSUME NEW p \in Request, Rollback(p) \/ DeadlockAbort(p) \/ SelectSessions(p)
                   \/ LockUser(p) \/ \E t \in SessionId : LockSession(p, t)
          PROVE  FALSE
      BY <1>2, <1>3, <2>3 DEF Rollback, DeadlockAbort, SelectSessions, LockUser,
         LockSession, Finish, Goto
    <2>4. ASSUME NEW p \in Request, CommitRevocation(p)
          PROVE  p = q
      BY <1>2, <1>3, <2>4 DEF CommitRevocation, Finish
    <2>5. ~Tick /\ ~UNCHANGED vars
      BY <1>3 DEF Tick, vars
    <2>6. QED
      BY <1>1, <2>1, <2>2, <2>3, <2>4, <2>5 DEF Next, Revoke, Selected
  <1>5. job[q].todo = {} /\ session'[s] =
          IF s \in job[q].held THEN [Seen(q)[s] EXCEPT !.revoked = TRUE] ELSE Seen(q)[s]
    BY <1>4 DEF CommitRevocation, Revoked
  <1>6. s \notin job[q].held
    <2>1. Seen(q)[s] \in SessionRow
      <3>1. session \in [SessionId -> SessionRow] /\ job[q].stamp \in 0 .. MaxClock
        BY DEF Inv, TypeOK, Job
      <3>2. QED
        BY <1>2, <3>1 DEF Seen, SessionRow
    <2>2. [Seen(q)[s] EXCEPT !.revoked = TRUE].revoked
      BY <2>1 DEF SessionRow
    <2>3. QED
      BY <1>5, <2>2 DEF Live
  <1>7. s \notin Inserted
    <2>1. CASE Exists(s)
      BY <2>1 DEF Inserted
    <2>2. CASE ~Exists(s)
      <3>1. s # job[q].session
        BY <1>4, <2>2 DEF CommitRevocation, Inv, PositionInv
      <3>2. session'[s] = session[s]
        BY <1>5, <1>6, <3>1 DEF Seen, Inv, TypeOK
      <3>3. QED
        BY <2>2, <3>2 DEF Inserted, Exists
    <2>3. QED
      BY <2>1, <2>2
  <1>8. Live(s) /\ session[s].user = job[q].target
    BY <1>1, <1>7, LiveBefore
  <1>9. QED
    BY <1>5, <1>6, <1>8 DEF SelectionInv

LEMMA HistoryRefines == HistorySpec => Spec
  <1>1. HistoryInit => Init
    BY DEF HistoryInit
  <1>2. [HistoryNext]_<<vars, missed>> => [Next]_vars
    BY DEF HistoryNext
  <1>3. QED
    BY <1>1, <1>2, PTL DEF HistorySpec, Spec

(* A committed password change or deactivation leaves no session that was  *)
(* there when it read them, its own included.                              *)
THEOREM RevocationLeavesNone == HistorySpec => RevocationIsComplete
  <1>1. HistorySpec => []Inv
    BY HistoryRefines, InvAlways, PTL
  <1>2. HistorySpec => []SelectionInv
    <2>1. Inv /\ SelectionInv /\ [HistoryNext]_<<vars, missed>> => SelectionInv'
      BY SelectionInvNext
    <2>2. QED
      BY <1>1, <2>1, SelectionInvInit, PTL DEF HistorySpec
  <1>3. Inv /\ SelectionInv /\ [HistoryNext]_<<vars, missed>> =>
          [\A q \in Request :
             Selected(q) /\ reply'[q] = "done" =>
               \A s \in SessionId :
                 Live(s)' /\ session'[s].user = job[q].target => s \in missed[q]
          ]_<<vars, missed>>
    BY RevocationStep
  <1>4. QED
    BY <1>1, <1>2, <1>3, PTL DEF HistorySpec, RevocationIsComplete
-----------------------------------------------------------------------------
(* AuthSession implements SessionLifecycle.                                *)

EnabledMap == {u \in User : active[u]}
PhaseMap == [s \in SessionId |-> Phase(s)]
OwnerMap == [s \in SessionId |-> session[s].user]
EndsMap == [s \in SessionId |-> session[s].expires]
Serving(q) == IF Authenticated(q) THEN job[q].session ELSE None
ServingMap == [q \in Request |-> Serving(q)]

Outside ==
  <<EnabledMap, PhaseMap, OwnerMap, EndsMap, used, ServingMap, clock>>

Allowed == [Lifecycle!Next]_Outside

(* What a revocation selected belongs to its user.                         *)
OwnerInv ==
  \A q \in Request : Selected(q) =>
    \A s \in job[q].todo \cup job[q].held : session[s].user = job[q].target

LEMMA OwnerInvInit == Init => OwnerInv
  BY DEF Init, OwnerInv, Selected

(* A session that is there keeps its user and its end.                     *)
LEMMA RowKeeps ==
  ASSUME Inv, [Next]_vars, NEW s \in SessionId, Exists(s)
  PROVE  /\ session'[s].user = session[s].user
         /\ session'[s].expires = session[s].expires
  <1>1. session[s] \in SessionRow
    BY DEF Inv, TypeOK
  <1>2. session'[s] = [session[s] EXCEPT !.seen = session'[s].seen,
                                         !.revoked = session'[s].revoked]
    BY RevokedForGoodStep
  <1>3. PICK row : row = [session[s] EXCEPT !.seen = session'[s].seen,
                                            !.revoked = session'[s].revoked]
    OBVIOUS
  <1>4. row.user = session[s].user /\ row.expires = session[s].expires
    BY <1>1, <1>3 DEF SessionRow
  <1>5. QED
    BY <1>2, <1>3, <1>4

LEMMA OwnerInvNext ==
  ASSUME Inv, OwnerInv, [Next]_vars
  PROVE  OwnerInv'
  <1> SUFFICES ASSUME NEW q \in Request, Selected(q)',
                      NEW s \in job'[q].todo \cup job'[q].held
               PROVE  session'[s].user = job'[q].target
    BY DEF OwnerInv
  <1>1. CASE Selected(q)
    <2>1. /\ job'[q].target = job[q].target
          /\ job'[q].todo \cup job'[q].held = job[q].todo \cup job[q].held
      BY <1>1, Selecting
    <2>2. s \in SessionId /\ Exists(s)
      BY <2>1 DEF Inv, TypeOK, Job, PositionInv
    <2>3. session[s].user = job[q].target
      BY <1>1, <2>1 DEF OwnerInv
    <2>4. QED
      BY <2>1, <2>2, <2>3, RowKeeps
  <1>2. CASE ~Selected(q)
    BY <1>2, Selecting DEF LiveSessions
  <1>3. QED
    BY <1>1, <1>2

LEMMA OwnerInvAlways == Spec => []OwnerInv
  BY InvAlways, OwnerInvInit, OwnerInvNext, PTL DEF Spec

(* What is seen of the requests.                                           *)
LEMMA FinishServing ==
  ASSUME Inv, NEW q \in Request, NEW answer, Finish(q, answer)
  PROVE  ServingMap' = [ServingMap EXCEPT ![q] = None]
  <1>1. \A r \in Request :
          /\ pc'[r] = IF r = q THEN "idle" ELSE pc[r]
          /\ job'[r] = IF r = q THEN NoJob ELSE job[r]
    BY DEF Inv, TypeOK, Finish
  <1>2. \A r \in Request : Serving(r)' = IF r = q THEN None ELSE Serving(r)
    BY <1>1 DEF Serving, Authenticated
  <1>3. QED
    BY <1>2 DEF ServingMap

LEMMA GotoServing ==
  ASSUME Inv, NEW q \in Request, NEW step, NEW work, Goto(q, step, work)
  PROVE  ServingMap' = [ServingMap EXCEPT ![q] =
           IF step \in {"touch", "work", "lock_user", "lock_sessions"}
             THEN work.session ELSE None]
  <1>1. \A r \in Request :
          /\ pc'[r] = IF r = q THEN step ELSE pc[r]
          /\ job'[r] = IF r = q THEN work ELSE job[r]
    BY DEF Inv, TypeOK, Goto
  <1>2. \A r \in Request : Serving(r)' =
          IF r = q
            THEN IF step \in {"touch", "work", "lock_user", "lock_sessions"}
                   THEN work.session ELSE None
            ELSE Serving(r)
    BY <1>1 DEF Serving, Authenticated
  <1>3. QED
    BY <1>2 DEF ServingMap

LEMMA ServingSame ==
  ASSUME NEW q \in Request
  PROVE  [ServingMap EXCEPT ![q] = Serving(q)] = ServingMap
  BY DEF ServingMap

(* What is seen of the tables.                                             *)
LEMMA TablesSame ==
  ASSUME UNCHANGED tables
  PROVE  UNCHANGED <<EnabledMap, PhaseMap, OwnerMap, EndsMap>>
  BY DEF tables, EnabledMap, PhaseMap, OwnerMap, EndsMap, Phase, Exists

(* Steps on the way of a request are not seen.                             *)
LEMMA MovesOn ==
  ASSUME Inv, NEW q \in Request, NEW step, NEW work, Goto(q, step, work),
         UNCHANGED <<tables, used, clock>>,
         Serving(q) = IF step \in {"touch", "work", "lock_user", "lock_sessions"}
                        THEN work.session ELSE None
  PROVE  Allowed
  <1>1. ServingMap' = ServingMap
    BY GotoServing, ServingSame
  <1>2. QED
    BY <1>1, TablesSame DEF Allowed, Outside

LEMMA Answers ==
  ASSUME Inv, NEW q \in Request, NEW answer, Finish(q, answer),
         UNCHANGED <<EnabledMap, PhaseMap, OwnerMap, EndsMap, used, clock>>
  PROVE  Allowed
  <1>1. ServingMap' = [ServingMap EXCEPT ![q] = None]
    BY FinishServing
  <1>2. Lifecycle!Answer(q)
    BY <1>1 DEF Lifecycle!Answer, EnabledMap, PhaseMap, OwnerMap, EndsMap, ServingMap,
                Serving
  <1>3. QED
    BY <1>2 DEF Allowed, Lifecycle!Next

(* login and logout.                                                       *)
LEMMA LoginRefines ==
  ASSUME Inv, NEW q \in Request, Login(q)
  PROVE  Allowed
  <1>1. ASSUME NEW u \in User, NEW ok \in BOOLEAN, StartLogin(q, u, ok)
        PROVE  Allowed
    <2>1. Serving(q) = None
      BY <1>1 DEF StartLogin, Serving, Authenticated
    <2>2. CASE Finish(q, "unauthorized")
      BY <1>1, <2>2, Answers, TablesSame DEF StartLogin
    <2>3. CASE ~Finish(q, "unauthorized")
      BY <1>1, <2>1, <2>3, MovesOn DEF StartLogin
    <2>4. QED
      BY <2>2, <2>3
  <1>2. CASE UpdateLastLogin(q)
    <2>1. Serving(q) = None
      BY <1>2 DEF UpdateLastLogin, Serving, Authenticated
    <2>2. QED
      BY <1>2, <2>1, MovesOn DEF UpdateLastLogin
  <1>3. ASSUME NEW s \in SessionId, CommitLogin(q, s)
        PROVE  Allowed
    <2> DEFINE row == [user |-> job[q].target, expires |-> job[q].stamp + AbsoluteTTL,
                       seen |-> job[q].stamp, revoked |-> FALSE]
    <2>1. /\ ~Exists(s) /\ session' = [session EXCEPT ![s] = row]
          /\ used' = [used EXCEPT ![s] = job[q].stamp]
          /\ Finish(q, "none") /\ UNCHANGED <<active, clock>>
          /\ pc[q] = "login_commit"
      BY <1>3 DEF CommitLogin
    <2>2. /\ row.user = job[q].target /\ row.expires = job[q].stamp + AbsoluteTTL
          /\ row.revoked = FALSE
      OBVIOUS
    <2>3. job[q].target \in User /\ job[q].stamp \in Nat /\ job[q].stamp <= clock
      BY <2>1, SessionAssumption DEF Inv, TypeOK, PositionInv, Job
    <2>4. clock \in Nat /\ job[q].stamp \in 0 .. clock
      BY <2>3, SessionAssumption DEF Inv, TypeOK
    <2> HIDE DEF row
    <2>5. row # NoSession
      BY <2>2, <2>3, NoSessionType
    <2>6. session'[s] = row /\ \A t \in SessionId \ {s} : session'[t] = session[t]
      BY <2>1 DEF Inv, TypeOK
    <2>7. PhaseMap' = [PhaseMap EXCEPT ![s] = "open"] /\ PhaseMap[s] = "none"
      BY <2>1, <2>2, <2>5, <2>6 DEF PhaseMap, Phase, Exists
    <2>8. /\ OwnerMap' = [OwnerMap EXCEPT ![s] = job[q].target]
          /\ EndsMap' = [EndsMap EXCEPT ![s] = job[q].stamp + AbsoluteTTL]
      BY <2>2, <2>6 DEF OwnerMap, EndsMap
    <2>9. ServingMap' = ServingMap /\ EnabledMap' = EnabledMap
      <3>1. Serving(q) = None
        BY <2>1 DEF Serving, Authenticated
      <3>2. QED
        BY <2>1, <3>1, FinishServing, ServingSame DEF EnabledMap
    <2>10. PICK u \in User, at \in 0 .. clock : u = job[q].target /\ at = job[q].stamp
      BY <2>3, <2>4
    <2>11. Lifecycle!Open(s, u, at)
      BY <2>1, <2>3, <2>7, <2>8, <2>9, <2>10
      DEF Lifecycle!Open, EnabledMap, PhaseMap, OwnerMap, EndsMap, ServingMap, Serving
    <2>12. QED
      BY <2>10, <2>11 DEF Allowed, Lifecycle!Next
  <1>4. QED
    BY <1>1, <1>2, <1>3 DEF Login

(* One session is revoked by a request that serves nobody.                 *)
LEMMA CloseRefines ==
  ASSUME Inv, NEW q \in Request, NEW answer, Finish(q, answer), ~Authenticated(q),
         NEW s \in SessionId, Exists(s),
         session' = [session EXCEPT ![s].revoked = TRUE],
         UNCHANGED <<active, used, clock>>
  PROVE  Allowed
  <1>1. ServingMap' = ServingMap /\ EnabledMap' = EnabledMap
    <2>1. Serving(q) = None
      BY DEF Serving
    <2>2. QED
      BY <2>1, FinishServing, ServingSame DEF EnabledMap
  <1>2. session[s] \in SessionRow /\ session[s].user # None
    BY SessionAssumption DEF Inv, TypeOK, RowInv
  <1>3. PICK row : row = [session[s] EXCEPT !.revoked = TRUE]
    OBVIOUS
  <1>4. /\ row.user = session[s].user /\ row.expires = session[s].expires
        /\ row.revoked = TRUE
    BY <1>2, <1>3 DEF SessionRow
  <1>5. row # NoSession
    BY <1>2, <1>4 DEF NoSession
  <1>6. session'[s] = row /\ \A t \in SessionId \ {s} : session'[t] = session[t]
    BY <1>3 DEF Inv, TypeOK
  <1>7. OwnerMap' = OwnerMap /\ EndsMap' = EndsMap
    BY <1>4, <1>6 DEF OwnerMap, EndsMap
  <1>8. PhaseMap' = [t \in SessionId |-> IF t \in {s} THEN "closed" ELSE PhaseMap[t]]
    BY <1>4, <1>5, <1>6 DEF PhaseMap, Phase, Exists
  <1>9. CASE session[s].revoked
    <2>1. PhaseMap' = PhaseMap
      BY <1>8, <1>9 DEF PhaseMap, Phase
    <2>2. QED
      BY <1>1, <1>7, <2>1 DEF Allowed, Outside
  <1>10. CASE ~session[s].revoked
    <2>1. PhaseMap[s] = "open"
      BY <1>10 DEF PhaseMap, Phase
    <2>2. Lifecycle!Close(s)
      BY <1>1, <1>7, <1>8, <2>1
      DEF Lifecycle!Close, Lifecycle!Closing, EnabledMap, PhaseMap, OwnerMap, EndsMap,
          ServingMap, Serving
    <2>3. QED
      BY <2>2 DEF Allowed, Lifecycle!Next
  <1>11. QED
    BY <1>9, <1>10

LEMMA LogoutRefines ==
  ASSUME Inv, NEW q \in Request, Logout(q)
  PROVE  Allowed
  <1>1. ASSUME NEW s \in SessionId, StartLogout(q, s)
        PROVE  Allowed
    <2>1. Serving(q) = None
      BY <1>1 DEF StartLogout, Serving, Authenticated
    <2>2. QED
      BY <1>1, <2>1, MovesOn DEF StartLogout
  <1>2. CASE CommitLogout(q)
    <2>1. job[q].session \in SessionId /\ Exists(job[q].session) /\ ~Authenticated(q)
      BY <1>2 DEF CommitLogout, Inv, PositionInv, Authenticated
    <2>2. QED
      BY <1>2, <2>1, CloseRefines DEF CommitLogout
  <1>3. QED
    BY <1>1, <1>2 DEF Logout


(* The flush of last_seen_at is not seen.                                  *)
SameOutside(s, row) ==
  /\ row.user = session[s].user /\ row.expires = session[s].expires
  /\ row.revoked = session[s].revoked
  /\ row = NoSession <=> session[s] = NoSession

LEMMA SeenOutside ==
  ASSUME Inv, NEW q \in Request, Authenticated(q), NEW s \in SessionId
  PROVE  Seen(q)[s] \in SessionRow /\ SameOutside(s, Seen(q)[s])
  <1>1. /\ session \in [SessionId -> SessionRow] /\ session[s] \in SessionRow
        /\ job[q].session \in SessionId /\ Exists(job[q].session)
        /\ job[q].stamp \in 0 .. MaxClock
    BY DEF Inv, TypeOK, PositionInv, Authenticated, Job
  <1>2. CASE s # job[q].session
    <2>1. Seen(q)[s] = session[s]
      BY <1>1, <1>2 DEF Seen
    <2>2. QED
      BY <1>1, <2>1 DEF SameOutside
  <1>3. CASE s = job[q].session
    <2>1. PICK row : row = [session[s] EXCEPT !.seen = job[q].stamp]
      OBVIOUS
    <2>2. Seen(q)[s] = row
      BY <1>1, <1>3, <2>1 DEF Seen
    <2>3. /\ row \in SessionRow /\ row.user = session[s].user
          /\ row.expires = session[s].expires /\ row.revoked = session[s].revoked
      BY <1>1, <2>1 DEF SessionRow
    <2>4. session[s].user \in User /\ session[s] # NoSession
      BY <1>1, <1>3 DEF Inv, RowInv, Exists
    <2>5. row # NoSession
      BY <2>3, <2>4, NoSessionType
    <2>6. QED
      BY <2>2, <2>3, <2>4, <2>5 DEF SameOutside
  <1>4. QED
    BY <1>2, <1>3

(* verify_session and the handlers behind it.                              *)
LEMMA ServeRefines ==
  ASSUME Inv, NEW q \in Request, Serve(q)
  PROVE  Allowed
  <1>1. ASSUME NEW s \in SessionId, NEW op \in Op, NEW target \in User \cup {None},
               StartRequest(q, s, op, target)
        PROVE  Allowed
    <2> DEFINE verified == [NoJob EXCEPT !.session = s, !.stamp = clock]
               work == [verified EXCEPT !.op = op, !.target = target]
    <2>1. Serving(q) = None /\ work.session = s /\ UNCHANGED <<tables, clock>>
      BY <1>1 DEF StartRequest, Serving, Authenticated, NoJob
    <2>2. CASE Verdict(s) = "refuse"
      <3>1. Finish(q, "unauthorized") /\ UNCHANGED <<tables, used, clock>>
        BY <1>1, <2>2 DEF StartRequest
      <3>2. QED
        BY <3>1, Answers, TablesSame
    <2>3. CASE Verdict(s) = "expire"
      <3>1. Goto(q, "expire", verified) /\ UNCHANGED <<tables, used, clock>>
        BY <1>1, <2>3 DEF StartRequest
      <3> HIDE DEF verified
      <3>2. QED
        BY <2>1, <3>1, MovesOn
    <2>4. CASE Verdict(s) = "accept"
      <3>1. Goto(q, "touch", work) /\ used' = [used EXCEPT ![s] = clock]
        BY <1>1, <2>4 DEF StartRequest
      <3> HIDE DEF work
      <3>2. ServingMap' = [ServingMap EXCEPT ![q] = s]
        BY <2>1, <3>1, GotoServing
      <3>3. UNCHANGED <<EnabledMap, PhaseMap, OwnerMap, EndsMap>>
        BY <2>1, TablesSame
      <3>4. /\ Live(s) /\ active[session[s].user] /\ session[s].user \in User
        BY <2>4 DEF Verdict, Inv, RowInv, Live
      <3>5. PhaseMap[s] = "open" /\ OwnerMap[s] \in EnabledMap
        BY <3>4 DEF PhaseMap, Phase, Live, OwnerMap, EnabledMap
      <3>6. clock < EndsMap[s] /\ clock <= used[s] + IdleTimeout
        <4>1. /\ clock \in Nat /\ session[s].seen \in Nat /\ session[s].expires \in Nat
              /\ used[s] \in Nat /\ IdleTimeout \in Nat
          BY SessionAssumption DEF Inv, TypeOK, SessionRow
        <4>2. ~(session[s].expires <= clock) /\ ~(clock > session[s].seen + IdleTimeout)
          BY <2>4 DEF Verdict
        <4>3. session[s].seen <= used[s]
          BY <3>4 DEF Inv, RowInv, Live
        <4>4. QED
          BY <4>1, <4>2, <4>3 DEF EndsMap
      <3>7. ServingMap[q] = None
        BY <2>1 DEF ServingMap
      <3>8. Lifecycle!Authenticate(q, s)
        BY <2>1, <3>1, <3>2, <3>3, <3>5, <3>6, <3>7
        DEF Lifecycle!Authenticate, EnabledMap, PhaseMap, OwnerMap, EndsMap, ServingMap,
            Serving
      <3>9. QED
        BY <3>8 DEF Allowed, Lifecycle!Next
    <2>5. QED
      BY <2>2, <2>3, <2>4 DEF Verdict
  <1>2. CASE ExpireSession(q)
    <2>1. job[q].session \in SessionId /\ Exists(job[q].session) /\ ~Authenticated(q)
      BY <1>2 DEF ExpireSession, Inv, PositionInv, Authenticated
    <2>2. QED
      BY <1>2, <2>1, CloseRefines DEF ExpireSession
  <1>3. CASE Touch(q)
    <2>1. Serving(q) = job[q].session
      BY <1>3 DEF Touch, Serving, Authenticated
    <2>2. QED
      BY <1>3, <2>1, MovesOn DEF Touch
  <1>4. CASE EndRead(q)
    BY <1>4, Answers, TablesSame DEF EndRead
  <1>5. CASE CommitWrite(q)
    <2>1. session' = Seen(q) /\ Finish(q, "done") /\ UNCHANGED <<active, used, clock>>
      BY <1>5 DEF CommitWrite
    <2>2. job[q].session \in SessionId /\ Exists(job[q].session)
      BY <1>5 DEF CommitWrite, Inv, PositionInv
    <2>3. ASSUME NEW s \in SessionId
          PROVE  SameOutside(s, session'[s])
      BY <1>5, <2>1, <2>3, SeenOutside DEF CommitWrite, Authenticated
    <2>4. UNCHANGED <<EnabledMap, PhaseMap, OwnerMap, EndsMap>>
      BY <2>1, <2>3 DEF SameOutside, EnabledMap, PhaseMap, OwnerMap, EndsMap, Phase, Exists
    <2>5. QED
      BY <2>1, <2>4, Answers
  <1>6. QED
    BY <1>1, <1>2, <1>3, <1>4, <1>5 DEF Serve

(* A password change or a deactivation, until it commits ...               *)
LEMMA RevokingOn ==
  ASSUME Inv, NEW q \in Request,
         SelectSessions(q) \/ LockUser(q) \/ \E s \in SessionId : LockSession(q, s)
  PROVE  Allowed
  <1>1. job[q] \in Job
    BY DEF Inv, TypeOK
  <1>2. Serving(q) = job[q].session
    BY DEF SelectSessions, LockUser, LockSession, Serving, Authenticated
  <1>3. CASE SelectSessions(q)
    <2> DEFINE work == [job[q] EXCEPT
               !.todo = LiveSessions(q),
               !.writesUser = job[q].op = "password" \/ active[job[q].target]]
    <2>1. work.session = job[q].session
      BY <1>1 DEF Job
    <2>2. Goto(q, "lock_user", work) /\ UNCHANGED <<tables, used, clock>>
      BY <1>3 DEF SelectSessions
    <2> HIDE DEF work
    <2>3. QED
      BY <1>2, <2>1, <2>2, MovesOn
  <1>4. CASE LockUser(q)
    BY <1>2, <1>4, MovesOn DEF LockUser
  <1>5. ASSUME NEW t \in SessionId, LockSession(q, t)
        PROVE  Allowed
    <2> DEFINE work == [job[q] EXCEPT !.todo = job[q].todo \ {t},
                                      !.held = job[q].held \cup {t}]
    <2>1. work.session = job[q].session
      BY <1>1 DEF Job
    <2>2. Goto(q, "lock_sessions", work) /\ UNCHANGED <<tables, used, clock>>
      BY <1>5 DEF LockSession
    <2> HIDE DEF work
    <2>3. QED
      BY <1>2, <2>1, <2>2, MovesOn
  <1>6. QED
    BY <1>3, <1>4, <1>5

(* ... and when it does: what it locked is closed, all of it the user's.   *)
LEMMA CommitRefines ==
  ASSUME Inv, OwnerInv, NEW q \in Request, CommitRevocation(q)
  PROVE  Allowed
  <1> DEFINE u == job[q].target
             S == job[q].held
             off == job[q].op = "disable"
  <1>1. /\ Authenticated(q) /\ Selected(q) /\ Finish(q, "done")
        /\ UNCHANGED <<used, clock>> /\ pc[q] = "lock_sessions"
        /\ session' = Revoked(q, Seen(q))
    BY DEF CommitRevocation, Authenticated, Selected
  <1>2. /\ u \in User /\ S \in SUBSET SessionId /\ off \in BOOLEAN
        /\ job[q].session \in SessionId
    BY <1>1 DEF Inv, TypeOK, Job, PositionInv
  <1>3. \A s \in S : Exists(s) /\ session[s].user = u
    BY <1>1 DEF Inv, PositionInv, OwnerInv
  <1>4. ASSUME NEW s \in SessionId
        PROVE  /\ session'[s].user = session[s].user
               /\ session'[s].expires = session[s].expires
               /\ PhaseMap'[s] = IF s \in S THEN "closed" ELSE PhaseMap[s]
    <2>1. CASE s \in S
      <3>1. PICK old, row : old = Seen(q)[s] /\ row = [old EXCEPT !.revoked = TRUE]
        OBVIOUS
      <3>2. /\ session'[s] = row /\ old \in SessionRow /\ SameOutside(s, old)
        BY <1>1, <1>2, <2>1, <3>1, SeenOutside DEF Revoked
      <3>3. /\ row.user = old.user /\ row.expires = old.expires /\ row.revoked = TRUE
        BY <3>1, <3>2 DEF SessionRow
      <3>4. Exists(s)
        BY <1>3, <2>1
      <3>5. old.user = session[s].user /\ old.user # None
        BY <1>2, <1>3, <2>1, <3>2, SessionAssumption DEF SameOutside
      <3>6. row # NoSession
        BY <3>3, <3>5 DEF NoSession
      <3>7. QED
        BY <2>1, <3>2, <3>3, <3>5, <3>6 DEF SameOutside, PhaseMap, Phase, Exists
    <2>2. CASE s \notin S
      <3>1. session'[s] = Seen(q)[s]
        BY <1>1, <2>2 DEF Revoked
      <3>2. SameOutside(s, session'[s])
        BY <1>1, <3>1, SeenOutside
      <3>3. QED
        BY <2>2, <3>2 DEF SameOutside, PhaseMap, Phase, Exists
    <2>3. QED
      BY <2>1, <2>2
  <1>5. OwnerMap' = OwnerMap /\ EndsMap' = EndsMap
    BY <1>4 DEF OwnerMap, EndsMap
  <1>6. PhaseMap' = [s \in SessionId |-> IF s \in S THEN "closed" ELSE PhaseMap[s]]
    BY <1>4 DEF PhaseMap
  <1>7. EnabledMap' = IF off THEN EnabledMap \ {u} ELSE EnabledMap
    <2>1. CASE off
      <3>1. active' = [active EXCEPT ![u] = FALSE]
        BY <2>1 DEF CommitRevocation
      <3>2. QED
        BY <1>2, <2>1, <3>1 DEF EnabledMap, Inv, TypeOK
    <2>2. CASE ~off
      <3>1. UNCHANGED active
        BY <2>2 DEF CommitRevocation
      <3>2. QED
        BY <2>2, <3>1 DEF EnabledMap
    <2>3. QED
      BY <2>1, <2>2
  <1>8. ServingMap' = [ServingMap EXCEPT ![q] = None]
    BY <1>1, FinishServing
  <1>9. ServingMap[q] # None
    BY <1>1, <1>2, SessionAssumption DEF ServingMap, Serving
  <1>10. \A s \in S : PhaseMap[s] # "none" /\ OwnerMap[s] = u
    BY <1>2, <1>3 DEF PhaseMap, Phase, OwnerMap
  <1> HIDE DEF u, S, off
  <1>11. PICK v \in User, T \in SUBSET SessionId, o \in BOOLEAN : v = u /\ T = S /\ o = off
    BY <1>2
  <1>12. Lifecycle!Revoke(q, v, T, o)
    BY <1>1, <1>5, <1>6, <1>7, <1>8, <1>9, <1>10, <1>11
    DEF Lifecycle!Revoke, Lifecycle!Closing, EnabledMap, PhaseMap, OwnerMap, EndsMap,
        ServingMap, Serving
  <1>13. QED
    BY <1>11, <1>12 DEF Allowed, Lifecycle!Next

LEMMA StepRefines ==
  ASSUME Inv, OwnerInv, [Next]_vars
  PROVE  Allowed
  <1>1. ASSUME NEW q \in Request, Revoke(q)
        PROVE  Allowed
    BY <1>1, RevokingOn, CommitRefines DEF Revoke
  <1>2. ASSUME NEW q \in Request, Rollback(q) \/ DeadlockAbort(q)
        PROVE  Allowed
    BY <1>2, Answers, TablesSame DEF Rollback, DeadlockAbort
  <1>3. CASE Tick
    <2>1. UNCHANGED <<tables, used, pc, job>> /\ clock' = clock + 1
      BY <1>3 DEF Tick
    <2>2. ServingMap' = ServingMap
      BY <2>1 DEF ServingMap, Serving, Authenticated
    <2>3. Lifecycle!Tick
      BY <2>1, <2>2, TablesSame
      DEF Lifecycle!Tick, EnabledMap, PhaseMap, OwnerMap, EndsMap, ServingMap, Serving
    <2>4. QED
      BY <2>3 DEF Allowed, Lifecycle!Next
  <1>4. CASE UNCHANGED vars
    <2>1. UNCHANGED <<tables, used, clock, pc, job>>
      BY <1>4 DEF vars
    <2>2. ServingMap' = ServingMap
      BY <2>1 DEF ServingMap, Serving, Authenticated
    <2>3. QED
      BY <2>1, <2>2, TablesSame DEF Allowed, Outside
  <1>5. QED
    BY <1>1, <1>2, <1>3, <1>4, LoginRefines, ServeRefines, LogoutRefines DEF Next

LEMMA InitRefines == Init => Lifecycle!Init
  <1>1. ASSUME Init
        PROVE  /\ EnabledMap = User /\ used = [s \in SessionId |-> 0] /\ clock = 0
               /\ PhaseMap = [s \in SessionId |-> "none"]
               /\ OwnerMap = [s \in SessionId |-> None]
               /\ EndsMap = [s \in SessionId |-> 0]
               /\ ServingMap = [q \in Request |-> None]
    BY <1>1 DEF Init, EnabledMap, PhaseMap, Phase, Exists, OwnerMap, EndsMap, ServingMap,
       Serving, Authenticated, NoSession
  <1>2. QED
    BY <1>1 DEF Lifecycle!Init, EnabledMap, PhaseMap, OwnerMap, EndsMap, ServingMap,
       Serving

(* Every behaviour of the handlers is, seen from outside, one of the       *)
(* sessions SessionLifecycle describes: the rows they read before, the     *)
(* updates they lose and the locks they wait for do not show.              *)
THEOREM LifecycleRefinement == Spec => ImplementsLifecycle
  <1>1. Inv /\ OwnerInv /\ [Next]_vars => Allowed
    BY StepRefines
  <1>2. QED
    BY <1>1, InvAlways, OwnerInvAlways, InitRefines, PTL
    DEF Spec, ImplementsLifecycle, Lifecycle!Spec, Lifecycle!vars, Allowed, Outside,
        EnabledMap, PhaseMap, OwnerMap, EndsMap, ServingMap, Serving
=============================================================================
