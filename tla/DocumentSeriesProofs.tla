------------------------ MODULE DocumentSeriesProofs ------------------------
(***************************************************************************)
(* Proofs about DocumentSeries, for any number of requests, series and     *)
(* correlatives.                                                           *)
(***************************************************************************)
EXTENDS DocumentSeries, FiniteSetTheorems, TLAPS

(* What a handler knows at each of its steps.                              *)
JobInv ==
  \A r \in Request :
    /\ pc[r] \in {"create_insert", "create_commit"} => job[r].scope \in Scope
    /\ pc[r] \in {"reserve_lock", "reserve_commit"} =>
         /\ job[r].series \in SeriesId
         /\ job[r].quantity \in 1 .. MaxReservationSize
    /\ pc[r] = "reserve_commit" =>
         /\ Exists(job[r].series)
         /\ job[r].first = next[job[r].series]
         /\ job[r].first + job[r].quantity - 1 <= MaxCorrelativeLimit
    /\ pc[r] \in {"void_lock", "void_commit"} =>
         /\ job[r].series \in SeriesId
         /\ job[r].correlative \in Correlative
    /\ pc[r] = "void_commit" =>
         numbers[job[r].series][job[r].correlative].status = "RESERVED"
    /\ pc[r] \in {"count_reserved", "count_voided"} => job[r].series \in SeriesId

(* No two transactions hold the same lock, and a series that is being      *)
(* inserted has no committed row for its scope.                            *)
LockInv ==
  \A q, r \in Request :
    /\ \A s \in SeriesId : HoldsSeries(q, s) /\ HoldsSeries(r, s) => q = r
    /\ \A s \in SeriesId : \A c \in Correlative :
         HoldsNumber(q, s, c) /\ HoldsNumber(r, s, c) => q = r
    /\ \A sc \in Scope :
         HoldsScope(r, sc) =>
           /\ HoldsScope(q, sc) => q = r
           /\ \A s \in SeriesId : scopeOf[s] # sc

(* The rows of the three tables fit together.                              *)
RowInv ==
  /\ OneSeriesPerScope
  /\ NoGaps
  /\ RangeOwnsItsNumbers
  /\ \A s \in SeriesId : ~Exists(s) => next[s] = 1
  /\ \A rid \in ReservationId :
       \/ reservations[rid] = NoReservation
       \/ /\ reservations[rid].series \in SeriesId
          /\ 1 <= reservations[rid].first
          /\ reservations[rid].first <= reservations[rid].last
          /\ reservations[rid].last < next[reservations[rid].series]
  /\ \A s \in SeriesId : \A c \in Correlative :
       /\ numbers[s][c].status = "ABSENT" => numbers[s][c] = NoNumber
       /\ numbers[s][c].status # "ABSENT" =>
            numbers[s][c].reservation \in ReservationId

Inv == TypeOK /\ JobInv /\ LockInv /\ RowInv

-----------------------------------------------------------------------------
LEMMA CorrelativeFinite == IsFiniteSet(Correlative)
  BY FS_Interval, LimitAssumption DEF Correlative

LEMMA StatusCount ==
  ASSUME NEW s, NEW st
  PROVE  Cardinality(Status(s, st)) \in Nat
  <1>1. Status(s, st) \subseteq Correlative
    BY DEF Status
  <1>2. IsFiniteSet(Status(s, st))
    BY <1>1, CorrelativeFinite, FS_Subset
  <1>3. QED
    BY <1>2, FS_CardinalityType

(* Type correctness of the control part: what Goto and Finish assign.      *)
LEMMA GotoType ==
  ASSUME TypeOK, NEW r \in Request, NEW step \in Steps, NEW work \in Job,
         Goto(r, step, work)
  PROVE  /\ pc' \in [Request -> Steps]
         /\ job' \in [Request -> Job]
         /\ reply' \in [Request -> [kind : Outcome] \cup CounterReply \cup BookletReply]
  <1>1. [kind |-> "none"] \in [kind : Outcome]
    BY DEF Outcome
  <1>2. QED
    BY <1>1 DEF TypeOK, Goto

LEMMA FinishType ==
  ASSUME TypeOK, NEW r \in Request,
         NEW answer \in [kind : Outcome] \cup CounterReply \cup BookletReply,
         Finish(r, answer)
  PROVE  /\ pc' \in [Request -> Steps]
         /\ job' \in [Request -> Job]
         /\ reply' \in [Request -> [kind : Outcome] \cup CounterReply \cup BookletReply]
  <1>1. NoJob \in Job /\ "idle" \in Steps
    BY DEF NoJob, Job, Steps
  <1>2. QED
    BY <1>1 DEF TypeOK, Finish

LEMMA InitInv == Init => Inv
  <1> SUFFICES ASSUME Init PROVE Inv
    OBVIOUS
  <1> USE DEF Init
  <1>1. TypeOK
    <2>1. NoReservation \in ReservationRow /\ NoNumber \in NumberRow /\ NoJob \in Job
      BY DEF NoReservation, ReservationRow, NoNumber, NumberRow, NoJob, Job
    <2>2. "idle" \in Steps /\ Answer("none") \in [kind : Outcome]
      BY DEF Steps, Answer, Outcome
    <2>3. 1 \in 1 .. MaxCorrelativeLimit + 1
      BY LimitAssumption
    <2>4. QED
      BY <2>1, <2>2, <2>3 DEF TypeOK
  <1>2. JobInv
    BY DEF JobInv
  <1>3. LockInv
    BY DEF LockInv, HoldsSeries, HoldsNumber, HoldsScope
  <1>4. RowInv
    BY NoneAssumption, LimitAssumption
    DEF RowInv, OneSeriesPerScope, NoGaps, RangeOwnsItsNumbers, Exists,
        NoReservation, NoNumber, Correlative
  <1>5. QED
    BY <1>1, <1>2, <1>3, <1>4 DEF Inv
-----------------------------------------------------------------------------
(* Steps that change no table.                                             *)

LEMMA RowInvUnchanged ==
  ASSUME RowInv, UNCHANGED tables
  PROVE  RowInv'
  BY DEF RowInv, OneSeriesPerScope, NoGaps, RangeOwnsItsNumbers, Exists, tables

LEMMA AnswerType ==
  /\ Answer("none") \in [kind : Outcome]
  /\ Answer("duplicate_scope") \in [kind : Outcome]
  /\ Answer("duplicate_number") \in [kind : Outcome]
  BY DEF Answer, Outcome

(* A request that ends, or moves to a step where it holds no lock.         *)
LEMMA FinishKeeps ==
  ASSUME Inv, NEW r \in Request, UNCHANGED <<typeActive, tables>>,
         NEW answer \in [kind : Outcome] \cup CounterReply \cup BookletReply,
         Finish(r, answer)
  PROVE  Inv'
  <1> USE DEF Inv
  <1>1. TypeOK'
    BY FinishType DEF TypeOK, tables
  <1>2. JobInv'
    BY DEF JobInv, Finish, TypeOK, tables, Exists
  <1>3. LockInv'
    BY DEF LockInv, Finish, TypeOK, tables, HoldsSeries, HoldsNumber, HoldsScope
  <1>4. RowInv'
    BY RowInvUnchanged
  <1>5. QED
    BY <1>1, <1>2, <1>3, <1>4

LEMMA StartCreateInv ==
  ASSUME Inv, NEW r \in Request, NEW sc \in Scope, StartCreate(r, sc)
  PROVE  Inv'
  <1> DEFINE work == [NoJob EXCEPT !.scope = sc]
  <1>1. CASE Finish(r, Answer("none"))
    BY <1>1, FinishKeeps, AnswerType DEF StartCreate
  <1>2. CASE Goto(r, "create_insert", work)
    <2> USE DEF Inv
    <2>1. work \in Job /\ work.scope = sc /\ "create_insert" \in Steps
      BY DEF NoJob, Job, Steps
    <2>2. TypeOK'
      BY <1>2, <2>1, GotoType DEF TypeOK, tables, StartCreate
    <2>3. JobInv'
      BY <1>2, <2>1 DEF JobInv, Goto, TypeOK, tables, Exists, StartCreate
    <2>4. LockInv'
      BY <1>2 DEF LockInv, Goto, TypeOK, tables, HoldsSeries, HoldsNumber,
                  HoldsScope, StartCreate
    <2>5. QED
      BY <2>2, <2>3, <2>4, RowInvUnchanged DEF StartCreate
  <1>3. QED
    BY <1>1, <1>2 DEF StartCreate

LEMMA InsertSeriesInv ==
  ASSUME Inv, NEW r \in Request, InsertSeries(r)
  PROVE  Inv'
  <1>1. CASE Finish(r, Answer("duplicate_scope"))
    BY <1>1, FinishKeeps, AnswerType DEF InsertSeries
  <1>2. CASE /\ Goto(r, "create_commit", job[r])
             /\ \A s \in SeriesId : scopeOf[s] # job[r].scope
    <2> USE DEF Inv
    <2>1. job[r] \in Job /\ "create_commit" \in Steps
      BY DEF TypeOK, Steps
    <2>2. TypeOK'
      BY <1>2, <2>1, GotoType DEF TypeOK, tables, InsertSeries
    <2>3. JobInv'
      BY <1>2 DEF JobInv, Goto, TypeOK, tables, Exists, InsertSeries
    <2>4. LockInv'
      BY <1>2 DEF LockInv, Goto, TypeOK, tables, HoldsSeries, HoldsNumber,
                  HoldsScope, InsertSeries, ScopeUnlocked
    <2>5. QED
      BY <2>2, <2>3, <2>4, RowInvUnchanged DEF InsertSeries
  <1>3. QED
    BY <1>1, <1>2 DEF InsertSeries

LEMMA StartReserveInv ==
  ASSUME Inv, NEW r \in Request, NEW s \in SeriesId,
         NEW qty \in 1 .. MaxReservationSize, StartReserve(r, s, qty)
  PROVE  Inv'
  <1> DEFINE work == [NoJob EXCEPT !.series = s, !.quantity = qty]
  <1> USE DEF Inv
  <1>1. /\ work \in Job /\ "reserve_lock" \in Steps
        /\ work.series = s /\ work.quantity = qty
    <2>1. qty \in Nat
      BY LimitAssumption
    <2>2. "reserve_lock" \in Steps
      BY DEF Steps
    <2>3. QED
      BY <2>1, <2>2 DEF NoJob, Job
  <1>2. Goto(r, "reserve_lock", work) /\ UNCHANGED <<typeActive, tables>>
    BY DEF StartReserve
  <1>3. TypeOK'
    BY <1>1, <1>2, GotoType DEF TypeOK, tables
  <1>4. JobInv'
    BY <1>1, <1>2 DEF JobInv, Goto, TypeOK, tables, Exists
  <1>5. LockInv'
    BY <1>2 DEF LockInv, Goto, TypeOK, tables, HoldsSeries, HoldsNumber, HoldsScope
  <1>6. QED
    BY <1>2, <1>3, <1>4, <1>5, RowInvUnchanged

LEMMA LockSeriesInv ==
  ASSUME Inv, NEW r \in Request, LockSeries(r)
  PROVE  Inv'
  <1> DEFINE s == job[r].series
             work == [job[r] EXCEPT !.first = next[s]]
  <1> USE DEF Inv
  <1>1. CASE Finish(r, Answer("none"))
    BY <1>1, FinishKeeps, AnswerType DEF LockSeries
  <1>2. CASE /\ Goto(r, "reserve_commit", work)
             /\ MayAccess(r, s)
             /\ next[s] + job[r].quantity - 1 <= MaxCorrelativeLimit
    <2>1. s \in SeriesId /\ job[r].quantity \in 1 .. MaxReservationSize
      BY DEF JobInv, LockSeries
    <2>2. /\ work \in Job /\ "reserve_commit" \in Steps
          /\ work.series = s /\ work.quantity = job[r].quantity
          /\ work.first = next[s]
      <3>1. job[r] \in Job /\ next[s] \in Nat
        BY <2>1, LimitAssumption DEF TypeOK
      <3>2. "reserve_commit" \in Steps
        BY DEF Steps
      <3>3. QED
        BY <3>1, <3>2 DEF Job
    <2>3. TypeOK'
      BY <1>2, <2>2, GotoType DEF TypeOK, tables, LockSeries
    <2>4. JobInv'
      BY <1>2, <2>1, <2>2
      DEF JobInv, Goto, TypeOK, tables, Exists, LockSeries, MayAccess
    <2>5. LockInv'
      BY <1>2, <2>2 DEF LockInv, Goto, TypeOK, tables, HoldsSeries, HoldsNumber,
                  HoldsScope, LockSeries, SeriesUnlocked
    <2>6. QED
      BY <2>3, <2>4, <2>5, RowInvUnchanged DEF LockSeries
  <1>3. QED
    BY <1>1, <1>2 DEF LockSeries

LEMMA StartVoidInv ==
  ASSUME Inv, NEW r \in Request, NEW s \in SeriesId, NEW c \in Correlative,
         StartVoid(r, s, c)
  PROVE  Inv'
  <1> DEFINE work == [NoJob EXCEPT !.series = s, !.correlative = c]
  <1> USE DEF Inv
  <1>1. /\ work \in Job /\ "void_lock" \in Steps
        /\ work.series = s /\ work.correlative = c
    <2>1. c \in Nat
      BY LimitAssumption DEF Correlative
    <2>2. "void_lock" \in Steps
      BY DEF Steps
    <2>3. QED
      BY <2>1, <2>2 DEF NoJob, Job
  <1>2. Goto(r, "void_lock", work) /\ UNCHANGED <<typeActive, tables>>
    BY DEF StartVoid
  <1>3. TypeOK'
    BY <1>1, <1>2, GotoType DEF TypeOK, tables
  <1>4. JobInv'
    BY <1>1, <1>2 DEF JobInv, Goto, TypeOK, tables, Exists
  <1>5. LockInv'
    BY <1>2 DEF LockInv, Goto, TypeOK, tables, HoldsSeries, HoldsNumber, HoldsScope
  <1>6. QED
    BY <1>2, <1>3, <1>4, <1>5, RowInvUnchanged

LEMMA LockNumberInv ==
  ASSUME Inv, NEW r \in Request, LockNumber(r)
  PROVE  Inv'
  <1> USE DEF Inv
  <1>1. CASE Finish(r, Answer("none"))
    BY <1>1, FinishKeeps, AnswerType DEF LockNumber
  <1>2. CASE /\ Goto(r, "void_commit", job[r])
             /\ numbers[job[r].series][job[r].correlative].status = "RESERVED"
    <2>1. job[r] \in Job /\ "void_commit" \in Steps
      BY DEF TypeOK, Steps
    <2>2. TypeOK'
      BY <1>2, <2>1, GotoType DEF TypeOK, tables, LockNumber
    <2>3. JobInv'
      BY <1>2 DEF JobInv, Goto, TypeOK, tables, Exists, LockNumber
    <2>4. LockInv'
      BY <1>2 DEF LockInv, Goto, TypeOK, tables, HoldsSeries, HoldsNumber,
                  HoldsScope, LockNumber, NumberUnlocked
    <2>5. QED
      BY <2>2, <2>3, <2>4, RowInvUnchanged DEF LockNumber
  <1>3. QED
    BY <1>1, <1>2 DEF LockNumber

LEMMA StartCountInv ==
  ASSUME Inv, NEW r \in Request, NEW s \in SeriesId, StartCount(r, s)
  PROVE  Inv'
  <1> DEFINE work == [NoJob EXCEPT !.series = s, !.seen = next[s]]
  <1> USE DEF Inv
  <1>1. CASE Finish(r, Answer("none"))
    BY <1>1, FinishKeeps, AnswerType DEF StartCount
  <1>2. CASE Goto(r, "count_reserved", work)
    <2>1. work \in Job /\ work.series = s /\ "count_reserved" \in Steps
      <3>1. next[s] \in Nat
        BY LimitAssumption DEF TypeOK
      <3>2. "count_reserved" \in Steps
        BY DEF Steps
      <3>3. QED
        BY <3>1, <3>2 DEF NoJob, Job
    <2>2. TypeOK'
      BY <1>2, <2>1, GotoType DEF TypeOK, tables, StartCount
    <2>3. JobInv'
      BY <1>2, <2>1 DEF JobInv, Goto, TypeOK, tables, Exists, StartCount
    <2>4. LockInv'
      BY <1>2 DEF LockInv, Goto, TypeOK, tables, HoldsSeries, HoldsNumber,
                  HoldsScope, StartCount
    <2>5. QED
      BY <2>2, <2>3, <2>4, RowInvUnchanged DEF StartCount
  <1>3. QED
    BY <1>1, <1>2 DEF StartCount

LEMMA CountReservedInv ==
  ASSUME Inv, NEW r \in Request, CountReserved(r)
  PROVE  Inv'
  <1> DEFINE count == Cardinality(Status(job[r].series, "RESERVED"))
             work == [job[r] EXCEPT !.reserved = count]
  <1> USE DEF Inv
  <1>1. count \in Nat
    BY StatusCount
  <1> HIDE DEF count
  <1>2. /\ work \in Job /\ work.series = job[r].series
        /\ "count_voided" \in Steps
    <2>1. job[r] \in Job
      BY DEF TypeOK
    <2>2. QED
      BY ONLY <1>1, <2>1 DEF Job, Steps
  <1>3. Goto(r, "count_voided", work) /\ UNCHANGED <<typeActive, tables>>
    BY DEF CountReserved, count
  <1>4. TypeOK'
    BY <1>2, <1>3, GotoType DEF TypeOK, tables
  <1>5. JobInv'
    BY <1>2, <1>3 DEF JobInv, Goto, TypeOK, tables, Exists, CountReserved
  <1>6. LockInv'
    BY <1>3 DEF LockInv, Goto, TypeOK, tables, HoldsSeries, HoldsNumber, HoldsScope
  <1>7. QED
    BY <1>3, <1>4, <1>5, <1>6, RowInvUnchanged

LEMMA CountVoidedInv ==
  ASSUME Inv, NEW r \in Request, CountVoided(r)
  PROVE  Inv'
  <1> DEFINE count == Cardinality(Status(job[r].series, "VOIDED"))
             answer == [kind |-> "counters", series |-> job[r].series, next |-> job[r].seen,
                        reserved |-> job[r].reserved, voided |-> count]
  <1>1. count \in Nat
    BY StatusCount
  <1> HIDE DEF count
  <1>2. answer \in CounterReply
    <2>1. job[r].series \in SeriesId
      BY DEF CountVoided, Inv, JobInv
    <2>2. QED
      BY <1>1, <2>1 DEF CounterReply, Inv, TypeOK, Job
  <1>3. Finish(r, answer) /\ UNCHANGED <<typeActive, tables>>
    BY DEF CountVoided, count
  <1>4. QED
    BY <1>2, <1>3, FinishKeeps

LEMMA RollbackInv ==
  ASSUME Inv, NEW r \in Request, Rollback(r)
  PROVE  Inv'
  BY FinishKeeps, AnswerType DEF Rollback

LEMMA ToggleTypeInv ==
  ASSUME Inv, NEW sc \in Scope, ToggleType(sc)
  PROVE  Inv'
  <1> USE DEF Inv
  <1>1. TypeOK'
    BY DEF TypeOK, ToggleType, tables
  <1>2. JobInv' /\ LockInv'
    BY DEF JobInv, LockInv, ToggleType, tables, Exists, HoldsSeries,
           HoldsNumber, HoldsScope
  <1>3. QED
    BY <1>1, <1>2, RowInvUnchanged DEF ToggleType
-----------------------------------------------------------------------------
(* Steps that commit.                                                      *)

LEMMA FinishLockInv ==
  ASSUME TypeOK, LockInv, NEW r \in Request, NEW answer, Finish(r, answer),
         UNCHANGED scopeOf
  PROVE  LockInv'
  BY DEF LockInv, Finish, TypeOK, HoldsSeries, HoldsNumber, HoldsScope

LEMMA CommitSeriesInv ==
  ASSUME Inv, NEW r \in Request, NEW s \in SeriesId, CommitSeries(r, s)
  PROVE  Inv'
  <1> DEFINE sc == job[r].scope
  <1> USE DEF Inv
  <1>1. /\ pc[r] = "create_commit"
        /\ sc \in Scope
        /\ HoldsScope(r, sc)
        /\ ~Exists(s)
        /\ next[s] = 1
    BY DEF CommitSeries, JobInv, HoldsScope, RowInv
  <1>2. /\ next' = next
        /\ scopeOf' = [scopeOf EXCEPT ![s] = sc]
        /\ UNCHANGED <<reservations, numbers, typeActive>>
        /\ Finish(r, Answer("none"))
    BY <1>1 DEF CommitSeries, TypeOK
  <1>3. TypeOK'
    <2>1. Event("create", s, r) \in AuditEvent
      BY DEF Event, AuditEvent
    <2>2. audit' \subseteq AuditEvent
      BY <2>1 DEF CommitSeries, TypeOK
    <2>3. QED
      BY <1>1, <1>2, <2>2, FinishType, AnswerType DEF TypeOK
  <1>4. JobInv'
    BY <1>1, <1>2, NoneAssumption DEF JobInv, Finish, TypeOK, Exists
  <1>5. LockInv'
    BY <1>1, <1>2 DEF LockInv, Finish, TypeOK, HoldsSeries, HoldsNumber, HoldsScope
  <1>6. RowInv'
    <2>1. OneSeriesPerScope'
      BY <1>1, <1>2 DEF RowInv, OneSeriesPerScope, Exists, LockInv, TypeOK
    <2>2. \A t \in SeriesId : (~Exists(t))' => next'[t] = 1
      BY <1>1, <1>2 DEF RowInv, Exists, TypeOK
    <2>3. QED
      BY <1>2, <2>1, <2>2 DEF RowInv, NoGaps, RangeOwnsItsNumbers
  <1>7. QED
    BY <1>3, <1>4, <1>5, <1>6

(* The lock makes the range read by LockSeries still free at the commit.   *)
LEMMA BlockIsFree ==
  ASSUME Inv, NEW r \in Request, pc[r] = "reserve_commit"
  PROVE  \A c \in Block(r) : c \in Correlative /\ numbers[job[r].series][c] = NoNumber
  <1> USE DEF Inv
  <1> DEFINE s == job[r].series
  <1>1. /\ s \in SeriesId
        /\ job[r].quantity \in 1 .. MaxReservationSize
        /\ job[r].first = next[s]
        /\ next[s] + job[r].quantity - 1 <= MaxCorrelativeLimit
        /\ next[s] \in 1 .. MaxCorrelativeLimit + 1
    BY DEF JobInv, TypeOK
  <1>2. SUFFICES ASSUME NEW c \in Block(r)
                 PROVE  c \in Correlative /\ numbers[s][c] = NoNumber
    OBVIOUS
  <1>3. c \in Correlative /\ ~(c < next[s])
    BY <1>1, LimitAssumption DEF Block, Correlative
  <1>4. QED
    BY <1>1, <1>3 DEF RowInv, NoGaps

LEMMA CommitReservationEffect ==
  ASSUME Inv, NEW r \in Request, NEW rid \in ReservationId,
         CommitReservation(r, rid)
  PROVE  /\ pc[r] = "reserve_commit"
         /\ job[r].series \in SeriesId
         /\ Exists(job[r].series)
         /\ job[r].first = next[job[r].series]
         /\ job[r].first \in Nat /\ 1 <= job[r].first
         /\ job[r].quantity \in Nat /\ 1 <= job[r].quantity
         /\ job[r].first + job[r].quantity <= MaxCorrelativeLimit + 1
         /\ reservations[rid] = NoReservation
         /\ next' = [next EXCEPT ![job[r].series] = job[r].first + job[r].quantity]
         /\ reservations' = [reservations EXCEPT ![rid] =
              [series |-> job[r].series, first |-> job[r].first,
               last |-> job[r].first + job[r].quantity - 1]]
         /\ numbers' = [numbers EXCEPT ![job[r].series] =
              [c \in Correlative |->
                 IF c \in Block(r)
                   THEN [status |-> "RESERVED", reservation |-> rid,
                         voidedBy |-> None]
                   ELSE numbers[job[r].series][c]]]
         /\ audit' = audit \cup {Event("reserve", rid, r)}
         /\ Finish(r, Answer("none"))
         /\ UNCHANGED <<scopeOf, typeActive>>
  <1>1. pc[r] = "reserve_commit"
    BY DEF CommitReservation
  <1>2. ~ \E c \in Block(r) : numbers[job[r].series][c] # NoNumber
    BY <1>1, BlockIsFree
  <1>3. /\ job[r].series \in SeriesId
        /\ Exists(job[r].series)
        /\ job[r].first = next[job[r].series]
        /\ job[r].quantity \in 1 .. MaxReservationSize
        /\ job[r].first + job[r].quantity - 1 <= MaxCorrelativeLimit
    BY <1>1 DEF Inv, JobInv
  <1>4. next[job[r].series] \in 1 .. MaxCorrelativeLimit + 1
    BY <1>3 DEF Inv, TypeOK
  <1>5. /\ job[r].first \in Nat /\ 1 <= job[r].first
        /\ job[r].quantity \in Nat /\ 1 <= job[r].quantity
        /\ job[r].first + job[r].quantity <= MaxCorrelativeLimit + 1
    BY <1>3, <1>4, LimitAssumption
  <1>6. QED
    BY <1>1, <1>2, <1>3, <1>5 DEF CommitReservation

LEMMA CommitReservationInv ==
  ASSUME Inv, NEW r \in Request, NEW rid \in ReservationId,
         CommitReservation(r, rid)
  PROVE  Inv'
  <1> DEFINE s == job[r].series
             first == job[r].first
             qty == job[r].quantity
             row == [status |-> "RESERVED", reservation |-> rid, voidedBy |-> None]
             range == [series |-> s, first |-> first, last |-> first + qty - 1]
  <1> USE DEF Inv
  <1>1. /\ pc[r] = "reserve_commit"
        /\ s \in SeriesId /\ Exists(s)
        /\ first = next[s]
        /\ first \in Nat /\ 1 <= first /\ qty \in Nat /\ 1 <= qty
        /\ first + qty <= MaxCorrelativeLimit + 1
        /\ reservations[rid] = NoReservation
        /\ next' = [next EXCEPT ![s] = first + qty]
        /\ reservations' = [reservations EXCEPT ![rid] = range]
        /\ numbers' = [numbers EXCEPT ![s] =
             [c \in Correlative |->
                IF c \in Block(r) THEN row ELSE numbers[s][c]]]
        /\ audit' = audit \cup {Event("reserve", rid, r)}
        /\ Finish(r, Answer("none"))
        /\ UNCHANGED <<scopeOf, typeActive>>
    BY CommitReservationEffect
  <1>2. /\ \A c \in Block(r) : c \in Correlative /\ numbers[s][c] = NoNumber
        /\ \A c \in Correlative : c \in Block(r) <=> first <= c /\ c < first + qty
        /\ Correlative \subseteq Nat
    <2>1. \A c \in Block(r) : c \in Correlative /\ numbers[s][c] = NoNumber
      BY <1>1, BlockIsFree
    <2>2. QED
      BY <1>1, <2>1, LimitAssumption DEF Block, Correlative
  <1>3. /\ \A t \in SeriesId : \A c \in Correlative :
             numbers'[t][c] = IF t = s /\ c \in Block(r) THEN row ELSE numbers[t][c]
        /\ \A t \in SeriesId : next'[t] = IF t = s THEN first + qty ELSE next[t]
        /\ \A v \in ReservationId :
             reservations'[v] = IF v = rid THEN range ELSE reservations[v]
    BY <1>1 DEF TypeOK
  <1> HIDE DEF s, first, qty
  <1>4. TypeOK'
    <2>1. row \in NumberRow /\ range \in ReservationRow
      BY <1>1, LimitAssumption DEF NumberRow, ReservationRow
    <2>2. Event("reserve", rid, r) \in AuditEvent
      BY DEF Event, AuditEvent
    <2>3. next' \in [SeriesId -> 1 .. MaxCorrelativeLimit + 1]
      BY <1>1, LimitAssumption DEF TypeOK
    <2>4. numbers' \in [SeriesId -> [Correlative -> NumberRow]]
      BY <1>1, <2>1 DEF TypeOK
    <2>5. reservations' \in [ReservationId -> ReservationRow]
      BY <1>1, <2>1 DEF TypeOK
    <2>6. audit' \subseteq AuditEvent
      BY <1>1, <2>2 DEF TypeOK
    <2>7. QED
      BY <1>1, <2>3, <2>4, <2>5, <2>6, FinishType, AnswerType DEF TypeOK
  <1>5. JobInv'
    <2> SUFFICES ASSUME NEW q \in Request, q # r
                 PROVE  JobInv!(q)'
      BY <1>1 DEF JobInv, Finish, TypeOK
    <2>1. pc'[q] = pc[q] /\ job'[q] = job[q]
      BY <1>1 DEF Finish, TypeOK
    <2>2. pc[q] = "reserve_commit" => job[q].series # s
      BY <1>1 DEF LockInv, HoldsSeries, JobInv, s
    <2>3. pc[q] = "void_commit" =>
            numbers'[job[q].series][job[q].correlative].status = "RESERVED"
      BY <1>3 DEF JobInv
    <2>4. QED
      BY <1>1, <1>3, <2>1, <2>2, <2>3 DEF JobInv, Exists
  <1>6. LockInv'
    BY <1>1, FinishLockInv
  <1>7. RowInv'
    <2>1. OneSeriesPerScope'
      BY <1>1 DEF RowInv, OneSeriesPerScope, Exists
    <2>2. NoGaps'
      <3> SUFFICES ASSUME NEW t \in SeriesId, NEW c \in Correlative
                   PROVE  (numbers'[t][c].status # "ABSENT" <=> c < next'[t])
        BY DEF NoGaps
      <3>1. numbers[t][c].status # "ABSENT" <=> c < next[t]
        BY DEF RowInv, NoGaps
      <3>2. c \in Nat /\ next[t] \in Nat
        BY <1>2, LimitAssumption DEF TypeOK
      <3>3. QED
        BY <1>1, <1>2, <1>3, <3>1, <3>2
    <2>3. RangeOwnsItsNumbers'
      <3> SUFFICES ASSUME NEW t \in SeriesId, NEW v \in ReservationId,
                          NEW c \in Correlative
                   PROVE  (numbers'[t][c].reservation = v <=>
                             /\ reservations'[v].series = t
                             /\ c \in reservations'[v].first .. reservations'[v].last)
        BY DEF RangeOwnsItsNumbers
      <3>1. numbers[t][c].reservation = v <=>
              /\ reservations[v].series = t
              /\ c \in reservations[v].first .. reservations[v].last
        BY DEF RowInv, RangeOwnsItsNumbers
      <3>2. numbers[t][c].reservation # rid
        BY <1>1, NoneAssumption DEF NoReservation, RowInv, RangeOwnsItsNumbers
      <3>3. CASE t = s /\ c \in Block(r)
        <4>1. numbers[t][c].reservation # v
          BY <1>2, <3>3, NoneAssumption DEF NoNumber
        <4>2. QED
          BY <1>1, <1>2, <1>3, <3>1, <3>3, <4>1
      <3>4. CASE ~(t = s /\ c \in Block(r))
        BY <1>1, <1>2, <1>3, <3>1, <3>2, <3>4
      <3>5. QED
        BY <3>3, <3>4
    <2>4. \A t \in SeriesId : (~Exists(t))' => next'[t] = 1
      BY <1>1, <1>3 DEF RowInv, Exists
    <2>5. \A v \in ReservationId :
            \/ reservations'[v] = NoReservation
            \/ /\ reservations'[v].series \in SeriesId
               /\ 1 <= reservations'[v].first
               /\ reservations'[v].first <= reservations'[v].last
               /\ reservations'[v].last < next'[reservations'[v].series]
      <3> SUFFICES ASSUME NEW v \in ReservationId
                   PROVE  <2>5!(v)
        OBVIOUS
      <3>1. CASE v = rid
        BY <1>1, <1>3, <3>1
      <3>2. CASE v # rid /\ reservations[v] # NoReservation
        <4>1. /\ reservations[v].series \in SeriesId
              /\ 1 <= reservations[v].first
              /\ reservations[v].first <= reservations[v].last
              /\ reservations[v].last < next[reservations[v].series]
              /\ reservations[v].last \in Nat
          BY <3>2 DEF RowInv, TypeOK, ReservationRow
        <4>2. QED
          BY <1>1, <1>3, <3>2, <4>1
      <3>3. QED
        BY <1>3, <3>1, <3>2
    <2>6. \A t \in SeriesId : \A c \in Correlative :
            /\ numbers'[t][c].status = "ABSENT" => numbers'[t][c] = NoNumber
            /\ numbers'[t][c].status # "ABSENT" =>
                 numbers'[t][c].reservation \in ReservationId
      BY <1>3 DEF RowInv
    <2>7. QED
      BY <2>1, <2>2, <2>3, <2>4, <2>5, <2>6 DEF RowInv
  <1>8. QED
    BY <1>4, <1>5, <1>6, <1>7

LEMMA CommitVoidInv ==
  ASSUME Inv, NEW r \in Request, CommitVoid(r)
  PROVE  Inv'
  <1> DEFINE s == job[r].series
             c == job[r].correlative
             row == [status |-> "VOIDED", reservation |-> numbers[s][c].reservation,
                     voidedBy |-> r]
  <1> USE DEF Inv
  <1>1. /\ pc[r] = "void_commit"
        /\ s \in SeriesId /\ c \in Correlative
        /\ numbers[s][c].status = "RESERVED"
        /\ numbers' = [numbers EXCEPT ![s] = [numbers[s] EXCEPT ![c] = row]]
        /\ audit' = audit \cup {Event("void", <<s, c>>, r)}
        /\ Finish(r, Answer("none"))
        /\ UNCHANGED <<typeActive, scopeOf, next, reservations>>
    BY DEF CommitVoid, JobInv
  <1>2. \A t \in SeriesId : \A d \in Correlative :
          numbers'[t][d] = IF t = s /\ d = c THEN row ELSE numbers[t][d]
    BY <1>1 DEF TypeOK
  <1>3. TypeOK'
    <2>1. row \in NumberRow
      BY <1>1 DEF NumberRow, TypeOK
    <2>2. Event("void", <<s, c>>, r) \in AuditEvent
      BY <1>1 DEF Event, AuditEvent
    <2>3. numbers' \in [SeriesId -> [Correlative -> NumberRow]]
      BY <1>1, <2>1 DEF TypeOK
    <2>4. audit' \subseteq AuditEvent
      BY <1>1, <2>2 DEF TypeOK
    <2>5. QED
      BY <1>1, <2>3, <2>4, FinishType, AnswerType DEF TypeOK
  <1>4. JobInv'
    <2> SUFFICES ASSUME NEW q \in Request, q # r
                 PROVE  JobInv!(q)'
      BY <1>1 DEF JobInv, Finish, TypeOK
    <2>1. pc'[q] = pc[q] /\ job'[q] = job[q]
      BY <1>1 DEF Finish, TypeOK
    <2>2. pc[q] = "void_commit" => ~(job[q].series = s /\ job[q].correlative = c)
      BY <1>1 DEF LockInv, HoldsNumber
    <2>3. QED
      BY <1>1, <1>2, <2>1, <2>2 DEF JobInv, Exists
  <1>5. LockInv'
    BY <1>1, FinishLockInv
  <1>6. RowInv'
    <2>1. NoGaps'
      BY <1>1, <1>2 DEF RowInv, NoGaps
    <2>2. RangeOwnsItsNumbers'
      BY <1>1, <1>2 DEF RowInv, RangeOwnsItsNumbers
    <2>3. \A t \in SeriesId : \A d \in Correlative :
            /\ numbers'[t][d].status = "ABSENT" => numbers'[t][d] = NoNumber
            /\ numbers'[t][d].status # "ABSENT" =>
                 numbers'[t][d].reservation \in ReservationId
      BY <1>1, <1>2 DEF RowInv
    <2>4. QED
      BY <1>1, <2>1, <2>2, <2>3 DEF RowInv, OneSeriesPerScope, Exists
  <1>7. QED
    BY <1>3, <1>4, <1>5, <1>6

LEMMA DownloadBookletInv ==
  ASSUME Inv, NEW r \in Request, NEW rid \in ReservationId, DownloadBooklet(r, rid)
  PROVE  Inv'
  <1> DEFINE s == reservations[rid].series
             answer == [kind |-> "booklet", reservation |-> rid,
                        rows |-> [c \in Correlative |->
                                    IF numbers[s][c].reservation = rid
                                      THEN numbers[s][c].status
                                      ELSE "ABSENT"]]
  <1> USE DEF Inv
  <1>1. CASE Finish(r, Answer("none")) /\ UNCHANGED audit
    BY <1>1, FinishKeeps, AnswerType DEF DownloadBooklet, tables
  <1>2. CASE /\ s # None
             /\ Finish(r, answer)
             /\ audit' = audit \cup {Event("download", rid, r)}
    <2>1. s \in SeriesId
      BY <1>2 DEF TypeOK, ReservationRow
    <2>2. answer \in BookletReply
      BY <2>1 DEF BookletReply, TypeOK, NumberRow
    <2>3. Event("download", rid, r) \in AuditEvent
      BY DEF Event, AuditEvent
    <2>4. UNCHANGED <<typeActive, scopeOf, next, reservations, numbers>>
      BY DEF DownloadBooklet
    <2> HIDE DEF answer
    <2>5. TypeOK'
      BY <1>2, <2>2, <2>3, <2>4, FinishType DEF TypeOK
    <2>6. JobInv'
      BY <1>2, <2>4 DEF JobInv, Finish, TypeOK, Exists
    <2>7. LockInv'
      BY <1>2, <2>4, FinishLockInv
    <2>8. RowInv'
      BY <2>4 DEF RowInv, OneSeriesPerScope, NoGaps, RangeOwnsItsNumbers, Exists
    <2>9. QED
      BY <2>5, <2>6, <2>7, <2>8
  <1>3. QED
    BY <1>1, <1>2 DEF DownloadBooklet
-----------------------------------------------------------------------------
(* The invariant, and what follows from it.                                *)

LEMMA NextInv == Inv /\ [Next]_vars => Inv'
  <1> SUFFICES ASSUME Inv, [Next]_vars PROVE Inv'
    OBVIOUS
  <1>1. ASSUME NEW r \in Request, Create(r) PROVE Inv'
    BY <1>1, StartCreateInv, InsertSeriesInv, CommitSeriesInv DEF Create
  <1>2. ASSUME NEW r \in Request, Reserve(r) PROVE Inv'
    BY <1>2, StartReserveInv, LockSeriesInv, CommitReservationInv DEF Reserve
  <1>3. ASSUME NEW r \in Request, Void(r) PROVE Inv'
    BY <1>3, StartVoidInv, LockNumberInv, CommitVoidInv DEF Void
  <1>4. ASSUME NEW r \in Request, Read(r) PROVE Inv'
    BY <1>4, StartCountInv, CountReservedInv, CountVoidedInv, DownloadBookletInv
    DEF Read
  <1>5. ASSUME NEW r \in Request, Rollback(r) PROVE Inv'
    BY <1>5, RollbackInv
  <1>6. ASSUME NEW sc \in Scope, ToggleType(sc) PROVE Inv'
    BY <1>6, ToggleTypeInv
  <1>7. CASE UNCHANGED vars
    BY <1>7 DEF vars, tables, Inv, TypeOK, JobInv, LockInv, RowInv, OneSeriesPerScope,
                NoGaps, RangeOwnsItsNumbers, Exists, HoldsSeries, HoldsNumber, HoldsScope
  <1>8. QED
    BY <1>1, <1>2, <1>3, <1>4, <1>5, <1>6, <1>7 DEF Next

LEMMA InvAlways == Spec => []Inv
  BY InitInv, NextInv, PTL DEF Spec

(* The rows, positions and answers always have their type: in particular   *)
(* next_correlative never passes MAX_CORRELATIVE_LIMIT + 1.                *)
THEOREM TypeCorrect == Spec => []TypeOK
  <1>1. Inv => TypeOK
    BY DEF Inv
  <1>2. QED
    BY <1>1, InvAlways, PTL

(* Whatever the race between create_series requests, a scope has one row.  *)
THEOREM ScopeUnique == Spec => []OneSeriesPerScope
  <1>1. Inv => OneSeriesPerScope
    BY DEF Inv, RowInv
  <1>2. QED
    BY <1>1, InvAlways, PTL

(* The numbers handed out are exactly those below next_correlative.        *)
THEOREM NumbersContiguous == Spec => []NoGaps
  <1>1. Inv => NoGaps
    BY DEF Inv, RowInv
  <1>2. QED
    BY <1>1, InvAlways, PTL

(* Reservations and number rows always tell the same story.                *)
THEOREM RangesMatchNumbers == Spec => []RangeOwnsItsNumbers
  <1>1. Inv => RangeOwnsItsNumbers
    BY DEF Inv, RowInv
  <1>2. QED
    BY <1>1, InvAlways, PTL

(* Two reservations of a series never overlap.                             *)
THEOREM RangesNeverOverlap == Spec => []RangesDisjoint
  <1>1. Inv => RangesDisjoint
    <2> SUFFICES ASSUME Inv,
                        NEW a \in ReservationId, NEW b \in ReservationId,
                        a # b,
                        reservations[a].series = reservations[b].series,
                        reservations[a].series # None,
                        ~ (reservations[a].last < reservations[b].first),
                        ~ (reservations[b].last < reservations[a].first)
                 PROVE  FALSE
      BY DEF RangesDisjoint
    <2> DEFINE s == reservations[a].series
               c == IF reservations[a].first <= reservations[b].first
                      THEN reservations[b].first
                      ELSE reservations[a].first
    <2>1. /\ s \in SeriesId
          /\ 1 <= reservations[a].first /\ 1 <= reservations[b].first
          /\ reservations[a].first \in Nat /\ reservations[b].first \in Nat
          /\ reservations[a].last \in Nat /\ reservations[b].last \in Nat
          /\ reservations[a].first <= reservations[a].last
          /\ reservations[b].first <= reservations[b].last
          /\ reservations[a].last < next[s] /\ reservations[b].last < next[s]
          /\ next[s] \in 1 .. MaxCorrelativeLimit + 1
      BY DEF Inv, TypeOK, RowInv, ReservationRow, NoReservation
    <2>2. /\ c \in reservations[a].first .. reservations[a].last
          /\ c \in reservations[b].first .. reservations[b].last
          /\ c \in Correlative
      BY <2>1, LimitAssumption DEF Correlative
    <2>3. numbers[s][c].reservation = a /\ numbers[s][c].reservation = b
      BY <2>1, <2>2 DEF Inv, RowInv, RangeOwnsItsNumbers
    <2>4. QED
      BY <2>3
  <1>2. QED
    BY <1>1, InvAlways, PTL

(* No reservation ever fails on the unique constraint of the numbers.      *)
THEOREM NeverConflicts == Spec => []AllocationNeverConflicts
  <1>1. Init => AllocationNeverConflicts
    BY DEF Init, AllocationNeverConflicts, Answer
  <1>2. Inv /\ AllocationNeverConflicts /\ [Next]_vars => AllocationNeverConflicts'
    <2> SUFFICES ASSUME Inv, AllocationNeverConflicts, [Next]_vars
                 PROVE  AllocationNeverConflicts'
      OBVIOUS
    <2>1. ASSUME NEW r \in Request, NEW answer, answer.kind # "duplicate_number",
                 reply' = [reply EXCEPT ![r] = answer]
          PROVE  AllocationNeverConflicts'
      BY <2>1 DEF AllocationNeverConflicts, Inv, TypeOK
    <2>2. /\ Answer("none").kind # "duplicate_number"
          /\ Answer("duplicate_scope").kind # "duplicate_number"
          /\ [kind |-> "none"].kind # "duplicate_number"
      BY DEF Answer
    <2>3. ASSUME NEW r \in Request, Create(r) PROVE AllocationNeverConflicts'
      BY <2>1, <2>2, <2>3
      DEF Create, StartCreate, InsertSeries, CommitSeries, Goto, Finish
    <2>4. ASSUME NEW r \in Request, Reserve(r) PROVE AllocationNeverConflicts'
      <3>1. ASSUME NEW rid \in ReservationId, CommitReservation(r, rid)
            PROVE  AllocationNeverConflicts'
        <4>1. Finish(r, Answer("none"))
          BY <3>1, CommitReservationEffect
        <4>2. QED
          BY <4>1, <2>1, <2>2 DEF Finish
      <3>2. QED
        BY <2>1, <2>2, <2>4, <3>1 DEF Reserve, StartReserve, LockSeries, Goto, Finish
    <2>5. ASSUME NEW r \in Request, Void(r) PROVE AllocationNeverConflicts'
      BY <2>1, <2>2, <2>5 DEF Void, StartVoid, LockNumber, CommitVoid, Goto, Finish
    <2>6. ASSUME NEW r \in Request, Read(r) PROVE AllocationNeverConflicts'
      BY <2>1, <2>2, <2>6
      DEF Read, StartCount, CountReserved, CountVoided, DownloadBooklet, Goto, Finish
    <2>7. ASSUME NEW r \in Request, Rollback(r) PROVE AllocationNeverConflicts'
      BY <2>1, <2>2, <2>7 DEF Rollback, Finish
    <2>8. ASSUME NEW sc \in Scope, ToggleType(sc) PROVE AllocationNeverConflicts'
      BY <2>8 DEF ToggleType, AllocationNeverConflicts
    <2>9. CASE UNCHANGED vars
      BY <2>9 DEF vars, AllocationNeverConflicts
    <2>10. QED
      BY <2>3, <2>4, <2>5, <2>6, <2>7, <2>8, <2>9 DEF Next
  <1>3. QED
    BY <1>1, <1>2, InvAlways, PTL DEF Spec

-----------------------------------------------------------------------------
(* What a step does to the numbers and to next_correlative.                *)

LEMMA TableSteps ==
  ASSUME Inv, [Next]_vars
  PROVE  \/ UNCHANGED <<next, reservations, numbers>>
         \/ \E r \in Request, rid \in ReservationId : CommitReservation(r, rid)
         \/ \E r \in Request : CommitVoid(r)
  <1>1. ASSUME NEW r \in Request, Create(r)
        PROVE  UNCHANGED <<next, reservations, numbers>>
    <2>1. ASSUME NEW s \in SeriesId, CommitSeries(r, s)
          PROVE  UNCHANGED <<next, reservations, numbers>>
      BY <2>1 DEF CommitSeries, Inv, TypeOK, RowInv
    <2>2. QED
      BY <1>1, <2>1 DEF Create, StartCreate, InsertSeries, tables
  <1>2. ASSUME NEW r \in Request, Read(r) \/ Rollback(r)
        PROVE  UNCHANGED <<next, reservations, numbers>>
    BY <1>2 DEF Read, Rollback, StartCount, CountReserved, CountVoided,
                DownloadBooklet, tables
  <1>3. ASSUME NEW sc \in Scope, ToggleType(sc)
        PROVE  UNCHANGED <<next, reservations, numbers>>
    BY <1>3 DEF ToggleType, tables
  <1>4. ASSUME NEW r \in Request, Reserve(r),
               ~ \E rid \in ReservationId : CommitReservation(r, rid)
        PROVE  UNCHANGED <<next, reservations, numbers>>
    BY <1>4 DEF Reserve, StartReserve, LockSeries, tables
  <1>5. ASSUME NEW r \in Request, Void(r), ~ CommitVoid(r)
        PROVE  UNCHANGED <<next, reservations, numbers>>
    BY <1>5 DEF Void, StartVoid, LockNumber, tables
  <1>6. CASE UNCHANGED vars
    BY <1>6 DEF vars, tables
  <1>7. QED
    BY <1>1, <1>2, <1>3, <1>4, <1>5, <1>6 DEF Next

LEMMA NumberStays ==
  ASSUME Inv, [Next]_vars, NEW s \in SeriesId, NEW c \in Correlative
  PROVE  /\ numbers[s][c].status # "ABSENT" =>
              numbers'[s][c].reservation = numbers[s][c].reservation
         /\ numbers[s][c].status = "VOIDED" => numbers'[s][c] = numbers[s][c]
  <1>1. CASE UNCHANGED <<next, reservations, numbers>>
    BY <1>1
  <1>2. ASSUME NEW r \in Request, NEW rid \in ReservationId, CommitReservation(r, rid)
        PROVE  /\ numbers[s][c].status # "ABSENT" =>
                    numbers'[s][c].reservation = numbers[s][c].reservation
               /\ numbers[s][c].status = "VOIDED" => numbers'[s][c] = numbers[s][c]
    <2>1. /\ numbers' = [numbers EXCEPT ![job[r].series] =
               [d \in Correlative |->
                  IF d \in Block(r)
                    THEN [status |-> "RESERVED", reservation |-> rid,
                          voidedBy |-> None]
                    ELSE numbers[job[r].series][d]]]
          /\ \A d \in Block(r) : numbers[job[r].series][d] = NoNumber
          /\ job[r].series \in SeriesId
      BY <1>2, CommitReservationEffect, BlockIsFree
    <2>2. QED
      BY <2>1 DEF NoNumber, Inv, TypeOK
  <1>3. ASSUME NEW r \in Request, CommitVoid(r)
        PROVE  /\ numbers[s][c].status # "ABSENT" =>
                    numbers'[s][c].reservation = numbers[s][c].reservation
               /\ numbers[s][c].status = "VOIDED" => numbers'[s][c] = numbers[s][c]
    <2>1. /\ job[r].series \in SeriesId /\ job[r].correlative \in Correlative
          /\ numbers[job[r].series][job[r].correlative].status = "RESERVED"
      BY <1>3 DEF CommitVoid, Inv, JobInv
    <2>2. QED
      BY <1>3, <2>1 DEF CommitVoid, Inv, TypeOK
  <1>4. QED
    BY <1>1, <1>2, <1>3, TableSteps

(* A reservation keeps its numbers and a void number stays as it was       *)
(* voided, through every step.                                             *)
THEOREM HistoryKept == Spec => NumbersKeepTheirHistory
  <1>1. Inv /\ [Next]_vars =>
          [\A s \in SeriesId : \A c \in Correlative :
             /\ numbers[s][c].status # "ABSENT" =>
                  numbers'[s][c].reservation = numbers[s][c].reservation
             /\ numbers[s][c].status = "VOIDED" => numbers'[s][c] = numbers[s][c]]_vars
    BY NumberStays
  <1>2. QED
    BY <1>1, InvAlways, PTL DEF Spec, NumbersKeepTheirHistory

(* next_correlative moves forward only, and only with the reservation of   *)
(* what it passes.                                                         *)
THEOREM NextIsMonotone == Spec => NextMovesWithAReservation
  <1>1. ASSUME Inv, [Next]_vars, NEW s \in SeriesId, next'[s] # next[s]
        PROVE  \E rid \in ReservationId :
                 /\ reservations[rid] = NoReservation
                 /\ reservations'[rid] =
                      [series |-> s, first |-> next[s], last |-> next'[s] - 1]
                 /\ next[s] < next'[s]
    <2>1. ~ \E r \in Request : CommitVoid(r)
      BY <1>1 DEF CommitVoid
    <2>2. PICK r \in Request, rid \in ReservationId : CommitReservation(r, rid)
      BY <1>1, <2>1, TableSteps
    <2>3. /\ job[r].series \in SeriesId
          /\ job[r].first = next[job[r].series]
          /\ job[r].first \in Nat /\ job[r].quantity \in Nat /\ 1 <= job[r].quantity
          /\ reservations[rid] = NoReservation
          /\ next' = [next EXCEPT ![job[r].series] = job[r].first + job[r].quantity]
          /\ reservations' = [reservations EXCEPT ![rid] =
               [series |-> job[r].series, first |-> job[r].first,
                last |-> job[r].first + job[r].quantity - 1]]
      BY <1>1, <2>2, CommitReservationEffect
    <2>4. s = job[r].series /\ next'[s] = job[r].first + job[r].quantity
      BY <1>1, <2>3 DEF Inv, TypeOK
    <2>5. /\ reservations'[rid] =
               [series |-> s, first |-> next[s], last |-> next'[s] - 1]
          /\ next[s] < next'[s]
      BY <1>1, <2>3, <2>4 DEF Inv, TypeOK
    <2>6. QED
      BY <2>3, <2>5
  <1>2. Inv /\ [Next]_vars =>
          [\A s \in SeriesId :
             next'[s] # next[s] =>
               \E rid \in ReservationId :
                 /\ reservations[rid] = NoReservation
                 /\ reservations'[rid] =
                      [series |-> s, first |-> next[s], last |-> next'[s] - 1]
                 /\ next[s] < next'[s]]_vars
    BY <1>1
  <1>3. QED
    BY <1>2, InvAlways, PTL DEF Spec, NextMovesWithAReservation
-----------------------------------------------------------------------------
(* The registry implements the abstract allocator.                         *)

(* The refinement mapping: who holds which number, and which are void.     *)
HolderMap == [s \in SeriesId |-> [c \in Correlative |-> numbers[s][c].reservation]]
VoidedMap == [s \in SeriesId |-> Status(s, "VOIDED")]

LEMMA InitRefines == Init => Allocation!Init
  BY DEF Init, Allocation!Init, NoNumber, Correlative, Status

LEMMA ReservationRefines ==
  ASSUME Inv, NEW r \in Request, NEW rid \in ReservationId,
         CommitReservation(r, rid)
  PROVE  Allocation!Next
  <1>0. PICK s \in SeriesId, first \in Nat, last \in Nat :
          /\ s = job[r].series
          /\ first = job[r].first
          /\ last = job[r].first + job[r].quantity - 1
    <2>1. /\ job[r].series \in SeriesId
          /\ job[r].first \in Nat
          /\ job[r].quantity \in Nat /\ 1 <= job[r].quantity
      BY CommitReservationEffect
    <2>2. job[r].first + job[r].quantity - 1 \in Nat
      BY <2>1
    <2>3. QED
      BY <2>1, <2>2
  <1>1. /\ s \in SeriesId
        /\ first = next[s]
        /\ first \in Nat /\ 1 <= first
        /\ job[r].quantity \in Nat /\ 1 <= job[r].quantity
        /\ first + job[r].quantity <= MaxCorrelativeLimit + 1
        /\ reservations[rid] = NoReservation
        /\ numbers' = [numbers EXCEPT ![s] =
             [c \in Correlative |->
                IF c \in Block(r)
                  THEN [status |-> "RESERVED", reservation |-> rid, voidedBy |-> None]
                  ELSE numbers[s][c]]]
    BY <1>0, CommitReservationEffect
  <1>2. /\ first \in Correlative /\ last \in Correlative /\ first <= last
        /\ Block(r) = first .. last
    BY <1>0, <1>1, LimitAssumption DEF Correlative, Block
  <1>3. \A c \in Block(r) : c \in Correlative /\ numbers[s][c] = NoNumber
    BY <1>0, BlockIsFree DEF CommitReservation
  <1>4. \A t \in SeriesId : \A c \in Correlative : numbers[t][c].reservation # rid
    BY <1>1, NoneAssumption DEF Inv, RowInv, RangeOwnsItsNumbers, NoReservation
  <1>5. \A c \in Correlative : numbers[s][c].reservation = None <=> c >= first
    <2> SUFFICES ASSUME NEW c \in Correlative
                 PROVE  numbers[s][c].reservation = None <=> c >= first
      OBVIOUS
    <2>1. /\ numbers[s][c].status # "ABSENT" <=> c < first
          /\ numbers[s][c].status = "ABSENT" => numbers[s][c] = NoNumber
          /\ numbers[s][c].status # "ABSENT" =>
               numbers[s][c].reservation \in ReservationId
      BY <1>1 DEF Inv, RowInv, NoGaps
    <2>2. c \in Nat
      BY LimitAssumption DEF Correlative
    <2>3. QED
      BY <1>1, <2>1, <2>2, NoneAssumption DEF NoNumber
  <1>6. HolderMap' = [HolderMap EXCEPT ![s] =
          [c \in Correlative |->
             IF c \in first .. last THEN rid ELSE HolderMap[s][c]]]
    BY <1>1, <1>2 DEF HolderMap, Inv, TypeOK
  <1>7. VoidedMap' = VoidedMap
    <2>1. ASSUME NEW t \in SeriesId PROVE Status(t, "VOIDED")' = Status(t, "VOIDED")
      <3>1. \A c \in Correlative :
              numbers'[t][c].status = "VOIDED" <=> numbers[t][c].status = "VOIDED"
        BY <1>1, <1>3 DEF Inv, TypeOK, NoNumber
      <3>2. QED
        BY <3>1 DEF Status
    <2>2. QED
      BY <2>1 DEF VoidedMap
  <1>8. Allocation!Issue(s, rid, first, last)
    BY <1>1, <1>2, <1>4, <1>5, <1>6, <1>7
    DEF Allocation!Issue, HolderMap, VoidedMap, Correlative
  <1>9. QED
    BY <1>1, <1>2, <1>8 DEF Allocation!Next, Correlative

LEMMA VoidRefines ==
  ASSUME Inv, NEW r \in Request, CommitVoid(r)
  PROVE  Allocation!Next
  <1> DEFINE s == job[r].series
             c == job[r].correlative
             row == [status |-> "VOIDED", reservation |-> numbers[s][c].reservation,
                     voidedBy |-> r]
  <1>1. /\ s \in SeriesId /\ c \in Correlative
        /\ numbers[s][c].status = "RESERVED"
        /\ numbers' = [numbers EXCEPT ![s] = [numbers[s] EXCEPT ![c] = row]]
    BY DEF CommitVoid, Inv, JobInv
  <1>2. numbers[s][c].reservation # None
    BY <1>1, NoneAssumption DEF Inv, RowInv
  <1> HIDE DEF s, c
  <1>3. \A t \in SeriesId : \A d \in Correlative :
          numbers'[t][d] = IF t = s /\ d = c THEN row ELSE numbers[t][d]
    BY <1>1 DEF Inv, TypeOK
  <1>4. HolderMap' = HolderMap
    <2>1. \A t \in SeriesId : \A d \in Correlative :
            numbers'[t][d].reservation = numbers[t][d].reservation
      BY <1>3
    <2>2. QED
      BY <2>1 DEF HolderMap
  <1>5. VoidedMap' = [VoidedMap EXCEPT ![s] = VoidedMap[s] \cup {c}]
    <2>1. ASSUME NEW t \in SeriesId
          PROVE  Status(t, "VOIDED")' =
                   IF t = s THEN Status(t, "VOIDED") \cup {c} ELSE Status(t, "VOIDED")
      BY <1>1, <1>3 DEF Status
    <2>2. QED
      BY <1>1, <2>1 DEF VoidedMap
  <1>6. c \notin VoidedMap[s]
    BY <1>1 DEF VoidedMap, Status
  <1>7. Allocation!Void(s, c)
    BY <1>1, <1>2, <1>4, <1>5, <1>6
    DEF Allocation!Void, HolderMap, VoidedMap, Correlative
  <1>8. QED
    BY <1>1, <1>7 DEF Allocation!Next, Correlative

(* Every step of the registry is a step of the allocator or changes        *)
(* nothing that the allocator shows.                                       *)
THEOREM Refinement == Spec => ImplementsAllocation
  <1>1. Inv /\ [Next]_vars => [Allocation!Next]_<<HolderMap, VoidedMap>>
    <2> SUFFICES ASSUME Inv, [Next]_vars
                 PROVE  [Allocation!Next]_<<HolderMap, VoidedMap>>
      OBVIOUS
    <2>1. CASE UNCHANGED <<next, reservations, numbers>>
      BY <2>1 DEF HolderMap, VoidedMap, Status
    <2>2. QED
      BY <2>1, TableSteps, ReservationRefines, VoidRefines
  <1>2. QED
    BY <1>1, InitRefines, InvAlways, PTL
    DEF Spec, ImplementsAllocation, Allocation!Spec, HolderMap, VoidedMap

-----------------------------------------------------------------------------
(* What DocumentSeries shows and records: the audit trail, organizations   *)
(* kept apart, and the answers of readers.                                 *)

(* What a step does to the tables.                                         *)

Committing(r) ==
  \/ \E s \in SeriesId : CommitSeries(r, s)
  \/ \E rid \in ReservationId : CommitReservation(r, rid)
  \/ CommitVoid(r)
  \/ \E rid \in ReservationId : DownloadBooklet(r, rid) /\ audit' # audit

LEMMA Writers ==
  ASSUME Inv, [Next]_vars
  PROVE  UNCHANGED tables \/ \E r \in Request : Committing(r)
  <1>1. ASSUME NEW r \in Request, Create(r)
        PROVE  UNCHANGED tables \/ Committing(r)
    BY <1>1 DEF Create, StartCreate, InsertSeries, Committing
  <1>2. ASSUME NEW r \in Request, Reserve(r)
        PROVE  UNCHANGED tables \/ Committing(r)
    BY <1>2 DEF Reserve, StartReserve, LockSeries, Committing
  <1>3. ASSUME NEW r \in Request, Void(r)
        PROVE  UNCHANGED tables \/ Committing(r)
    BY <1>3 DEF Void, StartVoid, LockNumber, Committing
  <1>4. ASSUME NEW r \in Request, Read(r)
        PROVE  UNCHANGED tables \/ Committing(r)
    <2>1. ASSUME NEW rid \in ReservationId, DownloadBooklet(r, rid)
          PROVE  UNCHANGED tables \/ Committing(r)
      <3>1. UNCHANGED <<scopeOf, next, reservations, numbers>>
        BY <2>1 DEF DownloadBooklet
      <3>2. QED
        BY <2>1, <3>1 DEF Committing, tables
    <2>2. QED
      BY <1>4, <2>1 DEF Read, StartCount, CountReserved, CountVoided
  <1>5. ASSUME NEW r \in Request, Rollback(r)
        PROVE  UNCHANGED tables
    BY <1>5 DEF Rollback
  <1>6. ASSUME NEW sc \in Scope, ToggleType(sc)
        PROVE  UNCHANGED tables
    BY <1>6 DEF ToggleType
  <1>7. CASE UNCHANGED vars
    BY <1>7 DEF vars, tables
  <1>8. QED
    BY <1>1, <1>2, <1>3, <1>4, <1>5, <1>6, <1>7 DEF Next

(* Each of the four writers, with what it may rely on.                     *)
LEMMA SeriesWriter ==
  ASSUME Inv, NEW r \in Request, NEW s \in SeriesId, CommitSeries(r, s)
  PROVE  /\ ~Exists(s) /\ job[r].scope \in Scope
         /\ scopeOf' = [scopeOf EXCEPT ![s] = job[r].scope]
         /\ audit' = audit \cup {Event("create", s, r)}
         /\ UNCHANGED <<reservations, numbers>>
  BY DEF CommitSeries, Inv, JobInv

LEMMA VoidWriter ==
  ASSUME Inv, NEW r \in Request, CommitVoid(r)
  PROVE  LET s == job[r].series
             c == job[r].correlative
         IN  /\ s \in SeriesId /\ c \in Correlative
             /\ numbers[s][c].status = "RESERVED"
             /\ numbers' = [numbers EXCEPT ![s] = [numbers[s] EXCEPT ![c] =
                  [status |-> "VOIDED", reservation |-> numbers[s][c].reservation,
                   voidedBy |-> r]]]
             /\ audit' = audit \cup {Event("void", <<s, c>>, r)}
             /\ UNCHANGED <<scopeOf, next, reservations>>
  BY DEF CommitVoid, Inv, JobInv

LEMMA BookletWriter ==
  ASSUME Inv, NEW r \in Request, NEW rid \in ReservationId, DownloadBooklet(r, rid),
         audit' # audit
  PROVE  /\ reservations[rid].series \in SeriesId
         /\ reservations[rid] # NoReservation
         /\ MayAccess(r, reservations[rid].series)
         /\ audit' = audit \cup {Event("download", rid, r)}
         /\ UNCHANGED <<scopeOf, next, reservations, numbers>>
  BY DEF DownloadBooklet, Inv, RowInv, NoReservation

(* Rows of series and reservations are written once.                       *)
RowsKept ==
  /\ \A s \in SeriesId : scopeOf[s] # None => scopeOf'[s] = scopeOf[s]
  /\ \A rid \in ReservationId :
       reservations[rid] # NoReservation => reservations'[rid] = reservations[rid]

LEMMA RowsStay ==
  ASSUME Inv, [Next]_vars
  PROVE  RowsKept
  <1>1. CASE UNCHANGED tables
    BY <1>1 DEF tables, RowsKept
  <1>2. ASSUME NEW r \in Request, NEW s \in SeriesId, CommitSeries(r, s)
        PROVE  RowsKept
    BY <1>2, SeriesWriter DEF Exists, Inv, TypeOK, RowsKept
  <1>3. ASSUME NEW r \in Request, NEW rid \in ReservationId, CommitReservation(r, rid)
        PROVE  RowsKept
    BY <1>3, CommitReservationEffect DEF Inv, TypeOK, RowsKept
  <1>4. ASSUME NEW r \in Request, CommitVoid(r)
        PROVE  RowsKept
    BY <1>4, VoidWriter DEF RowsKept
  <1>5. ASSUME NEW r \in Request, NEW rid \in ReservationId, DownloadBooklet(r, rid),
               audit' # audit
        PROVE  RowsKept
    BY <1>5, BookletWriter DEF RowsKept
  <1>6. QED
    BY <1>1, <1>2, <1>3, <1>4, <1>5, Writers DEF Committing

-----------------------------------------------------------------------------
(* Organizations.                                                          *)

EventOK(e) ==
  /\ e.actor \in Request
  /\ SeriesOfEvent(e) \in SeriesId
  /\ MayAccess(e.actor, SeriesOfEvent(e))
  /\ e.action \notin {"create", "void"} =>
       e.target \in ReservationId /\ reservations[e.target] # NoReservation

(* A handler that is past its check may touch what it is going to write.   *)
Checked(q) ==
  /\ pc[q] \in {"create_insert", "create_commit"} =>
       OrgOfRequest[q] \in {None, OrgOfScope[job[q].scope]}
  /\ pc[q] \in {"reserve_commit", "void_commit", "count_reserved", "count_voided"} =>
       MayAccess(q, job[q].series)

(* Counters that were shown are of a series within reach.                  *)
ShownOK(q) ==
  reply[q].kind = "counters" =>
    reply[q].series \in SeriesId /\ MayAccess(q, reply[q].series)

AccessInv ==
  /\ \A q \in Request : Checked(q) /\ ShownOK(q)
  /\ \A e \in audit : EventOK(e)

LEMMA AccessStays ==
  ASSUME Inv, RowsKept, NEW r, NEW s \in SeriesId, MayAccess(r, s)
  PROVE  MayAccess(r, s)'
  BY DEF MayAccess, Exists, RowsKept

LEMMA EventsStay ==
  ASSUME Inv, RowsKept, NEW e \in audit, EventOK(e)
  PROVE  EventOK(e)'
  <1>1. CASE e.action \in {"create", "void"}
    BY <1>1, AccessStays DEF EventOK, SeriesOfEvent
  <1>2. CASE e.action \notin {"create", "void"}
    <2>1. SeriesOfEvent(e) = reservations[e.target].series
      BY <1>2 DEF SeriesOfEvent
    <2>2. reservations'[e.target] = reservations[e.target]
      BY <1>2 DEF EventOK, RowsKept
    <2>3. SeriesOfEvent(e)' = SeriesOfEvent(e)
      BY <1>2, <2>1, <2>2 DEF SeriesOfEvent
    <2>4. QED
      BY <1>2, <2>1, <2>2, <2>3, AccessStays DEF EventOK
  <1>3. QED
    BY <1>1, <1>2

LEMMA ChecksStay ==
  ASSUME Inv, [Next]_vars, NEW q \in Request, Checked(q)
  PROVE  Checked(q)'
  <1>1. RowsKept
    BY RowsStay
  <1>2. ASSUME pc'[q] = pc[q], job'[q] = job[q]
        PROVE  Checked(q)'
    <2>1. pc[q] \in {"reserve_commit", "void_commit", "count_reserved", "count_voided"} =>
            job[q].series \in SeriesId
      BY DEF Inv, JobInv
    <2>2. QED
      BY <1>1, <1>2, <2>1 DEF Checked, MayAccess, Exists, RowsKept
  <1>3. ASSUME NEW r \in Request, r # q, NEW step, NEW work,
               pc' = [pc EXCEPT ![r] = step], job' = [job EXCEPT ![r] = work]
        PROVE  Checked(q)'
    BY <1>2, <1>3 DEF Inv, TypeOK
  <1>4. ASSUME NEW step, NEW work, step \notin {"create_insert", "create_commit",
                                                "reserve_commit", "void_commit",
                                                "count_reserved", "count_voided"},
               pc' = [pc EXCEPT ![q] = step], job' = [job EXCEPT ![q] = work]
        PROVE  Checked(q)'
    BY <1>4 DEF Checked, Inv, TypeOK
  <1>5. ASSUME NEW r \in Request, Create(r) PROVE Checked(q)'
    <2>1. CASE r # q
      BY <1>3, <1>5, <2>1 DEF Create, StartCreate, InsertSeries, CommitSeries, Goto, Finish
    <2>2. ASSUME NEW sc \in Scope, StartCreate(q, sc) PROVE Checked(q)'
      BY <1>4, <2>2 DEF StartCreate, Goto, Finish, NoJob, Checked, Inv, TypeOK
    <2>3. ASSUME InsertSeries(q) PROVE Checked(q)'
      BY <1>4, <2>3 DEF InsertSeries, Goto, Finish, Checked, Inv, TypeOK
    <2>4. ASSUME NEW s \in SeriesId, CommitSeries(q, s) PROVE Checked(q)'
      BY <1>4, <2>4 DEF CommitSeries, Finish
    <2>5. QED
      BY <1>5, <2>1, <2>2, <2>3, <2>4 DEF Create
  <1>6. ASSUME NEW r \in Request, Reserve(r) PROVE Checked(q)'
    <2>1. CASE r # q
      BY <1>3, <1>6, <2>1
      DEF Reserve, StartReserve, LockSeries, CommitReservation, Goto, Finish
    <2>2. ASSUME LockSeries(q) PROVE Checked(q)'
      <3>1. CASE Finish(q, Answer("none"))
        BY <1>4, <3>1 DEF Finish
      <3>2. CASE /\ MayAccess(q, job[q].series)
                 /\ Goto(q, "reserve_commit", [job[q] EXCEPT !.first = next[job[q].series]])
                 /\ UNCHANGED tables
        <4>1. /\ pc'[q] = "reserve_commit"
              /\ job'[q].series = job[q].series
          BY <3>2 DEF Goto, Inv, TypeOK, Job
        <4>2. QED
          BY <3>2, <4>1 DEF Checked, MayAccess, Exists, tables
      <3>3. QED
        BY <2>2, <3>1, <3>2 DEF LockSeries
    <2>3. CASE r = q /\ ~LockSeries(q)
      BY <1>4, <1>6, <2>3 DEF Reserve, StartReserve, CommitReservation, Goto, Finish
    <2>4. QED
      BY <2>1, <2>2, <2>3
  <1>7. ASSUME NEW r \in Request, Void(r) PROVE Checked(q)'
    <2>1. CASE r # q
      BY <1>3, <1>7, <2>1 DEF Void, StartVoid, LockNumber, CommitVoid, Goto, Finish
    <2>2. ASSUME LockNumber(q) PROVE Checked(q)'
      <3>1. CASE Finish(q, Answer("none"))
        BY <1>4, <3>1 DEF Finish
      <3>2. CASE MayAccess(q, job[q].series) /\ Goto(q, "void_commit", job[q])
                 /\ UNCHANGED tables
        BY <3>2 DEF Goto, Checked, MayAccess, Exists, tables, Inv, TypeOK
      <3>3. QED
        BY <2>2, <3>1, <3>2 DEF LockNumber
    <2>3. CASE r = q /\ ~LockNumber(q)
      BY <1>4, <1>7, <2>3 DEF Void, StartVoid, CommitVoid, Goto, Finish
    <2>4. QED
      BY <2>1, <2>2, <2>3
  <1>8. ASSUME NEW r \in Request, Read(r) \/ Rollback(r) PROVE Checked(q)'
    <2>1. CASE r # q
      BY <1>3, <1>8, <2>1
      DEF Read, Rollback, StartCount, CountReserved, CountVoided, DownloadBooklet, Goto, Finish
    <2>2. ASSUME NEW s \in SeriesId, StartCount(q, s) PROVE Checked(q)'
      <3>1. CASE Finish(q, Answer("none"))
        BY <1>4, <3>1 DEF Finish
      <3>2. CASE /\ MayAccess(q, s) /\ UNCHANGED tables
                 /\ Goto(q, "count_reserved", [NoJob EXCEPT !.series = s, !.seen = next[s]])
        <4>1. pc'[q] = "count_reserved" /\ job'[q].series = s
          BY <3>2 DEF Goto, NoJob, Inv, TypeOK
        <4>2. QED
          BY <3>2, <4>1 DEF Checked, MayAccess, Exists, tables
      <3>3. QED
        BY <2>2, <3>1, <3>2 DEF StartCount
    <2>3. ASSUME CountReserved(q) PROVE Checked(q)'
      <3>1. pc'[q] = "count_voided" /\ job'[q].series = job[q].series
        BY <2>3 DEF CountReserved, Goto, Inv, TypeOK, Job
      <3>2. pc[q] = "count_reserved" /\ UNCHANGED tables
        BY <2>3 DEF CountReserved
      <3>3. QED
        BY <3>1, <3>2 DEF Checked, MayAccess, Exists, tables
    <2>4. CASE r = q /\ (CountVoided(q) \/ Rollback(q))
      BY <1>4, <2>4 DEF CountVoided, Rollback, Finish
    <2>5. ASSUME NEW rid \in ReservationId, DownloadBooklet(q, rid) PROVE Checked(q)'
      BY <1>4, <2>5 DEF DownloadBooklet, Finish
    <2>6. QED
      BY <1>8, <2>1, <2>2, <2>3, <2>4, <2>5 DEF Read
  <1>9. CASE UNCHANGED <<pc, job>>
    BY <1>2, <1>9
  <1>10. QED
    BY <1>5, <1>6, <1>7, <1>8, <1>9 DEF Next, ToggleType, vars

LEMMA ShownStays ==
  ASSUME Inv, AccessInv, [Next]_vars, NEW q \in Request
  PROVE  ShownOK(q)'
  <1>1. RowsKept
    BY RowsStay
  <1>2. ASSUME reply'[q] = reply[q] PROVE ShownOK(q)'
    BY <1>1, <1>2, AccessStays DEF AccessInv, ShownOK
  <1>3. ASSUME NEW r \in Request, r # q,
               \/ \E step, work : Goto(r, step, work)
               \/ \E answer : Finish(r, answer)
        PROVE  ShownOK(q)'
    BY <1>2, <1>3 DEF Goto, Finish, Inv, TypeOK
  <1>4. ASSUME \/ \E step, work : Goto(q, step, work)
               \/ \E answer : Finish(q, answer) /\ answer.kind # "counters"
        PROVE  ShownOK(q)'
    BY <1>4 DEF ShownOK, Goto, Finish, Inv, TypeOK
  <1>5. \A kind \in Outcome : Answer(kind).kind # "counters"
    BY DEF Answer, Outcome
  <1>6. {"none", "duplicate_scope", "duplicate_number"} \subseteq Outcome
    BY DEF Outcome
  <1>7. ASSUME NEW r \in Request, Create(r) PROVE ShownOK(q)'
    BY <1>3, <1>4, <1>5, <1>6, <1>7
    DEF Create, StartCreate, InsertSeries, CommitSeries
  <1>8. ASSUME NEW r \in Request, Reserve(r) PROVE ShownOK(q)'
    BY <1>3, <1>4, <1>5, <1>6, <1>8
    DEF Reserve, StartReserve, LockSeries, CommitReservation
  <1>9. ASSUME NEW r \in Request, Void(r) \/ Rollback(r) PROVE ShownOK(q)'
    BY <1>3, <1>4, <1>5, <1>6, <1>9
    DEF Void, StartVoid, LockNumber, CommitVoid, Rollback
  <1>10. ASSUME NEW r \in Request, Read(r) PROVE ShownOK(q)'
    <2>1. CASE r # q
      BY <1>3, <1>10, <2>1 DEF Read, StartCount, CountReserved, CountVoided, DownloadBooklet
    <2>2. ASSUME CountVoided(q) PROVE ShownOK(q)'
      <3>1. reply'[q].series = job[q].series /\ UNCHANGED tables
        BY <2>2 DEF CountVoided, Finish, Inv, TypeOK
      <3>2. job[q].series \in SeriesId /\ MayAccess(q, job[q].series)
        BY <2>2 DEF CountVoided, AccessInv, Checked, Inv, JobInv
      <3>3. QED
        BY <3>1, <3>2 DEF ShownOK, MayAccess, Exists, tables
    <2>3. ASSUME NEW rid \in ReservationId, DownloadBooklet(q, rid) PROVE ShownOK(q)'
      BY <1>4, <1>5, <1>6, <2>3 DEF DownloadBooklet
    <2>4. CASE r = q /\ ((\E s \in SeriesId : StartCount(q, s)) \/ CountReserved(q))
      BY <1>4, <1>5, <1>6, <2>4 DEF StartCount, CountReserved
    <2>5. QED
      BY <1>10, <2>1, <2>2, <2>3, <2>4 DEF Read
  <1>11. CASE UNCHANGED reply
    BY <1>2, <1>11
  <1>12. QED
    BY <1>7, <1>8, <1>9, <1>10, <1>11 DEF Next, ToggleType, vars

LEMMA NewEvents ==
  ASSUME Inv, AccessInv, [Next]_vars, NEW e \in audit', e \notin audit
  PROVE  EventOK(e)'
  <1>1. RowsKept
    BY RowsStay
  <1>2. ASSUME NEW r \in Request, NEW s \in SeriesId, CommitSeries(r, s)
        PROVE  EventOK(e)'
    <2>1. e = Event("create", s, r)
      BY <1>2, SeriesWriter
    <2>2. Checked(r) /\ pc[r] = "create_commit"
      BY <1>2 DEF AccessInv, CommitSeries
    <2>3. scopeOf'[s] = job[r].scope /\ job[r].scope # None
      BY <1>2, SeriesWriter, NoneAssumption DEF Inv, TypeOK
    <2>4. MayAccess(r, s)'
      BY <2>2, <2>3 DEF Checked, MayAccess, Exists
    <2>5. QED
      BY <2>1, <2>4 DEF Event, EventOK, SeriesOfEvent
  <1>3. ASSUME NEW r \in Request, NEW rid \in ReservationId, CommitReservation(r, rid)
        PROVE  EventOK(e)'
    <2>1. e = Event("reserve", rid, r)
      BY <1>3, CommitReservationEffect
    <2>2. PICK s \in SeriesId : s = job[r].series
      BY <1>3, CommitReservationEffect
    <2>3. MayAccess(r, s) /\ UNCHANGED scopeOf
      BY <1>3, <2>2, CommitReservationEffect DEF AccessInv, Checked
    <2>4. reservations'[rid] = [series |-> s, first |-> job[r].first,
                                last |-> job[r].first + job[r].quantity - 1]
      <3>1. /\ reservations \in [ReservationId -> ReservationRow]
            /\ reservations' = [reservations EXCEPT ![rid] =
                 [series |-> job[r].series, first |-> job[r].first,
                  last |-> job[r].first + job[r].quantity - 1]]
        BY <1>3, CommitReservationEffect DEF Inv, TypeOK
      <3>2. QED
        BY <2>2, <3>1
    <2>5. reservations'[rid].series = s /\ reservations'[rid] # NoReservation
      BY <2>2, <2>4, NoneAssumption DEF NoReservation
    <2>6. SeriesOfEvent(e)' = s
      BY <2>1, <2>5 DEF Event, SeriesOfEvent
    <2>7. QED
      BY <2>1, <2>2, <2>3, <2>5, <2>6 DEF Event, EventOK, MayAccess, Exists
  <1>4. ASSUME NEW r \in Request, CommitVoid(r)
        PROVE  EventOK(e)'
    <2>1. e = Event("void", <<job[r].series, job[r].correlative>>, r)
      BY <1>4, VoidWriter
    <2>2. job[r].series \in SeriesId /\ MayAccess(r, job[r].series)
      BY <1>4, VoidWriter DEF AccessInv, Checked, CommitVoid
    <2>3. UNCHANGED scopeOf
      BY <1>4, VoidWriter
    <2>4. SeriesOfEvent(e)' = job[r].series
      BY <2>1 DEF Event, SeriesOfEvent
    <2>5. QED
      BY <2>1, <2>2, <2>3, <2>4 DEF Event, EventOK, MayAccess, Exists
  <1>5. ASSUME NEW r \in Request, NEW rid \in ReservationId, DownloadBooklet(r, rid),
               audit' # audit
        PROVE  EventOK(e)'
    <2>1. e = Event("download", rid, r)
      BY <1>5, BookletWriter
    <2>2. /\ reservations[rid].series \in SeriesId
          /\ reservations[rid] # NoReservation
          /\ MayAccess(r, reservations[rid].series)
          /\ UNCHANGED <<scopeOf, reservations>>
      BY <1>5, BookletWriter
    <2>3. SeriesOfEvent(e)' = reservations[rid].series
      BY <2>1, <2>2 DEF Event, SeriesOfEvent
    <2>4. QED
      BY <2>1, <2>2, <2>3 DEF Event, EventOK, MayAccess, Exists
  <1>6. QED
    BY <1>2, <1>3, <1>4, <1>5, Writers DEF Committing, tables

(* Nothing is recorded of a principal of one organization about a series   *)
(* of another, and no counters of one are shown to it.                     *)
THEOREM TenantsStayApart == Spec => []TenantIsolation
  <1>1. Init => AccessInv
    BY DEF Init, AccessInv, Checked, ShownOK, Answer
  <1>2. Inv /\ AccessInv /\ [Next]_vars => AccessInv'
    <2> SUFFICES ASSUME Inv, AccessInv, [Next]_vars PROVE AccessInv'
      OBVIOUS
    <2>1. \A q \in Request : Checked(q)' /\ ShownOK(q)'
      BY ChecksStay, ShownStays DEF AccessInv
    <2>2. ASSUME NEW e \in audit' PROVE EventOK(e)'
      BY NewEvents, EventsStay, RowsStay DEF AccessInv
    <2>3. QED
      BY <2>1, <2>2 DEF AccessInv
  <1>3. Inv /\ AccessInv => TenantIsolation
    BY DEF AccessInv, EventOK, ShownOK, MayAccess, Within, TenantIsolation
  <1>4. QED
    BY <1>1, <1>2, <1>3, InvAlways, PTL DEF Spec

-----------------------------------------------------------------------------
(* The audit trail.                                                        *)

SeriesRecorded(s) ==
  IF Exists(s) THEN \E r \in Request : Recorded("create", s) = {Event("create", s, r)}
  ELSE Recorded("create", s) = {}
ReservationRecorded(rid) ==
  IF reservations[rid] # NoReservation
    THEN \E r \in Request : Recorded("reserve", rid) = {Event("reserve", rid, r)}
    ELSE Recorded("reserve", rid) = {}
VoidRecorded(s, c) ==
  Recorded("void", <<s, c>>) =
    IF numbers[s][c].status = "VOIDED"
      THEN {Event("void", <<s, c>>, numbers[s][c].voidedBy)} ELSE {}

LEMMA AuditParts ==
  AuditTrailExact <=>
    /\ \A s \in SeriesId : SeriesRecorded(s)
    /\ \A rid \in ReservationId : ReservationRecorded(rid)
    /\ \A s \in SeriesId : \A c \in Correlative : VoidRecorded(s, c)
  BY DEF AuditTrailExact, SeriesRecorded, ReservationRecorded, VoidRecorded

LEMMA RecordedOther ==
  ASSUME NEW action, NEW target, NEW actor,
         audit' = audit \cup {Event(action, target, actor)},
         NEW a, NEW t, a # action \/ t # target
  PROVE  Recorded(a, t)' = Recorded(a, t)
  BY DEF Recorded, Event

LEMMA RecordedThis ==
  ASSUME NEW action, NEW target, NEW actor,
         audit' = audit \cup {Event(action, target, actor)},
         Recorded(action, target) = {}
  PROVE  Recorded(action, target)' = {Event(action, target, actor)}
  BY DEF Recorded, Event

LEMMA VoidsStay ==
  ASSUME NEW s \in SeriesId, NEW c \in Correlative, VoidRecorded(s, c),
         Recorded("void", <<s, c>>)' = Recorded("void", <<s, c>>),
         \/ numbers'[s][c] = numbers[s][c]
         \/ numbers[s][c].status # "VOIDED" /\ numbers'[s][c].status # "VOIDED"
  PROVE  VoidRecorded(s, c)'
  BY DEF VoidRecorded

LEMMA AuditStays ==
  ASSUME Inv, AuditTrailExact, [Next]_vars
  PROVE  AuditTrailExact'
  <1> USE AuditParts
  <1>1. CASE UNCHANGED tables
    BY <1>1 DEF tables, AuditTrailExact, Exists, Recorded
  <1>2. ASSUME NEW r \in Request, NEW s \in SeriesId, CommitSeries(r, s)
        PROVE  AuditTrailExact'
    <2>1. audit' = audit \cup {Event("create", s, r)} /\ UNCHANGED <<reservations, numbers>>
      BY <1>2, SeriesWriter
    <2>2. ASSUME NEW t \in SeriesId PROVE SeriesRecorded(t)'
      <3>1. CASE t = s
        <4>1. Recorded("create", s) = {}
          BY <1>2, SeriesWriter DEF SeriesRecorded
        <4>2. Recorded("create", s)' = {Event("create", s, r)}
          BY <2>1, <4>1, RecordedThis
        <4>3. Exists(s)'
          BY <1>2, SeriesWriter, NoneAssumption DEF Exists, Inv, TypeOK
        <4>4. QED
          BY <3>1, <4>2, <4>3 DEF SeriesRecorded
      <3>2. CASE t # s
        <4>1. Recorded("create", t)' = Recorded("create", t)
          BY <2>1, <3>2, RecordedOther
        <4>2. Exists(t)' = Exists(t)
          BY <1>2, <3>2, SeriesWriter DEF Exists, Inv, TypeOK
        <4>3. QED
          BY <4>1, <4>2 DEF SeriesRecorded
      <3>3. QED
        BY <3>1, <3>2
    <2>3. ASSUME NEW rid \in ReservationId PROVE ReservationRecorded(rid)'
      <3>1. Recorded("reserve", rid)' = Recorded("reserve", rid)
        BY <2>1, RecordedOther
      <3>2. QED
        BY <2>1, <3>1 DEF ReservationRecorded
    <2>4. ASSUME NEW t \in SeriesId, NEW c \in Correlative PROVE VoidRecorded(t, c)'
      <3>1. Recorded("void", <<t, c>>)' = Recorded("void", <<t, c>>)
        BY <2>1, RecordedOther
      <3>2. QED
        BY <2>1, <3>1, VoidsStay
    <2>5. QED
      BY <2>2, <2>3, <2>4 DEF AuditTrailExact, SeriesRecorded, ReservationRecorded, VoidRecorded
  <1>3. ASSUME NEW r \in Request, NEW rid \in ReservationId, CommitReservation(r, rid)
        PROVE  AuditTrailExact'
    <2>1. audit' = audit \cup {Event("reserve", rid, r)} /\ UNCHANGED scopeOf
      BY <1>3, CommitReservationEffect
    <2>2. ASSUME NEW t \in SeriesId PROVE SeriesRecorded(t)'
      <3>1. Recorded("create", t)' = Recorded("create", t)
        BY <2>1, RecordedOther
      <3>2. QED
        BY <2>1, <3>1 DEF SeriesRecorded, Exists
    <2>3. ASSUME NEW other \in ReservationId PROVE ReservationRecorded(other)'
      <3>1. /\ reservations \in [ReservationId -> ReservationRow]
            /\ reservations[rid] = NoReservation
            /\ job[r].series \in SeriesId
            /\ reservations' = [reservations EXCEPT ![rid] =
                 [series |-> job[r].series, first |-> job[r].first,
                  last |-> job[r].first + job[r].quantity - 1]]
        BY <1>3, CommitReservationEffect DEF Inv, TypeOK
      <3>2. CASE other = rid
        <4>1. Recorded("reserve", rid)' = {Event("reserve", rid, r)}
          BY <2>1, <3>1, RecordedThis DEF ReservationRecorded
        <4>2. reservations'[rid].series = job[r].series
          BY <3>1
        <4>3. reservations'[rid] # NoReservation
          BY <3>1, <4>2, NoneAssumption DEF NoReservation
        <4>4. QED
          BY <3>2, <4>1, <4>3 DEF ReservationRecorded
      <3>3. CASE other # rid
        <4>1. Recorded("reserve", other)' = Recorded("reserve", other)
          BY <2>1, <3>3, RecordedOther
        <4>2. QED
          BY <3>1, <3>3, <4>1 DEF ReservationRecorded
      <3>4. QED
        BY <3>2, <3>3
    <2>4. ASSUME NEW t \in SeriesId, NEW c \in Correlative PROVE VoidRecorded(t, c)'
      <3>1. Recorded("void", <<t, c>>)' = Recorded("void", <<t, c>>)
        BY <2>1, RecordedOther
      <3>2. /\ numbers \in [SeriesId -> [Correlative -> NumberRow]]
            /\ job[r].series \in SeriesId
            /\ numbers' = [numbers EXCEPT ![job[r].series] =
                 [d \in Correlative |->
                    IF d \in Block(r)
                      THEN [status |-> "RESERVED", reservation |-> rid, voidedBy |-> None]
                      ELSE numbers[job[r].series][d]]]
        BY <1>3, CommitReservationEffect DEF Inv, TypeOK
      <3>3. \A d \in Block(r) : numbers[job[r].series][d] = NoNumber
        BY <1>3, BlockIsFree DEF CommitReservation
      <3>4. \/ numbers'[t][c] = numbers[t][c]
            \/ numbers[t][c].status # "VOIDED" /\ numbers'[t][c].status # "VOIDED"
        BY <3>2, <3>3 DEF NoNumber
      <3>5. QED
        BY <3>1, <3>4, VoidsStay
    <2>5. QED
      BY <2>2, <2>3, <2>4 DEF AuditTrailExact, SeriesRecorded, ReservationRecorded, VoidRecorded
  <1>4. ASSUME NEW r \in Request, CommitVoid(r)
        PROVE  AuditTrailExact'
    <2>1. PICK s \in SeriesId, c \in Correlative :
            /\ numbers[s][c].status = "RESERVED"
            /\ numbers' = [numbers EXCEPT ![s] = [numbers[s] EXCEPT ![c] =
                 [status |-> "VOIDED", reservation |-> numbers[s][c].reservation,
                  voidedBy |-> r]]]
            /\ audit' = audit \cup {Event("void", <<s, c>>, r)}
            /\ UNCHANGED <<scopeOf, reservations>>
      BY <1>4, VoidWriter
    <2>2. ASSUME NEW t \in SeriesId PROVE SeriesRecorded(t)'
      <3>1. Recorded("create", t)' = Recorded("create", t)
        BY <2>1, RecordedOther
      <3>2. QED
        BY <2>1, <3>1 DEF SeriesRecorded, Exists
    <2>3. ASSUME NEW rid \in ReservationId PROVE ReservationRecorded(rid)'
      <3>1. Recorded("reserve", rid)' = Recorded("reserve", rid)
        BY <2>1, RecordedOther
      <3>2. QED
        BY <2>1, <3>1 DEF ReservationRecorded
    <2>4. ASSUME NEW t \in SeriesId, NEW d \in Correlative PROVE VoidRecorded(t, d)'
      <3>1. numbers \in [SeriesId -> [Correlative -> NumberRow]]
        BY DEF Inv, TypeOK
      <3>2. CASE t = s /\ d = c
        <4>1. Recorded("void", <<s, c>>) = {}
          BY <2>1 DEF VoidRecorded
        <4>2. Recorded("void", <<s, c>>)' = {Event("void", <<s, c>>, r)}
          BY <2>1, <4>1, RecordedThis
        <4>3. numbers'[s][c].status = "VOIDED" /\ numbers'[s][c].voidedBy = r
          BY <2>1, <3>1
        <4>4. QED
          BY <3>2, <4>2, <4>3 DEF VoidRecorded
      <3>3. CASE t # s \/ d # c
        <4>1. Recorded("void", <<t, d>>)' = Recorded("void", <<t, d>>)
          BY <2>1, <3>3, RecordedOther
        <4>2. numbers'[t][d] = numbers[t][d]
          BY <2>1, <3>1, <3>3
        <4>3. QED
          BY <4>1, <4>2, VoidsStay
      <3>4. QED
        BY <3>2, <3>3
    <2>5. QED
      BY <2>2, <2>3, <2>4 DEF AuditTrailExact, SeriesRecorded, ReservationRecorded, VoidRecorded
  <1>5. ASSUME NEW r \in Request, NEW rid \in ReservationId, DownloadBooklet(r, rid),
               audit' # audit
        PROVE  AuditTrailExact'
    <2>1. /\ audit' = audit \cup {Event("download", rid, r)}
          /\ UNCHANGED <<scopeOf, reservations, numbers>>
      BY <1>5, BookletWriter
    <2>2. ASSUME NEW a \in {"create", "reserve", "void"}, NEW t
          PROVE  Recorded(a, t)' = Recorded(a, t)
      BY <2>1, RecordedOther
    <2>3. QED
      BY <2>1, <2>2, SMTT(30) DEF AuditTrailExact, Exists
  <1>6. QED
    BY <1>1, <1>2, <1>3, <1>4, <1>5, Writers DEF Committing

(* The audit trail has one event, of the right actor, for each series,     *)
(* reservation and void there is, and none for any other.                  *)
THEOREM AuditIsExact == Spec => []AuditTrailExact
  <1>1. Init => AuditTrailExact
    BY DEF Init, AuditTrailExact, Exists, Recorded, NoNumber
  <1>2. QED
    BY <1>1, AuditStays, InvAlways, PTL DEF Spec

-----------------------------------------------------------------------------
(* Readers.                                                                *)

LEMMA EveryNumberCounts ==
  ASSUME Inv, NEW s \in SeriesId
  PROVE  Cardinality(Status(s, "RESERVED")) + Cardinality(Status(s, "VOIDED")) = next[s] - 1
  <1> DEFINE R == Status(s, "RESERVED")
             V == Status(s, "VOIDED")
  <1>1. next[s] \in 1 .. MaxCorrelativeLimit + 1
    BY DEF Inv, TypeOK
  <1>2. \A c \in Correlative :
          /\ numbers[s][c].status \in {"ABSENT", "RESERVED", "VOIDED"}
          /\ numbers[s][c].status # "ABSENT" <=> c < next[s]
    BY DEF Inv, TypeOK, NumberRow, RowInv, NoGaps
  <1>3. R \cup V = 1 .. (next[s] - 1)
    BY <1>1, <1>2, LimitAssumption DEF Status, Correlative
  <1>4. R \cap V = {}
    BY DEF Status
  <1>5. R \subseteq Correlative /\ V \subseteq Correlative
    BY DEF Status
  <1> HIDE DEF R, V
  <1>6. IsFiniteSet(R) /\ IsFiniteSet(V)
    BY <1>5, CorrelativeFinite, FS_Subset
  <1>7. Cardinality(R) \in Nat /\ Cardinality(V) \in Nat
    BY <1>6, FS_CardinalityType
  <1>8. Cardinality(R \cup V) = Cardinality(R) + Cardinality(V) - Cardinality(R \cap V)
    BY <1>6, FS_Union
  <1>9. PICK n \in Nat : n = next[s] - 1
    BY <1>1, LimitAssumption
  <1>10. Cardinality(1 .. n) = n
    <2>1. Cardinality(1 .. n) = IF 1 > n THEN 0 ELSE n - 1 + 1
      <3>1. 1 \in Int /\ n \in Int
        OBVIOUS
      <3>2. QED
        BY <3>1, FS_Interval
    <2>2. QED
      BY <2>1
  <1>11. Cardinality(R \cap V) = 0
    BY <1>4, FS_EmptySet
  <1>12. Cardinality(R) + Cardinality(V) = n
    <2>1. R \cup V = 1 .. n
      BY <1>3, <1>9
    <2>2. Cardinality(R \cup V) = n
      BY <1>10, <2>1
    <2>3. QED
      BY <1>7, <1>8, <1>11, <2>2
  <1>13. QED
    BY <1>9, <1>12 DEF R, V

LEMMA TablesGrow ==
  ASSUME Inv, [Next]_vars, NEW s \in SeriesId
  PROVE  /\ next[s] <= next'[s]
         /\ Cardinality(Status(s, "VOIDED")) <= Cardinality(Status(s, "VOIDED"))'
  <1>1. next[s] <= next'[s]
    <2>1. next \in [SeriesId -> 1 .. MaxCorrelativeLimit + 1]
      BY DEF Inv, TypeOK
    <2>2. CASE UNCHANGED <<next, reservations, numbers>>
      BY <2>1, <2>2, LimitAssumption
    <2>3. ASSUME NEW r \in Request, NEW rid \in ReservationId, CommitReservation(r, rid)
          PROVE  next[s] <= next'[s]
      <3>1. /\ job[r].series \in SeriesId /\ job[r].quantity \in Nat
            /\ job[r].first = next[job[r].series]
            /\ next' = [next EXCEPT ![job[r].series] = job[r].first + job[r].quantity]
        BY <2>3, CommitReservationEffect
      <3>2. QED
        BY <2>1, <3>1, LimitAssumption
    <2>4. ASSUME NEW r \in Request, CommitVoid(r)
          PROVE  next[s] <= next'[s]
      BY <2>1, <2>4, LimitAssumption DEF CommitVoid
    <2>5. QED
      BY <2>2, <2>3, <2>4, TableSteps
  <1>2. \A c \in Correlative :
          numbers[s][c].status = "VOIDED" => numbers'[s][c].status = "VOIDED"
    BY NumberStays
  <1>3. PICK after : after = Status(s, "VOIDED")'
    OBVIOUS
  <1>4. Status(s, "VOIDED") \subseteq after /\ after \subseteq Correlative
    BY <1>2, <1>3 DEF Status
  <1>5. IsFiniteSet(after)
    BY <1>4, CorrelativeFinite, FS_Subset
  <1>6. Cardinality(Status(s, "VOIDED")) <= Cardinality(after)
    BY <1>4, <1>5, FS_Subset
  <1>7. QED
    BY <1>1, <1>3, <1>6

(* A reader that has the series row, or also the first count, and what it  *)
(* has answered.                                                           *)
CountOK(q) ==
  /\ pc[q] = "count_reserved" => job[q].seen <= next[job[q].series]
  /\ pc[q] = "count_voided" =>
       job[q].reserved + Cardinality(Status(job[q].series, "VOIDED")) >= job[q].seen - 1
  /\ reply[q].kind = "counters" =>
       reply[q].reserved + reply[q].voided >= reply[q].next - 1

BookletOK(q) ==
  reply[q].kind = "booklet" =>
    LET rid == reply[q].reservation
        res == reservations[rid]
    IN  /\ rid \in ReservationId /\ res # NoReservation /\ res.series \in SeriesId
        /\ \A c \in Correlative :
             /\ reply[q].rows[c] # "ABSENT" <=> c \in res.first .. res.last
             /\ reply[q].rows[c] = "VOIDED" => numbers[res.series][c].status = "VOIDED"

ReaderInv == \A q \in Request : CountOK(q) /\ BookletOK(q)

LEMMA BookletsStay ==
  ASSUME Inv, [Next]_vars, NEW q \in Request, BookletOK(q), reply'[q] = reply[q]
  PROVE  BookletOK(q)'
  <1> SUFFICES ASSUME reply[q].kind = "booklet" PROVE BookletOK(q)'
    BY DEF BookletOK
  <1>1. PICK rid \in ReservationId : rid = reply[q].reservation
    BY DEF BookletOK
  <1>2. /\ reservations'[rid] = reservations[rid]
        /\ reservations[rid] # NoReservation /\ reservations[rid].series \in SeriesId
    BY <1>1, RowsStay DEF BookletOK, RowsKept
  <1>3. PICK s \in SeriesId : s = reservations[rid].series
    BY <1>2
  <1>4. \A c \in Correlative :
          numbers[s][c].status = "VOIDED" => numbers'[s][c].status = "VOIDED"
    BY NumberStays
  <1>5. QED
    BY <1>1, <1>2, <1>3, <1>4 DEF BookletOK

LEMMA CountsStay ==
  ASSUME Inv, [Next]_vars, NEW q \in Request, CountOK(q),
         pc'[q] = pc[q], job'[q] = job[q], reply'[q] = reply[q]
  PROVE  CountOK(q)'
  <1>1. CASE pc[q] \in {"count_reserved", "count_voided"}
    <2>1. PICK s \in SeriesId : s = job[q].series
      BY <1>1 DEF Inv, JobInv
    <2>2. /\ next[s] <= next'[s]
          /\ Cardinality(Status(s, "VOIDED")) <= Cardinality(Status(s, "VOIDED"))'
      BY TablesGrow
    <2>3. PICK before, after :
            /\ before = Cardinality(Status(s, "VOIDED"))
            /\ after = Cardinality(Status(s, "VOIDED"))'
      OBVIOUS
    <2>4. before \in Nat /\ after \in Nat
      <3>1. before \in Nat
        BY <2>3, StatusCount
      <3>2. PICK voids \in SUBSET Correlative : voids = Status(s, "VOIDED")'
        BY DEF Status
      <3>3. Cardinality(voids) \in Nat
        BY CorrelativeFinite, FS_Subset, FS_CardinalityType
      <3>4. QED
        BY <2>3, <3>1, <3>2, <3>3
    <2>5. /\ job[q].seen \in Nat /\ job[q].reserved \in Nat
          /\ next[s] \in Nat /\ next'[s] \in Nat
      <3>1. TypeOK /\ TypeOK'
        BY NextInv DEF Inv
      <3>2. QED
        BY <3>1, LimitAssumption DEF TypeOK, Job
    <2>6. pc[q] = "count_reserved" => job[q].seen <= next'[s]
      BY <2>1, <2>2, <2>5 DEF CountOK
    <2>7. pc[q] = "count_voided" => job[q].reserved + after >= job[q].seen - 1
      <3>1. pc[q] = "count_voided" => job[q].reserved + before >= job[q].seen - 1
        BY <2>1, <2>3 DEF CountOK
      <3>2. QED
        BY <2>2, <2>3, <2>4, <2>5, <3>1
    <2>8. QED
      BY <2>1, <2>3, <2>6, <2>7 DEF CountOK
  <1>2. CASE pc[q] \notin {"count_reserved", "count_voided"}
    BY <1>2 DEF CountOK
  <1>3. QED
    BY <1>1, <1>2

(* The three statements of the counters, and the booklet.                  *)
LEMMA ReaderSteps ==
  ASSUME Inv, ReaderInv, [Next]_vars, NEW q \in Request, Read(q)
  PROVE  CountOK(q)' /\ BookletOK(q)'
  <1> USE DEF ReaderInv
  <1>1. TypeOK /\ RowInv
    BY DEF Inv
  <1>2. ASSUME reply'[q].kind = "none" PROVE BookletOK(q)'
    BY <1>2 DEF BookletOK
  <1>3. ASSUME Finish(q, Answer("none")) PROVE CountOK(q)' /\ BookletOK(q)'
    <2>1. pc'[q] = "idle" /\ reply'[q].kind = "none"
      BY <1>1, <1>3 DEF Finish, Answer, TypeOK
    <2>2. QED
      BY <1>2, <2>1 DEF CountOK
  <1>4. ASSUME NEW s \in SeriesId, StartCount(q, s)
        PROVE  CountOK(q)' /\ BookletOK(q)'
    <2>1. CASE Goto(q, "count_reserved", [NoJob EXCEPT !.series = s, !.seen = next[s]])
               /\ UNCHANGED tables
      <3>1. /\ pc'[q] = "count_reserved" /\ reply'[q].kind = "none"
            /\ job'[q].series = s /\ job'[q].seen = next[s] /\ next' = next
        BY <1>1, <2>1 DEF Goto, NoJob, TypeOK, tables
      <3>2. next[s] \in Nat
        BY <1>1, LimitAssumption DEF TypeOK
      <3>3. QED
        BY <1>2, <3>1, <3>2 DEF CountOK
    <2>2. QED
      BY <1>3, <1>4, <2>1 DEF StartCount
  <1>5. ASSUME CountReserved(q)
        PROVE  CountOK(q)' /\ BookletOK(q)'
    <2>1. PICK s \in SeriesId : s = job[q].series
      BY <1>5 DEF CountReserved, Inv, JobInv
    <2>2. PICK reserved, voided :
            /\ reserved = Cardinality(Status(s, "RESERVED"))
            /\ voided = Cardinality(Status(s, "VOIDED"))
      OBVIOUS
    <2>3. reserved \in Nat /\ voided \in Nat
      BY <2>2, StatusCount
    <2>4. /\ pc[q] = "count_reserved"
          /\ Goto(q, "count_voided", [job[q] EXCEPT !.reserved = reserved])
          /\ UNCHANGED numbers
      BY <1>5, <2>1, <2>2 DEF CountReserved, tables
    <2>5. job[q] \in Job /\ next[s] \in Nat
      BY <1>1, LimitAssumption DEF TypeOK
    <2>6. /\ pc'[q] = "count_voided" /\ reply'[q].kind = "none"
          /\ job'[q].series = s /\ job'[q].seen = job[q].seen /\ job'[q].reserved = reserved
      BY <1>1, <2>1, <2>4, <2>5 DEF Goto, TypeOK, Job
    <2>7. job[q].seen <= next[s] /\ job[q].seen \in Nat
      BY <2>1, <2>4, <2>5 DEF CountOK, Job
    <2>8. reserved + voided = next[s] - 1
      BY <2>2, EveryNumberCounts
    <2>9. reserved + voided >= job[q].seen - 1
      BY <2>3, <2>5, <2>7, <2>8
    <2>10. Cardinality(Status(s, "VOIDED"))' = voided
      BY <2>2, <2>4 DEF Status
    <2>11. QED
      BY <1>2, <2>6, <2>9, <2>10 DEF CountOK
  <1>6. ASSUME CountVoided(q)
        PROVE  CountOK(q)' /\ BookletOK(q)'
    <2>1. /\ pc[q] = "count_voided"
          /\ Finish(q, [kind |-> "counters", series |-> job[q].series,
                        next |-> job[q].seen,
                        reserved |-> job[q].reserved,
                        voided |-> Cardinality(Status(job[q].series, "VOIDED"))])
      BY <1>6 DEF CountVoided
    <2>2. /\ pc'[q] = "idle" /\ reply'[q].kind = "counters"
          /\ reply'[q].next = job[q].seen /\ reply'[q].reserved = job[q].reserved
          /\ reply'[q].voided = Cardinality(Status(job[q].series, "VOIDED"))
      BY <1>1, <2>1 DEF Finish, TypeOK
    <2>3. QED
      BY <2>1, <2>2 DEF CountOK, BookletOK
  <1>7. ASSUME NEW rid \in ReservationId, DownloadBooklet(q, rid)
        PROVE  CountOK(q)' /\ BookletOK(q)'
    <2>1. CASE Finish(q, Answer("none"))
      BY <1>3, <2>1
    <2>2. CASE /\ reservations[rid].series # None
               /\ Finish(q, [kind |-> "booklet", reservation |-> rid,
                    rows |-> [c \in Correlative |->
                                IF numbers[reservations[rid].series][c].reservation = rid
                                  THEN numbers[reservations[rid].series][c].status
                                  ELSE "ABSENT"]])
      <3>1. PICK s \in SeriesId : s = reservations[rid].series
        BY <1>1, <2>2 DEF TypeOK, ReservationRow
      <3>2. /\ pc'[q] = "idle" /\ reply'[q].kind = "booklet"
            /\ reply'[q].reservation = rid
            /\ \A c \in Correlative :
                 reply'[q].rows[c] = IF numbers[s][c].reservation = rid
                                       THEN numbers[s][c].status ELSE "ABSENT"
        BY <1>1, <2>2, <3>1 DEF Finish, TypeOK
      <3>3. UNCHANGED <<reservations, numbers>>
        BY <1>7 DEF DownloadBooklet
      <3>4. reservations[rid] # NoReservation
        BY <2>2 DEF NoReservation
      <3>5. ASSUME NEW c \in Correlative
            PROVE  /\ numbers[s][c].reservation = rid <=>
                        c \in reservations[rid].first .. reservations[rid].last
                   /\ numbers[s][c].reservation = rid => numbers[s][c].status # "ABSENT"
        BY <1>1, <3>1, NoneAssumption DEF RowInv, RangeOwnsItsNumbers, NoNumber
      <3>6. QED
        BY <3>1, <3>2, <3>3, <3>4, <3>5 DEF CountOK, BookletOK
    <2>3. QED
      BY <1>7, <2>1, <2>2 DEF DownloadBooklet
  <1>8. QED
    BY <1>4, <1>5, <1>6, <1>7 DEF Read

LEMMA OthersSteps ==
  ASSUME Inv, ReaderInv, [Next]_vars, NEW q \in Request
  PROVE  CountOK(q)' /\ BookletOK(q)'
  <1> USE DEF ReaderInv
  <1>1. ASSUME pc'[q] = pc[q], job'[q] = job[q], reply'[q] = reply[q]
        PROVE  CountOK(q)' /\ BookletOK(q)'
    BY <1>1, CountsStay, BookletsStay
  <1>2. ASSUME NEW r \in Request, r # q,
               \/ \E step, work : Goto(r, step, work)
               \/ \E answer : Finish(r, answer)
        PROVE  CountOK(q)' /\ BookletOK(q)'
    BY <1>1, <1>2 DEF Goto, Finish, Inv, TypeOK
  <1>3. ASSUME NEW step, NEW work, step \notin {"count_reserved", "count_voided"},
               Goto(q, step, work)
        PROVE  CountOK(q)' /\ BookletOK(q)'
    <2>1. pc'[q] = step /\ reply'[q].kind = "none"
      BY <1>3 DEF Goto, Inv, TypeOK
    <2>2. QED
      BY <1>3, <2>1 DEF CountOK, BookletOK
  <1>4. ASSUME NEW kind \in Outcome, Finish(q, Answer(kind))
        PROVE  CountOK(q)' /\ BookletOK(q)'
    <2>1. pc'[q] = "idle" /\ reply'[q].kind = kind
      BY <1>4 DEF Finish, Answer, Inv, TypeOK
    <2>2. QED
      BY <2>1 DEF CountOK, BookletOK, Outcome
  <1>5. {"none", "duplicate_scope", "duplicate_number"} \subseteq Outcome
    BY DEF Outcome
  <1>6. ASSUME NEW r \in Request, Create(r) PROVE CountOK(q)' /\ BookletOK(q)'
    <2>1. CASE r # q
      BY <1>2, <1>6, <2>1 DEF Create, StartCreate, InsertSeries, CommitSeries
    <2>2. CASE r = q
      <3>1. ASSUME NEW sc \in Scope, StartCreate(q, sc) PROVE CountOK(q)' /\ BookletOK(q)'
        BY <1>3, <1>4, <1>5, <3>1 DEF StartCreate
      <3>2. ASSUME InsertSeries(q) PROVE CountOK(q)' /\ BookletOK(q)'
        BY <1>3, <1>4, <1>5, <3>2 DEF InsertSeries
      <3>3. ASSUME NEW s \in SeriesId, CommitSeries(q, s) PROVE CountOK(q)' /\ BookletOK(q)'
        BY <1>3, <1>4, <1>5, <3>3 DEF CommitSeries
      <3>4. QED
        BY <1>6, <2>2, <3>1, <3>2, <3>3 DEF Create
    <2>3. QED
      BY <2>1, <2>2
  <1>7. ASSUME NEW r \in Request, Reserve(r) PROVE CountOK(q)' /\ BookletOK(q)'
    <2>1. CASE r # q
      BY <1>2, <1>7, <2>1 DEF Reserve, StartReserve, LockSeries, CommitReservation
    <2>2. CASE r = q
      <3>1. ASSUME NEW s, NEW n, StartReserve(q, s, n) PROVE CountOK(q)' /\ BookletOK(q)'
        BY <1>3, <1>4, <1>5, <3>1 DEF StartReserve
      <3>2. ASSUME LockSeries(q) PROVE CountOK(q)' /\ BookletOK(q)'
        BY <1>3, <1>4, <1>5, <3>2 DEF LockSeries
      <3>3. ASSUME NEW rid \in ReservationId, CommitReservation(q, rid)
          PROVE  CountOK(q)' /\ BookletOK(q)'
        BY <1>3, <1>4, <1>5, <3>3 DEF CommitReservation
      <3>4. QED
        BY <1>7, <2>2, <3>1, <3>2, <3>3 DEF Reserve
    <2>3. QED
      BY <2>1, <2>2
  <1>8. ASSUME NEW r \in Request, Void(r) \/ Rollback(r) PROVE CountOK(q)' /\ BookletOK(q)'
    <2>1. CASE r # q
      BY <1>2, <1>8, <2>1 DEF Void, StartVoid, LockNumber, CommitVoid, Rollback
    <2>2. CASE r = q
      <3>1. ASSUME NEW s, NEW c, StartVoid(q, s, c) PROVE CountOK(q)' /\ BookletOK(q)'
        BY <1>3, <1>4, <1>5, <3>1 DEF StartVoid
      <3>2. ASSUME LockNumber(q) PROVE CountOK(q)' /\ BookletOK(q)'
        BY <1>3, <1>4, <1>5, <3>2 DEF LockNumber
      <3>3. ASSUME CommitVoid(q) PROVE CountOK(q)' /\ BookletOK(q)'
        BY <1>3, <1>4, <1>5, <3>3 DEF CommitVoid
      <3>4. ASSUME Rollback(q) PROVE CountOK(q)' /\ BookletOK(q)'
        BY <1>3, <1>4, <1>5, <3>4 DEF Rollback
      <3>5. QED
        BY <1>8, <2>2, <3>1, <3>2, <3>3, <3>4 DEF Void
    <2>3. QED
      BY <2>1, <2>2
  <1>9. ASSUME NEW r \in Request, Read(r) PROVE CountOK(q)' /\ BookletOK(q)'
    <2>1. CASE r # q
      BY <1>2, <1>9, <2>1 DEF Read, StartCount, CountReserved, CountVoided, DownloadBooklet
    <2>2. QED
      BY <1>9, <2>1, ReaderSteps
  <1>10. CASE UNCHANGED <<pc, job, reply>>
    BY <1>1, <1>10
  <1>11. QED
    BY <1>6, <1>7, <1>8, <1>9, <1>10 DEF Next, ToggleType, vars

(* Counters account for every number below the next_correlative they are   *)
(* answered with, and booklets list their whole range and nothing else,    *)
(* whatever commits between the statements of a reader.                    *)
THEOREM ReadersSeeAll == Spec => []ReadersMissNothing
  <1>1. Init => ReaderInv
    BY DEF Init, ReaderInv, CountOK, BookletOK, Answer
  <1>2. Inv /\ ReaderInv /\ [Next]_vars => ReaderInv'
    BY OthersSteps DEF ReaderInv
  <1>3. ReaderInv => ReadersMissNothing
    BY DEF ReaderInv, CountOK, BookletOK, ReadersMissNothing, CountersNeverUnderReport,
           BookletIsExact
  <1>4. QED
    BY <1>1, <1>2, <1>3, InvAlways, PTL DEF Spec
=============================================================================
