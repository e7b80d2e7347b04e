--------------------------- MODULE DocumentSeries ---------------------------
(***************************************************************************)
(* Document series and correlative numbers: DocumentSeriesService and its  *)
(* tables document_series, document_number_reservations and                *)
(* document_series_numbers.                                                *)
(*                                                                         *)
(* Every HTTP request runs its handler in a session of its own over        *)
(* PostgreSQL in READ COMMITTED mode.  A statement reads the last          *)
(* committed rows; what a transaction writes is seen by nobody until it    *)
(* commits, and is dropped when it rolls back.  The variables below are    *)
(* the COMMITTED tables; what a running transaction has read or written    *)
(* is in job[r].  A row lock is not a variable of its own: the position    *)
(* pc[r] of a request says which rows it holds.                            *)
(*                                                                         *)
(* A definition with a name of the form Action_Fault is a faulty variant   *)
(* of the one that follows it.  No specification uses it: it is put in the *)
(* place of the right one to see that a property notices.                  *)
(***************************************************************************)
EXTENDS Naturals, FiniteSets

CONSTANTS
  Request,              \* handlers that run concurrently, and who they act for
  Org,                  \* organizations
  OrgOfRequest,         \* principal.organization_id of a request, or None
  Scope,                \* (document type, branch, period year) of a series
  OrgOfScope,           \* organization of the scope's branch
  SeriesId,             \* primary keys of document_series
  ReservationId,        \* primary keys of document_number_reservations
  MaxReservationSize,   \* MAX_RESERVATION_SIZE (500)
  MaxCorrelativeLimit,  \* MAX_CORRELATIVE_LIMIT (999999)
  None                  \* NULL, or the absence of a row

ASSUME OrgAssumption ==
  /\ OrgOfRequest \in [Request -> Org \cup {None}]
  /\ OrgOfScope \in [Scope -> Org]

ASSUME NoneAssumption ==
  /\ None \notin Request
  /\ None \notin Org
  /\ None \notin Scope
  /\ None \notin SeriesId
  /\ None \notin ReservationId

ASSUME LimitAssumption ==
  /\ MaxReservationSize \in Nat \ {0}
  /\ MaxCorrelativeLimit \in Nat \ {0}

VARIABLES
  typeActive,    \* DocumentType.is_active of the type of a scope
  scopeOf,       \* scope of a series row, None when there is no row
  next,          \* DocumentSeries.next_correlative
  reservations,  \* rows of document_number_reservations
  numbers,       \* rows of document_series_numbers, by series and correlative
  audit,         \* audit_events written by these handlers
  pc,            \* how far the handler of a request has come
  job,           \* arguments and reads of the running handler
  reply          \* what the last handler of this request answered

tables == <<scopeOf, next, reservations, numbers, audit>>
vars == <<typeActive, tables, pc, job, reply>>

-----------------------------------------------------------------------------
(* Rows.                                                                   *)

Correlative == 1 .. MaxCorrelativeLimit

NoReservation == [series |-> None, first |-> 0, last |-> 0]
ReservationRow ==
  [series : SeriesId \cup {None}, first : Nat, last : Nat]

NoNumber == [status |-> "ABSENT", reservation |-> None, voidedBy |-> None]
NumberRow ==
  [status : {"ABSENT", "RESERVED", "VOIDED"},
   reservation : ReservationId \cup {None},
   voidedBy : Request \cup {None}]

Event(action, target, actor) ==
  [action |-> action, target |-> target, actor |-> actor]

AuditEvent ==
  [action : {"create", "reserve", "void", "download"},
   target : SeriesId \cup ReservationId \cup (SeriesId \X Correlative),
   actor : Request]

NoJob == [scope |-> None, series |-> None, quantity |-> 0, first |-> 0,
          correlative |-> 0, seen |-> 0, reserved |-> 0]

Steps == {"idle", "create_insert", "create_commit", "reserve_lock",
          "reserve_commit", "void_lock", "void_commit",
          "count_reserved", "count_voided"}

Exists(s) == scopeOf[s] # None

(* Fault: the filter on the organization is forgotten.                     *)
MayAccess_AnyOrg(r, s) == Exists(s)

(* A principal without an organization sees every organization.            *)
MayAccess(r, s) ==
  /\ Exists(s)
  /\ OrgOfRequest[r] \in {None, OrgOfScope[scopeOf[s]]}

Status(s, st) == {c \in Correlative : numbers[s][c].status = st}

-----------------------------------------------------------------------------
(* Locks.  create_series inserts at its flush and keeps the key of the     *)
(* unique index until it ends; reserve and void hold a row FOR UPDATE.     *)

HoldsScope(r, sc) == pc[r] = "create_commit" /\ job[r].scope = sc
HoldsSeries(r, s) == pc[r] = "reserve_commit" /\ job[r].series = s
HoldsNumber(r, s, c) ==
  pc[r] = "void_commit" /\ job[r].series = s /\ job[r].correlative = c

(* Faults: a plain SELECT instead of SELECT FOR UPDATE; no unique index.   *)
SeriesUnlocked_NoForUpdate(s) == TRUE
NumberUnlocked_NoForUpdate(s, c) == TRUE
ScopeUnlocked_NoIndex(sc) == TRUE

SeriesUnlocked(s) == \A q \in Request : ~HoldsSeries(q, s)
NumberUnlocked(s, c) == \A q \in Request : ~HoldsNumber(q, s, c)
ScopeUnlocked(sc) == \A q \in Request : ~HoldsScope(q, sc)

(* The handler of r ends: its transaction is over and its locks are gone.  *)
Finish(r, answer) ==
  /\ pc' = [pc EXCEPT ![r] = "idle"]
  /\ job' = [job EXCEPT ![r] = NoJob]
  /\ reply' = [reply EXCEPT ![r] = answer]

Goto(r, step, work) ==
  /\ pc' = [pc EXCEPT ![r] = step]
  /\ job' = [job EXCEPT ![r] = work]
  /\ reply' = [reply EXCEPT ![r] = [kind |-> "none"]]

Answer(kind) == [kind |-> kind]
-----------------------------------------------------------------------------
(* create_series: the type, the branch and the scope are read without a    *)
(* lock; the UNIQUE constraint uq_document_series_scope decides at the     *)
(* flush.  (The reads are one step: a deactivation between two of them     *)
(* only concerns the first, so it may as well come after the last.)        *)

StartCreate(r, sc) ==
  /\ pc[r] = "idle"
  /\ IF /\ typeActive[sc]
        /\ OrgOfRequest[r] \in {None, OrgOfScope[sc]}
        /\ \A s \in SeriesId : scopeOf[s] # sc
       THEN Goto(r, "create_insert", [NoJob EXCEPT !.scope = sc])
       ELSE Finish(r, Answer("none"))
  /\ UNCHANGED <<typeActive, tables>>

(* Fault: a handler that keeps trying instead of giving up.                *)
InsertSeries_Insists(r) ==
  /\ pc[r] = "create_insert"
  /\ ScopeUnlocked(job[r].scope)
  /\ \A s \in SeriesId : scopeOf[s] # job[r].scope
  /\ Goto(r, "create_commit", job[r])
  /\ UNCHANGED <<typeActive, tables>>

(* The INSERT waits while another transaction holds the same key.          *)
InsertSeries(r) ==
  /\ pc[r] = "create_insert"
  /\ ScopeUnlocked(job[r].scope)
  /\ IF \E s \in SeriesId : scopeOf[s] = job[r].scope
       THEN Finish(r, Answer("duplicate_scope"))
       ELSE Goto(r, "create_commit", job[r])
  /\ UNCHANGED <<typeActive, tables>>

(* Fault: the series starts at zero.                                       *)
CommitSeries_FromZero(r, s) ==
  /\ pc[r] = "create_commit"
  /\ ~Exists(s)
  /\ scopeOf' = [scopeOf EXCEPT ![s] = job[r].scope]
  /\ next' = [next EXCEPT ![s] = 0]
  /\ audit' = audit \cup {Event("create", s, r)}
  /\ Finish(r, Answer("none"))
  /\ UNCHANGED <<typeActive, reservations, numbers>>

CommitSeries(r, s) ==
  /\ pc[r] = "create_commit"
  /\ ~Exists(s)
  /\ scopeOf' = [scopeOf EXCEPT ![s] = job[r].scope]
  /\ next' = [next EXCEPT ![s] = 1]
  /\ audit' = audit \cup {Event("create", s, r)}
  /\ Finish(r, Answer("none"))
  /\ UNCHANGED <<typeActive, reservations, numbers>>

-----------------------------------------------------------------------------
(* reserve_correlatives.                                                   *)

StartReserve(r, s, qty) ==
  /\ pc[r] = "idle"
  /\ Goto(r, "reserve_lock", [NoJob EXCEPT !.series = s, !.quantity = qty])
  /\ UNCHANGED <<typeActive, tables>>

(* SELECT ... FOR UPDATE returns the row as last committed, and the checks *)
(* that follow read that row: no row, another organization's row, or a     *)
(* range that passes the limit ends the request.  The check of is_active   *)
(* of the series is left out: no handler sets that column to false.        *)
LockSeries(r) ==
  LET s    == job[r].series
      qty  == job[r].quantity
      last == next[s] + qty - 1
  IN  /\ pc[r] = "reserve_lock"
      /\ SeriesUnlocked(s)
      /\ IF /\ MayAccess(r, s)
            /\ qty \in 1 .. MaxReservationSize
            /\ last <= MaxCorrelativeLimit
           THEN Goto(r, "reserve_commit", [job[r] EXCEPT !.first = next[s]])
           ELSE Finish(r, Answer("none"))
      /\ UNCHANGED <<typeActive, tables>>

(* Fault: range(start, end) stops one short.                               *)
Block_OpenEnd(r) == job[r].first .. (job[r].first + job[r].quantity - 2)

Block(r) == job[r].first .. (job[r].first + job[r].quantity - 1)

(* The flushes and the commit.  A number row that is already there would   *)
(* break uq_series_numbers_series_correlative and roll everything back.    *)
CommitReservation(r, rid) ==
  LET s == job[r].series
  IN  /\ pc[r] = "reserve_commit"
      /\ reservations[rid] = NoReservation
      /\ IF \E c \in Block(r) : numbers[s][c] # NoNumber
           THEN /\ Finish(r, Answer("duplicate_number"))
                /\ UNCHANGED tables
           ELSE /\ next' = [next EXCEPT ![s] = job[r].first + job[r].quantity]
                /\ reservations' = [reservations EXCEPT ![rid] =
                     [series |-> s, first |-> job[r].first,
                      last |-> job[r].first + job[r].quantity - 1]]
                /\ numbers' = [numbers EXCEPT ![s] =
                     [c \in Correlative |->
                        IF c \in Block(r)
                          THEN [status |-> "RESERVED", reservation |-> rid,
                                voidedBy |-> None]
                          ELSE numbers[s][c]]]
                /\ audit' = audit \cup {Event("reserve", rid, r)}
                /\ Finish(r, Answer("none"))
                /\ UNCHANGED scopeOf
      /\ UNCHANGED typeActive

-----------------------------------------------------------------------------
(* void_number.                                                            *)

StartVoid(r, s, c) ==
  /\ pc[r] = "idle"
  /\ Goto(r, "void_lock", [NoJob EXCEPT !.series = s, !.correlative = c])
  /\ UNCHANGED <<typeActive, tables>>

LockNumber(r) ==
  LET s == job[r].series
      c == job[r].correlative
  IN  /\ pc[r] = "void_lock"
      /\ NumberUnlocked(s, c)
      /\ IF MayAccess(r, s) /\ numbers[s][c].status = "RESERVED"
           THEN Goto(r, "void_commit", job[r])
           ELSE Finish(r, Answer("none"))
      /\ UNCHANGED <<typeActive, tables>>

(* Fault: the row of a void number is deleted.                             *)
CommitVoid_Frees(r) ==
  LET s == job[r].series
      c == job[r].correlative
  IN  /\ pc[r] = "void_commit"
      /\ numbers' = [numbers EXCEPT ![s] = [numbers[s] EXCEPT ![c] = NoNumber]]
      /\ audit' = audit \cup {Event("void", <<s, c>>, r)}
      /\ Finish(r, Answer("none"))
      /\ UNCHANGED <<typeActive, scopeOf, next, reservations>>

CommitVoid(r) ==
  LET s == job[r].series
      c == job[r].correlative
  IN  /\ pc[r] = "void_commit"
      /\ numbers' = [numbers EXCEPT ![s] = [numbers[s] EXCEPT ![c] =
           [status |-> "VOIDED", reservation |-> numbers[s][c].reservation,
            voidedBy |-> r]]]
      /\ audit' = audit \cup {Event("void", <<s, c>>, r)}
      /\ Finish(r, Answer("none"))
      /\ UNCHANGED <<typeActive, scopeOf, next, reservations>>

-----------------------------------------------------------------------------
(* Reads.  _map_series_response takes three statements, hence three        *)
(* snapshots: the series row, then the RESERVED count, then the VOIDED     *)
(* count.                                                                  *)

StartCount(r, s) ==
  /\ pc[r] = "idle"
  /\ IF MayAccess(r, s)
       THEN Goto(r, "count_reserved",
                 [NoJob EXCEPT !.series = s, !.seen = next[s]])
       ELSE Finish(r, Answer("none"))
  /\ UNCHANGED <<typeActive, tables>>

CountReserved(r) ==
  /\ pc[r] = "count_reserved"
  /\ Goto(r, "count_voided",
          [job[r] EXCEPT
             !.reserved = Cardinality(Status(job[r].series, "RESERVED"))])
  /\ UNCHANGED <<typeActive, tables>>

(* Fault: the series row is read again after it was counted.               *)
CountVoided_FreshNext(r) ==
  /\ pc[r] = "count_voided"
  /\ Finish(r, [kind |-> "counters", series |-> job[r].series,
                next |-> next[job[r].series], reserved |-> job[r].reserved,
                voided |-> Cardinality(Status(job[r].series, "VOIDED"))])
  /\ UNCHANGED <<typeActive, tables>>

CountVoided(r) ==
  /\ pc[r] = "count_voided"
  /\ Finish(r, [kind |-> "counters", series |-> job[r].series,
                next |-> job[r].seen, reserved |-> job[r].reserved,
                voided |-> Cardinality(Status(job[r].series, "VOIDED"))])
  /\ UNCHANGED <<typeActive, tables>>

(* generate_booklet_csv: one joined SELECT reads the reservation and its   *)
(* numbers, and an audit event is committed.                               *)
DownloadBooklet(r, rid) ==
  LET s == reservations[rid].series
  IN  /\ pc[r] = "idle"
      /\ IF s # None /\ MayAccess(r, s)
           THEN /\ Finish(r, [kind |-> "booklet", reservation |-> rid,
                     rows |-> [c \in Correlative |->
                                 IF numbers[s][c].reservation = rid
                                   THEN numbers[s][c].status
                                   ELSE "ABSENT"]])
                /\ audit' = audit \cup {Event("download", rid, r)}
           ELSE Finish(r, Answer("none")) /\ UNCHANGED audit
      /\ UNCHANGED <<typeActive, scopeOf, next, reservations, numbers>>

-----------------------------------------------------------------------------
(* Fault: next_correlative is committed before the numbers.                *)
Rollback_KeepsNext(r) ==
  /\ pc[r] # "idle"
  /\ next' = IF pc[r] = "reserve_commit"
               THEN [next EXCEPT ![job[r].series] = job[r].first + job[r].quantity]
               ELSE next
  /\ Finish(r, Answer("none"))
  /\ UNCHANGED <<typeActive, scopeOf, reservations, numbers, audit>>

(* The client is gone, the worker dies or the database cuts the            *)
(* connection: get_db closes the session, or the server ends it, and the   *)
(* transaction rolls back.                                                 *)
Rollback(r) ==
  /\ pc[r] # "idle"
  /\ Finish(r, Answer("none"))
  /\ UNCHANGED <<typeActive, tables>>

(* update_document_type switches the type of a scope on or off.            *)
ToggleType(sc) ==
  /\ typeActive' = [typeActive EXCEPT ![sc] = ~typeActive[sc]]
  /\ UNCHANGED <<tables, pc, job, reply>>

-----------------------------------------------------------------------------
Init ==
  /\ typeActive \in [Scope -> BOOLEAN]
  /\ scopeOf = [s \in SeriesId |-> None]
  /\ next = [s \in SeriesId |-> 1]
  /\ reservations = [rid \in ReservationId |-> NoReservation]
  /\ numbers = [s \in SeriesId |-> [c \in Correlative |-> NoNumber]]
  /\ audit = {}
  /\ pc = [r \in Request |-> "idle"]
  /\ job = [r \in Request |-> NoJob]
  /\ reply = [r \in Request |-> Answer("none")]

Create(r) ==
  \/ \E sc \in Scope : StartCreate(r, sc)
  \/ InsertSeries(r)
  \/ \E s \in SeriesId : CommitSeries(r, s)

Reserve(r) ==
  \/ \E s \in SeriesId, qty \in 1 .. MaxReservationSize : StartReserve(r, s, qty)
  \/ LockSeries(r)
  \/ \E rid \in ReservationId : CommitReservation(r, rid)

Void(r) ==
  \/ \E s \in SeriesId, c \in Correlative : StartVoid(r, s, c)
  \/ LockNumber(r)
  \/ CommitVoid(r)

Read(r) ==
  \/ \E s \in SeriesId : StartCount(r, s)
  \/ CountReserved(r)
  \/ CountVoided(r)
  \/ \E rid \in ReservationId : DownloadBooklet(r, rid)

Next ==
  \/ \E r \in Request : Create(r) \/ Reserve(r) \/ Void(r) \/ Read(r) \/ Rollback(r)
  \/ \E sc \in Scope : ToggleType(sc)

Spec == Init /\ [][Next]_vars
(* Every handler runs on: the database grants a lock to its waiters in     *)
(* their order of arrival, so one whose lock comes free again and again    *)
(* gets it in the end.  Clients need not send anything.                    *)
Fairness ==
  \A r \in Request :
    /\ SF_vars(InsertSeries(r))
    /\ WF_vars(\E s \in SeriesId : CommitSeries(r, s))
    /\ SF_vars(LockSeries(r))
    /\ WF_vars(\E rid \in ReservationId : CommitReservation(r, rid))
    /\ SF_vars(LockNumber(r))
    /\ WF_vars(CommitVoid(r))
    /\ WF_vars(CountReserved(r))
    /\ WF_vars(CountVoided(r))

FairSpec == Spec /\ Fairness

-----------------------------------------------------------------------------
(* Properties.                                                             *)

Outcome == {"none", "duplicate_scope", "duplicate_number"}

CounterReply ==
  [kind : {"counters"}, series : SeriesId, next : Nat, reserved : Nat, voided : Nat]
BookletReply ==
  [kind : {"booklet"}, reservation : ReservationId,
   rows : [Correlative -> {"ABSENT", "RESERVED", "VOIDED"}]]

Job == [scope : Scope \cup {None}, series : SeriesId \cup {None},
        quantity : Nat, first : Nat, correlative : Nat, seen : Nat, reserved : Nat]

(* The tables, positions and answers have the shape the code gives them.   *)
TypeOK ==
  /\ typeActive \in [Scope -> BOOLEAN]
  /\ scopeOf \in [SeriesId -> Scope \cup {None}]
  /\ next \in [SeriesId -> 1 .. MaxCorrelativeLimit + 1]
  /\ reservations \in [ReservationId -> ReservationRow]
  /\ numbers \in [SeriesId -> [Correlative -> NumberRow]]
  /\ audit \subseteq AuditEvent
  /\ pc \in [Request -> Steps]
  /\ job \in [Request -> Job]
  /\ reply \in [Request -> [kind : Outcome] \cup CounterReply \cup BookletReply]

(* uq_document_series_scope: two concurrent create_series never leave two  *)
(* series for the same type, branch and year.                              *)
OneSeriesPerScope ==
  \A s, t \in SeriesId : Exists(s) /\ scopeOf[s] = scopeOf[t] => s = t

(* next_correlative is exactly one past the numbers handed out: no gap     *)
(* below it, nothing at or above it, whoever rolled back in between.       *)
NoGaps ==
  \A s \in SeriesId : \A c \in Correlative :
    numbers[s][c].status # "ABSENT" <=> c < next[s]

(* A reservation owns the numbers from its first to its last and no other; *)
(* a number belongs to exactly the reservation whose range covers it.      *)
RangeOwnsItsNumbers ==
  \A s \in SeriesId, rid \in ReservationId : \A c \in Correlative :
    numbers[s][c].reservation = rid <=>
      /\ reservations[rid].series = s
      /\ c \in reservations[rid].first .. reservations[rid].last

(* Concurrent reserve_correlatives of one series get disjoint ranges.      *)
RangesDisjoint ==
  \A a, b \in ReservationId :
    /\ a # b
    /\ reservations[a].series = reservations[b].series
    /\ reservations[a].series # None
    => \/ reservations[a].last < reservations[b].first
       \/ reservations[b].last < reservations[a].first

(* The row lock is what keeps workers apart: no reservation ever runs into *)
(* the unique constraint on (series, correlative), the backstop.           *)
AllocationNeverConflicts ==
  \A r \in Request : reply[r].kind # "duplicate_number"

(* The audit trail tells what happened, once and with the right actor:     *)
(* one event for each series, reservation and void, none for a rolled back *)
(* or refused request.                                                     *)
Recorded(action, target) ==
  {e \in audit : e.action = action /\ e.target = target}

AuditTrailExact ==
  /\ \A s \in SeriesId :
       IF Exists(s) THEN \E r \in Request : Recorded("create", s) = {Event("create", s, r)}
       ELSE Recorded("create", s) = {}
  /\ \A rid \in ReservationId :
       IF reservations[rid] # NoReservation
         THEN \E r \in Request : Recorded("reserve", rid) = {Event("reserve", rid, r)}
         ELSE Recorded("reserve", rid) = {}
  /\ \A s \in SeriesId : \A c \in Correlative :
       Recorded("void", <<s, c>>) =
         IF numbers[s][c].status = "VOIDED"
           THEN {Event("void", <<s, c>>, numbers[s][c].voidedBy)}
           ELSE {}

(* No principal of one organization is shown the counters of a series of   *)
(* another, and no event, hence no committed change or download, of such a *)
(* principal is about one.                                                 *)
SeriesOfEvent(e) ==
  CASE e.action = "create" -> e.target
    [] e.action = "void" -> e.target[1]
    [] OTHER -> reservations[e.target].series

Within(r, s) ==
  OrgOfRequest[r] # None => OrgOfScope[scopeOf[s]] = OrgOfRequest[r]

TenantIsolation ==
  /\ \A e \in audit : Within(e.actor, SeriesOfEvent(e))
  /\ \A r \in Request : reply[r].kind = "counters" => Within(r, reply[r].series)

(* The counters of a series answer come from three snapshots.  They may    *)
(* count a number twice, never forget one: together they account for every *)
(* number below the next_correlative of the same answer.                   *)
CountersNeverUnderReport ==
  \A r \in Request :
    reply[r].kind = "counters" =>
      reply[r].reserved + reply[r].voided >= reply[r].next - 1

(* A booklet lists the whole range of its reservation and nothing else,    *)
(* and a number it prints as VOIDED is void in the registry from then on.  *)
BookletIsExact ==
  \A r \in Request :
    reply[r].kind = "booklet" =>
      LET res == reservations[reply[r].reservation]
      IN  \A c \in Correlative :
            /\ reply[r].rows[c] # "ABSENT" <=> c \in res.first .. res.last
            /\ reply[r].rows[c] = "VOIDED" => numbers[res.series][c].status = "VOIDED"

(* What readers are told, by answers with counters and by booklets, leaves *)
(* out nothing that was reserved, whoever commits while they read.         *)
ReadersMissNothing == CountersNeverUnderReport /\ BookletIsExact

(* A number once reserved stays with its reservation, and once void it     *)
(* stays void, on the authority of who voided it first.                    *)
NumbersKeepTheirHistory ==
  [][\A s \in SeriesId : \A c \in Correlative :
       /\ numbers[s][c].status # "ABSENT" =>
            numbers'[s][c].reservation = numbers[s][c].reservation
       /\ numbers[s][c].status = "VOIDED" => numbers'[s][c] = numbers[s][c]]_vars

(* next_correlative never decreases, a void or a rollback included, and    *)
(* moves only together with the reservation that takes what it skips.      *)
NextMovesWithAReservation ==
  [][\A s \in SeriesId :
       next'[s] # next[s] =>
         \E rid \in ReservationId :
           /\ reservations[rid] = NoReservation
           /\ reservations'[rid] =
                [series |-> s, first |-> next[s], last |-> next'[s] - 1]
           /\ next[s] < next'[s]]_vars

(* Every handler comes to an end: nobody waits for a lock for ever.        *)
EveryRequestEnds ==
  \A r \in Request : pc[r] # "idle" ~> pc[r] = "idle"

-----------------------------------------------------------------------------
(* Seen from outside, this is an allocator of numbers.                     *)

Allocation == INSTANCE NumberAllocation WITH
  Series <- SeriesId,
  Holder <- ReservationId,
  Nobody <- None,
  Limit <- MaxCorrelativeLimit,
  holder <- [s \in SeriesId |-> [c \in Correlative |-> numbers[s][c].reservation]],
  voided <- [s \in SeriesId |-> Status(s, "VOIDED")]

(* Whatever the interleaving, the registry hands out blocks of fresh       *)
(* numbers in order and never takes one back.                              *)
ImplementsAllocation == Allocation!Spec
=============================================================================
