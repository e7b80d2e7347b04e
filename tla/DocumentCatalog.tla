--------------------------- MODULE DocumentCatalog --------------------------
(***************************************************************************)
(* The document catalogue: families, retention policies, document types    *)
(* and their immutable versions (DocumentCatalogService), with the loader  *)
(* of the canonical catalogue, which may run beside the API.               *)
(*                                                                         *)
(* As in DocumentSeries the variables are the COMMITTED tables, job[q]     *)
(* holds what the running transaction of q has read or written, and the    *)
(* locks follow from pc[q].  Names, descriptions, schemas and permissions  *)
(* of a version are its content, of which only the author is kept.         *)
(***************************************************************************)
EXTENDS Naturals, FiniteSets, Sequences

CONSTANTS
  Request,      \* handlers and loader processes that run concurrently
  FamilyCode, PolicyCode, TypeCode,  \* codes, after strip().upper()
  Canonical,    \* the keys the loader brings in: families, policies, types
  MaxVersion,   \* bound: versions of one type
  MaxClock,     \* bound: instants
  MaxPatches,   \* bound: committed updates of document types
  None          \* NULL

Key == ({"family"} \X FamilyCode) \cup ({"policy"} \X PolicyCode)
         \cup ({"type"} \X TypeCode)

Family(f) == <<"family", f>>
Policy(p) == <<"policy", p>>
Type(t) == <<"type", t>>

ASSUME CatalogAssumption ==
  /\ Canonical \in Seq(Key)
  /\ MaxVersion \in Nat \ {0} /\ MaxClock \in Nat \ {0} /\ MaxPatches \in Nat
  /\ None \notin Request \cup PolicyCode \cup TypeCode \cup BOOLEAN

VARIABLES
  rows,      \* how many committed rows have a code
  active,    \* DocumentType.is_active
  versions,  \* rows of document_type_versions, by type
  clock,     \* datetime.now(utc)
  audit,     \* how many committed audit events of each sort
  pc, job, reply

tables == <<rows, active, versions, audit>>
vars == <<tables, clock, pc, job, reply>>

-----------------------------------------------------------------------------
(* Rows, events and positions.                                             *)

VersionRow ==
  [number : 1 .. MaxVersion, current : BOOLEAN, from : 1 .. MaxClock,
   to : 0 .. MaxClock, author : Request \cup {None}]

Created(k) == <<"created", k, 0>>
Published(t, n) == <<"published", Type(t), n>>
Patched(t, what) == <<what, Type(t), 0>>

PatchActions == {"updated", "activated", "deactivated"}
Event ==
  {Created(k) : k \in Key}
    \cup {Published(t, n) : t \in TypeCode, n \in 1 .. MaxVersion}
    \cup {Patched(t, a) : t \in TypeCode, a \in PatchActions}

NoJob == [key |-> None, policy |-> None, type |-> None, stamp |-> 0,
          number |-> 0, closes |-> {}, todo |-> <<>>, added |-> {},
          wanted |-> None, renames |-> FALSE, old |-> FALSE, seen |-> {}]

Steps == {"idle", "insert", "commit", "publish_lock", "publish_commit",
          "patch", "patch_commit", "seed", "seed_insert", "list"}

Numbers(t) == {v.number : v \in versions[t]}
Highest(S) == CHOOSE n \in S \cup {0} : \A m \in S : m <= n

FirstVersion(at, who) ==
  [number |-> 1, current |-> TRUE, from |-> at, to |-> 0, author |-> who]

Record(e) == audit' = [audit EXCEPT ![e] = audit[e] + 1]

Goto(q, step, work) ==
  /\ pc' = [pc EXCEPT ![q] = step]
  /\ job' = [job EXCEPT ![q] = work]
  /\ reply' = [reply EXCEPT ![q] = [kind |-> "none"]]

Finish(q, answer) ==
  /\ pc' = [pc EXCEPT ![q] = "idle"]
  /\ job' = [job EXCEPT ![q] = NoJob]
  /\ reply' = [reply EXCEPT ![q] = answer]

Answer(kind) == [kind |-> kind]

-----------------------------------------------------------------------------
(* Locks: an inserted, uncommitted row keeps its code in the unique index; *)
(* a publication locks the row of its type, a PATCH that changes a column  *)
(* locks it at its UPDATE.                                                 *)

HoldsKey(q, k) == (pc[q] = "commit" /\ job[q].key = k) \/ k \in job[q].added

Dirty(q) ==
  job[q].renames \/ (job[q].wanted # None /\ job[q].wanted # job[q].old)

HoldsType(q, t) ==
  /\ job[q].type = t
  /\ pc[q] = "publish_commit" \/ (pc[q] = "patch_commit" /\ Dirty(q))

(* Fault: no FOR UPDATE on the type.                                       *)
TypeUnlocked_NoForUpdate(t) == TRUE

KeyUnlocked(k) == \A q \in Request : ~HoldsKey(q, k)
TypeUnlocked(t) == \A q \in Request : ~HoldsType(q, t)

-----------------------------------------------------------------------------
(* create_family, create_retention_policy and create_document_type.  The   *)
(* reads come first, without a lock; f is the family of a new type, p the  *)
(* retention policy of its initial version, None when there is none.       *)

StartCreate(q, k, f, p) ==
  /\ pc[q] = "idle"
  /\ rows[k] = 0
  /\ k[1] = "type" => rows[Family(f)] > 0
  /\ k[1] # "type" => p = None
  /\ Goto(q, "insert", [NoJob EXCEPT !.key = k, !.policy = p])
  /\ UNCHANGED <<tables, clock>>

(* The flush waits for whoever inserted the same code and then fails, or   *)
(* succeeds; only after it is the retention policy looked up.              *)
InsertRow(q) ==
  LET k == job[q].key
      p == job[q].policy
  IN  /\ pc[q] = "insert"
      /\ KeyUnlocked(k)
      /\ IF rows[k] > 0 THEN Finish(q, Answer("duplicate_code"))
         ELSE IF p # None /\ rows[Policy(p)] = 0 THEN Finish(q, Answer("none"))
         ELSE Goto(q, "commit", [job[q] EXCEPT !.stamp = clock])
      /\ UNCHANGED <<tables, clock>>

CommitCreate(q, isActive) ==
  LET k == job[q].key
  IN  /\ pc[q] = "commit"
      /\ rows' = [rows EXCEPT ![k] = rows[k] + 1]
      /\ IF k[1] = "type"
           THEN /\ active' = [active EXCEPT ![k[2]] = isActive]
                /\ versions' = IF job[q].policy = None THEN versions
                     ELSE [versions EXCEPT ![k[2]] =
                             versions[k[2]] \cup {FirstVersion(job[q].stamp, q)}]
           ELSE UNCHANGED <<active, versions>>
      /\ Record(Created(k))
      /\ Finish(q, Answer("none"))
      /\ UNCHANGED clock

-----------------------------------------------------------------------------
(* create_new_version.                                                     *)

StartPublish(q, t, p) ==
  /\ pc[q] = "idle"
  /\ Goto(q, "publish_lock", [NoJob EXCEPT !.type = t, !.policy = p])
  /\ UNCHANGED <<tables, clock>>

(* Everything is read once the type is locked: its policy, the highest     *)
(* number, the time and the versions to close.                             *)
LockType(q) ==
  LET t == job[q].type
      n == Highest(Numbers(t)) + 1
  IN  /\ pc[q] = "publish_lock"
      /\ TypeUnlocked(t)
      /\ IF rows[Type(t)] > 0 /\ rows[Policy(job[q].policy)] > 0 /\ n <= MaxVersion
           THEN Goto(q, "publish_commit",
                     [job[q] EXCEPT !.number = n, !.stamp = clock,
                        !.closes = {v.number : v \in {w \in versions[t] : w.current}}])
           ELSE Finish(q, Answer("none"))
      /\ UNCHANGED <<tables, clock>>

(* Faults: effective_to is left open; the period is begun anew; is_current *)
(* is left set.                                                            *)
Closed_KeepsOpen(v, at) == [v EXCEPT !.current = FALSE]
Closed_Restarts(v, at) == [v EXCEPT !.current = FALSE, !.to = at, !.from = at]
Closed_StaysCurrent(v, at) == [v EXCEPT !.to = at]

Closed(v, at) == [v EXCEPT !.current = FALSE, !.to = at]

(* The old version is updated before the new one is inserted; a second     *)
(* version with this number, or a second current one, would break a unique *)
(* index and roll everything back.                                         *)
CommitVersion(q) ==
  LET t   == job[q].type
      new == [number |-> job[q].number, current |-> TRUE,
              from |-> job[q].stamp, to |-> 0, author |-> q]
  IN  /\ pc[q] = "publish_commit"
      /\ IF \E v \in versions[t] :
              v.number = job[q].number \/ (v.current /\ v.number \notin job[q].closes)
           THEN Finish(q, Answer("version_conflict")) /\ UNCHANGED tables
           ELSE /\ versions' = [versions EXCEPT ![t] = {new} \cup
                     {IF v.number \in job[q].closes THEN Closed(v, job[q].stamp) ELSE v
                        : v \in versions[t]}]
                /\ Record(Published(t, job[q].number))
                /\ Finish(q, Answer("none"))
                /\ UNCHANGED <<rows, active>>
      /\ UNCHANGED clock

-----------------------------------------------------------------------------
(* update_document_type: read without a lock, changed columns written.     *)
(* wanted is payload.is_active, or None; renames, whether another column   *)
(* changes.                                                                *)

PatchesDone(t) ==
  audit[Patched(t, "updated")] + audit[Patched(t, "activated")]
    + audit[Patched(t, "deactivated")]

StartPatch(q, t, wanted, renames) ==
  /\ pc[q] = "idle"
  /\ rows[Type(t)] > 0
  /\ PatchesDone(t) < MaxPatches
  /\ Goto(q, "patch", [NoJob EXCEPT !.type = t, !.wanted = wanted,
                         !.renames = renames, !.old = active[t]])
  /\ UNCHANGED <<tables, clock>>

UpdateType(q) ==
  /\ pc[q] = "patch"
  /\ Dirty(q) => TypeUnlocked(job[q].type)
  /\ Goto(q, "patch_commit", job[q])
  /\ UNCHANGED <<tables, clock>>

(* Fault: the audited action follows from the value read, not written.     *)
PatchAction_OldValue(q) ==
  IF job[q].wanted = job[q].old THEN "updated"
  ELSE IF job[q].old THEN "activated" ELSE "deactivated"

(* A PATCH without is_active is audited as activated or deactivated too.   *)
PatchAction(q) ==
  LET now == IF job[q].wanted = None THEN job[q].old ELSE job[q].wanted
  IN  IF job[q].wanted = job[q].old THEN "updated"
      ELSE IF now THEN "activated" ELSE "deactivated"

CommitPatch(q) ==
  LET t == job[q].type
  IN  /\ pc[q] = "patch_commit"
      /\ active' = IF job[q].wanted \in {None, job[q].old} THEN active
                   ELSE [active EXCEPT ![t] = job[q].wanted]
      /\ Record(Patched(t, PatchAction(q)))
      /\ Finish(q, Answer("none"))
      /\ UNCHANGED <<rows, versions, clock>>

-----------------------------------------------------------------------------
(* load_canonical_catalog: one transaction that inserts, in the order of   *)
(* the canonical lists, each row whose code it does not find.              *)

StartSeed(q) ==
  /\ pc[q] = "idle"
  /\ Goto(q, "seed", [NoJob EXCEPT !.todo = Canonical])
  /\ UNCHANGED <<tables, clock>>

(* Fault: a row somebody else is inserting is taken for an existing one.   *)
SeedCheck_SkipsLocked(q) ==
  /\ pc[q] = "seed"
  /\ job[q].todo # <<>>
  /\ LET k    == Head(job[q].todo)
         work == [job[q] EXCEPT !.stamp = clock]
     IN  IF rows[k] > 0 \/ ~KeyUnlocked(k)
           THEN Goto(q, "seed", [work EXCEPT !.todo = Tail(job[q].todo)])
           ELSE Goto(q, "seed_insert", work)
  /\ UNCHANGED <<tables, clock>>

(* One time is taken for all the versions, before the first type.          *)
SeedCheck(q) ==
  /\ pc[q] = "seed"
  /\ job[q].todo # <<>>
  /\ LET k    == Head(job[q].todo)
         work == IF k[1] = "type" /\ job[q].stamp = 0
                   THEN [job[q] EXCEPT !.stamp = clock] ELSE job[q]
     IN  IF rows[k] > 0
           THEN Goto(q, "seed", [work EXCEPT !.todo = Tail(job[q].todo)])
           ELSE Goto(q, "seed_insert", work)
  /\ UNCHANGED <<tables, clock>>

(* Fault: the loader tries again instead of failing.                       *)
SeedInsert_Insists(q) ==
  LET k == Head(job[q].todo)
  IN  /\ pc[q] = "seed_insert"
      /\ KeyUnlocked(k)
      /\ rows[k] = 0
      /\ Goto(q, "seed", [job[q] EXCEPT !.todo = Tail(job[q].todo),
                                       !.added = job[q].added \cup {k}])
      /\ UNCHANGED <<tables, clock>>

SeedInsert(q) ==
  LET k == Head(job[q].todo)
  IN  /\ pc[q] = "seed_insert"
      /\ KeyUnlocked(k)
      /\ IF rows[k] > 0 THEN Finish(q, Answer("duplicate_code"))
         ELSE Goto(q, "seed", [job[q] EXCEPT !.todo = Tail(job[q].todo),
                                             !.added = job[q].added \cup {k}])
      /\ UNCHANGED <<tables, clock>>

CommitSeed(q) ==
  LET new == {t \in TypeCode : Type(t) \in job[q].added}
  IN  /\ pc[q] = "seed"
      /\ job[q].todo = <<>>
      /\ rows' = [k \in Key |-> IF k \in job[q].added THEN rows[k] + 1 ELSE rows[k]]
      /\ active' = [t \in TypeCode |-> t \in new \/ active[t]]
      /\ versions' = [t \in TypeCode |->
           IF t \in new THEN versions[t] \cup {FirstVersion(job[q].stamp, None)}
           ELSE versions[t]]
      /\ Finish(q, Answer("seeded"))
      /\ UNCHANGED <<audit, clock>>

-----------------------------------------------------------------------------
(* get_document_type_versions runs two statements in one ORM session.  A   *)
(* version the first one loaded keeps its attributes in the identity map   *)
(* when the second one reads its row again.                                *)

StartListing(q, t) ==
  /\ pc[q] = "idle"
  /\ rows[Type(t)] > 0
  /\ Goto(q, "list", [NoJob EXCEPT !.type = t, !.seen = versions[t]])
  /\ UNCHANGED <<tables, clock>>

(* Fault: the versions the first statement loaded are left out.            *)
Listed_OnlyNew(q) ==
  {v \in versions[job[q].type] : v.number \notin {w.number : w \in job[q].seen}}

Listed(q) ==
  job[q].seen \cup
    {v \in versions[job[q].type] : v.number \notin {w.number : w \in job[q].seen}}

FinishListing(q) ==
  /\ pc[q] = "list"
  /\ Finish(q, [kind |-> "listing", type |-> job[q].type, versions |-> Listed(q)])
  /\ UNCHANGED <<tables, clock>>

-----------------------------------------------------------------------------
(* The session is closed, or lost, before the commit.                      *)
Rollback(q) ==
  /\ pc[q] # "idle"
  /\ Finish(q, Answer("none"))
  /\ UNCHANGED <<tables, clock>>

Tick ==
  /\ clock < MaxClock
  /\ clock' = clock + 1
  /\ UNCHANGED <<tables, pc, job, reply>>

Init ==
  /\ rows = [k \in Key |-> 0]
  /\ active = [t \in TypeCode |-> FALSE]
  /\ versions = [t \in TypeCode |-> {}]
  /\ clock = 1
  /\ audit = [e \in Event |-> 0]
  /\ pc = [q \in Request |-> "idle"]
  /\ job = [q \in Request |-> NoJob]
  /\ reply = [q \in Request |-> Answer("none")]

Create(q) ==
  \/ \E k \in Key, f \in FamilyCode, p \in PolicyCode \cup {None} :
       StartCreate(q, k, f, p)
  \/ InsertRow(q)
  \/ \E isActive \in BOOLEAN : CommitCreate(q, isActive)

Publish(q) ==
  \/ \E t \in TypeCode, p \in PolicyCode : StartPublish(q, t, p)
  \/ LockType(q)
  \/ CommitVersion(q)

Patch(q) ==
  \/ \E t \in TypeCode, wanted \in BOOLEAN \cup {None}, renames \in BOOLEAN :
       StartPatch(q, t, wanted, renames)
  \/ UpdateType(q)
  \/ CommitPatch(q)

Seed(q) == StartSeed(q) \/ SeedCheck(q) \/ SeedInsert(q) \/ CommitSeed(q)

List(q) == (\E t \in TypeCode : StartListing(q, t)) \/ FinishListing(q)

Next ==
  \/ \E q \in Request : Create(q) \/ Publish(q) \/ Patch(q) \/ Seed(q) \/ List(q)
                          \/ Rollback(q)
  \/ Tick

Spec == Init /\ [][Next]_vars

(* The steps of a handler once it runs.  Whatever its position, just one   *)
(* of them can ever be taken there.                                        *)
Continue(q) ==
  \/ InsertRow(q) \/ \E isActive \in BOOLEAN : CommitCreate(q, isActive)
  \/ LockType(q) \/ CommitVersion(q)
  \/ UpdateType(q) \/ CommitPatch(q)
  \/ SeedCheck(q) \/ SeedInsert(q) \/ CommitSeed(q)
  \/ FinishListing(q)

(* Handlers run on, and a lock is granted to its waiters in their order of *)
(* arrival, so one whose lock comes free again and again gets it.          *)
Fairness == \A q \in Request : SF_vars(Continue(q))

FairSpec == Spec /\ Fairness

-----------------------------------------------------------------------------
(* Properties.                                                             *)

Job ==
  [key : Key \cup {None}, policy : PolicyCode \cup {None},
   type : TypeCode \cup {None}, stamp : 0 .. MaxClock, number : 0 .. MaxVersion,
   closes : SUBSET (1 .. MaxVersion), todo : Seq(Key), added : SUBSET Key,
   wanted : BOOLEAN \cup {None}, renames : BOOLEAN, old : BOOLEAN,
   seen : SUBSET VersionRow]

Reply ==
  [kind : {"none", "duplicate_code", "version_conflict", "seeded"}]
    \cup [kind : {"listing"}, type : TypeCode, versions : SUBSET VersionRow]

(* Tables, positions and answers have the shape the code gives them.       *)
TypeOK ==
  /\ rows \in [Key -> Nat]
  /\ active \in [TypeCode -> BOOLEAN]
  /\ versions \in [TypeCode -> SUBSET VersionRow]
  /\ clock \in 1 .. MaxClock
  /\ audit \in [Event -> Nat]
  /\ pc \in [Request -> Steps]
  /\ job \in [Request -> Job]
  /\ reply \in [Request -> Reply]

(* Whoever published concurrently, the versions of a type are numbered     *)
(* 1, 2, 3, ... and exactly the last of them is current.                   *)
LastVersionIsCurrent ==
  \A t \in TypeCode :
    /\ Numbers(t) = 1 .. Cardinality(versions[t])
    /\ \A v \in versions[t] : v.current <=> v.number = Cardinality(versions[t])

(* The periods of validity follow one another without gap or overlap: each *)
(* version ends at the instant the next one begins, never before it began. *)
PeriodsAreContiguous ==
  \A t \in TypeCode : \A v, w \in versions[t] :
    /\ w.number = v.number + 1 => v.to = w.from /\ v.from <= v.to
    /\ v.current => v.to = 0

(* At every instant from the first publication on, exactly one version is  *)
(* in force, and it is the last one; publishers that waited for each other *)
(* neither number a version twice nor leave a hole between two periods.    *)
OneVersionInForce == LastVersionIsCurrent /\ PeriodsAreContiguous

(* FOR UPDATE on the type is what keeps publishers apart: the unique       *)
(* indexes on the versions are never run into.                             *)
PublishNeverConflicts ==
  \A q \in Request : reply[q].kind # "version_conflict"

(* The events of publications are those of the versions there are; the     *)
(* first one may come with its type.                                       *)
PublicationsAudited ==
  \A t \in TypeCode, n \in 1 .. MaxVersion :
    LET events == audit[Published(t, n)]
        there  == Cardinality({v \in versions[t] : v.number = n})
    IN  IF n = 1 THEN events <= there ELSE events = there

(* A load that ended well leaves every canonical row in the catalogue,     *)
(* even if others were inserting the same codes and rolled back.           *)
LoadIsComplete ==
  \A q \in Request :
    reply[q].kind = "seeded" =>
      \A i \in 1 .. Len(Canonical) : rows[Canonical[i]] > 0

(* A listing of versions may mark as current one that was superseded while *)
(* it was being read, but the last version it lists was current, none is   *)
(* missing below it, and what is closed in it was closed for good.         *)
ListingIsRecent ==
  \A q \in Request :
    reply[q].kind = "listing" =>
      LET L == reply[q].versions
          last == Highest({v.number : v \in L})
      IN  /\ {v.number : v \in L} = 1 .. last
          /\ \A v \in L : /\ v.number = last => v.current
                          /\ ~v.current => v \in versions[reply[q].type]

(* A published version is never removed or rewritten; closing it, once, is *)
(* the only change it sees.                                                *)
VersionsAreImmutable ==
  [][\A t \in TypeCode : \A v \in versions[t] :
       \/ v \in versions'[t]
       \/ /\ v.current
          /\ \E at \in v.from .. MaxClock :
               [v EXCEPT !.current = FALSE, !.to = at] \in versions'[t]]_vars

(* The audit trail is that of the changes, rollbacks or not: every version *)
(* from the second on is audited exactly once, and nothing is that did not *)
(* happen; and whenever a type is switched on or off, the same commit      *)
(* audits it as activated or deactivated, whatever the handler had read.   *)
ChangesAreAudited ==
  [][/\ PublicationsAudited'
     /\ \A t \in TypeCode :
          rows[Type(t)] > 0 /\ active'[t] # active[t] =>
            LET e == Patched(t, IF active'[t] THEN "activated" ELSE "deactivated")
            IN  audit'[e] = audit[e] + 1]_vars

(* Handlers and loaders only ever wait for one lock and hold none that a   *)
(* holder of it waits for: everyone ends.                                  *)
EveryRequestEnds ==
  \A q \in Request : pc[q] # "idle" ~> pc[q] = "idle"

(* What the test of the listing asserts of it; see the README.             *)
ListingHasOneCurrent ==
  \A q \in Request :
    reply[q].kind = "listing" =>
      Cardinality({v \in reply[q].versions : v.current}) <= 1

-----------------------------------------------------------------------------
(* Seen from outside, the versions are a history that grows at its end.    *)

History == INSTANCE VersionHistory WITH
  DocType <- TypeCode,
  Author <- Request \cup {None},
  Limit <- MaxVersion,
  length <- [t \in TypeCode |-> Cardinality(versions[t])],
  author <- [t \in TypeCode |->
               [n \in 1 .. Cardinality(versions[t]) |->
                  (CHOOSE v \in versions[t] : v.number = n).author]],
  inForce <- [t \in TypeCode |-> {v.number : v \in {w \in versions[t] : w.current}}]

(* Publications, creations and loads only ever append to the histories.    *)
ImplementsHistory == History!Spec
=============================================================================
