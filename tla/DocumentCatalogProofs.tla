----------------------- MODULE DocumentCatalogProofs -----------------------
(***************************************************************************)
(* Proofs about DocumentCatalog, for any requests, codes, canonical list   *)
(* and numbers of versions.                                                *)
(***************************************************************************)
EXTENDS DocumentCatalog, FiniteSetTheorems, TLAPS

-----------------------------------------------------------------------------
(* Versions of one type.                                                   *)

NumbersOf(V) == {v.number : v \in V}

(* n versions that are numbered 1 .. n and follow one another in time.     *)
IsChain(V, n) ==
  /\ V \subseteq VersionRow /\ n \in 0 .. MaxVersion
  /\ NumbersOf(V) = 1 .. n
  /\ \A v, w \in V : v.number = w.number => v = w
  /\ \A v \in V : v.current <=> v.number = n
  /\ \A v, w \in V : w.number = v.number + 1 => v.to = w.from /\ v.from <= v.to
  /\ \A v \in V : v.current => v.to = 0

LEMMA HighestOfRange ==
  ASSUME NEW n \in Nat
  PROVE  Highest(1 .. n) = n
  <1>1. n \in (1 .. n) \cup {0} /\ \A m \in 1 .. n : m <= n
    OBVIOUS
  <1>2. /\ Highest(1 .. n) \in (1 .. n) \cup {0}
        /\ \A m \in 1 .. n : m <= Highest(1 .. n)
    BY <1>1 DEF Highest
  <1>3. QED
    BY <1>2

LEMMA EmptyChain == IsChain({}, 0)
  BY CatalogAssumption DEF IsChain, NumbersOf

LEMMA FirstChain ==
  ASSUME NEW at \in 1 .. MaxClock, NEW who \in Request \cup {None}
  PROVE  IsChain({FirstVersion(at, who)}, 1)
  <1>1. PICK x : x = FirstVersion(at, who)
    OBVIOUS
  <1>2. x \in VersionRow
    BY <1>1, CatalogAssumption DEF FirstVersion, VersionRow
  <1>3. x.number = 1 /\ x.current = TRUE /\ x.to = 0
    BY <1>1 DEF FirstVersion
  <1>4. NumbersOf({x}) = 1 .. 1
    BY <1>3 DEF NumbersOf
  <1>5. 1 \in 0 .. MaxVersion
    BY CatalogAssumption
  <1>6. IsChain({x}, 1)
    BY <1>2, <1>3, <1>4, <1>5 DEF IsChain
  <1>7. QED
    BY <1>1, <1>6

(* The first n numbers and the versions are in bijection.                  *)
LEMMA ChainLength ==
  ASSUME NEW V, NEW n, IsChain(V, n)
  PROVE  /\ n \in Nat /\ IsFiniteSet(V) /\ Cardinality(V) = n
  <1>1. n \in Nat /\ NumbersOf(V) = 1 .. n /\ \A v, w \in V : v.number = w.number => v = w
    BY CatalogAssumption DEF IsChain
  <1>2. PICK f : f = [v \in V |-> v.number]
    OBVIOUS
  <1>3. f \in [V -> 1 .. n] /\ \A m \in 1 .. n : \E v \in V : f[v] = m
    BY <1>1, <1>2 DEF NumbersOf
  <1>4. IsInjective(f)
    BY <1>1, <1>2 DEF IsInjective
  <1>5. f \in Injection(V, 1 .. n) /\ f \in Surjection(V, 1 .. n)
    BY <1>3, <1>4 DEF Injection, Surjection
  <1>6. 1 \in Int /\ n \in Int
    BY <1>1
  <1>7. IsFiniteSet(1 .. n) /\ Cardinality(1 .. n) = n
    BY <1>1, <1>6, FS_Interval
  <1>8. QED
    BY <1>1, <1>5, <1>7, FS_Injection

(* What is left of a version when number n, the current one, is closed.    *)
After(v, n, at) == IF v.number = n THEN Closed(v, at) ELSE v

(* The versions after the publication of new at that instant.              *)
IsNext(V, W, n, at, new) ==
  \A w : w \in W <=> w = new \/ \E v \in V : w = After(v, n, at)

LEMMA ClosedRow ==
  ASSUME NEW v \in VersionRow, NEW at \in 1 .. MaxClock
  PROVE  /\ Closed(v, at) \in VersionRow
         /\ Closed(v, at).number = v.number /\ ~Closed(v, at).current
         /\ Closed(v, at).from = v.from /\ Closed(v, at).to = at
         /\ Closed(v, at).author = v.author
  <1>1. at \in 0 .. MaxClock
    BY CatalogAssumption
  <1>2. Closed(v, at) \in VersionRow
    BY <1>1 DEF Closed, VersionRow
  <1>3. /\ Closed(v, at).number = v.number /\ ~Closed(v, at).current
        /\ Closed(v, at).from = v.from /\ Closed(v, at).to = at
        /\ Closed(v, at).author = v.author
    BY DEF Closed, VersionRow
  <1>4. QED
    BY <1>2, <1>3

LEMMA AfterRow ==
  ASSUME NEW V, NEW n, IsChain(V, n), NEW at \in 1 .. MaxClock, NEW v \in V
  PROVE  /\ After(v, n, at) \in VersionRow
         /\ After(v, n, at).number = v.number /\ ~After(v, n, at).current
         /\ After(v, n, at).from = v.from /\ After(v, n, at).author = v.author
         /\ After(v, n, at).to = IF v.number = n THEN at ELSE v.to
         /\ After(v, n, at) = v \/ (v.current /\ After(v, n, at) = Closed(v, at))
  <1>1. v \in VersionRow /\ (v.current <=> v.number = n)
    BY DEF IsChain
  <1>2. CASE v.number = n
    BY <1>1, <1>2, ClosedRow DEF After
  <1>3. CASE v.number # n
    BY <1>1, <1>3 DEF After
  <1>4. QED
    BY <1>2, <1>3

(* Publishing: the current version is closed at the instant the new one    *)
(* begins.                                                                 *)
LEMMA NextChain ==
  ASSUME NEW V, NEW n, IsChain(V, n), n + 1 <= MaxVersion,
         NEW at \in 1 .. MaxClock, \A v \in V : v.from <= at,
         NEW new \in VersionRow, new.number = n + 1, new.current,
         new.from = at, new.to = 0,
         NEW W, \A w : w \in W <=> w = new \/ \E v \in V : w = After(v, n, at)
  PROVE  IsChain(W, n + 1) /\ \A w \in W : w.from <= at
  <1>1. /\ n \in Nat /\ NumbersOf(V) = 1 .. n /\ V \subseteq VersionRow
        /\ \A v \in V : v.number \in 1 .. n
    BY CatalogAssumption DEF IsChain, NumbersOf
  <1>2. \A v \in V :
          /\ After(v, n, at) \in VersionRow
          /\ After(v, n, at).number = v.number /\ ~After(v, n, at).current
          /\ After(v, n, at).from = v.from
          /\ After(v, n, at).to = IF v.number = n THEN at ELSE v.to
    BY AfterRow
  <1>3. \A v, w \in V : v.number = w.number => v = w
    BY DEF IsChain
  <1>4. W \subseteq VersionRow /\ n + 1 \in 0 .. MaxVersion
    BY <1>1, <1>2, CatalogAssumption
  <1>5. NumbersOf(W) = 1 .. n + 1
    <2>1. \A m : m \in NumbersOf(W) <=> m = n + 1 \/ m \in NumbersOf(V)
      BY <1>2 DEF NumbersOf
    <2>2. \A m : m = n + 1 \/ m \in 1 .. n <=> m \in 1 .. n + 1
      BY <1>1
    <2>3. QED
      BY <2>1, <2>2, <1>1
  <1>6. \A v, w \in W : v.number = w.number => v = w
    <2>1. \A v \in V : After(v, n, at).number # new.number
      BY <1>1, <1>2
    <2>2. \A v, w \in V : After(v, n, at).number = After(w, n, at).number => v = w
      BY <1>2, <1>3
    <2>3. QED
      BY <2>1, <2>2
  <1>7. \A v \in W : v.current <=> v.number = n + 1
    <2>1. \A v \in V : After(v, n, at).number # n + 1
      BY <1>1, <1>2
    <2>2. QED
      BY <2>1, <1>2
  <1>8. ASSUME NEW v \in W, NEW w \in W, w.number = v.number + 1
        PROVE  v.to = w.from /\ v.from <= v.to
    <2>1. w.number \in 1 .. n + 1
      BY <1>5 DEF NumbersOf
    <2>2. PICK v0 \in V : v = After(v0, n, at)
      BY <2>1, <1>1, <1>8
    <2>3. CASE w = new
      <3>1. v0.number = n
        BY <2>2, <2>3, <1>1, <1>2, <1>8
      <3>2. QED
        BY <3>1, <2>2, <2>3, <1>2
    <2>4. CASE \E w0 \in V : w = After(w0, n, at)
      <3>1. PICK w0 \in V : w = After(w0, n, at)
        BY <2>4
      <3>2. w0.number = v0.number + 1 /\ v0.number # n
        BY <3>1, <2>2, <1>1, <1>2, <1>8
      <3>3. v0.to = w0.from /\ v0.from <= v0.to
        BY <3>2 DEF IsChain
      <3>4. QED
        BY <3>1, <3>2, <3>3, <2>2, <1>2
    <2>5. QED
      BY <2>3, <2>4
  <1>9. \A v \in W : v.current => v.to = 0
    BY <1>2
  <1>10. \A w \in W : w.from <= at
    BY <1>1, <1>2
  <1>11. QED
    BY <1>4, <1>5, <1>6, <1>7, <1>8, <1>9, <1>10 DEF IsChain

-----------------------------------------------------------------------------
(* The inductive invariant.                                                *)

(* What a handler knows at each of its steps: stamps lie in the past, only *)
(* the loader has uncommitted keys, and a publisher that holds the lock    *)
(* still has before it what it read.                                       *)
JobOK(q) ==
  /\ pc[q] \notin {"seed", "seed_insert"} => job[q].added = {}
  /\ pc[q] \in {"insert", "commit"} => job[q].key \in Key
  /\ pc[q] \in {"publish_lock", "publish_commit", "patch", "patch_commit", "list"} =>
       job[q].type \in TypeCode
  /\ job[q].stamp <= clock
  /\ pc[q] \in {"commit", "publish_commit"} => job[q].stamp >= 1
  /\ pc[q] = "seed_insert" =>
       /\ job[q].todo # <<>>
       /\ \A t \in TypeCode : Head(job[q].todo) = Type(t) => job[q].stamp >= 1
  /\ \A t \in TypeCode : Type(t) \in job[q].added => job[q].stamp >= 1
  /\ pc[q] = "publish_commit" =>
       /\ rows[Type(job[q].type)] > 0
       /\ job[q].number \in 1 .. MaxVersion
       /\ IsChain(versions[job[q].type], job[q].number - 1)
       /\ \A m : m \in job[q].closes <=>
                   \E v \in versions[job[q].type] : v.current /\ v.number = m
       /\ \A v \in versions[job[q].type] : v.from <= job[q].stamp

(* An uncommitted key is held by one request and not in the table.         *)
KeysHeld ==
  \A q \in Request, k \in Key :
    HoldsKey(q, k) => rows[k] = 0 /\ \A r \in Request : HoldsKey(r, k) => r = q

PublishersApart ==
  \A q, r \in Request :
    /\ pc[q] = "publish_commit" /\ pc[r] = "publish_commit"
    /\ job[q].type = job[r].type
    => q = r

(* The versions of a type are a chain, and an absent type has none.        *)
RowOK(t) ==
  /\ rows[Type(t)] = 0 => versions[t] = {}
  /\ \E n : IsChain(versions[t], n)
  /\ \A v \in versions[t] : v.from <= clock

Inv ==
  /\ TypeOK
  /\ \A q \in Request : JobOK(q)
  /\ KeysHeld
  /\ PublishersApart
  /\ \A t \in TypeCode : RowOK(t)

-----------------------------------------------------------------------------
(* Keys.                                                                   *)

LEMMA TypeKeys ==
  /\ \A t \in TypeCode : Type(t) \in Key /\ Type(t)[1] = "type" /\ Type(t)[2] = t
  /\ \A k \in Key : k[1] = "type" => k[2] \in TypeCode /\ k = Type(k[2])
  /\ \A t, u \in TypeCode : Type(t) = Type(u) => t = u
  <1>1. \A t \in TypeCode : Type(t) \in Key /\ Type(t)[1] = "type" /\ Type(t)[2] = t
    BY DEF Type, Key
  <1>2. \A k \in Key : k[1] = "type" => k[2] \in TypeCode /\ k = Type(k[2])
    BY DEF Type, Key
  <1>3. QED
    BY <1>1, <1>2

LEMMA EventKeys ==
  /\ \A k \in Key : Created(k) \in Event
  /\ \A t \in TypeCode, n \in 1 .. MaxVersion : Published(t, n) \in Event
  /\ \A t \in TypeCode, a \in PatchActions : Patched(t, a) \in Event
  BY DEF Event

LEMMA NoJobType == NoJob \in Job
  BY CatalogAssumption DEF NoJob, Job

LEMMA StampType ==
  ASSUME TypeOK
  PROVE  clock \in 1 .. MaxClock /\ clock \in 0 .. MaxClock /\ clock <= clock
  BY CatalogAssumption DEF TypeOK

LEMMA GotoType ==
  ASSUME TypeOK, NEW q \in Request, NEW step \in Steps, NEW work \in Job,
         Goto(q, step, work)
  PROVE  /\ pc' \in [Request -> Steps] /\ job' \in [Request -> Job]
         /\ reply' \in [Request -> Reply]
  <1>1. [kind |-> "none"] \in Reply
    BY DEF Reply
  <1>2. QED
    BY <1>1 DEF TypeOK, Goto

LEMMA FinishType ==
  ASSUME TypeOK, NEW q \in Request, NEW answer \in Reply, Finish(q, answer)
  PROVE  /\ pc' \in [Request -> Steps] /\ job' \in [Request -> Job]
         /\ reply' \in [Request -> Reply]
  BY NoJobType DEF TypeOK, Finish, Steps

LEMMA AnswerType ==
  \A kind \in {"none", "duplicate_code", "version_conflict", "seeded"} :
    Answer(kind) \in Reply
  BY DEF Answer, Reply

LEMMA AnswerKinds == \A kind : Answer(kind).kind = kind
  BY DEF Answer

LEMMA FirstVersionType ==
  ASSUME NEW at \in 1 .. MaxClock, NEW who \in Request \cup {None}
  PROVE  FirstVersion(at, who) \in VersionRow
  BY CatalogAssumption DEF FirstVersion, VersionRow

LEMMA RecordType ==
  ASSUME TypeOK, NEW e \in Event, Record(e)
  PROVE  audit' \in [Event -> Nat]
  BY DEF TypeOK, Record

(* A step of a handler that commits nothing.                               *)
LEMMA QuietType ==
  ASSUME TypeOK, NEW q \in Request, UNCHANGED <<tables, clock>>,
         \/ \E step \in Steps, work \in Job : Goto(q, step, work)
         \/ \E answer \in Reply : Finish(q, answer)
  PROVE  TypeOK'
  <1>1. /\ pc' \in [Request -> Steps] /\ job' \in [Request -> Job]
        /\ reply' \in [Request -> Reply]
    BY GotoType, FinishType
  <1>2. QED
    BY <1>1 DEF TypeOK, tables

-----------------------------------------------------------------------------
(* Type correctness, one lemma per request of the API.                     *)

LEMMA CreateType ==
  ASSUME Inv, NEW q \in Request, Create(q)
  PROVE  TypeOK'
  <1> USE DEF Inv
  <1>1. ASSUME NEW k \in Key, NEW f \in FamilyCode, NEW p \in PolicyCode \cup {None},
               StartCreate(q, k, f, p)
        PROVE  TypeOK'
    <2>1. [NoJob EXCEPT !.key = k, !.policy = p] \in Job
      BY NoJobType DEF Job
    <2>2. "insert" \in Steps
      BY DEF Steps
    <2>3. QED
      BY <2>1, <2>2, <1>1, QuietType DEF StartCreate
  <1>2. CASE InsertRow(q)
    <2>1. [job[q] EXCEPT !.stamp = clock] \in Job
      BY StampType DEF Job, TypeOK
    <2>2. "commit" \in Steps /\ Answer("none") \in Reply /\ Answer("duplicate_code") \in Reply
      BY AnswerType DEF Steps
    <2>3. \/ Goto(q, "commit", [job[q] EXCEPT !.stamp = clock])
          \/ Finish(q, Answer("none"))
          \/ Finish(q, Answer("duplicate_code"))
      BY <1>2 DEF InsertRow
    <2>4. UNCHANGED <<tables, clock>>
      BY <1>2 DEF InsertRow
    <2>5. QED
      BY <2>1, <2>2, <2>3, <2>4, QuietType
  <1>3. ASSUME NEW isActive \in BOOLEAN, CommitCreate(q, isActive)
        PROVE  TypeOK'
    <2> DEFINE k == job[q].key
    <2>1. k \in Key /\ job[q].stamp \in 1 .. MaxClock
      BY <1>3, StampType DEF CommitCreate, JobOK, TypeOK, Job
    <2>2. /\ pc' \in [Request -> Steps] /\ job' \in [Request -> Job]
          /\ reply' \in [Request -> Reply]
      BY <1>3, FinishType, AnswerType DEF CommitCreate
    <2>3. audit' \in [Event -> Nat]
      BY <1>3, <2>1, RecordType, EventKeys DEF CommitCreate
    <2>4. rows' \in [Key -> Nat] /\ clock' = clock
      BY <1>3, <2>1 DEF CommitCreate, TypeOK
    <2>5. FirstVersion(job[q].stamp, q) \in VersionRow
      BY <2>1, FirstVersionType
    <2>6. active' \in [TypeCode -> BOOLEAN] /\ versions' \in [TypeCode -> SUBSET VersionRow]
      <3>1. CASE k[1] = "type"
        <4>1. k[2] \in TypeCode
          BY <2>1, <3>1, TypeKeys
        <4>2. active' \in [TypeCode -> BOOLEAN]
          BY <1>3, <3>1, <4>1 DEF CommitCreate, TypeOK
        <4>3. versions[k[2]] \cup {FirstVersion(job[q].stamp, q)} \in SUBSET VersionRow
          BY <4>1, <2>5 DEF TypeOK
        <4>4. versions' = versions
              \/ versions' = [versions EXCEPT ![k[2]] =
                                versions[k[2]] \cup {FirstVersion(job[q].stamp, q)}]
          BY <1>3, <3>1 DEF CommitCreate
        <4>5. QED
          BY <4>2, <4>3, <4>4 DEF TypeOK
      <3>2. CASE k[1] # "type"
        BY <1>3, <3>2 DEF CommitCreate, TypeOK
      <3>3. QED
        BY <3>1, <3>2
    <2>7. QED
      BY <2>2, <2>3, <2>4, <2>6 DEF TypeOK
  <1>4. QED
    BY <1>1, <1>2, <1>3 DEF Create

(* The published version as a row of the table.                            *)
NewVersion(q) ==
  [number |-> job[q].number, current |-> TRUE, from |-> job[q].stamp,
   to |-> 0, author |-> q]

LEMMA NewVersionRow ==
  ASSUME Inv, NEW q \in Request, pc[q] = "publish_commit"
  PROVE  /\ NewVersion(q) \in VersionRow
         /\ NewVersion(q).number = job[q].number /\ NewVersion(q).current
         /\ NewVersion(q).from = job[q].stamp /\ NewVersion(q).to = 0
         /\ NewVersion(q).author = q
  <1>1. job[q].number \in 1 .. MaxVersion /\ job[q].stamp \in 1 .. MaxClock
    BY StampType DEF Inv, JobOK, TypeOK, Job
  <1>2. NewVersion(q) \in VersionRow
    BY <1>1, CatalogAssumption DEF NewVersion, VersionRow
  <1>3. QED
    BY <1>2 DEF NewVersion

(* What CommitVersion does: a publisher that holds the lock is never       *)
(* refused, it closes the current version and appends its own.             *)
LEMMA CommitVersionEffect ==
  ASSUME Inv, NEW q \in Request, CommitVersion(q),
         NEW t, t = job[q].type, NEW n, n = job[q].number - 1
  PROVE  /\ t \in TypeCode /\ n \in Nat /\ n + 1 = job[q].number
         /\ IsChain(versions[t], n) /\ IsChain(versions'[t], n + 1)
         /\ \A v \in versions'[t] : v.from <= job[q].stamp
         /\ IsNext(versions[t], versions'[t], n, job[q].stamp, NewVersion(q))
         /\ versions' = [versions EXCEPT ![t] = versions'[t]]
         /\ versions'[t] \in SUBSET VersionRow
         /\ Record(Published(t, n + 1)) /\ Finish(q, Answer("none"))
         /\ UNCHANGED <<rows, active, clock>>
  <1>1. /\ t \in TypeCode /\ n \in Nat /\ n + 1 = job[q].number /\ n + 1 <= MaxVersion
        /\ job[q].stamp \in 1 .. MaxClock
        /\ IsChain(versions[t], n) /\ \A v \in versions[t] : v.from <= job[q].stamp
        /\ \A m : m \in job[q].closes <=> \E v \in versions[t] : v.current /\ v.number = m
    <2>1. pc[q] = "publish_commit"
      BY DEF CommitVersion
    <2>2. /\ job[q].type \in TypeCode /\ job[q].number \in 1 .. MaxVersion
          /\ IsChain(versions[t], n) /\ \A v \in versions[t] : v.from <= job[q].stamp
          /\ \A m : m \in job[q].closes <=>
                     \E v \in versions[t] : v.current /\ v.number = m
      BY <2>1 DEF Inv, JobOK
    <2>3. job[q].stamp \in 1 .. MaxClock
      <3>1. job[q].stamp \in 0 .. MaxClock
        BY DEF Inv, TypeOK, Job
      <3>2. job[q].stamp >= 1
        BY <2>1 DEF Inv, JobOK
      <3>3. QED
        BY <3>1, <3>2, CatalogAssumption
    <2>4. QED
      BY <2>2, <2>3, CatalogAssumption
  <1>2. \A v \in versions[t] :
          /\ v.number \in 1 .. n /\ v.number # n + 1
          /\ v.current <=> v.number = n
          /\ v.number \in job[q].closes <=> v.number = n
    BY <1>1 DEF IsChain, NumbersOf
  <1>3. ~\E v \in versions[t] :
          v.number = job[q].number \/ (v.current /\ v.number \notin job[q].closes)
    BY <1>1, <1>2
  <1>4. /\ versions' = [versions EXCEPT ![t] = {NewVersion(q)} \cup
             {IF v.number \in job[q].closes THEN Closed(v, job[q].stamp) ELSE v
                : v \in versions[t]}]
        /\ Record(Published(t, n + 1)) /\ Finish(q, Answer("none"))
        /\ UNCHANGED <<rows, active, clock>>
    BY <1>1, <1>3 DEF CommitVersion, NewVersion
  <1>5. versions'[t] = {NewVersion(q)} \cup
             {IF v.number \in job[q].closes THEN Closed(v, job[q].stamp) ELSE v
                : v \in versions[t]}
    BY <1>1, <1>4 DEF Inv, TypeOK
  <1>6. \A w : w \in versions'[t] <=>
                 w = NewVersion(q) \/ \E v \in versions[t] : w = After(v, n, job[q].stamp)
    <2>1. \A v \in versions[t] :
            (IF v.number \in job[q].closes THEN Closed(v, job[q].stamp) ELSE v)
              = After(v, n, job[q].stamp)
      BY <1>2 DEF After
    <2>2. QED
      BY <2>1, <1>5
  <1>7. versions' = [versions EXCEPT ![t] = versions'[t]]
    BY <1>4, <1>5
  <1>8. /\ NewVersion(q) \in VersionRow /\ NewVersion(q).number = n + 1
        /\ NewVersion(q).current /\ NewVersion(q).from = job[q].stamp
        /\ NewVersion(q).to = 0
    BY <1>1, NewVersionRow DEF CommitVersion
  <1>9. IsChain(versions'[t], n + 1) /\ \A v \in versions'[t] : v.from <= job[q].stamp
    <2>1. PICK V, W, at, new : /\ V = versions[t] /\ W = versions'[t]
                               /\ at = job[q].stamp /\ new = NewVersion(q)
      OBVIOUS
    <2>2. /\ IsChain(V, n) /\ n + 1 <= MaxVersion /\ at \in 1 .. MaxClock
          /\ \A v \in V : v.from <= at
      BY <2>1, <1>1
    <2>3. /\ new \in VersionRow /\ new.number = n + 1 /\ new.current
          /\ new.from = at /\ new.to = 0
      BY <2>1, <1>8
    <2>4. \A w : w \in W <=> w = new \/ \E v \in V : w = After(v, n, at)
      BY <2>1, <1>6
    <2>5. IsChain(W, n + 1) /\ \A w \in W : w.from <= at
      BY <2>2, <2>3, <2>4, NextChain
    <2>6. QED
      BY <2>1, <2>5
  <1>10. versions'[t] \in SUBSET VersionRow
    BY <1>9 DEF IsChain
  <1>11. IsNext(versions[t], versions'[t], n, job[q].stamp, NewVersion(q))
    BY <1>6 DEF IsNext
  <1>12. QED
    BY <1>1, <1>4, <1>7, <1>9, <1>10, <1>11

(* What LockType does: it ends the request or takes note of the chain of   *)
(* versions it has before it.                                              *)
LEMMA LockTypeEffect ==
  ASSUME Inv, NEW q \in Request, LockType(q), NEW t, t = job[q].type
  PROVE  /\ t \in TypeCode /\ UNCHANGED <<tables, clock>>
         /\ \/ Finish(q, Answer("none"))
            \/ /\ rows[Type(t)] > 0 /\ TypeUnlocked(t)
               /\ \E work \in Job :
                    /\ Goto(q, "publish_commit", work)
                    /\ work.type = t /\ work.added = job[q].added /\ work.stamp = clock
                    /\ work.number \in 1 .. MaxVersion
                    /\ IsChain(versions[t], work.number - 1)
                    /\ \A m : m \in work.closes <=>
                                \E v \in versions[t] : v.current /\ v.number = m
  <1> DEFINE n == Highest(Numbers(t)) + 1
             cl == {v.number : v \in {w \in versions[t] : w.current}}
             work == [job[q] EXCEPT !.number = n, !.stamp = clock, !.closes = cl]
  <1>1. t \in TypeCode /\ UNCHANGED <<tables, clock>> /\ TypeUnlocked(t)
    BY DEF LockType, Inv, JobOK
  <1>2. \/ Finish(q, Answer("none"))
        \/ n <= MaxVersion /\ rows[Type(t)] > 0 /\ Goto(q, "publish_commit", work)
    BY DEF LockType
  <1>3. ASSUME n <= MaxVersion
        PROVE  /\ work \in Job
               /\ work.type = t /\ work.added = job[q].added /\ work.stamp = clock
               /\ work.number \in 1 .. MaxVersion
               /\ IsChain(versions[t], work.number - 1)
               /\ \A m : m \in work.closes <=>
                           \E v \in versions[t] : v.current /\ v.number = m
    <2>1. PICK m : IsChain(versions[t], m) /\ versions[t] \subseteq VersionRow
      BY <1>1 DEF Inv, RowOK, IsChain
    <2>2. Numbers(t) = 1 .. m /\ m \in Nat
      BY <2>1, CatalogAssumption DEF IsChain, NumbersOf, Numbers
    <2>3. n = m + 1 /\ n \in 1 .. MaxVersion /\ n \in 0 .. MaxVersion /\ m = n - 1
      BY <2>2, <1>3, HighestOfRange, CatalogAssumption
    <2>4. /\ cl \in SUBSET (1 .. MaxVersion)
          /\ \A i : i \in cl <=> \E v \in versions[t] : v.current /\ v.number = i
      BY <2>1 DEF VersionRow
    <2>5. job[q] \in Job /\ clock \in 0 .. MaxClock
      BY StampType DEF Inv, TypeOK
    <2> HIDE DEF n, cl
    <2>6. /\ work \in Job /\ work.type = t /\ work.added = job[q].added
          /\ work.stamp = clock /\ work.number = n /\ work.closes = cl
      BY <2>3, <2>4, <2>5 DEF Job
    <2>7. QED
      BY <2>1, <2>3, <2>4, <2>6
  <1>4. QED
    BY <1>1, <1>2, <1>3

LEMMA PublishType ==
  ASSUME Inv, NEW q \in Request, Publish(q)
  PROVE  TypeOK'
  <1>1. TypeOK
    BY DEF Inv
  <1>2. ASSUME NEW t \in TypeCode, NEW p \in PolicyCode, StartPublish(q, t, p)
        PROVE  TypeOK'
    <2>1. [NoJob EXCEPT !.type = t, !.policy = p] \in Job
      BY NoJobType DEF Job
    <2>2. "publish_lock" \in Steps
      BY DEF Steps
    <2>3. QED
      BY <1>1, <1>2, <2>1, <2>2, QuietType DEF StartPublish
  <1>3. CASE LockType(q)
    <2>1. "publish_commit" \in Steps
      BY DEF Steps
    <2>2. QED
      BY <1>1, <1>3, <2>1, LockTypeEffect, AnswerType, QuietType
  <1>4. CASE CommitVersion(q)
    <2> DEFINE t == job[q].type
               n == job[q].number - 1
    <2>1. /\ t \in TypeCode /\ n + 1 = job[q].number
          /\ versions' = [versions EXCEPT ![t] = versions'[t]]
          /\ versions'[t] \in SUBSET VersionRow
          /\ Record(Published(t, n + 1)) /\ Finish(q, Answer("none"))
          /\ UNCHANGED <<rows, active, clock>>
      BY <1>4, CommitVersionEffect
    <2>2. job[q].number \in 1 .. MaxVersion
      BY <1>4 DEF CommitVersion, Inv, JobOK
    <2>3. /\ pc' \in [Request -> Steps] /\ job' \in [Request -> Job]
          /\ reply' \in [Request -> Reply]
      BY <1>1, <2>1, FinishType, AnswerType
    <2>4. audit' \in [Event -> Nat]
      BY <1>1, <2>1, <2>2, RecordType, EventKeys
    <2>5. versions' \in [TypeCode -> SUBSET VersionRow]
      BY <1>1, <2>1 DEF TypeOK
    <2>6. QED
      BY <1>1, <2>1, <2>3, <2>4, <2>5 DEF TypeOK
  <1>5. QED
    BY <1>2, <1>3, <1>4 DEF Publish

LEMMA PatchActionType ==
  ASSUME NEW q \in Request
  PROVE  PatchAction(q) \in PatchActions
  BY DEF PatchAction, PatchActions

LEMMA PatchType ==
  ASSUME Inv, NEW q \in Request, Patch(q)
  PROVE  TypeOK'
  <1>1. TypeOK
    BY DEF Inv
  <1>2. ASSUME NEW t \in TypeCode, NEW wanted \in BOOLEAN \cup {None},
               NEW renames \in BOOLEAN, StartPatch(q, t, wanted, renames)
        PROVE  TypeOK'
    <2>1. [NoJob EXCEPT !.type = t, !.wanted = wanted, !.renames = renames,
                        !.old = active[t]] \in Job
      BY <1>1, NoJobType DEF Job, TypeOK
    <2>2. "patch" \in Steps
      BY DEF Steps
    <2>3. QED
      BY <1>1, <1>2, <2>1, <2>2, QuietType DEF StartPatch
  <1>3. CASE UpdateType(q)
    <2>1. job[q] \in Job /\ "patch_commit" \in Steps
      BY <1>1 DEF Steps, TypeOK
    <2>2. QED
      BY <1>1, <1>3, <2>1, QuietType DEF UpdateType
  <1>4. CASE CommitPatch(q)
    <2> DEFINE t == job[q].type
    <2>1. t \in TypeCode /\ job[q].wanted \in BOOLEAN \cup {None}
      BY <1>1, <1>4 DEF CommitPatch, Inv, JobOK, TypeOK, Job
    <2>2. /\ pc' \in [Request -> Steps] /\ job' \in [Request -> Job]
          /\ reply' \in [Request -> Reply]
      BY <1>1, <1>4, FinishType, AnswerType DEF CommitPatch
    <2>3. audit' \in [Event -> Nat]
      BY <1>1, <1>4, <2>1, RecordType, EventKeys, PatchActionType DEF CommitPatch
    <2>4. active' = active
          \/ (job[q].wanted # None /\ active' = [active EXCEPT ![t] = job[q].wanted])
      BY <1>4 DEF CommitPatch
    <2>5. active' \in [TypeCode -> BOOLEAN]
      BY <1>1, <2>1, <2>4 DEF TypeOK
    <2>6. QED
      BY <1>1, <1>4, <2>2, <2>3, <2>5 DEF CommitPatch, TypeOK
  <1>5. QED
    BY <1>2, <1>3, <1>4 DEF Patch

LEMMA TodoType ==
  ASSUME TypeOK, NEW q \in Request, job[q].todo # <<>>
  PROVE  /\ Head(job[q].todo) \in Key /\ Tail(job[q].todo) \in Seq(Key)
         /\ \A stamp \in 0 .. MaxClock :
              [job[q] EXCEPT !.stamp = stamp] \in Job
         /\ \A work \in Job : [work EXCEPT !.todo = Tail(job[q].todo)] \in Job
  <1>1. job[q] \in Job /\ job[q].todo \in Seq(Key)
    BY DEF TypeOK, Job
  <1>2. Head(job[q].todo) \in Key /\ Tail(job[q].todo) \in Seq(Key)
    BY <1>1
  <1>3. QED
    BY <1>1, <1>2 DEF Job

(* The job of a loader that has looked at the first key that is left.      *)
Stamped(q) ==
  IF Head(job[q].todo)[1] = "type" /\ job[q].stamp = 0
    THEN [job[q] EXCEPT !.stamp = clock] ELSE job[q]

LEMMA StampedType ==
  ASSUME TypeOK, NEW q \in Request
  PROVE  /\ Stamped(q) \in Job
         /\ Stamped(q).todo = job[q].todo /\ Stamped(q).added = job[q].added
         /\ Stamped(q).stamp \in {job[q].stamp, clock}
         /\ Head(job[q].todo)[1] = "type" => Stamped(q).stamp >= 1
         /\ job[q].stamp >= 1 => Stamped(q).stamp >= 1
  <1>1. job[q] \in Job /\ job[q].stamp \in Nat /\ clock \in 0 .. MaxClock /\ clock >= 1
    BY StampType, CatalogAssumption DEF TypeOK, Job
  <1>2. CASE Head(job[q].todo)[1] = "type" /\ job[q].stamp = 0
    BY <1>1, <1>2 DEF Stamped, Job
  <1>3. CASE ~(Head(job[q].todo)[1] = "type" /\ job[q].stamp = 0)
    BY <1>1, <1>3 DEF Stamped, Job
  <1>4. QED
    BY <1>2, <1>3

(* What the loader does with the first key that is left: skip it, go on to *)
(* insert it, or insert it.                                                *)
LEMMA SeedStepEffect ==
  ASSUME Inv, NEW q \in Request, SeedCheck(q) \/ SeedInsert(q),
         NEW k, k = Head(job[q].todo)
  PROVE  /\ pc[q] \in {"seed", "seed_insert"} /\ job[q].todo # <<>> /\ k \in Key
         /\ UNCHANGED <<tables, clock>>
         /\ \/ Finish(q, Answer("duplicate_code"))
            \/ \E work \in Job :
                 /\ Goto(q, "seed_insert", work)
                 /\ work = Stamped(q) /\ pc[q] = "seed" /\ rows[k] = 0
            \/ \E work \in Job :
                 /\ Goto(q, "seed", work)
                 /\ work.todo = Tail(job[q].todo) /\ work.stamp = Stamped(q).stamp
                 /\ work.added = job[q].added /\ rows[k] > 0
            \/ \E work \in Job :
                 /\ Goto(q, "seed", work)
                 /\ work.todo = Tail(job[q].todo) /\ work.stamp = job[q].stamp
                 /\ work.added = job[q].added \cup {k}
                 /\ rows[k] = 0 /\ KeyUnlocked(k) /\ pc[q] = "seed_insert"
  <1>1. TypeOK /\ job[q].todo # <<>> /\ pc[q] \in {"seed", "seed_insert"}
    BY DEF SeedCheck, SeedInsert, Inv, JobOK
  <1>2. k \in Key /\ Tail(job[q].todo) \in Seq(Key) /\ rows[k] \in Nat
    BY <1>1, TodoType DEF TypeOK
  <1>3. CASE SeedCheck(q)
    <2> DEFINE work == [Stamped(q) EXCEPT !.todo = Tail(job[q].todo)]
    <2>1. /\ pc[q] = "seed" /\ UNCHANGED <<tables, clock>>
          /\ IF rows[k] > 0 THEN Goto(q, "seed", work) ELSE Goto(q, "seed_insert", Stamped(q))
      BY <1>3 DEF SeedCheck, Stamped
    <2>2. /\ Stamped(q) \in Job /\ work \in Job
          /\ work.todo = Tail(job[q].todo) /\ work.stamp = Stamped(q).stamp
          /\ work.added = job[q].added
      BY <1>1, <1>2, StampedType, TodoType DEF Job
    <2> HIDE DEF work
    <2>3. QED
      BY <1>1, <1>2, <2>1, <2>2
  <1>4. CASE SeedInsert(q)
    <2> DEFINE work == [job[q] EXCEPT !.todo = Tail(job[q].todo),
                                      !.added = job[q].added \cup {k}]
    <2>1. /\ pc[q] = "seed_insert" /\ UNCHANGED <<tables, clock>> /\ KeyUnlocked(k)
          /\ IF rows[k] > 0 THEN Finish(q, Answer("duplicate_code"))
             ELSE Goto(q, "seed", work)
      BY <1>4 DEF SeedInsert
    <2>2. /\ work \in Job /\ work.todo = Tail(job[q].todo) /\ work.stamp = job[q].stamp
          /\ work.added = job[q].added \cup {k}
      BY <1>1, <1>2 DEF TypeOK, Job
    <2> HIDE DEF work
    <2>3. QED
      BY <1>1, <1>2, <2>1, <2>2
  <1>5. QED
    BY <1>3, <1>4

(* What CommitSeed does: the types it brings were absent, and come with a  *)
(* first version of its one time stamp.                                    *)
LEMMA CommitSeedEffect ==
  ASSUME Inv, NEW q \in Request, CommitSeed(q), NEW t \in TypeCode
  PROVE  /\ Type(t) \notin job[q].added =>
              /\ versions'[t] = versions[t] /\ rows'[Type(t)] = rows[Type(t)]
              /\ active'[t] = active[t]
         /\ Type(t) \in job[q].added =>
              /\ rows[Type(t)] = 0 /\ versions[t] = {} /\ rows'[Type(t)] > 0
              /\ job[q].stamp \in 1 .. MaxClock /\ job[q].stamp <= clock
              /\ versions'[t] = {FirstVersion(job[q].stamp, None)}
  <1>1. Type(t) \in Key
    BY TypeKeys
  <1>2. ASSUME Type(t) \notin job[q].added
        PROVE  /\ versions'[t] = versions[t] /\ rows'[Type(t)] = rows[Type(t)]
               /\ active'[t] = active[t]
    BY <1>1, <1>2 DEF CommitSeed, Inv, TypeOK
  <1>3. ASSUME Type(t) \in job[q].added
        PROVE  /\ rows[Type(t)] = 0 /\ versions[t] = {} /\ rows'[Type(t)] > 0
               /\ job[q].stamp \in 1 .. MaxClock /\ job[q].stamp <= clock
               /\ versions'[t] = {FirstVersion(job[q].stamp, None)}
    <2>1. HoldsKey(q, Type(t))
      BY <1>3 DEF HoldsKey
    <2>2. rows[Type(t)] = 0
      BY <2>1, <1>1 DEF Inv, KeysHeld
    <2>3. versions[t] = {}
      BY <2>2 DEF Inv, RowOK
    <2>4. job[q].stamp \in 1 .. MaxClock /\ job[q].stamp <= clock
      BY <1>3, StampType DEF Inv, JobOK, TypeOK, Job
    <2>5. versions'[t] = {FirstVersion(job[q].stamp, None)}
      BY <1>3, <2>3 DEF CommitSeed
    <2>6. rows'[Type(t)] = rows[Type(t)] + 1
      BY <1>1, <1>3 DEF CommitSeed
    <2>7. QED
      BY <2>2, <2>3, <2>4, <2>5, <2>6
  <1>4. QED
    BY <1>2, <1>3

LEMMA SeedType ==
  ASSUME Inv, NEW q \in Request, Seed(q)
  PROVE  TypeOK'
  <1>1. TypeOK /\ "seed" \in Steps /\ "seed_insert" \in Steps
    BY DEF Inv, Steps
  <1>2. CASE StartSeed(q)
    <2>1. [NoJob EXCEPT !.todo = Canonical] \in Job
      BY NoJobType, CatalogAssumption DEF Job
    <2>2. QED
      BY <1>1, <1>2, <2>1, QuietType DEF StartSeed
  <1>3. CASE SeedCheck(q) \/ SeedInsert(q)
    BY <1>1, <1>3, SeedStepEffect, AnswerType, QuietType
  <1>4. CASE CommitSeed(q)
    <2>1. /\ pc' \in [Request -> Steps] /\ job' \in [Request -> Job]
          /\ reply' \in [Request -> Reply]
      BY <1>1, <1>4, FinishType, AnswerType DEF CommitSeed
    <2>2. rows' \in [Key -> Nat] /\ active' \in [TypeCode -> BOOLEAN]
      BY <1>1, <1>4 DEF CommitSeed, TypeOK
    <2>3. \A t \in TypeCode : versions'[t] \subseteq VersionRow
      BY <1>1, <1>4, CommitSeedEffect, FirstVersionType DEF TypeOK
    <2>4. versions' = [t \in TypeCode |-> versions'[t]]
      BY <1>4 DEF CommitSeed
    <2>5. QED
      BY <1>1, <1>4, <2>1, <2>2, <2>3, <2>4 DEF CommitSeed, TypeOK
  <1>5. QED
    BY <1>2, <1>3, <1>4 DEF Seed

LEMMA ListType ==
  ASSUME Inv, NEW q \in Request, List(q)
  PROVE  TypeOK'
  <1>1. TypeOK /\ "list" \in Steps
    BY DEF Inv, Steps
  <1>2. ASSUME NEW t \in TypeCode, StartListing(q, t)
        PROVE  TypeOK'
    <2>1. [NoJob EXCEPT !.type = t, !.seen = versions[t]] \in Job
      BY <1>1, NoJobType DEF TypeOK, Job
    <2>2. QED
      BY <1>1, <1>2, <2>1, QuietType DEF StartListing
  <1>3. CASE FinishListing(q)
    <2>1. job[q].type \in TypeCode /\ job[q].seen \subseteq VersionRow
      BY <1>1, <1>3 DEF FinishListing, Inv, JobOK, TypeOK, Job
    <2>2. Listed(q) \subseteq VersionRow
      BY <1>1, <2>1 DEF Listed, TypeOK
    <2>3. [kind |-> "listing", type |-> job[q].type, versions |-> Listed(q)] \in Reply
      BY <2>1, <2>2 DEF Reply
    <2>4. QED
      BY <1>1, <1>3, <2>3, QuietType DEF FinishListing
  <1>4. QED
    BY <1>2, <1>3 DEF List

LEMMA TypeStep ==
  ASSUME Inv, [Next]_vars
  PROVE  TypeOK'
  <1>1. TypeOK
    BY DEF Inv
  <1>2. ASSUME NEW q \in Request, Rollback(q)
        PROVE  TypeOK'
    BY <1>1, <1>2, AnswerType, QuietType DEF Rollback
  <1>3. CASE Tick
    BY <1>1, <1>3, CatalogAssumption DEF Tick, TypeOK, tables
  <1>4. CASE UNCHANGED vars
    BY <1>1, <1>4 DEF TypeOK, vars, tables
  <1>5. QED
    BY <1>2, <1>3, <1>4, CreateType, PublishType, PatchType, SeedType, ListType DEF Next

-----------------------------------------------------------------------------
(* The tables.                                                             *)

(* The requests that commit rows or versions.                              *)
LEMMA CommitSteps ==
  ASSUME Inv, [Next]_vars
  PROVE  \/ UNCHANGED <<rows, versions>> /\ clock <= clock'
         \/ /\ clock' = clock
            /\ \E q \in Request :
                 \/ \E isActive \in BOOLEAN : CommitCreate(q, isActive)
                 \/ CommitVersion(q)
                 \/ CommitSeed(q)
  <1>1. clock \in Nat /\ clock <= clock
    BY StampType DEF Inv
  <1>2. ASSUME NEW q \in Request, Create(q) \/ Publish(q) \/ Patch(q) \/ Seed(q) \/ List(q)
                                    \/ Rollback(q)
        PROVE  \/ UNCHANGED <<rows, versions, clock>>
               \/ /\ clock' = clock
                  /\ \/ \E isActive \in BOOLEAN : CommitCreate(q, isActive)
                     \/ CommitVersion(q)
                     \/ CommitSeed(q)
    <2>1. CASE Create(q)
      BY <2>1 DEF Create, StartCreate, InsertRow, CommitCreate, tables
    <2>2. CASE Publish(q)
      BY <2>2 DEF Publish, StartPublish, LockType, CommitVersion, tables
    <2>3. CASE Patch(q)
      BY <2>3 DEF Patch, StartPatch, UpdateType, CommitPatch, tables
    <2>4. CASE Seed(q)
      BY <2>4 DEF Seed, StartSeed, SeedCheck, SeedInsert, CommitSeed, tables
    <2>5. CASE List(q) \/ Rollback(q)
      BY <2>5 DEF List, StartListing, FinishListing, Rollback, tables
    <2>6. QED
      BY <1>2, <2>1, <2>2, <2>3, <2>4, <2>5
  <1>3. CASE Tick
    BY <1>1, <1>3 DEF Tick, tables
  <1>4. CASE UNCHANGED vars
    BY <1>1, <1>4 DEF vars, tables
  <1>5. QED
    BY <1>1, <1>2, <1>3, <1>4 DEF Next

(* What a step may do to the versions of one type: nothing, give a new     *)
(* type its first version, or publish.                                     *)
FirstOf(t) ==
  /\ rows[Type(t)] = 0 /\ versions[t] = {} /\ rows'[Type(t)] > 0
  /\ \E at \in 1 .. clock, who \in Request \cup {None} :
       at <= MaxClock /\ versions'[t] = {FirstVersion(at, who)}

VersionsKept(t) == versions'[t] = versions[t]

LEMMA CommitCreateEffect ==
  ASSUME Inv, NEW q \in Request, NEW isActive \in BOOLEAN, CommitCreate(q, isActive),
         NEW t \in TypeCode
  PROVE  /\ rows[Type(t)] > 0 => rows'[Type(t)] > 0
         /\ Type(t) # job[q].key =>
              versions'[t] = versions[t] /\ rows'[Type(t)] = rows[Type(t)]
                /\ active'[t] = active[t]
         /\ Type(t) = job[q].key =>
              /\ rows[Type(t)] = 0 /\ versions[t] = {} /\ rows'[Type(t)] > 0
              /\ job[q].stamp \in 1 .. clock /\ job[q].stamp <= MaxClock
              /\ versions'[t] = IF job[q].policy = None THEN {}
                                ELSE {FirstVersion(job[q].stamp, q)}
  <1> DEFINE k == job[q].key
  <1>1. /\ k \in Key /\ job[q].stamp \in 1 .. clock /\ job[q].stamp <= MaxClock
        /\ pc[q] = "commit"
    BY StampType DEF CommitCreate, Inv, JobOK, TypeOK, Job
  <1>2. Type(t) \in Key /\ (k[1] = "type" => k = Type(k[2]) /\ k[2] \in TypeCode)
        /\ Type(t)[1] = "type" /\ Type(t)[2] = t
    BY <1>1, TypeKeys
  <1>3. rows' = [rows EXCEPT ![k] = rows[k] + 1] /\ rows \in [Key -> Nat]
    BY DEF CommitCreate, Inv, TypeOK
  <1>4. rows[k] = 0
    BY <1>1 DEF HoldsKey, Inv, KeysHeld
  <1>5. ASSUME Type(t) # k
        PROVE  versions'[t] = versions[t] /\ rows'[Type(t)] = rows[Type(t)]
                 /\ active'[t] = active[t]
    <2>1. rows'[Type(t)] = rows[Type(t)]
      BY <1>2, <1>3, <1>5
    <2>2. CASE k[1] = "type"
      <3>1. k[2] # t
        BY <1>2, <1>5, <2>2
      <3>2. QED
        BY <2>1, <2>2, <3>1 DEF CommitCreate, Inv, TypeOK
    <2>3. CASE k[1] # "type"
      BY <2>1, <2>3 DEF CommitCreate
    <2>4. QED
      BY <2>2, <2>3
  <1>6. ASSUME Type(t) = k
        PROVE  /\ rows[Type(t)] = 0 /\ versions[t] = {} /\ rows'[Type(t)] > 0
               /\ versions'[t] = IF job[q].policy = None THEN {}
                                 ELSE {FirstVersion(job[q].stamp, q)}
    <2>1. rows[Type(t)] = 0 /\ rows'[Type(t)] > 0
      BY <1>2, <1>3, <1>4, <1>6
    <2>2. versions[t] = {}
      BY <2>1 DEF Inv, RowOK
    <2>3. k[1] = "type" /\ k[2] = t
      BY <1>2, <1>6
    <2>4. CASE job[q].policy = None
      <3>1. versions' = versions
        BY <2>3, <2>4 DEF CommitCreate
      <3>2. QED
        BY <2>1, <2>2, <2>4, <3>1
    <2>5. CASE job[q].policy # None
      <3>1. versions' = [versions EXCEPT ![t] = versions[t] \cup {FirstVersion(job[q].stamp, q)}]
        BY <2>3, <2>5 DEF CommitCreate
      <3>2. versions'[t] = versions[t] \cup {FirstVersion(job[q].stamp, q)}
        BY <3>1 DEF Inv, TypeOK
      <3>3. QED
        BY <2>1, <2>2, <2>5, <3>2
    <2>6. QED
      BY <2>1, <2>2, <2>4, <2>5
  <1>7. QED
    BY <1>1, <1>3, <1>5, <1>6

LEMMA VersionsStep ==
  ASSUME Inv, [Next]_vars, NEW t \in TypeCode
  PROVE  /\ clock <= clock'
         /\ rows[Type(t)] > 0 => rows'[Type(t)] > 0
         /\ \/ VersionsKept(t)
            \/ FirstOf(t)
            \/ \E q \in Request : CommitVersion(q) /\ job[q].type = t
  <1>1. clock <= clock
    BY StampType DEF Inv
  <1>2. CASE UNCHANGED <<rows, versions>> /\ clock <= clock'
    BY <1>2 DEF VersionsKept
  <1>3. ASSUME NEW q \in Request, NEW isActive \in BOOLEAN, CommitCreate(q, isActive),
               clock' = clock
        PROVE  /\ rows[Type(t)] > 0 => rows'[Type(t)] > 0
               /\ VersionsKept(t) \/ FirstOf(t)
    <2>1. CASE Type(t) # job[q].key
      BY <1>3, <2>1, CommitCreateEffect DEF VersionsKept
    <2>2. CASE Type(t) = job[q].key
      <3>1. /\ rows[Type(t)] = 0 /\ versions[t] = {} /\ rows'[Type(t)] > 0
            /\ job[q].stamp \in 1 .. clock /\ job[q].stamp <= MaxClock
            /\ \/ versions'[t] = {}
               \/ versions'[t] = {FirstVersion(job[q].stamp, q)}
        BY <1>3, <2>2, CommitCreateEffect
      <3>2. QED
        BY <3>1 DEF VersionsKept, FirstOf
    <2>3. QED
      BY <2>1, <2>2
  <1>4. ASSUME NEW q \in Request, CommitVersion(q), job[q].type # t
        PROVE  rows' = rows /\ VersionsKept(t)
    <2>1. rows' = rows /\ versions' = [versions EXCEPT ![job[q].type] = versions'[job[q].type]]
      BY <1>4, CommitVersionEffect
    <2>2. QED
      BY <1>4, <2>1 DEF VersionsKept, Inv, TypeOK
  <1>5. ASSUME NEW q \in Request, CommitVersion(q)
        PROVE  rows' = rows
    BY <1>5, CommitVersionEffect
  <1>6. ASSUME NEW q \in Request, CommitSeed(q)
        PROVE  /\ rows[Type(t)] > 0 => rows'[Type(t)] > 0
               /\ VersionsKept(t) \/ FirstOf(t)
    <2>1. CASE Type(t) \in job[q].added
      <3>1. job[q].stamp \in 1 .. clock /\ job[q].stamp <= MaxClock
        BY <1>6, <2>1, CommitSeedEffect, StampType DEF Inv
      <3>2. QED
        BY <1>6, <2>1, <3>1, CommitSeedEffect DEF FirstOf
    <2>2. CASE Type(t) \notin job[q].added
      BY <1>6, <2>2, CommitSeedEffect DEF VersionsKept
    <2>3. QED
      BY <2>1, <2>2
  <1>7. QED
    BY <1>1, <1>2, <1>3, <1>4, <1>5, <1>6, CommitSteps

LEMMA RowStep ==
  ASSUME Inv, [Next]_vars, NEW t \in TypeCode
  PROVE  RowOK(t)'
  <1>1. /\ RowOK(t) /\ clock <= clock' /\ clock \in Nat /\ clock' \in Nat
        /\ rows[Type(t)] \in Nat /\ rows'[Type(t)] \in Nat
        /\ rows[Type(t)] > 0 => rows'[Type(t)] > 0
        /\ versions[t] \subseteq VersionRow
    BY VersionsStep, TypeStep, TypeKeys, StampType, CatalogAssumption DEF Inv, TypeOK
  <1>2. CASE VersionsKept(t)
    <2>1. \A v \in versions[t] : v.from \in Nat
      BY <1>1 DEF VersionRow
    <2>2. QED
      BY <1>1, <1>2, <2>1 DEF VersionsKept, RowOK
  <1>3. CASE FirstOf(t)
    <2>1. PICK at \in 1 .. clock, who \in Request \cup {None} :
            at <= MaxClock /\ versions'[t] = {FirstVersion(at, who)}
      BY <1>3 DEF FirstOf
    <2>2. IsChain(versions'[t], 1) /\ FirstVersion(at, who).from = at
      BY <2>1, FirstChain, CatalogAssumption DEF FirstVersion
    <2>3. QED
      BY <1>1, <1>3, <2>1, <2>2 DEF RowOK, FirstOf
  <1>4. ASSUME NEW q \in Request, CommitVersion(q), job[q].type = t
        PROVE  RowOK(t)'
    <2>1. PICK n : n = job[q].number - 1
      OBVIOUS
    <2>2. /\ IsChain(versions'[t], n + 1) /\ rows' = rows /\ clock' = clock
          /\ \A v \in versions'[t] : v.from <= job[q].stamp
      BY <1>4, <2>1, CommitVersionEffect
    <2>3. rows[Type(t)] > 0 /\ job[q].stamp <= clock /\ job[q].stamp \in Nat
      BY <1>4 DEF CommitVersion, Inv, JobOK, TypeOK, Job
    <2>4. \A v \in versions'[t] : v.from \in Nat
      BY <2>2 DEF IsChain, VersionRow
    <2>5. QED
      BY <1>1, <2>2, <2>3, <2>4 DEF RowOK
  <1>5. QED
    BY <1>2, <1>3, <1>4, VersionsStep

-----------------------------------------------------------------------------
(* The jobs.                                                               *)

(* A handler that does not move keeps what it knows: nobody else publishes *)
(* for the type it has locked.                                             *)
LEMMA KeptJob ==
  ASSUME Inv, [Next]_vars, NEW q \in Request, pc'[q] = pc[q], job'[q] = job[q]
  PROVE  JobOK(q)'
  <1>1. JobOK(q) /\ clock \in Nat /\ clock' \in Nat /\ job[q].stamp \in Nat
    BY TypeStep, CatalogAssumption DEF Inv, TypeOK, Job
  <1>2. CASE pc[q] = "publish_commit"
    <2>1. PICK t \in TypeCode : t = job[q].type
      BY <1>1, <1>2 DEF JobOK
    <2>2. rows[Type(t)] > 0
      BY <1>1, <1>2, <2>1 DEF JobOK
    <2>3. ~FirstOf(t)
      BY <2>2 DEF FirstOf
    <2>4. ASSUME NEW r \in Request, CommitVersion(r), job[r].type = t
          PROVE  FALSE
      <3>1. r = q
        BY <1>2, <2>1, <2>4 DEF CommitVersion, Inv, PublishersApart
      <3>2. pc'[q] = "idle"
        BY <2>4, <3>1, CommitVersionEffect DEF Finish, Inv, TypeOK
      <3>3. QED
        BY <1>2, <3>2
    <2>5. versions'[t] = versions[t] /\ rows'[Type(t)] > 0 /\ clock <= clock'
      BY <2>2, <2>3, <2>4, VersionsStep DEF VersionsKept
    <2>6. QED
      BY <1>1, <1>2, <2>1, <2>5 DEF JobOK
  <1>3. CASE pc[q] # "publish_commit"
    <2>1. clock <= clock'
      BY CommitSteps, <1>1
    <2>2. QED
      BY <1>1, <1>3, <2>1 DEF JobOK
  <1>4. QED
    BY <1>2, <1>3

LEMMA NoJobFields ==
  /\ NoJob.added = {} /\ NoJob.stamp = 0
  BY DEF NoJob

LEMMA FinishJob ==
  ASSUME Inv, NEW q \in Request, NEW answer, Finish(q, answer), clock' \in Nat
  PROVE  /\ JobOK(q)' /\ pc'[q] = "idle" /\ job'[q] = NoJob
         /\ \A r \in Request \ {q} : pc'[r] = pc[r] /\ job'[r] = job[r]
  <1>1. /\ pc'[q] = "idle" /\ job'[q] = NoJob
        /\ \A r \in Request \ {q} : pc'[r] = pc[r] /\ job'[r] = job[r]
    BY DEF Finish, Inv, TypeOK
  <1>2. QED
    BY <1>1, NoJobFields DEF JobOK

LEMMA GotoJob ==
  ASSUME Inv, NEW q \in Request, NEW step, NEW work, Goto(q, step, work)
  PROVE  /\ pc'[q] = step /\ job'[q] = work
         /\ \A r \in Request \ {q} : pc'[r] = pc[r] /\ job'[r] = job[r]
  BY DEF Goto, Inv, TypeOK

(* What a step of q owes the invariant: it knows what it should, it takes  *)
(* only keys and types that are free, and leaves the other jobs alone.     *)
OwnStep(q) ==
  /\ JobOK(q)'
  /\ pc'[q] = "publish_commit" => TypeUnlocked(job'[q].type)
  /\ \A k \in Key :
       HoldsKey(q, k)' =>
         rows' = rows /\ (HoldsKey(q, k) \/ (KeyUnlocked(k) /\ rows[k] = 0))
  /\ \A r \in Request \ {q} : pc'[r] = pc[r] /\ job'[r] = job[r]

LEMMA FinishOwn ==
  ASSUME Inv, TypeOK', NEW q \in Request, NEW answer, Finish(q, answer)
  PROVE  OwnStep(q)
  <1>1. clock' \in Nat
    BY CatalogAssumption DEF TypeOK
  <1>2. /\ JobOK(q)' /\ pc'[q] = "idle" /\ job'[q] = NoJob
        /\ \A r \in Request \ {q} : pc'[r] = pc[r] /\ job'[r] = job[r]
    BY <1>1, FinishJob
  <1>3. \A k \in Key : ~HoldsKey(q, k)'
    BY <1>2, NoJobFields DEF HoldsKey
  <1>4. QED
    BY <1>2, <1>3 DEF OwnStep

LEMMA JobFields ==
  ASSUME TypeOK, NEW q \in Request
  PROVE  job[q] \in Job /\ job[q].stamp \in Nat
  BY CatalogAssumption DEF TypeOK, Job

(* The first steps of a handler write nothing and take no lock.            *)
LEMMA StartOwn ==
  ASSUME Inv, TypeOK', NEW q \in Request, NEW step, NEW work, Goto(q, step, work),
         step \in {"insert", "publish_lock", "patch", "patch_commit", "list", "seed"},
         work.added = {}, work.stamp \in Nat, work.stamp <= clock', 
         step = "insert" => work.key \in Key,
         step \in {"publish_lock", "patch", "patch_commit", "list"} =>
           work.type \in TypeCode
  PROVE  OwnStep(q)
  <1>1. /\ pc'[q] = step /\ job'[q] = work
        /\ \A r \in Request \ {q} : pc'[r] = pc[r] /\ job'[r] = job[r]
    BY GotoJob
  <1>2. JobOK(q)'
    BY <1>1 DEF JobOK
  <1>3. \A k \in Key : ~HoldsKey(q, k)'
    BY <1>1 DEF HoldsKey
  <1>4. QED
    BY <1>1, <1>2, <1>3 DEF OwnStep

LEMMA CreateOwn ==
  ASSUME Inv, TypeOK', NEW q \in Request, Create(q)
  PROVE  OwnStep(q)
  <1>0. clock \in Nat /\ clock >= 1 /\ clock <= clock
    BY StampType DEF Inv
  <1>1. ASSUME NEW k \in Key, NEW f \in FamilyCode, NEW p \in PolicyCode \cup {None},
               StartCreate(q, k, f, p)
        PROVE  OwnStep(q)
    <2> DEFINE work == [NoJob EXCEPT !.key = k, !.policy = p]
    <2>1. Goto(q, "insert", work) /\ clock' = clock
      BY <1>1 DEF StartCreate
    <2>2. work.added = {} /\ work.stamp = 0 /\ work.key = k
      BY DEF NoJob
    <2> HIDE DEF work
    <2>3. QED
      BY <1>0, <2>1, <2>2, StartOwn
  <1>2. CASE InsertRow(q)
    <2> DEFINE k == job[q].key
               work == [job[q] EXCEPT !.stamp = clock]
    <2>1. CASE \E answer : Finish(q, answer)
      BY <2>1, FinishOwn
    <2>2. CASE Goto(q, "commit", work) /\ rows[k] = 0
      <3>1. /\ KeyUnlocked(k) /\ k \in Key /\ job[q].added = {}
            /\ UNCHANGED <<rows, clock>> /\ job[q] \in Job
        BY <1>2 DEF InsertRow, Inv, JobOK, TypeOK, tables
      <3>2. work.added = {} /\ work.stamp = clock /\ work.key = k
        BY <3>1 DEF Job
      <3> HIDE DEF work, k
      <3>3. /\ pc'[q] = "commit" /\ job'[q] = work
            /\ \A r \in Request \ {q} : pc'[r] = pc[r] /\ job'[r] = job[r]
        BY <2>2, GotoJob
      <3>4. JobOK(q)'
        BY <1>0, <3>1, <3>2, <3>3 DEF JobOK
      <3>5. \A l \in Key : HoldsKey(q, l)' => l = k
        BY <3>2, <3>3 DEF HoldsKey
      <3>6. QED
        BY <2>2, <3>1, <3>3, <3>4, <3>5 DEF OwnStep
    <2>3. QED
      <3>1. rows[k] \in Nat
        BY <1>2 DEF InsertRow, Inv, JobOK, TypeOK
      <3>2. \/ \E answer : Finish(q, answer)
            \/ Goto(q, "commit", work) /\ ~(rows[k] > 0)
        BY <1>2 DEF InsertRow
      <3>3. QED
        BY <2>1, <2>2, <3>1, <3>2
  <1>3. ASSUME NEW isActive \in BOOLEAN, CommitCreate(q, isActive)
        PROVE  OwnStep(q)
    BY <1>3, FinishOwn DEF CommitCreate
  <1>4. QED
    BY <1>1, <1>2, <1>3 DEF Create

LEMMA PublishOwn ==
  ASSUME Inv, TypeOK', NEW q \in Request, Publish(q)
  PROVE  OwnStep(q)
  <1>0. clock \in Nat /\ clock >= 1 /\ clock <= clock
    BY StampType DEF Inv
  <1>1. ASSUME NEW t \in TypeCode, NEW p \in PolicyCode, StartPublish(q, t, p)
        PROVE  OwnStep(q)
    <2> DEFINE work == [NoJob EXCEPT !.type = t, !.policy = p]
    <2>1. Goto(q, "publish_lock", work) /\ clock' = clock
      BY <1>1 DEF StartPublish
    <2>2. work.added = {} /\ work.stamp = 0 /\ work.type = t
      BY DEF NoJob
    <2> HIDE DEF work
    <2>3. QED
      BY <1>0, <2>1, <2>2, StartOwn
  <1>2. CASE LockType(q)
    <2>1. PICK t : t = job[q].type
      OBVIOUS
    <2>2. CASE Finish(q, Answer("none"))
      BY <2>2, FinishOwn
    <2>3. ASSUME NEW work \in Job, Goto(q, "publish_commit", work),
                 rows[Type(t)] > 0, TypeUnlocked(t),
                 work.type = t, work.added = job[q].added, work.stamp = clock,
                 work.number \in 1 .. MaxVersion,
                 IsChain(versions[t], work.number - 1),
                 \A m : m \in work.closes <=> \E v \in versions[t] : v.current /\ v.number = m
          PROVE  OwnStep(q)
      <3>1. /\ t \in TypeCode /\ job[q].added = {} /\ RowOK(t)
            /\ rows' = rows /\ versions' = versions /\ clock' = clock
        BY <1>2, <2>1, LockTypeEffect DEF LockType, Inv, JobOK, tables
      <3>2. /\ pc'[q] = "publish_commit" /\ job'[q] = work
            /\ \A r \in Request \ {q} : pc'[r] = pc[r] /\ job'[r] = job[r]
        BY <2>3, GotoJob
      <3>3. \A v \in versions[t] : v.from <= clock
        BY <3>1 DEF RowOK
      <3>4. JobOK(q)'
        BY <1>0, <2>3, <3>1, <3>2, <3>3 DEF JobOK
      <3>5. \A k \in Key : ~HoldsKey(q, k)'
        BY <2>3, <3>1, <3>2 DEF HoldsKey
      <3>6. QED
        BY <2>3, <3>2, <3>4, <3>5 DEF OwnStep
    <2>4. QED
      BY <1>2, <2>1, <2>2, <2>3, LockTypeEffect
  <1>3. CASE CommitVersion(q)
    BY <1>3, CommitVersionEffect, FinishOwn
  <1>4. QED
    BY <1>1, <1>2, <1>3 DEF Publish

LEMMA PatchOwn ==
  ASSUME Inv, TypeOK', NEW q \in Request, Patch(q)
  PROVE  OwnStep(q)
  <1>0. clock \in Nat /\ clock >= 1 /\ clock <= clock
    BY StampType DEF Inv
  <1>1. ASSUME NEW t \in TypeCode, NEW wanted \in BOOLEAN \cup {None},
               NEW renames \in BOOLEAN, StartPatch(q, t, wanted, renames)
        PROVE  OwnStep(q)
    <2> DEFINE work == [NoJob EXCEPT !.type = t, !.wanted = wanted,
                          !.renames = renames, !.old = active[t]]
    <2>1. Goto(q, "patch", work) /\ clock' = clock
      BY <1>1 DEF StartPatch
    <2>2. work.added = {} /\ work.stamp = 0 /\ work.type = t
      BY DEF NoJob
    <2> HIDE DEF work
    <2>3. QED
      BY <1>0, <2>1, <2>2, StartOwn
  <1>2. CASE UpdateType(q)
    <2>1. /\ Goto(q, "patch_commit", job[q]) /\ clock' = clock
          /\ job[q].added = {} /\ job[q].type \in TypeCode
          /\ job[q].stamp \in Nat /\ job[q].stamp <= clock
      BY <1>2, JobFields DEF UpdateType, Inv, JobOK
    <2>2. QED
      BY <2>1, StartOwn
  <1>3. CASE CommitPatch(q)
    BY <1>3, FinishOwn DEF CommitPatch
  <1>4. QED
    BY <1>1, <1>2, <1>3 DEF Patch

LEMMA SeedOwn ==
  ASSUME Inv, TypeOK', NEW q \in Request, Seed(q)
  PROVE  OwnStep(q)
  <1>0. clock \in Nat /\ clock >= 1 /\ clock <= clock
    BY StampType DEF Inv
  <1>1. CASE StartSeed(q)
    <2> DEFINE work == [NoJob EXCEPT !.todo = Canonical]
    <2>1. Goto(q, "seed", work) /\ clock' = clock
      BY <1>1 DEF StartSeed
    <2>2. work.added = {} /\ work.stamp = 0
      BY DEF NoJob
    <2> HIDE DEF work
    <2>3. QED
      BY <1>0, <2>1, <2>2, StartOwn
  <1>2. CASE SeedCheck(q) \/ SeedInsert(q)
    <2>1. PICK k : k = Head(job[q].todo)
      OBVIOUS
    <2>2. /\ pc[q] \in {"seed", "seed_insert"} /\ job[q].todo # <<>> /\ k \in Key
          /\ rows' = rows /\ clock' = clock
          /\ job[q].stamp \in Nat /\ job[q].stamp <= clock
          /\ \A t \in TypeCode : Type(t) \in job[q].added => job[q].stamp >= 1
          /\ pc[q] = "seed_insert" =>
               \A t \in TypeCode : k = Type(t) => job[q].stamp >= 1
      <3>1. /\ pc[q] \in {"seed", "seed_insert"} /\ job[q].todo # <<>> /\ k \in Key
            /\ UNCHANGED <<tables, clock>>
        BY <1>2, <2>1, SeedStepEffect
      <3>2. job[q].stamp \in Nat /\ JobOK(q)
        BY JobFields DEF Inv
      <3>3. rows' = rows /\ clock' = clock
        BY <3>1 DEF tables
      <3>4. QED
        BY <2>1, <3>1, <3>2, <3>3 DEF JobOK
    <2>3. /\ Stamped(q).todo = job[q].todo /\ Stamped(q).added = job[q].added
          /\ Stamped(q).stamp \in {job[q].stamp, clock}
          /\ k[1] = "type" => Stamped(q).stamp >= 1
          /\ job[q].stamp >= 1 => Stamped(q).stamp >= 1
      BY <2>1, StampedType DEF Inv
    <2>4. ASSUME NEW step \in {"seed", "seed_insert"}, NEW work, Goto(q, step, work),
                 work.stamp \in {job[q].stamp, Stamped(q).stamp},
                 step = "seed_insert" => work = Stamped(q),
                 \A l \in work.added :
                   \/ l \in job[q].added
                   \/ l = k /\ KeyUnlocked(k) /\ rows[k] = 0 /\ pc[q] = "seed_insert"
          PROVE  OwnStep(q)
      <3>1. /\ pc'[q] = step /\ job'[q] = work
            /\ \A r \in Request \ {q} : pc'[r] = pc[r] /\ job'[r] = job[r]
        BY <2>4, GotoJob
      <3>2. work.stamp <= clock /\ (job[q].stamp >= 1 => work.stamp >= 1)
        BY <1>0, <2>2, <2>3, <2>4
      <3>3. \A t \in TypeCode : Type(t) \in work.added => work.stamp >= 1
        BY <2>2, <2>4, <3>2
      <3>4. step = "seed_insert" =>
              /\ work.todo # <<>>
              /\ \A t \in TypeCode : Head(work.todo) = Type(t) => work.stamp >= 1
        BY <2>1, <2>2, <2>3, <2>4, TypeKeys
      <3>5. JobOK(q)'
        BY <2>2, <3>1, <3>2, <3>3, <3>4 DEF JobOK
      <3>6. \A l \in Key :
              HoldsKey(q, l)' => HoldsKey(q, l) \/ (KeyUnlocked(l) /\ rows[l] = 0)
        BY <2>4, <3>1 DEF HoldsKey
      <3>7. QED
        BY <2>2, <3>1, <3>5, <3>6 DEF OwnStep
    <2>5. CASE Finish(q, Answer("duplicate_code"))
      BY <2>5, FinishOwn
    <2>6. ASSUME NEW work \in Job, Goto(q, "seed_insert", work), work = Stamped(q)
          PROVE  OwnStep(q)
      BY <2>3, <2>4, <2>6
    <2>7. ASSUME NEW work \in Job, Goto(q, "seed", work),
                 work.stamp = Stamped(q).stamp, work.added = job[q].added
          PROVE  OwnStep(q)
      BY <2>4, <2>7
    <2>8. ASSUME NEW work \in Job, Goto(q, "seed", work),
                 work.stamp = job[q].stamp, work.added = job[q].added \cup {k},
                 rows[k] = 0, KeyUnlocked(k), pc[q] = "seed_insert"
          PROVE  OwnStep(q)
      BY <2>4, <2>8
    <2>9. QED
      BY <1>2, <2>1, <2>5, <2>6, <2>7, <2>8, SeedStepEffect
  <1>3. CASE CommitSeed(q)
    BY <1>3, FinishOwn DEF CommitSeed
  <1>4. QED
    BY <1>1, <1>2, <1>3 DEF Seed

LEMMA ListOwn ==
  ASSUME Inv, TypeOK', NEW q \in Request, List(q)
  PROVE  OwnStep(q)
  <1>0. clock \in Nat /\ clock >= 1 /\ clock <= clock
    BY StampType DEF Inv
  <1>1. ASSUME NEW t \in TypeCode, StartListing(q, t)
        PROVE  OwnStep(q)
    <2> DEFINE work == [NoJob EXCEPT !.type = t, !.seen = versions[t]]
    <2>1. Goto(q, "list", work) /\ clock' = clock
      BY <1>1 DEF StartListing
    <2>2. work.added = {} /\ work.stamp = 0 /\ work.type = t
      BY DEF NoJob
    <2> HIDE DEF work
    <2>3. QED
      BY <1>0, <2>1, <2>2, StartOwn
  <1>2. CASE FinishListing(q)
    BY <1>2, FinishOwn DEF FinishListing
  <1>3. QED
    BY <1>1, <1>2 DEF List

-----------------------------------------------------------------------------
(* The invariant holds.                                                    *)

(* New rows are those the transaction that commits them holds.             *)
LEMMA RowsAreOwn ==
  ASSUME Inv, [Next]_vars, NEW k \in Key, rows[k] = 0, rows'[k] # 0
  PROVE  \E q \in Request : HoldsKey(q, k) /\ pc'[q] = "idle" /\ job'[q] = NoJob
  <1>1. ASSUME NEW q \in Request, NEW isActive \in BOOLEAN, CommitCreate(q, isActive)
        PROVE  HoldsKey(q, k) /\ pc'[q] = "idle" /\ job'[q] = NoJob
    BY <1>1 DEF CommitCreate, HoldsKey, Finish, Inv, TypeOK
  <1>2. ASSUME NEW q \in Request, CommitSeed(q)
        PROVE  HoldsKey(q, k) /\ pc'[q] = "idle" /\ job'[q] = NoJob
    BY <1>2 DEF CommitSeed, HoldsKey, Finish, Inv, TypeOK
  <1>3. ASSUME NEW q \in Request, CommitVersion(q)
        PROVE  rows' = rows
    BY <1>3, CommitVersionEffect
  <1>4. QED
    BY <1>1, <1>2, <1>3, CommitSteps

LEMMA InvStep ==
  ASSUME Inv, [Next]_vars
  PROVE  Inv'
  <1>1. TypeOK'
    BY TypeStep
  <1>2. \A t \in TypeCode : RowOK(t)'
    BY RowStep
  <1>3. CASE UNCHANGED <<pc, job>>
    <2>1. \A q \in Request : JobOK(q)'
      BY <1>3, KeptJob
    <2>2. ASSUME NEW q \in Request, NEW k \in Key, HoldsKey(q, k)'
          PROVE  rows'[k] = 0 /\ \A r \in Request : HoldsKey(r, k)' => r = q
      <3>1. \A r \in Request : HoldsKey(r, k)' => HoldsKey(r, k)
        BY <1>3 DEF HoldsKey
      <3>2. rows[k] = 0 /\ \A r \in Request : HoldsKey(r, k) => r = q
        BY <2>2, <3>1 DEF Inv, KeysHeld
      <3>3. rows'[k] = 0
        BY <1>3, <2>2, <3>1, <3>2, RowsAreOwn, NoJobFields DEF HoldsKey
      <3>4. QED
        BY <3>1, <3>2, <3>3
    <2>3. KeysHeld'
      BY <2>2 DEF KeysHeld
    <2>4. PublishersApart'
      BY <1>3 DEF Inv, PublishersApart
    <2>5. QED
      BY <1>1, <1>2, <2>1, <2>3, <2>4 DEF Inv
  <1>4. ASSUME NEW p \in Request, OwnStep(p)
        PROVE  Inv'
    <2>1. JobOK(p)' /\ \A r \in Request \ {p} : pc'[r] = pc[r] /\ job'[r] = job[r]
      BY <1>4 DEF OwnStep
    <2>2. \A q \in Request : JobOK(q)'
      BY <2>1, KeptJob
    <2>3. ASSUME NEW q \in Request, NEW k \in Key, HoldsKey(q, k)'
          PROVE  rows'[k] = 0 /\ \A r \in Request : HoldsKey(r, k)' => r = q
      <3>1. \A r \in Request \ {p} : HoldsKey(r, k)' => HoldsKey(r, k)
        BY <2>1 DEF HoldsKey
      <3>2. HoldsKey(p, k)' =>
              rows' = rows /\ (HoldsKey(p, k) \/ (KeyUnlocked(k) /\ rows[k] = 0))
        BY <1>4 DEF OwnStep
      <3>3. \A r \in Request : HoldsKey(r, k) =>
              rows[k] = 0 /\ \A x \in Request : HoldsKey(x, k) => x = r
        BY DEF Inv, KeysHeld
      <3>4. CASE HoldsKey(p, k)'
        BY <2>3, <3>1, <3>2, <3>3, <3>4 DEF KeyUnlocked
      <3>5. CASE ~HoldsKey(p, k)'
        <4>1. q # p /\ HoldsKey(q, k) /\ rows[k] = 0
          BY <2>3, <3>1, <3>3, <3>5
        <4>2. \A r \in Request : HoldsKey(r, k)' => r = q
          BY <3>1, <3>3, <3>5, <4>1
        <4>3. rows'[k] = 0
          <5>1. SUFFICES ASSUME rows'[k] # 0
                         PROVE  FALSE
            OBVIOUS
          <5>2. PICK x \in Request : HoldsKey(x, k) /\ pc'[x] = "idle" /\ job'[x] = NoJob
            BY <4>1, <5>1, RowsAreOwn
          <5>3. x = q
            BY <3>3, <4>1, <5>2
          <5>4. ~HoldsKey(q, k)'
            BY <5>2, <5>3, NoJobFields DEF HoldsKey
          <5>5. QED
            BY <2>3, <5>4
        <4>4. QED
          BY <4>2, <4>3
      <3>6. QED
        BY <3>4, <3>5
    <2>4. KeysHeld'
      BY <2>3 DEF KeysHeld
    <2>5. pc'[p] = "publish_commit" => TypeUnlocked(job'[p].type)
      BY <1>4 DEF OwnStep
    <2>6. ASSUME NEW q \in Request, NEW r \in Request,
                 pc'[q] = "publish_commit", pc'[r] = "publish_commit",
                 job'[q].type = job'[r].type
          PROVE  q = r
      <3>1. CASE q = p
        BY <2>1, <2>5, <2>6, <3>1 DEF TypeUnlocked, HoldsType
      <3>2. CASE r = p
        BY <2>1, <2>5, <2>6, <3>2 DEF TypeUnlocked, HoldsType
      <3>3. CASE q # p /\ r # p
        BY <2>1, <2>6, <3>3 DEF Inv, PublishersApart
      <3>4. QED
        BY <3>1, <3>2, <3>3
    <2>7. PublishersApart'
      BY <2>6 DEF PublishersApart
    <2>8. QED
      BY <1>1, <1>2, <2>2, <2>4, <2>7 DEF Inv
  <1>5. ASSUME NEW q \in Request, Rollback(q)
        PROVE  OwnStep(q)
    BY <1>1, <1>5, FinishOwn DEF Rollback
  <1>6. CASE Tick \/ UNCHANGED vars
    BY <1>3, <1>6 DEF Tick, vars
  <1>7. QED
    BY <1>1, <1>4, <1>5, <1>6, CreateOwn, PublishOwn, PatchOwn, SeedOwn, ListOwn DEF Next

LEMMA InvInit == Init => Inv
  <1> SUFFICES ASSUME Init PROVE Inv
    OBVIOUS
  <1>1. TypeOK
    <2>1. reply \in [Request -> Reply]
      BY AnswerType DEF Init
    <2>2. QED
      BY <2>1, NoJobType, CatalogAssumption DEF Init, TypeOK, Steps
  <1>2. \A q \in Request : pc[q] = "idle" /\ job[q] = NoJob
    BY DEF Init
  <1>3. \A q \in Request : JobOK(q)
    BY <1>2, NoJobFields, CatalogAssumption DEF Init, JobOK
  <1>4. KeysHeld
    BY <1>2, NoJobFields DEF KeysHeld, HoldsKey
  <1>5. PublishersApart
    BY <1>2 DEF PublishersApart
  <1>6. \A t \in TypeCode : RowOK(t)
    BY EmptyChain DEF Init, RowOK
  <1>7. QED
    BY <1>1, <1>3, <1>4, <1>5, <1>6 DEF Inv

LEMMA InvHolds == Spec => []Inv
  <1>1. Inv /\ [Next]_vars => Inv'
    BY InvStep
  <1>2. QED
    BY InvInit, <1>1, PTL DEF Spec

-----------------------------------------------------------------------------
(* The tables, positions, jobs and answers of the catalogue always have    *)
(* their types, whoever creates, publishes, patches, lists or loads.       *)
THEOREM TypeCorrect == Spec => []TypeOK
  <1>1. Inv => TypeOK
    BY DEF Inv
  <1>2. QED
    BY InvHolds, <1>1, PTL

(* A chain has one version in force at each instant: its last version is   *)
(* the current one, and each of the others ends where the next begins.     *)
LEMMA ChainInForce == Inv => OneVersionInForce
  <1> SUFFICES ASSUME Inv PROVE OneVersionInForce
    OBVIOUS
  <1>1. ASSUME NEW t \in TypeCode
        PROVE  /\ Numbers(t) = 1 .. Cardinality(versions[t])
               /\ \A v \in versions[t] : v.current <=> v.number = Cardinality(versions[t])
               /\ \A v, w \in versions[t] :
                    /\ w.number = v.number + 1 => v.to = w.from /\ v.from <= v.to
                    /\ v.current => v.to = 0
    <2>1. PICK n : IsChain(versions[t], n)
      BY DEF Inv, RowOK
    <2>2. Cardinality(versions[t]) = n
      BY <2>1, ChainLength
    <2>3. QED
      BY <2>1, <2>2 DEF IsChain, NumbersOf, Numbers
  <1>2. QED
    BY <1>1 DEF OneVersionInForce, LastVersionIsCurrent, PeriodsAreContiguous

(* At every instant exactly one version of a published type is in force:   *)
(* versions are numbered without holes, only the last is current, and      *)
(* periods follow one another, whatever publishers wait for each other.    *)
THEOREM VersionsInForce == Spec => []OneVersionInForce
  <1>1. QED
    BY InvHolds, ChainInForce, PTL

(* The lock of the type row suffices: no publication ever runs into the    *)
(* unique indexes of the versions.                                         *)
THEOREM NoConflict == Spec => []PublishNeverConflicts
  <1>1. Init => PublishNeverConflicts
    BY DEF Init, Answer, PublishNeverConflicts
  <1>2. ASSUME Inv, PublishNeverConflicts, [Next]_vars
        PROVE  PublishNeverConflicts'
    <2>1. ASSUME NEW p \in Request,
                 \/ \E step, work : Goto(p, step, work)
                 \/ \E answer : Finish(p, answer) /\ answer.kind # "version_conflict"
          PROVE  PublishNeverConflicts'
      BY <1>2, <2>1 DEF Goto, Finish, Inv, TypeOK, PublishNeverConflicts
    <2>2. ASSUME NEW p \in Request, Create(p)
          PROVE  PublishNeverConflicts'
      <3>1. CASE \E k \in Key, f \in FamilyCode, c \in PolicyCode \cup {None} :
                   StartCreate(p, k, f, c)
        BY <2>1, <3>1 DEF StartCreate
      <3>2. CASE InsertRow(p)
        BY <2>1, <3>2, AnswerKinds DEF InsertRow
      <3>3. CASE \E isActive \in BOOLEAN : CommitCreate(p, isActive)
        BY <2>1, <3>3, AnswerKinds DEF CommitCreate
      <3>4. QED
        BY <2>2, <3>1, <3>2, <3>3 DEF Create
    <2>3. ASSUME NEW p \in Request, Publish(p)
          PROVE  PublishNeverConflicts'
      <3>1. CASE \E t \in TypeCode, c \in PolicyCode : StartPublish(p, t, c)
        BY <2>1, <3>1 DEF StartPublish
      <3>2. CASE LockType(p)
        BY <2>1, <3>2 DEF LockType, Answer
      <3>3. CASE CommitVersion(p)
        BY <1>2, <2>1, <3>3, CommitVersionEffect DEF Answer
      <3>4. QED
        BY <2>3, <3>1, <3>2, <3>3 DEF Publish
    <2>4. ASSUME NEW p \in Request, Patch(p)
          PROVE  PublishNeverConflicts'
      <3>1. CASE \E t \in TypeCode, wanted \in BOOLEAN \cup {None}, renames \in BOOLEAN :
                   StartPatch(p, t, wanted, renames)
        BY <2>1, <3>1 DEF StartPatch
      <3>2. CASE UpdateType(p)
        BY <2>1, <3>2 DEF UpdateType
      <3>3. CASE CommitPatch(p)
        BY <2>1, <3>3, AnswerKinds DEF CommitPatch
      <3>4. QED
        BY <2>4, <3>1, <3>2, <3>3 DEF Patch
    <2>5. ASSUME NEW p \in Request, Seed(p)
          PROVE  PublishNeverConflicts'
      BY <2>1, <2>5 DEF Seed, StartSeed, SeedCheck, SeedInsert, CommitSeed, Answer
    <2>6. ASSUME NEW p \in Request, List(p) \/ Rollback(p)
          PROVE  PublishNeverConflicts'
      <3>1. CASE \E t \in TypeCode : StartListing(p, t)
        BY <2>1, <3>1 DEF StartListing
      <3>2. CASE FinishListing(p)
        <4>1. PICK answer : Finish(p, answer) /\ answer.kind = "listing"
          BY <3>2 DEF FinishListing
        <4>2. QED
          BY <2>1, <4>1
      <3>3. CASE Rollback(p)
        BY <2>1, <3>3, AnswerKinds DEF Rollback
      <3>4. QED
        BY <2>6, <3>1, <3>2, <3>3 DEF List
    <2>7. CASE Tick \/ UNCHANGED vars
      BY <1>2, <2>7 DEF Tick, vars, PublishNeverConflicts
    <2>8. QED
      BY <1>2, <2>2, <2>3, <2>4, <2>5, <2>6, <2>7 DEF Next
  <1>3. QED
    BY InvHolds, <1>1, <1>2, PTL DEF Spec

-----------------------------------------------------------------------------
(* A version that exists stays, as it is or closed once.                   *)
LEMMA VersionStays ==
  ASSUME Inv, [Next]_vars, NEW t \in TypeCode, NEW v \in versions[t]
  PROVE  \/ v \in versions'[t]
         \/ /\ v.current
            /\ \E at \in v.from .. MaxClock : Closed(v, at) \in versions'[t]
  <1>1. CASE VersionsKept(t)
    BY <1>1 DEF VersionsKept
  <1>2. CASE FirstOf(t)
    BY <1>2 DEF FirstOf
  <1>3. ASSUME NEW q \in Request, CommitVersion(q), job[q].type = t
        PROVE  \/ v \in versions'[t]
               \/ /\ v.current
                  /\ \E at \in v.from .. MaxClock : Closed(v, at) \in versions'[t]
    <2>1. PICK n : n = job[q].number - 1
      OBVIOUS
    <2>2. PICK at : at = job[q].stamp
      OBVIOUS
    <2>3. /\ IsChain(versions[t], n)
          /\ IsNext(versions[t], versions'[t], n, at, NewVersion(q))
      BY <1>3, <2>1, <2>2, CommitVersionEffect
    <2>4. at \in 1 .. MaxClock /\ v.from <= at /\ v.from \in Nat
      <3>1. v.from \in Nat
        BY <2>3 DEF IsChain, VersionRow
      <3>2. QED
        BY <1>3, <2>2, <3>1, StampType DEF CommitVersion, Inv, JobOK, TypeOK, Job
    <2>5. After(v, n, at) = v \/ (v.current /\ After(v, n, at) = Closed(v, at))
      BY <2>3, <2>4, AfterRow
    <2>6. at \in v.from .. MaxClock
      BY <2>4, CatalogAssumption
    <2>7. After(v, n, at) \in versions'[t]
      BY <2>3 DEF IsNext
    <2>8. QED
      BY <2>5, <2>6, <2>7
  <1>4. QED
    BY <1>1, <1>2, <1>3, VersionsStep

(* No step removes or rewrites a published version; closing the current    *)
(* one is the only change a version ever sees.                             *)
THEOREM ImmutableVersions == Spec => VersionsAreImmutable
  <1>1. ASSUME Inv, [Next]_vars
        PROVE  [\A t \in TypeCode : \A v \in versions[t] :
                  \/ v \in versions'[t]
                  \/ /\ v.current
                     /\ \E at \in v.from .. MaxClock :
                          [v EXCEPT !.current = FALSE, !.to = at] \in versions'[t]]_vars
    BY <1>1, VersionStays DEF Closed
  <1>2. QED
    BY InvHolds, <1>1, PTL DEF Spec, VersionsAreImmutable

-----------------------------------------------------------------------------
(***************************************************************************)
(* What the answers, the audit trail and the history of DocumentCatalog    *)
(* say of the versions and rows there are.                                 *)
(***************************************************************************)

-----------------------------------------------------------------------------
(* What a request does to the positions and answers, whatever it is.       *)

OthersSame(p) ==
  \A q \in Request \ {p} : pc'[q] = pc[q] /\ job'[q] = job[q] /\ reply'[q] = reply[q]

(* How p gets to a position of the loader or the listing, or to an answer. *)
OwnPlace(p) ==
  /\ pc'[p] \in {"seed", "seed_insert"} =>
       StartSeed(p) \/ SeedCheck(p) \/ SeedInsert(p)
  /\ pc'[p] = "list" => \E t \in TypeCode : StartListing(p, t)
  /\ reply'[p].kind = "seeded" => CommitSeed(p)
  /\ reply'[p].kind = "listing" => FinishListing(p)

LEMMA GotoPlace ==
  ASSUME Inv, NEW p \in Request, NEW step, NEW work, Goto(p, step, work)
  PROVE  /\ OthersSame(p) /\ pc'[p] = step /\ reply'[p].kind = "none"
  BY DEF Goto, OthersSame, Inv, TypeOK

LEMMA FinishPlace ==
  ASSUME Inv, NEW p \in Request, NEW answer, Finish(p, answer)
  PROVE  /\ OthersSame(p) /\ pc'[p] = "idle" /\ reply'[p] = answer
  BY DEF Finish, OthersSame, Inv, TypeOK

(* A step to an ordinary position or answer.                               *)
LEMMA PlainPlace ==
  ASSUME Inv, NEW p \in Request,
         \/ \E step \in Steps \ {"seed", "seed_insert", "list"} :
              \E work : Goto(p, step, work)
         \/ \E kind \in {"none", "duplicate_code", "version_conflict"} :
              Finish(p, Answer(kind))
  PROVE  OthersSame(p) /\ OwnPlace(p)
  <1>1. ASSUME NEW step \in Steps \ {"seed", "seed_insert", "list"}, NEW work,
               Goto(p, step, work)
        PROVE  OthersSame(p) /\ OwnPlace(p)
    BY <1>1, GotoPlace DEF OwnPlace
  <1>2. ASSUME NEW kind \in {"none", "duplicate_code", "version_conflict"},
               Finish(p, Answer(kind))
        PROVE  OthersSame(p) /\ OwnPlace(p)
    BY <1>2, FinishPlace, AnswerKinds DEF OwnPlace
  <1>3. QED
    BY <1>1, <1>2

LEMMA CreatePlace ==
  ASSUME Inv, NEW p \in Request, Create(p)
  PROVE  OthersSame(p) /\ OwnPlace(p)
  <1>1. ASSUME NEW k \in Key, NEW f \in FamilyCode, NEW c \in PolicyCode \cup {None},
               StartCreate(p, k, f, c)
        PROVE  OthersSame(p) /\ OwnPlace(p)
    BY <1>1, PlainPlace DEF StartCreate, Steps
  <1>2. CASE InsertRow(p)
    BY <1>2, PlainPlace DEF InsertRow, Steps
  <1>3. ASSUME NEW isActive \in BOOLEAN, CommitCreate(p, isActive)
        PROVE  OthersSame(p) /\ OwnPlace(p)
    BY <1>3, PlainPlace DEF CommitCreate
  <1>4. QED
    BY <1>1, <1>2, <1>3 DEF Create

LEMMA PublishPlace ==
  ASSUME Inv, NEW p \in Request, Publish(p)
  PROVE  OthersSame(p) /\ OwnPlace(p)
  <1>1. ASSUME NEW t \in TypeCode, NEW c \in PolicyCode, StartPublish(p, t, c)
        PROVE  OthersSame(p) /\ OwnPlace(p)
    BY <1>1, PlainPlace DEF StartPublish, Steps
  <1>2. CASE LockType(p)
    BY <1>2, LockTypeEffect, PlainPlace DEF Steps
  <1>3. CASE CommitVersion(p)
    BY <1>3, CommitVersionEffect, PlainPlace
  <1>4. QED
    BY <1>1, <1>2, <1>3 DEF Publish

LEMMA PatchPlace ==
  ASSUME Inv, NEW p \in Request, Patch(p)
  PROVE  OthersSame(p) /\ OwnPlace(p)
  <1>1. ASSUME NEW t \in TypeCode, NEW wanted \in BOOLEAN \cup {None},
               NEW renames \in BOOLEAN, StartPatch(p, t, wanted, renames)
        PROVE  OthersSame(p) /\ OwnPlace(p)
    BY <1>1, PlainPlace DEF StartPatch, Steps
  <1>2. CASE UpdateType(p)
    BY <1>2, PlainPlace DEF UpdateType, Steps
  <1>3. CASE CommitPatch(p)
    BY <1>3, PlainPlace DEF CommitPatch
  <1>4. QED
    BY <1>1, <1>2, <1>3 DEF Patch

LEMMA SeedPlace ==
  ASSUME Inv, NEW p \in Request, Seed(p)
  PROVE  OthersSame(p) /\ OwnPlace(p)
  <1>1. CASE StartSeed(p)
    <2>1. PICK work : Goto(p, "seed", work)
      BY <1>1 DEF StartSeed
    <2>2. QED
      BY <1>1, <2>1, GotoPlace DEF OwnPlace
  <1>2. CASE SeedCheck(p) \/ SeedInsert(p)
    <2>1. \/ \E work : Goto(p, "seed", work) \/ Goto(p, "seed_insert", work)
          \/ Finish(p, Answer("duplicate_code"))
      BY <1>2, SeedStepEffect
    <2>2. CASE Finish(p, Answer("duplicate_code"))
      BY <2>2, PlainPlace
    <2>3. ASSUME NEW work, Goto(p, "seed", work) \/ Goto(p, "seed_insert", work)
          PROVE  OthersSame(p) /\ OwnPlace(p)
      <3>1. OthersSame(p) /\ pc'[p] # "list" /\ reply'[p].kind = "none"
        BY <2>3, GotoPlace
      <3>2. QED
        BY <1>2, <3>1 DEF OwnPlace
    <2>4. QED
      BY <2>1, <2>2, <2>3
  <1>3. CASE CommitSeed(p)
    <2>1. Finish(p, Answer("seeded"))
      BY <1>3 DEF CommitSeed
    <2>2. QED
      BY <1>3, <2>1, FinishPlace, AnswerKinds DEF OwnPlace
  <1>4. QED
    BY <1>1, <1>2, <1>3 DEF Seed

LEMMA ListPlace ==
  ASSUME Inv, NEW p \in Request, List(p)
  PROVE  OthersSame(p) /\ OwnPlace(p)
  <1>1. ASSUME NEW t \in TypeCode, StartListing(p, t)
        PROVE  OthersSame(p) /\ OwnPlace(p)
    <2>1. PICK work : Goto(p, "list", work)
      BY <1>1 DEF StartListing
    <2>2. QED
      BY <1>1, <2>1, GotoPlace DEF OwnPlace
  <1>2. CASE FinishListing(p)
    <2>1. PICK answer : Finish(p, answer) /\ answer.kind = "listing"
      BY <1>2 DEF FinishListing
    <2>2. QED
      BY <1>2, <2>1, FinishPlace DEF OwnPlace
  <1>3. QED
    BY <1>1, <1>2 DEF List

LEMMA OneMoves ==
  ASSUME Inv, [Next]_vars
  PROVE  \/ UNCHANGED <<pc, job, reply>>
         \/ \E p \in Request : OthersSame(p) /\ OwnPlace(p)
  <1>1. ASSUME NEW p \in Request, Rollback(p)
        PROVE  OthersSame(p) /\ OwnPlace(p)
    BY <1>1, PlainPlace DEF Rollback
  <1>2. CASE Tick \/ UNCHANGED vars
    BY <1>2 DEF Tick, vars
  <1>3. QED
    BY <1>1, <1>2, CreatePlace, PublishPlace, PatchPlace, SeedPlace, ListPlace DEF Next

-----------------------------------------------------------------------------
(* The loader.                                                             *)

LEMMA RowsGrow ==
  ASSUME Inv, [Next]_vars, NEW k \in Key, rows[k] > 0
  PROVE  rows'[k] > 0
  <1>1. ASSUME NEW q \in Request, NEW isActive \in BOOLEAN, CommitCreate(q, isActive)
        PROVE  rows'[k] > 0
    BY <1>1 DEF CommitCreate, Inv, TypeOK
  <1>2. ASSUME NEW q \in Request, CommitSeed(q)
        PROVE  rows'[k] > 0
    BY <1>2 DEF CommitSeed, Inv, TypeOK
  <1>3. ASSUME NEW q \in Request, CommitVersion(q)
        PROVE  rows'[k] > 0
    BY <1>3, CommitVersionEffect
  <1>4. QED
    BY <1>1, <1>2, <1>3, CommitSteps

(* Each canonical key is left to do, held, or in the table.                *)
Covered(k, todo, added) ==
  (\E j \in 1 .. Len(todo) : todo[j] = k) \/ k \in added \/ rows[k] > 0

SeedOK(q) ==
  pc[q] \in {"seed", "seed_insert"} =>
    \A i \in 1 .. Len(Canonical) : Covered(Canonical[i], job[q].todo, job[q].added)

LoadInv ==
  LoadIsComplete /\ \A q \in Request : SeedOK(q)

LEMMA HeadOrTail ==
  ASSUME NEW S, NEW todo \in Seq(S), todo # <<>>, NEW j \in 1 .. Len(todo)
  PROVE  todo[j] = Head(todo) \/ \E i \in 1 .. Len(Tail(todo)) : Tail(todo)[i] = todo[j]
  <1>1. CASE j = 1
    BY <1>1
  <1>2. CASE j # 1
    <2>1. j - 1 \in 1 .. Len(Tail(todo)) /\ Tail(todo)[j - 1] = todo[j]
      BY <1>2
    <2>2. QED
      BY <2>1
  <1>3. QED
    BY <1>1, <1>2

LEMMA CanonicalKeys == \A i \in 1 .. Len(Canonical) : Canonical[i] \in Key
  BY CatalogAssumption

(* Whatever p does as a loader, no canonical key gets lost.                *)
LEMMA SeedOwnCovered ==
  ASSUME Inv, [Next]_vars, NEW p \in Request, SeedOK(p),
         StartSeed(p) \/ SeedCheck(p) \/ SeedInsert(p)
  PROVE  SeedOK(p)'
  <1>1. CASE StartSeed(p)
    <2> DEFINE work == [NoJob EXCEPT !.todo = Canonical]
    <2>1. Goto(p, "seed", work)
      BY <1>1 DEF StartSeed
    <2>2. work.todo = Canonical
      BY DEF NoJob
    <2> HIDE DEF work
    <2>3. job'[p].todo = Canonical
      BY <2>1, <2>2, GotoJob
    <2>4. QED
      BY <2>3 DEF SeedOK, Covered
  <1>2. CASE SeedCheck(p) \/ SeedInsert(p)
    <2>1. PICK k : k = Head(job[p].todo)
      OBVIOUS
    <2>2. /\ pc[p] \in {"seed", "seed_insert"} /\ job[p].todo # <<>>
          /\ job[p].todo \in Seq(Key) /\ rows' = rows
      BY <1>2, <2>1, SeedStepEffect, JobFields DEF Inv, Job, tables
    <2>3. \A i \in 1 .. Len(Canonical) :
            Covered(Canonical[i], job[p].todo, job[p].added)
      BY <2>2 DEF SeedOK
    <2>4. CASE Finish(p, Answer("duplicate_code"))
      <3>1. pc'[p] = "idle"
        BY <2>4, FinishPlace
      <3>2. QED
        BY <3>1 DEF SeedOK
    <2>5. ASSUME NEW work, Goto(p, "seed_insert", work), work = Stamped(p)
          PROVE  SeedOK(p)'
      <3>1. job'[p].todo = job[p].todo /\ job'[p].added = job[p].added
        BY <2>5, GotoJob, StampedType DEF Inv
      <3>2. QED
        BY <2>2, <2>3, <3>1 DEF SeedOK, Covered
    <2>6. ASSUME NEW work, Goto(p, "seed", work), work.todo = Tail(job[p].todo),
                 \/ work.added = job[p].added /\ rows[k] > 0
                 \/ work.added = job[p].added \cup {k}
          PROVE  SeedOK(p)'
      <3>1. job'[p] = work
        BY <2>6, GotoJob
      <3>2. ASSUME NEW i \in 1 .. Len(Canonical)
            PROVE  Covered(Canonical[i], work.todo, work.added)'
        <4>1. PICK c : c = Canonical[i]
          OBVIOUS
        <4>2. Covered(c, job[p].todo, job[p].added)
          BY <2>3, <4>1
        <4>3. CASE c \in job[p].added \/ rows[c] > 0
          BY <2>2, <2>6, <4>1, <4>3 DEF Covered
        <4>4. CASE \E j \in 1 .. Len(job[p].todo) : job[p].todo[j] = c
          <5>1. c = k \/ \E j \in 1 .. Len(Tail(job[p].todo)) : Tail(job[p].todo)[j] = c
            BY <2>1, <2>2, <4>4, HeadOrTail
          <5>2. QED
            BY <2>2, <2>6, <4>1, <5>1 DEF Covered
        <4>5. QED
          BY <4>2, <4>3, <4>4 DEF Covered
      <3>3. QED
        BY <3>1, <3>2 DEF SeedOK, Covered
    <2>7. QED
      BY <1>2, <2>1, <2>4, <2>5, <2>6, SeedStepEffect
  <1>3. QED
    BY <1>1, <1>2

LEMMA SeedKept ==
  ASSUME Inv, [Next]_vars, NEW q \in Request, SeedOK(q),
         pc'[q] = pc[q], job'[q] = job[q]
  PROVE  SeedOK(q)'
  <1>1. \A k \in Key : rows[k] > 0 => rows'[k] > 0
    BY RowsGrow
  <1>2. QED
    BY <1>1, CanonicalKeys DEF SeedOK, Covered

(* A loader that commits has nothing left to do.                           *)
LEMMA SeedCommits ==
  ASSUME Inv, NEW p \in Request, SeedOK(p), CommitSeed(p), NEW i \in 1 .. Len(Canonical)
  PROVE  rows'[Canonical[i]] > 0
  <1>1. PICK k \in Key : k = Canonical[i]
    BY CanonicalKeys
  <1>2. k \in job[p].added \/ rows[k] > 0
    BY <1>1 DEF CommitSeed, SeedOK, Covered
  <1>3. rows'[k] = IF k \in job[p].added THEN rows[k] + 1 ELSE rows[k]
    BY DEF CommitSeed
  <1>4. rows[k] \in Nat
    BY DEF Inv, TypeOK
  <1>5. QED
    BY <1>1, <1>2, <1>3, <1>4

LEMMA LoadStep ==
  ASSUME Inv, LoadInv, [Next]_vars
  PROVE  LoadInv'
  <1>1. ASSUME NEW q \in Request, reply[q].kind = "seeded", reply'[q] = reply[q],
               NEW i \in 1 .. Len(Canonical)
        PROVE  rows'[Canonical[i]] > 0
    BY <1>1, RowsGrow, CanonicalKeys DEF LoadInv, LoadIsComplete
  <1>2. CASE UNCHANGED <<pc, job, reply>>
    <2>1. \A q \in Request : SeedOK(q)'
      BY <1>2, SeedKept DEF LoadInv
    <2>2. LoadIsComplete'
      BY <1>1, <1>2 DEF LoadIsComplete
    <2>3. QED
      BY <2>1, <2>2 DEF LoadInv
  <1>3. ASSUME NEW p \in Request, OthersSame(p), OwnPlace(p)
        PROVE  LoadInv'
    <2>1. \A q \in Request \ {p} : SeedOK(q)'
      BY <1>3, SeedKept DEF LoadInv, OthersSame
    <2>2. SeedOK(p)'
      <3>1. CASE pc'[p] \in {"seed", "seed_insert"}
        BY <1>3, <3>1, SeedOwnCovered DEF OwnPlace, LoadInv
      <3>2. CASE pc'[p] \notin {"seed", "seed_insert"}
        BY <3>2 DEF SeedOK
      <3>3. QED
        BY <3>1, <3>2
    <2>3. ASSUME NEW q \in Request, reply'[q].kind = "seeded", NEW i \in 1 .. Len(Canonical)
          PROVE  rows'[Canonical[i]] > 0
      <3>1. CASE q = p
        BY <1>3, <2>3, <3>1, SeedCommits DEF OwnPlace, LoadInv
      <3>2. CASE q # p
        BY <1>1, <1>3, <2>3, <3>2 DEF OthersSame
      <3>3. QED
        BY <3>1, <3>2
    <2>4. LoadIsComplete'
      BY <2>3 DEF LoadIsComplete
    <2>5. QED
      BY <2>1, <2>2, <2>4 DEF LoadInv
  <1>4. QED
    BY <1>2, <1>3, OneMoves

(* A load that reported success left every canonical row in the catalogue, *)
(* whatever other loads and creations of the same codes did or rolled back *)
(* meanwhile: each row it skipped was committed, each other it inserted.   *)
THEOREM LoadsAreComplete == Spec => []LoadIsComplete
  <1>1. Init => LoadInv
    BY DEF Init, LoadInv, LoadIsComplete, SeedOK, Answer
  <1>2. Inv /\ LoadInv /\ [Next]_vars => LoadInv'
    BY LoadStep
  <1>3. LoadInv => LoadIsComplete
    BY DEF LoadInv
  <1>4. QED
    BY InvHolds, <1>1, <1>2, <1>3, PTL DEF Spec

-----------------------------------------------------------------------------
(* The listing.                                                            *)

(* What the first statement saw was the chain of that time: its versions   *)
(* are still there by number, and the closed ones as they were.            *)
SeenOK(q) ==
  pc[q] = "list" =>
    /\ \E n : IsChain(job[q].seen, n)
    /\ \A v \in job[q].seen :
         /\ \E w \in versions[job[q].type] : w.number = v.number
         /\ v.current \/ v \in versions[job[q].type]

(* The answer holds a chain's numbers; only its last version is certain to *)
(* have been current, and what is closed in it stays in the table.         *)
RecentOK(L, t) ==
  /\ \E m \in Nat :
       /\ NumbersOf(L) = 1 .. m
       /\ \A v \in L : v.number = m => v.current
  /\ \A v \in L : v.current \/ v \in versions[t]

AnswerOK(q) ==
  reply[q].kind = "listing" => RecentOK(reply[q].versions, reply[q].type)

ListInv == \A q \in Request : SeenOK(q) /\ AnswerOK(q)

(* Whatever a step does to the versions of a type, it keeps their numbers  *)
(* and the closed ones.                                                    *)
LEMMA NumbersStay ==
  ASSUME Inv, [Next]_vars, NEW t \in TypeCode
  PROVE  /\ \A v \in versions[t] : \E w \in versions'[t] : w.number = v.number
         /\ \A v \in versions[t] : ~v.current => v \in versions'[t]
  <1>1. versions[t] \subseteq VersionRow
    BY DEF Inv, TypeOK
  <1>2. \A v \in versions[t] : \A at : Closed(v, at).number = v.number
    BY <1>1 DEF Closed, VersionRow
  <1>3. QED
    BY <1>2, VersionStays

LEMMA SeenKept ==
  ASSUME Inv, [Next]_vars, NEW q \in Request, SeenOK(q),
         pc'[q] = pc[q], job'[q] = job[q]
  PROVE  SeenOK(q)'
  <1>1. CASE pc[q] = "list"
    <2>1. PICK t \in TypeCode : t = job[q].type
      BY <1>1 DEF Inv, JobOK
    <2>2. ASSUME NEW v \in job[q].seen
          PROVE  /\ \E w \in versions'[t] : w.number = v.number
                 /\ v.current \/ v \in versions'[t]
      BY <1>1, <2>1, NumbersStay DEF SeenOK
    <2>3. QED
      BY <1>1, <2>1, <2>2 DEF SeenOK
  <1>2. CASE pc[q] # "list"
    BY <1>2 DEF SeenOK
  <1>3. QED
    BY <1>1, <1>2

LEMMA SeenStarts ==
  ASSUME Inv, NEW p \in Request, NEW t \in TypeCode, StartListing(p, t)
  PROVE  SeenOK(p)'
  <1> DEFINE work == [NoJob EXCEPT !.type = t, !.seen = versions[t]]
  <1>1. Goto(p, "list", work) /\ versions' = versions
    BY DEF StartListing, tables
  <1>2. work.type = t /\ work.seen = versions[t]
    BY DEF NoJob
  <1> HIDE DEF work
  <1>3. job'[p].type = t /\ job'[p].seen = versions[t]
    BY <1>1, <1>2, GotoJob
  <1>4. \E n : IsChain(versions[t], n)
    BY DEF Inv, RowOK
  <1>5. QED
    BY <1>1, <1>3, <1>4 DEF SeenOK

LEMMA AnswerKept ==
  ASSUME Inv, [Next]_vars, NEW q \in Request, AnswerOK(q), reply'[q] = reply[q]
  PROVE  AnswerOK(q)'
  <1>1. CASE reply[q].kind = "listing"
    <2>1. reply[q] \in Reply
      BY DEF Inv, TypeOK
    <2>2. PICK t \in TypeCode : t = reply[q].type
      BY <1>1, <2>1 DEF Reply
    <2>3. \A v \in reply[q].versions : v.current \/ v \in versions'[t]
      BY <1>1, <2>2, NumbersStay DEF AnswerOK, RecentOK
    <2>4. QED
      BY <1>1, <2>2, <2>3 DEF AnswerOK, RecentOK
  <1>2. CASE reply[q].kind # "listing"
    BY <1>2 DEF AnswerOK
  <1>3. QED
    BY <1>1, <1>2

(* Both statements together list the numbers of the table.                 *)
LEMMA ListedRecent ==
  ASSUME Inv, NEW q \in Request, SeenOK(q), pc[q] = "list"
  PROVE  RecentOK(Listed(q), job[q].type)
  <1>1. PICK t \in TypeCode : t = job[q].type
    BY DEF Inv, JobOK
  <1>2. PICK V, S : V = versions[t] /\ S = job[q].seen
    OBVIOUS
  <1>3. PICK m : IsChain(V, m)
    BY <1>2 DEF Inv, RowOK
  <1>4. PICK n : IsChain(S, n)
    BY <1>2 DEF SeenOK
  <1>5. /\ \A v \in S : \E w \in V : w.number = v.number
        /\ \A v \in S : v.current \/ v \in V
    BY <1>1, <1>2 DEF SeenOK
  <1>6. PICK L : L = Listed(q)
    OBVIOUS
  <1>7. \A v : v \in L <=> v \in S \/ (v \in V /\ \A w \in S : w.number # v.number)
    BY <1>1, <1>2, <1>6 DEF Listed
  <1>8. /\ m \in Nat /\ n \in Nat /\ NumbersOf(V) = 1 .. m /\ NumbersOf(S) = 1 .. n
        /\ \A v \in V : v.current <=> v.number = m
        /\ \A v \in S : v.current <=> v.number = n
    BY <1>3, <1>4, CatalogAssumption DEF IsChain
  <1>9. n <= m
    <2>1. CASE n = 0
      BY <1>8, <2>1
    <2>2. CASE n # 0
      <3>1. PICK v \in S : v.number = n
        BY <1>8, <2>2 DEF NumbersOf
      <3>2. n \in 1 .. m
        BY <1>5, <1>8, <3>1 DEF NumbersOf
      <3>3. QED
        BY <3>2
    <2>3. QED
      BY <2>1, <2>2
  <1>10. NumbersOf(L) = 1 .. m
    <2>1. \A i : i \in NumbersOf(L) <=> i \in NumbersOf(V)
      BY <1>5, <1>7 DEF NumbersOf
    <2>2. QED
      BY <1>8, <2>1
  <1>11. \A v \in L : v.number = m => v.current
    <2>1. \A v \in S : v.number \in 1 .. n
      BY <1>8 DEF NumbersOf
    <2>2. \A v \in S : v.number = m => v.number = n
      BY <1>8, <1>9, <2>1
    <2>3. QED
      BY <1>7, <1>8, <2>2
  <1>12. \A v \in L : v.current \/ v \in V
    BY <1>5, <1>7
  <1>13. RecentOK(L, t)
    BY <1>2, <1>8, <1>10, <1>11, <1>12 DEF RecentOK
  <1>14. QED
    BY <1>1, <1>6, <1>13

LEMMA AnswerStarts ==
  ASSUME Inv, NEW p \in Request, SeenOK(p), FinishListing(p)
  PROVE  AnswerOK(p)'
  <1>1. PICK L, t : L = Listed(p) /\ t = job[p].type
    OBVIOUS
  <1>2. RecentOK(L, t)
    BY <1>1, ListedRecent DEF FinishListing
  <1>3. reply'[p] = [kind |-> "listing", type |-> t, versions |-> L] /\ versions' = versions
    BY <1>1, FinishPlace DEF FinishListing, tables
  <1>4. reply'[p].type = t /\ reply'[p].versions = L
    BY <1>3
  <1>5. QED
    BY <1>2, <1>3, <1>4 DEF AnswerOK, RecentOK

LEMMA ListStep ==
  ASSUME Inv, ListInv, [Next]_vars
  PROVE  ListInv'
  <1>1. CASE UNCHANGED <<pc, job, reply>>
    BY <1>1, SeenKept, AnswerKept DEF ListInv
  <1>2. ASSUME NEW p \in Request, OthersSame(p), OwnPlace(p)
        PROVE  ListInv'
    <2>1. \A q \in Request \ {p} : SeenOK(q)' /\ AnswerOK(q)'
      BY <1>2, SeenKept, AnswerKept DEF ListInv, OthersSame
    <2>2. SeenOK(p)'
      <3>1. CASE pc'[p] = "list"
        BY <1>2, <3>1, SeenStarts DEF OwnPlace
      <3>2. CASE pc'[p] # "list"
        BY <3>2 DEF SeenOK
      <3>3. QED
        BY <3>1, <3>2
    <2>3. AnswerOK(p)'
      <3>1. CASE reply'[p].kind = "listing"
        BY <1>2, <3>1, AnswerStarts DEF OwnPlace, ListInv
      <3>2. CASE reply'[p].kind # "listing"
        BY <3>2 DEF AnswerOK
      <3>3. QED
        BY <3>1, <3>2
    <2>4. QED
      BY <2>1, <2>2, <2>3 DEF ListInv
  <1>3. QED
    BY <1>1, <1>2, OneMoves

(* A listing that overlaps publications misses no version up to the last   *)
(* one it shows, that one was current, and the closed ones are final.      *)
THEOREM ListingsAreRecent == Spec => []ListingIsRecent
  <1>1. Init => ListInv
    BY DEF Init, ListInv, SeenOK, AnswerOK, Answer
  <1>2. Inv /\ ListInv /\ [Next]_vars => ListInv'
    BY ListStep
  <1>3. ListInv => ListingIsRecent
    <2> SUFFICES ASSUME ListInv, NEW q \in Request, reply[q].kind = "listing"
                 PROVE  LET L == reply[q].versions
                            last == Highest({v.number : v \in L})
                        IN  /\ {v.number : v \in L} = 1 .. last
                            /\ \A v \in L : /\ v.number = last => v.current
                                            /\ ~v.current => v \in versions[reply[q].type]
      BY DEF ListingIsRecent
    <2>1. PICK L, t : L = reply[q].versions /\ t = reply[q].type
      OBVIOUS
    <2>2. RecentOK(L, t)
      BY <2>1 DEF ListInv, AnswerOK
    <2>3. PICK m \in Nat : NumbersOf(L) = 1 .. m /\ \A v \in L : v.number = m => v.current
      BY <2>2 DEF RecentOK
    <2>4. Highest({v.number : v \in L}) = m /\ {v.number : v \in L} = 1 .. m
      BY <2>3, HighestOfRange DEF NumbersOf
    <2>5. \A v \in L : ~v.current => v \in versions[t]
      BY <2>2 DEF RecentOK
    <2>6. QED
      BY <2>1, <2>3, <2>4, <2>5
  <1>4. QED
    BY InvHolds, <1>1, <1>2, <1>3, PTL DEF Spec

-----------------------------------------------------------------------------
(* The audit trail.                                                        *)

LEMMA EventsDiffer ==
  ASSUME NEW t \in TypeCode, NEW n \in 1 .. MaxVersion
  PROVE  /\ Published(t, n) \in Event
         /\ \A k \in Key : Created(k) # Published(t, n)
         /\ \A u \in TypeCode, a \in PatchActions : Patched(u, a) # Published(t, n)
         /\ \A u \in TypeCode : \A m : Published(u, m) = Published(t, n) => u = t /\ m = n
  <1>1. Published(t, n) \in Event
    BY EventKeys
  <1>2. \A k \in Key : Created(k) # Published(t, n)
    BY DEF Created, Published
  <1>3. \A u \in TypeCode, a \in PatchActions : Patched(u, a) # Published(t, n)
    BY DEF Patched, Published, PatchActions
  <1>4. \A u \in TypeCode : \A m : Published(u, m) = Published(t, n) => u = t /\ m = n
    BY TypeKeys DEF Published
  <1>5. QED
    BY <1>1, <1>2, <1>3, <1>4

(* The steps that record an event.                                         *)
LEMMA RecordingSteps ==
  ASSUME [Next]_vars
  PROVE  \/ UNCHANGED audit /\ (active' = active \/ \E q \in Request : CommitSeed(q))
         \/ \E q \in Request : \/ \E isActive \in BOOLEAN : CommitCreate(q, isActive)
                               \/ CommitVersion(q)
                               \/ CommitPatch(q)
  <1>1. ASSUME NEW q \in Request, Create(q) \/ Publish(q) \/ Patch(q) \/ Seed(q) \/ List(q)
                                    \/ Rollback(q)
        PROVE  \/ UNCHANGED audit /\ (active' = active \/ CommitSeed(q))
               \/ \E isActive \in BOOLEAN : CommitCreate(q, isActive)
               \/ CommitVersion(q)
               \/ CommitPatch(q)
    <2>1. CASE Create(q)
      BY <2>1 DEF Create, StartCreate, InsertRow, tables
    <2>2. CASE Publish(q)
      BY <2>2 DEF Publish, StartPublish, LockType, tables
    <2>3. CASE Patch(q)
      BY <2>3 DEF Patch, StartPatch, UpdateType, tables
    <2>4. CASE Seed(q)
      BY <2>4 DEF Seed, StartSeed, SeedCheck, SeedInsert, CommitSeed, tables
    <2>5. CASE List(q) \/ Rollback(q)
      BY <2>5 DEF List, StartListing, FinishListing, Rollback, tables
    <2>6. QED
      BY <1>1, <2>1, <2>2, <2>3, <2>4, <2>5
  <1>2. CASE Tick \/ UNCHANGED vars
    BY <1>2 DEF Tick, vars, tables
  <1>3. QED
    BY <1>1, <1>2 DEF Next

LEMMA PublishedKept ==
  ASSUME Inv, [Next]_vars, NEW t \in TypeCode, NEW n \in 1 .. MaxVersion,
         ~\E q \in Request : CommitVersion(q) /\ job[q].type = t
  PROVE  audit'[Published(t, n)] = audit[Published(t, n)]
  <1>1. audit \in [Event -> Nat] /\ Published(t, n) \in Event
    BY EventsDiffer DEF Inv, TypeOK
  <1>2. ASSUME NEW e, e # Published(t, n), Record(e)
        PROVE  audit'[Published(t, n)] = audit[Published(t, n)]
    BY <1>1, <1>2 DEF Record
  <1>3. ASSUME NEW q \in Request, NEW isActive \in BOOLEAN, CommitCreate(q, isActive)
        PROVE  audit'[Published(t, n)] = audit[Published(t, n)]
    <2>1. job[q].key \in Key
      BY <1>3 DEF CommitCreate, Inv, JobOK
    <2>2. QED
      BY <1>2, <1>3, <2>1, EventsDiffer DEF CommitCreate
  <1>4. ASSUME NEW q \in Request, CommitVersion(q)
        PROVE  audit'[Published(t, n)] = audit[Published(t, n)]
    <2>1. PICK u, m : u = job[q].type /\ m = job[q].number - 1
      OBVIOUS
    <2>2. u \in TypeCode /\ u # t /\ Record(Published(u, m + 1))
      BY <1>4, <2>1, CommitVersionEffect
    <2>3. QED
      BY <1>2, <2>2, EventsDiffer
  <1>5. ASSUME NEW q \in Request, CommitPatch(q)
        PROVE  audit'[Published(t, n)] = audit[Published(t, n)]
    <2>1. job[q].type \in TypeCode /\ PatchAction(q) \in PatchActions
      BY <1>5, PatchActionType DEF CommitPatch, Inv, JobOK
    <2>2. QED
      BY <1>2, <1>5, <2>1, EventsDiffer DEF CommitPatch
  <1>6. QED
    BY <1>3, <1>4, <1>5, RecordingSteps

(* How often the publication of version n is audited when there are m.     *)
AuditedOnce(events, n, m) ==
  IF n > m THEN events = 0 ELSE IF n = 1 THEN events <= 1 ELSE events = 1

AuditOK(t) ==
  \E m : /\ IsChain(versions[t], m)
         /\ \A n \in 1 .. MaxVersion : AuditedOnce(audit[Published(t, n)], n, m)

LEMMA AuditStep ==
  ASSUME Inv, [Next]_vars, NEW t \in TypeCode, AuditOK(t)
  PROVE  AuditOK(t)'
  <1>1. PICK m : /\ IsChain(versions[t], m)
                 /\ \A n \in 1 .. MaxVersion : AuditedOnce(audit[Published(t, n)], n, m)
    BY DEF AuditOK
  <1>2. m \in Nat /\ Cardinality(versions[t]) = m
    BY <1>1, ChainLength
  <1>3. \A n \in 1 .. MaxVersion : n \in Nat /\ audit[Published(t, n)] \in Nat
    BY EventsDiffer, CatalogAssumption DEF Inv, TypeOK
  <1>4. ASSUME NEW q \in Request, CommitVersion(q), job[q].type = t
        PROVE  AuditOK(t)'
    <2>1. PICK i : i = job[q].number - 1
      OBVIOUS
    <2>2. /\ IsChain(versions[t], i) /\ IsChain(versions'[t], i + 1)
          /\ Record(Published(t, i + 1)) /\ i \in Nat /\ i + 1 = job[q].number
      BY <1>4, <2>1, CommitVersionEffect
    <2>3. i = m
      BY <1>2, <2>2, ChainLength
    <2>4. i + 1 \in 1 .. MaxVersion
      BY <1>4, <2>2 DEF CommitVersion, Inv, JobOK
    <2>5. ASSUME NEW n \in 1 .. MaxVersion
          PROVE  AuditedOnce(audit'[Published(t, n)], n, m + 1)
      <3>1. audit \in [Event -> Nat] /\ Published(t, n) \in Event
        BY EventsDiffer DEF Inv, TypeOK
      <3>2. CASE n = m + 1
        <4>1. audit'[Published(t, n)] = audit[Published(t, n)] + 1
          BY <2>2, <2>3, <3>1, <3>2 DEF Record
        <4>2. audit[Published(t, n)] = 0
          BY <1>1, <1>2, <3>2 DEF AuditedOnce
        <4>3. QED
          BY <1>2, <3>2, <4>1, <4>2 DEF AuditedOnce
      <3>3. CASE n # m + 1
        <4>1. Published(t, n) # Published(t, m + 1)
          BY <2>3, <2>4, <3>3, EventsDiffer
        <4>2. audit'[Published(t, n)] = audit[Published(t, n)]
          BY <2>2, <2>3, <3>1, <4>1 DEF Record
        <4>3. QED
          BY <1>1, <1>2, <1>3, <3>3, <4>2 DEF AuditedOnce
      <3>4. QED
        BY <3>2, <3>3
    <2>6. QED
      BY <2>2, <2>3, <2>5 DEF AuditOK
  <1>5. ASSUME ~\E q \in Request : CommitVersion(q) /\ job[q].type = t
        PROVE  AuditOK(t)'
    <2>1. \A n \in 1 .. MaxVersion : audit'[Published(t, n)] = audit[Published(t, n)]
      BY <1>5, PublishedKept
    <2>2. CASE VersionsKept(t)
      BY <1>1, <2>1, <2>2 DEF VersionsKept, AuditOK
    <2>3. CASE FirstOf(t)
      <3>1. PICK at \in 1 .. clock, who \in Request \cup {None} :
              at <= MaxClock /\ versions'[t] = {FirstVersion(at, who)}
        BY <2>3 DEF FirstOf
      <3>2. at \in 1 .. MaxClock
        BY <3>1, CatalogAssumption, StampType DEF Inv
      <3>3. IsChain(versions'[t], 1)
        BY <3>1, <3>2, FirstChain
      <3>4. m = 0
        BY <1>2, <2>3, EmptyChain, ChainLength DEF FirstOf
      <3>5. \A n \in 1 .. MaxVersion : AuditedOnce(audit'[Published(t, n)], n, 1)
        BY <1>1, <1>3, <2>1, <3>4 DEF AuditedOnce
      <3>6. QED
        BY <3>3, <3>5 DEF AuditOK
    <2>4. QED
      BY <1>5, <2>2, <2>3, VersionsStep
  <1>6. QED
    BY <1>4, <1>5

LEMMA ChainCount ==
  ASSUME NEW V, NEW m, IsChain(V, m), NEW n \in 1 .. MaxVersion
  PROVE  Cardinality({v \in V : v.number = n}) = IF n <= m THEN 1 ELSE 0
  <1>1. m \in Nat /\ NumbersOf(V) = 1 .. m /\ \A v, w \in V : v.number = w.number => v = w
    BY CatalogAssumption DEF IsChain
  <1>2. CASE n <= m
    <2>0. n \in NumbersOf(V)
      BY <1>1, <1>2, CatalogAssumption
    <2>1. PICK v \in V : v.number = n
      BY <2>0 DEF NumbersOf
    <2>2. {x \in V : x.number = n} = {v}
      BY <1>1, <2>1
    <2>3. QED
      BY <1>2, <2>2, FS_Singleton
  <1>3. CASE ~(n <= m)
    <2>1. {x \in V : x.number = n} = {}
      BY <1>1, <1>3 DEF NumbersOf
    <2>2. QED
      BY <1>3, <2>1, FS_EmptySet
  <1>4. QED
    BY <1>2, <1>3

LEMMA AuditMatches ==
  ASSUME TypeOK, \A t \in TypeCode : AuditOK(t)
  PROVE  PublicationsAudited
  <1> SUFFICES ASSUME NEW t \in TypeCode, NEW n \in 1 .. MaxVersion
               PROVE  LET events == audit[Published(t, n)]
                          there  == Cardinality({v \in versions[t] : v.number = n})
                      IN  IF n = 1 THEN events <= there ELSE events = there
    BY DEF PublicationsAudited
  <1>1. PICK m : IsChain(versions[t], m) /\ AuditedOnce(audit[Published(t, n)], n, m)
    BY DEF AuditOK
  <1>2. Cardinality({v \in versions[t] : v.number = n}) = IF n <= m THEN 1 ELSE 0
    BY <1>1, ChainCount
  <1>3. m \in Nat /\ n \in Nat /\ audit[Published(t, n)] \in Nat
    BY <1>1, ChainLength, CatalogAssumption, EventsDiffer DEF TypeOK
  <1>4. QED
    BY <1>1, <1>2, <1>3 DEF AuditedOnce

(* Only a patch switches a type that exists on or off.                     *)
LEMMA SwitchAudited ==
  ASSUME Inv, [Next]_vars, NEW t \in TypeCode, rows[Type(t)] > 0, active'[t] # active[t],
         NEW e, e = Patched(t, IF active'[t] THEN "activated" ELSE "deactivated")
  PROVE  audit'[e] = audit[e] + 1
  <1>1. ASSUME NEW q \in Request, CommitSeed(q)
        PROVE  FALSE
    <2>1. CASE Type(t) \in job[q].added
      BY <1>1, <2>1, CommitSeedEffect
    <2>2. CASE Type(t) \notin job[q].added
      BY <1>1, <2>2, CommitSeedEffect
    <2>3. QED
      BY <2>1, <2>2
  <1>2. ASSUME NEW q \in Request, NEW isActive \in BOOLEAN, CommitCreate(q, isActive)
        PROVE  FALSE
    <2>1. CASE Type(t) = job[q].key
      <3>1. rows[Type(t)] = 0
        BY <1>2, <2>1, CommitCreateEffect, Zenon
      <3>2. QED
        BY <3>1
    <2>2. CASE Type(t) # job[q].key
      BY <1>2, <2>2, CommitCreateEffect
    <2>3. QED
      BY <2>1, <2>2
  <1>3. ASSUME NEW q \in Request, CommitVersion(q)
        PROVE  FALSE
    BY <1>3, CommitVersionEffect
  <1>4. PICK q \in Request : CommitPatch(q)
    BY <1>1, <1>2, <1>3, RecordingSteps
  <1>5. /\ job[q].type \in TypeCode /\ job[q].wanted \in BOOLEAN \cup {None}
        /\ job[q].old \in BOOLEAN /\ active \in [TypeCode -> BOOLEAN]
    BY <1>4 DEF CommitPatch, Inv, JobOK, TypeOK, Job
  <1>6. /\ job[q].wanted \notin {None, job[q].old} /\ job[q].type = t
        /\ active'[t] = job[q].wanted
    BY <1>4, <1>5 DEF CommitPatch
  <1>7. PatchAction(q) = IF active'[t] THEN "activated" ELSE "deactivated"
    BY <1>5, <1>6 DEF PatchAction
  <1>8. Record(e)
    BY <1>4, <1>6, <1>7 DEF CommitPatch
  <1>9. e \in Event
    BY EventKeys DEF PatchActions
  <1>10. QED
    BY <1>8, <1>9 DEF Record, Inv, TypeOK

(* Every version from the second on is audited exactly once, the first at  *)
(* most once, nothing that did not happen is, and the commit that switches *)
(* a type audits the switch it made.                                       *)
THEOREM AuditFollowsChanges == Spec => ChangesAreAudited
  <1>1. Init => \A t \in TypeCode : AuditOK(t)
    <2> SUFFICES ASSUME Init, NEW t \in TypeCode
                 PROVE  AuditOK(t)
      OBVIOUS
    <2>1. \A n \in 1 .. MaxVersion : audit[Published(t, n)] = 0 /\ n > 0
      BY EventsDiffer, CatalogAssumption DEF Init
    <2>2. QED
      BY <2>1, EmptyChain DEF Init, AuditOK, AuditedOnce
  <1>2. Inv /\ (\A t \in TypeCode : AuditOK(t)) /\ [Next]_vars
          => (\A t \in TypeCode : AuditOK(t))'
    BY AuditStep
  <1>3. Inv /\ (\A t \in TypeCode : AuditOK(t)) => PublicationsAudited
    BY AuditMatches DEF Inv
  <1>4. ASSUME Inv, [Next]_vars
        PROVE  [\A t \in TypeCode :
                  rows[Type(t)] > 0 /\ active'[t] # active[t] =>
                    LET e == Patched(t, IF active'[t] THEN "activated" ELSE "deactivated")
                    IN  audit'[e] = audit[e] + 1]_vars
    BY <1>4, SwitchAudited
  <1>5. QED
    BY InvHolds, <1>1, <1>2, <1>3, <1>4, PTL DEF Spec, ChangesAreAudited

-----------------------------------------------------------------------------
(* The refinement: the history of a type is read off its chain.            *)

Authors(V) ==
  [n \in 1 .. Cardinality(V) |-> (CHOOSE v \in V : v.number = n).author]

InForce(V) == {v.number : v \in {w \in V : w.current}}

LengthMap == [t \in TypeCode |-> Cardinality(versions[t])]
AuthorMap == [t \in TypeCode |-> Authors(versions[t])]
InForceMap == [t \in TypeCode |-> InForce(versions[t])]

(* W is the chain of n versions V and one more, by who.                    *)
Extends(V, W, n, who) ==
  /\ n \in Nat /\ n < MaxVersion
  /\ Cardinality(V) = n /\ Cardinality(W) = n + 1
  /\ Authors(W) = [m \in 1 .. n + 1 |-> IF m <= n THEN Authors(V)[m] ELSE who]
  /\ InForce(W) = {n + 1}

LEMMA AuthorOfVersion ==
  ASSUME NEW V, NEW n, IsChain(V, n), NEW v \in V
  PROVE  v.number \in 1 .. n /\ Authors(V)[v.number] = v.author
  <1>1. NumbersOf(V) = 1 .. n /\ Cardinality(V) = n
    BY ChainLength DEF IsChain
  <1>2. v.number \in 1 .. n
    BY <1>1 DEF NumbersOf
  <1>3. (CHOOSE w \in V : w.number = v.number) = v
    BY DEF IsChain
  <1>4. QED
    BY <1>1, <1>2, <1>3 DEF Authors

LEMMA NextExtends ==
  ASSUME NEW V, NEW n, IsChain(V, n), NEW W, IsChain(W, n + 1),
         NEW at \in 1 .. MaxClock, NEW new, new.number = n + 1,
         IsNext(V, W, n, at, new)
  PROVE  Extends(V, W, n, new.author)
  <1>1. n \in Nat /\ Cardinality(V) = n /\ Cardinality(W) = n + 1
    BY ChainLength
  <1>2. n < MaxVersion
    BY <1>1, CatalogAssumption DEF IsChain
  <1>3. ASSUME NEW m \in 1 .. n + 1
        PROVE  Authors(W)[m] = IF m <= n THEN Authors(V)[m] ELSE new.author
    <2>1. CASE m <= n
      <3>1. m \in NumbersOf(V)
        BY <1>1, <2>1 DEF IsChain
      <3>2. PICK v \in V : v.number = m
        BY <3>1 DEF NumbersOf
      <3>3. PICK x : x = After(v, n, at)
        OBVIOUS
      <3>4. x \in W /\ x.number = m /\ x.author = v.author
        BY <3>2, <3>3, AfterRow DEF IsNext
      <3>5. Authors(W)[m] = x.author
        BY <3>4, AuthorOfVersion
      <3>6. Authors(V)[m] = v.author
        BY <3>2, AuthorOfVersion
      <3>7. QED
        BY <2>1, <3>4, <3>5, <3>6
    <2>2. CASE ~(m <= n)
      <3>1. m = n + 1 /\ new \in W
        BY <1>1, <2>2 DEF IsNext
      <3>2. Authors(W)[m] = new.author
        BY <3>1, AuthorOfVersion
      <3>3. QED
        BY <2>2, <3>2
    <2>3. QED
      BY <2>1, <2>2
  <1>4. Authors(W) = [m \in 1 .. n + 1 |-> Authors(W)[m]]
    BY <1>1 DEF Authors
  <1>5. Authors(W) = [m \in 1 .. n + 1 |-> IF m <= n THEN Authors(V)[m] ELSE new.author]
    BY <1>3, <1>4
  <1>6. InForce(W) = {n + 1}
    <2>1. \A v \in W : v.current <=> v.number = n + 1
      BY DEF IsChain
    <2>2. new \in W
      BY DEF IsNext
    <2>3. QED
      BY <2>1, <2>2 DEF InForce
  <1>7. QED
    BY <1>1, <1>2, <1>5, <1>6 DEF Extends

(* The first version extends the empty chain.                              *)
LEMMA FirstExtends ==
  ASSUME NEW at \in 1 .. MaxClock, NEW who \in Request \cup {None}
  PROVE  Extends({}, {FirstVersion(at, who)}, 0, who)
  <1>1. PICK new, W : new = FirstVersion(at, who) /\ W = {new}
    OBVIOUS
  <1>2. new.number = 1 /\ new.author = who
    BY <1>1 DEF FirstVersion
  <1>3. IsChain({}, 0) /\ IsChain(W, 0 + 1)
    BY <1>1, EmptyChain, FirstChain
  <1>4. IsNext({}, W, 0, at, new)
    BY <1>1 DEF IsNext
  <1>5. Extends({}, W, 0, new.author)
    BY <1>2, <1>3, <1>4, NextExtends
  <1>6. QED
    BY <1>1, <1>2, <1>5

(* A step that extends one history is a publication.                       *)
LEMMA PublishRefines ==
  ASSUME Inv, NEW t \in TypeCode, NEW n, NEW who \in Request \cup {None},
         Extends(versions[t], versions'[t], n, who),
         \A u \in TypeCode \ {t} : versions'[u] = versions[u]
  PROVE  History!Next
  <1>1. /\ n \in Nat /\ n < MaxVersion
        /\ LengthMap[t] = n /\ LengthMap'[t] = n + 1
        /\ AuthorMap'[t] = [m \in 1 .. n + 1 |-> IF m <= n THEN AuthorMap[t][m] ELSE who]
        /\ InForceMap'[t] = {n + 1}
    BY DEF Extends, LengthMap, AuthorMap, InForceMap
  <1>2. \A u \in TypeCode \ {t} :
          LengthMap'[u] = LengthMap[u] /\ AuthorMap'[u] = AuthorMap[u]
            /\ InForceMap'[u] = InForceMap[u]
    BY DEF LengthMap, AuthorMap, InForceMap
  <1>3. /\ LengthMap' = [LengthMap EXCEPT ![t] = LengthMap[t] + 1]
        /\ AuthorMap' = [AuthorMap EXCEPT ![t] =
             [m \in 1 .. LengthMap[t] + 1 |->
                IF m <= LengthMap[t] THEN AuthorMap[t][m] ELSE who]]
        /\ InForceMap' = [InForceMap EXCEPT ![t] = {LengthMap[t] + 1}]
    <2>1. LengthMap' = [LengthMap EXCEPT ![t] = LengthMap[t] + 1]
      BY <1>1, <1>2 DEF LengthMap
    <2>2. AuthorMap' = [AuthorMap EXCEPT ![t] =
            [m \in 1 .. LengthMap[t] + 1 |->
               IF m <= LengthMap[t] THEN AuthorMap[t][m] ELSE who]]
      <3>1. AuthorMap'[t] = [m \in 1 .. LengthMap[t] + 1 |->
               IF m <= LengthMap[t] THEN AuthorMap[t][m] ELSE who]
        BY <1>1
      <3>2. QED
        BY <1>2, <3>1 DEF AuthorMap
    <2>3. InForceMap' = [InForceMap EXCEPT ![t] = {LengthMap[t] + 1}]
      BY <1>1, <1>2 DEF InForceMap
    <2>4. QED
      BY <2>1, <2>2, <2>3
  <1>4. LengthMap[t] < MaxVersion
    BY <1>1
  <1>5. History!Publish(t, who)
    BY <1>3, <1>4 DEF History!Publish, LengthMap, AuthorMap, InForceMap, Authors, InForce
  <1>6. QED
    BY <1>5 DEF History!Next

(* The commit of a load gives each type it brings its first version.       *)
LEMMA LoadRefines ==
  ASSUME Inv, NEW q \in Request, CommitSeed(q)
  PROVE  History!Next
  <1>0. PICK new : new = {t \in TypeCode : Type(t) \in job[q].added}
    OBVIOUS
  <1>1. ASSUME NEW t \in new
        PROVE  /\ LengthMap[t] = 0 /\ LengthMap'[t] = 1
               /\ AuthorMap'[t] = [n \in 1 .. 1 |-> None]
               /\ InForceMap'[t] = {1}
    <2>1. /\ t \in TypeCode /\ versions[t] = {} /\ job[q].stamp \in 1 .. MaxClock
          /\ versions'[t] = {FirstVersion(job[q].stamp, None)}
      BY <1>0, <1>1, CommitSeedEffect
    <2>2. PICK V, W : V = versions[t] /\ W = versions'[t]
      OBVIOUS
    <2>3. Extends(V, W, 0, None)
      BY <2>1, <2>2, FirstExtends
    <2>4. /\ Cardinality(V) = 0 /\ Cardinality(W) = 1 /\ InForce(W) = {1}
          /\ Authors(W) = [n \in 1 .. 1 |-> IF n <= 0 THEN Authors(V)[n] ELSE None]
      BY <2>3 DEF Extends
    <2>5. Authors(W) = [n \in 1 .. 1 |-> None]
      BY <2>4
    <2>6. QED
      BY <2>1, <2>2, <2>4, <2>5 DEF LengthMap, AuthorMap, InForceMap
  <1>2. ASSUME NEW t \in TypeCode \ new
        PROVE  /\ LengthMap'[t] = LengthMap[t] /\ AuthorMap'[t] = AuthorMap[t]
               /\ InForceMap'[t] = InForceMap[t]
    <2>1. versions'[t] = versions[t]
      BY <1>0, <1>2, CommitSeedEffect
    <2>2. QED
      BY <2>1 DEF LengthMap, AuthorMap, InForceMap
  <1>3. new \in SUBSET TypeCode
    BY <1>0
  <1>4. /\ LengthMap' = [t \in TypeCode |-> IF t \in new THEN 1 ELSE LengthMap[t]]
        /\ AuthorMap' = [t \in TypeCode |->
                           IF t \in new THEN [n \in 1 .. 1 |-> None] ELSE AuthorMap[t]]
        /\ InForceMap' = [t \in TypeCode |-> IF t \in new THEN {1} ELSE InForceMap[t]]
    <2>1. LengthMap' = [t \in TypeCode |-> IF t \in new THEN 1 ELSE LengthMap[t]]
      BY <1>1, <1>2 DEF LengthMap
    <2>2. AuthorMap' = [t \in TypeCode |->
                          IF t \in new THEN [n \in 1 .. 1 |-> None] ELSE AuthorMap[t]]
      BY <1>1, <1>2 DEF AuthorMap
    <2>3. InForceMap' = [t \in TypeCode |-> IF t \in new THEN {1} ELSE InForceMap[t]]
      BY <1>1, <1>2 DEF InForceMap
    <2>4. QED
      BY <2>1, <2>2, <2>3
  <1>5. \A t \in new : LengthMap[t] = 0
    BY <1>1
  <1>6. History!Load(new, None)
    BY <1>4, <1>5 DEF History!Load, LengthMap, AuthorMap, InForceMap, Authors, InForce
  <1>7. QED
    BY <1>3, <1>6 DEF History!Next

LEMMA CreateRefines ==
  ASSUME Inv, NEW q \in Request, NEW isActive \in BOOLEAN, CommitCreate(q, isActive)
  PROVE  History!Next \/ UNCHANGED <<LengthMap, AuthorMap, InForceMap>>
  <1>1. \A u \in TypeCode : Type(u) # job[q].key => versions'[u] = versions[u]
    BY CommitCreateEffect
  <1>2. CASE \E t \in TypeCode : Type(t) = job[q].key /\ job[q].policy # None
    <2>1. PICK t \in TypeCode : Type(t) = job[q].key /\ job[q].policy # None
      BY <1>2
    <2>2. /\ versions[t] = {} /\ job[q].stamp \in 1 .. clock /\ job[q].stamp <= MaxClock
          /\ versions'[t] = {FirstVersion(job[q].stamp, q)}
      BY <2>1, CommitCreateEffect
    <2>3. job[q].stamp \in 1 .. MaxClock
      BY <2>2, StampType, CatalogAssumption DEF Inv
    <2>4. Extends(versions[t], versions'[t], 0, q)
      BY <2>2, <2>3, FirstExtends
    <2>5. \A u \in TypeCode \ {t} : versions'[u] = versions[u]
      BY <1>1, <2>1, TypeKeys
    <2>6. QED
      BY <2>4, <2>5, PublishRefines
  <1>3. CASE ~\E t \in TypeCode : Type(t) = job[q].key /\ job[q].policy # None
    <2>1. ASSUME NEW u \in TypeCode, Type(u) = job[q].key
          PROVE  versions'[u] = versions[u]
      <3>1. versions[u] = {} /\ versions'[u] = {}
        BY <1>3, <2>1, CommitCreateEffect
      <3>2. QED
        BY <3>1
    <2>2. \A u \in TypeCode : versions'[u] = versions[u]
      BY <1>1, <2>1
    <2>3. QED
      BY <2>2 DEF LengthMap, AuthorMap, InForceMap
  <1>4. QED
    BY <1>2, <1>3

LEMMA VersionRefines ==
  ASSUME Inv, NEW q \in Request, CommitVersion(q)
  PROVE  History!Next
  <1>1. PICK t, n, at, new : /\ t = job[q].type /\ n = job[q].number - 1
                             /\ at = job[q].stamp /\ new = NewVersion(q)
    OBVIOUS
  <1>2. /\ t \in TypeCode /\ n + 1 = job[q].number
        /\ IsChain(versions[t], n) /\ IsChain(versions'[t], n + 1)
        /\ IsNext(versions[t], versions'[t], n, at, new)
        /\ versions' = [versions EXCEPT ![t] = versions'[t]]
    BY <1>1, CommitVersionEffect
  <1>3. at \in 1 .. MaxClock
    BY <1>1, StampType DEF CommitVersion, Inv, JobOK, TypeOK, Job
  <1>4. new.number = n + 1 /\ new.author = q
    BY <1>1, <1>2, NewVersionRow DEF CommitVersion
  <1>5. Extends(versions[t], versions'[t], n, q)
    BY <1>2, <1>3, <1>4, NextExtends
  <1>6. \A u \in TypeCode \ {t} : versions'[u] = versions[u]
    BY <1>2 DEF Inv, TypeOK
  <1>7. QED
    BY <1>2, <1>5, <1>6, PublishRefines

LEMMA InitRefines == Init => History!Init
  <1> SUFFICES ASSUME Init PROVE History!Init
    OBVIOUS
  <1>1. \A t \in TypeCode : versions[t] = {}
    BY DEF Init
  <1>2. Cardinality({}) = 0 /\ 1 .. 0 = {}
    BY FS_EmptySet
  <1>3. LengthMap = [t \in TypeCode |-> 0]
    BY <1>1, <1>2 DEF LengthMap
  <1>4. InForceMap = [t \in TypeCode |-> {}]
    BY <1>1 DEF InForceMap, InForce
  <1>5. AuthorMap = [t \in TypeCode |-> [n \in {} |-> n]]
    <2>1. Authors({}) = [n \in {} |-> n]
      BY <1>2 DEF Authors
    <2>2. QED
      BY <1>1, <2>1 DEF AuthorMap
  <1>6. QED
    BY <1>3, <1>4, <1>5 DEF History!Init, LengthMap, AuthorMap, InForceMap, Authors, InForce

(* Seen from outside, whatever is created, published or loaded, and        *)
(* whoever waits or fails, appends to the histories or leaves them alone,  *)
(* and the version in force is always the last.                            *)
THEOREM HistoryRefinement == Spec => ImplementsHistory
  <1>1. ASSUME Inv, [Next]_vars
        PROVE  [History!Next]_<<LengthMap, AuthorMap, InForceMap>>
    <2>1. CASE UNCHANGED versions
      BY <2>1 DEF LengthMap, AuthorMap, InForceMap
    <2>2. QED
      BY <1>1, <2>1, CommitSteps, CreateRefines, VersionRefines, LoadRefines
  <1>2. QED
    BY InvHolds, InitRefines, <1>1, PTL
    DEF Spec, ImplementsHistory, History!Spec, LengthMap, AuthorMap, InForceMap,
        Authors, InForce
=============================================================================
