------------------------- MODULE OrganizationProofs -------------------------
(***************************************************************************)
(* Theorems about Organization, for any numbers of requests, rows, codes,  *)
(* permissions and locations.                                              *)
(*                                                                         *)
(* The properties follow from what locks say about positions: a handler    *)
(* about to commit still finds what it needs (ReadyToCreate and the like), *)
(* because Apart keeps whoever would take it away from being about to      *)
(* commit as well.                                                         *)
(***************************************************************************)
EXTENDS Organization, TLAPS

-----------------------------------------------------------------------------
(* The inductive invariant.                                                *)

(* What a row of each table may refer to.                                  *)
ParentOK(k, parent) ==
  /\ k \in Org => parent = None
  /\ k \in Branch \cup User => parent \in Org
  /\ k \in Warehouse \cup Series => parent \in Branch
  /\ k \in Role => parent \in Org \cup {None}

RowOK(k) ==
  \/ row[k] = NoRow \/ row[k] = Deleted
  \/ /\ Present(k)
     /\ ParentOK(k, row[k].parent)
     /\ row[k].code \in Code
     /\ row[k].location # None => row[k].location \in locations

Known(k) == k \in Key /\ row[k] # NoRow

(* What create_... has read: its key is new, and its parent has existed.   *)
CreateOK(q) ==
  LET k == job[q].key
      new == job[q].new
  IN  /\ k \in Key /\ row[k] = NoRow
      /\ new.state = "present" /\ new.code \in Code /\ ParentOK(k, new.parent)
      /\ new.parent # None => Known(new.parent)
      /\ job[q].targets \subseteq Role /\ (k \notin User => job[q].targets = {})
      /\ ~Located(k) \/ job[q].needsLocation => new.location = None
      /\ k \in Branch => job[q].needsLocation
      /\ ~Located(k) => ~job[q].needsLocation
      /\ Located(k) /\ ~job[q].needsLocation /\ Present(new.parent) =>
           new.location = BranchLocation(new.parent)

(* And what it still finds when it commits.                                *)
ReadyToCreate(q) ==
  LET new == job[q].new
  IN  /\ new.parent # None => Present(new.parent)
      /\ Duplicates(job[q].key, new.parent, new.code) = {}
      /\ \A r \in job[q].targets : Present(r)

UpdateOK(q) ==
  LET k == job[q].key
      location == job[q].new.location
  IN  /\ Known(k)
      /\ job[q].edits \subseteq locations
      /\ k \notin Warehouse => ~job[q].needsLocation /\ location = None
      /\ k \in Warehouse =>
           /\ \A b \in Branch : Present(b) => row[b].location \notin job[q].edits
           /\ job[q].needsLocation => location = None
           /\ location # None /\ Present(k) => location = BranchLocation(row[k].parent)

DeleteOK(q) ==
  LET k == job[q].key
  IN  /\ Known(k) /\ k \notin User
      /\ job[q].targets \subseteq Role /\ (k \notin Org => job[q].targets = {})
      /\ \A t \in job[q].targets :
           Known(t) /\ (Present(t) => row[t].parent \in {k, None})

(* The roles of a deleted organization become global.                      *)
ReadyToUnlink(q) ==
  \A t \in job[q].targets :
    Present(t) /\ Duplicates(t, None, row[t].code) \subseteq {t}

ReadyToDelete(q) ==
  /\ Children(job[q].key) \subseteq job[q].targets
  /\ \A u \in User : job[q].key \notin links[u]

(* What is linked was found, or linked by others since.                    *)
AssignOK(q) ==
  LET k == job[q].key
  IN  /\ k \in Role \cup User /\ Known(k)
      /\ k \in User => Present(k) /\ job[q].targets \subseteq Role
      /\ k \in Role => job[q].targets \subseteq Permission
      /\ links[k] \subseteq job[q].gone \cup job[q].since

ReadyToAssign(q) ==
  \A c \in Referenced(job[q].key, job[q].targets) : Present(c)

(* LocationsArePrivate, as far as rows go.                                 *)
LocationsApart ==
  \A k, c \in Branch \cup Warehouse :
    /\ Present(k) /\ Present(c) /\ k # c
    /\ row[k].location = row[c].location
    => \E b \in Branch : /\ row[b].location = row[k].location
                         /\ {k, c} \subseteq {b} \cup Children(b)

(* As long as nobody else has committed, everything is as it was read.     *)
StillAsRead(q) ==
  LET k == job[q].key
      new == job[q].new
  IN  /\ pc[q] = "insert" =>
           /\ new.parent # None => Present(new.parent)
           /\ Duplicates(k, new.parent, new.code) = {}
      /\ pc[q] = "update" => Present(k)
      /\ pc[q] = "unlink" => \A t \in job[q].targets : Present(t)
      /\ pc[q] \in {"unlink", "delete"} =>
           Children(k) \subseteq job[q].targets \cup Series \cup User
      /\ pc[q] = "link" => links[k] \subseteq job[q].gone

Doing(q, op) == job[q].op = op

(* What a handler knows at each position.                                  *)
JobOK(q) ==
  /\ pc[q] = "idle" => job[q] = NoJob
  /\ pc[q] = "insert" => Doing(q, "create") /\ job[q].targets = {}
  /\ pc[q] = "update" => Doing(q, "update")
  /\ pc[q] = "unlink" => Doing(q, "delete") /\ job[q].key \in Org
  /\ pc[q] = "delete" => Doing(q, "delete")
  /\ pc[q] = "link" => Doing(q, "assign")
  /\ pc[q] = "commit" => job[q].op # None
  /\ Doing(q, "create") => CreateOK(q)
  /\ Doing(q, "update") => UpdateOK(q)
  /\ Doing(q, "delete") => DeleteOK(q)
  /\ Doing(q, "assign") => AssignOK(q)
  /\ pc[q] \in {"delete", "commit"} /\ Doing(q, "delete") => ReadyToUnlink(q)
  /\ pc[q] = "commit" =>
       /\ Doing(q, "create") => ReadyToCreate(q)
       /\ Doing(q, "update") => Present(job[q].key)
       /\ Doing(q, "delete") => ReadyToDelete(q)
       /\ Doing(q, "assign") => ReadyToAssign(q)
  /\ ~Doing(q, "update") => job[q].edits = {}
  /\ ~job[q].raced => StillAsRead(q)

(* r will commit a row that refers to k.                                   *)
Needs(r, k) ==
  /\ pc[r] = "commit"
  /\ \/ Doing(r, "create") /\ (job[r].new.parent = k \/ k \in job[r].targets)
     \/ Doing(r, "assign") /\ k \in Referenced(job[r].key, job[r].targets)

(* r will commit a row with this parent and code into the table of k.      *)
Adds(r, k, parent, code) ==
  \/ /\ pc[r] = "commit" /\ Doing(r, "create")
     /\ SameTable(k, job[r].key) /\ job[r].new.code = code
     /\ k \in User \/ job[r].new.parent = parent
  \/ k \in Role /\ parent = None /\ \E t \in Unlinking(r) : row[t].code = code

(* What locks and unique indexes keep apart.                               *)
Apart(q, r) ==
  /\ Doing(q, "create") => job[r].key # job[q].key
  /\ pc[q] = "commit" /\ Doing(q, "delete") =>
       ~Writes(r, job[q].key) /\ ~Needs(r, job[q].key)
  /\ pc[q] = "commit" /\ Doing(q, "create") =>
       ~Adds(r, job[q].key, job[q].new.parent, job[q].new.code)
  /\ \A t \in Unlinking(q) : ~Adds(r, t, None, row[t].code)

Inv ==
  /\ TypeOK
  /\ \A k \in Key : RowOK(k)
  /\ ReferencesHold
  /\ CodesAreUnique
  /\ LocationsApart
  /\ \A q \in Request : JobOK(q)
  /\ \A q, r \in Request : q # r => Apart(q, r)

-----------------------------------------------------------------------------
(* Keys and rows.                                                          *)

LEMMA Tables ==
  /\ \A k \in Org : k \notin Branch \cup Warehouse \cup Series \cup Role \cup User
  /\ \A k \in Branch : k \notin Org \cup Warehouse \cup Series \cup Role \cup User
  /\ \A k \in Warehouse : k \notin Org \cup Branch \cup Series \cup Role \cup User
  /\ \A k \in Series : k \notin Org \cup Branch \cup Warehouse \cup Role \cup User
  /\ \A k \in Role : k \notin Org \cup Branch \cup Warehouse \cup Series \cup User
  /\ \A k \in User : k \notin Org \cup Branch \cup Warehouse \cup Series \cup Role
  /\ None \notin Key /\ None \notin Location /\ None \notin Code
  /\ None \notin {"create", "update", "delete", "assign"}
  /\ Org \cup Branch \cup Warehouse \cup Series \cup Role \cup User \subseteq Key
  BY OrganizationAssumption DEF Key, Operation

LEMMA SameTables ==
  /\ \A k, c : SameTable(k, c) => SameTable(c, k)
  /\ \A k, c, x : SameTable(k, c) /\ SameTable(c, x) => SameTable(k, x)
  /\ \A k, c :
       SameTable(k, c) => /\ k \in Role <=> c \in Role
                          /\ k \in User <=> c \in User
  /\ \A k, c \in Role : SameTable(k, c)
  <1>1. \A k, c : SameTable(k, c) <=> \/ k \in Org /\ c \in Org
                                      \/ k \in Branch /\ c \in Branch
                                      \/ k \in Warehouse /\ c \in Warehouse
                                      \/ k \in Series /\ c \in Series
                                      \/ k \in Role /\ c \in Role
                                      \/ k \in User /\ c \in User
    BY DEF SameTable
  <1>2. QED
    BY <1>1, Tables

LEMMA Rows ==
  /\ NoRow.state = "unused" /\ NoRow.parent = None /\ NoRow.location = None
  /\ Deleted.state = "deleted" /\ Deleted.parent = None /\ Deleted.location = None
  /\ Deleted # NoRow
  /\ NoRow \in RowOfTable /\ Deleted \in RowOfTable
  BY DEF NoRow, Deleted, RowOfTable

LEMMA PresentRow ==
  ASSUME NEW k \in Key, RowOK(k)
  PROVE  /\ Present(k) => /\ row[k] # NoRow /\ ParentOK(k, row[k].parent)
                          /\ row[k].code \in Code
         /\ ~Present(k) => row[k] \in {NoRow, Deleted}
  BY Rows DEF RowOK, Present

LEMMA NoJobType == NoJob \in JobOfHandler
  BY Rows DEF NoJob, JobOfHandler

-----------------------------------------------------------------------------
(* Steps that commit nothing.                                              *)

OthersSame(q) == \A r \in Request : r # q => pc'[r] = pc[r] /\ job'[r] = job[r]

Positions == {"idle", "insert", "update", "unlink", "delete", "link", "commit"}

LEMMA GotoType ==
  ASSUME TypeOK, NEW q \in Request, NEW step \in Positions, NEW work \in JobOfHandler,
         Goto(q, step, work), UNCHANGED tables
  PROVE  TypeOK' /\ OthersSame(q) /\ pc'[q] = step /\ job'[q] = work
  BY DEF TypeOK, Goto, tables, Positions, OthersSame

LEMMA FinishType ==
  ASSUME TypeOK, NEW q \in Request,
         NEW answer \in {"none", "done", "error", "not_found", "conflict"},
         Finish(q, answer), UNCHANGED tables
  PROVE  TypeOK' /\ OthersSame(q) /\ pc'[q] = "idle" /\ job'[q] = NoJob
  BY NoJobType DEF TypeOK, Finish, tables, OthersSame

Rests(r) == pc'[r] = pc[r] /\ job'[r] = job[r]

(* What is known of a handler that rests stays as it was.                  *)
LEMMA QuietJobs ==
  ASSUME UNCHANGED tables, NEW r \in Request, Rests(r), JobOK(r)
  PROVE  JobOK(r)'
  <1>1. /\ pc'[r] = pc[r] /\ job'[r] = job[r]
        /\ row' = row /\ links' = links /\ locations' = locations
    BY DEF Rests, tables
  <1>2. CreateOK(r)' <=> CreateOK(r)
    BY <1>1 DEF CreateOK, Present, Known, BranchLocation
  <1>3. UpdateOK(r)' <=> UpdateOK(r)
    BY <1>1 DEF UpdateOK, Present, Known, BranchLocation
  <1>4. DeleteOK(r)' <=> DeleteOK(r)
    BY <1>1 DEF DeleteOK, Present, Known
  <1>5. AssignOK(r)' <=> AssignOK(r)
    BY <1>1 DEF AssignOK, Present, Known
  <1>6. ReadyToCreate(r)' <=> ReadyToCreate(r)
    BY <1>1 DEF ReadyToCreate, Present, Duplicates, Collides
  <1>7. ReadyToUnlink(r)' <=> ReadyToUnlink(r)
    BY <1>1 DEF ReadyToUnlink, Present, Duplicates, Collides
  <1>8. ReadyToDelete(r)' <=> ReadyToDelete(r)
    BY <1>1 DEF ReadyToDelete, Present, Children
  <1>9. ReadyToAssign(r)' <=> ReadyToAssign(r)
    BY <1>1 DEF ReadyToAssign, Present, Referenced
  <1>10. StillAsRead(r)' <=> StillAsRead(r)
    BY <1>1 DEF StillAsRead, Present, Duplicates, Collides, Children
  <1>11. \A op : Doing(r, op)' <=> Doing(r, op)
    BY <1>1 DEF Doing
  <1>12. Present(job[r].key)' <=> Present(job[r].key)
    BY <1>1 DEF Present
  <1>13. QED
    BY <1>1, <1>2, <1>3, <1>4, <1>5, <1>6, <1>7, <1>8, <1>9, <1>10, <1>11, <1>12
       DEF JobOK

LEMMA QuietPairs ==
  ASSUME UNCHANGED tables, NEW r \in Request, Rests(r), NEW s \in Request, Rests(s),
         Apart(r, s)
  PROVE  Apart(r, s)'
  <1>1. /\ pc'[r] = pc[r] /\ job'[r] = job[r] /\ pc'[s] = pc[s] /\ job'[s] = job[s]
        /\ row' = row
    BY DEF Rests, tables
  <1>2. QED
    BY <1>1 DEF Apart, Writes, Deletes, Unlinking, Needs, Adds, Doing, Referenced

LEMMA QuietTables ==
  ASSUME Inv, UNCHANGED tables
  PROVE  /\ \A k \in Key : RowOK(k)'
         /\ ReferencesHold' /\ CodesAreUnique' /\ LocationsApart'
  <1>1. row' = row /\ links' = links /\ locations' = locations
    BY DEF tables
  <1>2. \A k \in Key : RowOK(k)'
    BY <1>1 DEF Inv, RowOK, Present
  <1>3. ReferencesHold'
    BY <1>1 DEF Inv, ReferencesHold, Present
  <1>4. CodesAreUnique'
    BY <1>1 DEF Inv, CodesAreUnique, Present, Collides
  <1>5. LocationsApart'
    BY <1>1 DEF Inv, LocationsApart, Present, Children
  <1>6. QED
    BY <1>2, <1>3, <1>4, <1>5

LEMMA Quiet ==
  ASSUME Inv, NEW q \in Request, UNCHANGED tables, OthersSame(q), TypeOK', JobOK(q)',
         \A r \in Request : r # q => Apart(q, r)' /\ Apart(r, q)'
  PROVE  Inv'
  <1>1. \A r \in Request : r # q => Rests(r)
    BY DEF OthersSame, Rests
  <1>2. \A r \in Request : JobOK(r)'
    BY <1>1, QuietJobs DEF Inv
  <1>3. \A r, s \in Request : r # s => Apart(r, s)'
    BY <1>1, QuietPairs DEF Inv
  <1>4. QED
    BY <1>2, <1>3, QuietTables DEF Inv

LEMMA Stutters ==
  ASSUME Inv, UNCHANGED vars
  PROVE  Inv'
  <1>1. UNCHANGED tables /\ pc' = pc /\ job' = job /\ reply' = reply
    BY DEF vars
  <1>2. TypeOK'
    BY <1>1 DEF Inv, TypeOK, tables
  <1>3. \A r \in Request : Rests(r)
    BY <1>1 DEF Rests
  <1>4. \A r \in Request : JobOK(r)'
    BY <1>1, <1>3, QuietJobs DEF Inv
  <1>5. \A r, s \in Request : r # s => Apart(r, s)'
    BY <1>1, <1>3, QuietPairs DEF Inv
  <1>6. QED
    BY <1>1, <1>2, <1>4, <1>5, QuietTables DEF Inv

(* A handler that is idle stands in nobody's way.                          *)
IdleIsOK ==
  \A q \in Request :
    pc[q] = "idle" /\ job[q] = NoJob =>
      JobOK(q) /\ \A r \in Request : JobOK(r) => Apart(q, r) /\ Apart(r, q)

LEMMA Idle == IdleIsOK
  <1> SUFFICES ASSUME NEW q \in Request, pc[q] = "idle", job[q] = NoJob
               PROVE  JobOK(q) /\ \A r \in Request : JobOK(r) => Apart(q, r) /\ Apart(r, q)
    BY DEF IdleIsOK
  <1>1. JobOK(q)
    BY Tables DEF JobOK, NoJob, Doing, StillAsRead
  <1>2. ~Doing(q, "create") /\ Unlinking(q) = {} /\ job[q].key = None
    BY Tables DEF Doing, NoJob, Unlinking
  <1>3. \A k : ~Writes(q, k) /\ ~Needs(q, k)
    BY <1>2 DEF Writes, Deletes, Needs
  <1>4. \A k, parent, code : ~Adds(q, k, parent, code)
    BY <1>2 DEF Adds
  <1>5. ASSUME NEW r \in Request, JobOK(r)
        PROVE  Apart(q, r) /\ Apart(r, q)
    <2>1. Doing(r, "create") => job[r].key # None
      BY <1>5, Tables DEF JobOK, CreateOK
    <2>2. Apart(q, r)
      BY <1>2 DEF Apart
    <2>3. Apart(r, q)
      BY <1>2, <1>3, <1>4, <2>1 DEF Apart
    <2>4. QED
      BY <2>2, <2>3
  <1>6. QED
    BY <1>1, <1>5

LEMMA Finishes ==
  ASSUME Inv, NEW q \in Request,
         NEW answer \in {"none", "done", "error", "not_found", "conflict"},
         Finish(q, answer), UNCHANGED tables
  PROVE  Inv'
  <1>1. TypeOK' /\ OthersSame(q) /\ pc'[q] = "idle" /\ job'[q] = NoJob
    BY FinishType DEF Inv
  <1>2. IdleIsOK'
    BY Idle, PTL
  <1>3. \A r \in Request : r # q => JobOK(r)'
    BY <1>1, QuietJobs DEF Inv, OthersSame, Rests
  <1>4. JobOK(q)' /\ \A r \in Request : r # q => Apart(q, r)' /\ Apart(r, q)'
    BY <1>1, <1>2, <1>3 DEF IdleIsOK
  <1>5. QED
    BY <1>1, <1>4, Quiet

(* A handler at its first position has not locked anything yet.            *)
LEMMA Starts ==
  ASSUME Inv, NEW q \in Request, NEW work \in JobOfHandler,
         NEW step \in {"insert", "update", "unlink", "delete", "link"},
         Goto(q, step, work), UNCHANGED tables,
         step = "delete" => work.targets = {},
         work.op = "create" => \A r \in Request : r # q => job[r].key # work.key,
         work.op # "create" => row[work.key] # NoRow,
         JobOK(q)'
  PROVE  Inv'
  <1>1. TypeOK' /\ OthersSame(q) /\ pc'[q] = step /\ job'[q] = work
    BY GotoType DEF Inv, Positions
  <1>2. Unlinking(q)' = {}
    BY <1>1 DEF Unlinking
  <1>3. \A k : ~Writes(q, k)' /\ ~Needs(q, k)'
    BY <1>1, <1>2 DEF Writes, Deletes, Needs
  <1>4. \A k, parent, code : ~Adds(q, k, parent, code)'
    BY <1>1, <1>2 DEF Adds
  <1>5. ASSUME NEW r \in Request, r # q
        PROVE  Apart(q, r)' /\ Apart(r, q)'
    <2>1. pc'[r] = pc[r] /\ job'[r] = job[r] /\ row' = row
      BY <1>1, <1>5 DEF OthersSame, tables
    <2>2. Doing(r, "create") => row[job[r].key] = NoRow /\ job[r].key # job[q].key
      BY <1>5 DEF Inv, JobOK, CreateOK, Apart
    <2>3. Doing(r, "create")' => job'[q].key # job'[r].key
      <3>1. CASE work.op = "create"
        BY <3>1, <2>1, <1>1, <1>5
      <3>2. CASE work.op # "create"
        BY <3>2, <2>1, <2>2, <1>1 DEF Doing
      <3>3. QED
        BY <3>1, <3>2
    <2>4. Doing(q, "create")' => job'[r].key # job'[q].key
      BY <1>1, <1>5, <2>1 DEF Doing
    <2>5. Apart(q, r)'
      BY <1>1, <1>2, <2>4 DEF Apart
    <2>6. Apart(r, q)'
      BY <1>2, <1>3, <1>4, <2>3 DEF Apart
    <2>7. QED
      BY <2>5, <2>6
  <1>6. QED
    BY <1>1, <1>5, Quiet
-----------------------------------------------------------------------------
(* Commits.  Effect says what the four of them have in common.             *)

Creates(q, k) == pc[q] = "commit" /\ Doing(q, "create") /\ job[q].key = k

(* The row of k after the commit of q, if there is one.                    *)
Kept(q, k) ==
  /\ Present(k) /\ row'[k].code = row[k].code
  /\ \/ k \notin Unlinking(q) /\ row'[k].parent = row[k].parent
     \/ k \in Unlinking(q) /\ row'[k].parent = None

Added(q, k) ==
  /\ Creates(q, k)
  /\ row'[k].code = job[q].new.code /\ row'[k].parent = job[q].new.parent

(* And its location: as before, newly inserted, or that of the branch.     *)
LocatedBy(q, k) ==
  \/ Present(k) /\ row'[k].location = row[k].location
  \/ k = job[q].key /\ row'[k].location \in locations' \ locations
  \/ /\ k \in Warehouse /\ Present(row'[k].parent)
     /\ row'[k].location = row[row'[k].parent].location

Effect(q) ==
  /\ locations \subseteq locations'
  /\ \A k \in Key : RowOK(k)'
  /\ \A k \in Key : row[k] # NoRow => row'[k] # NoRow
  /\ \A k \in Key : row[k] = NoRow /\ row'[k] # NoRow => Creates(q, k)
  /\ \A k \in Key : Present(k) /\ ~Deletes(q, k) => Present(k)'
  /\ \A k \in Key : Present(k)' => Kept(q, k) \/ Added(q, k)
  /\ \A k \in Key : Located(k) /\ Present(k)' => LocatedBy(q, k)
  /\ \A b \in Branch : Present(b) /\ Present(b)' => row'[b].location = row[b].location
  /\ \A k \in Role \cup User : links'[k] # {} => Present(k)'
  /\ \A u \in User : \A c \in links'[u] : c \in links[u] \/ Needs(q, c)

(* What other handlers keep while q commits.                               *)
OthersKept(q) ==
  \A r \in Request :
    r # q =>
      /\ pc'[r] = pc[r]
      /\ job'[r].op = job[r].op /\ job'[r].key = job[r].key
      /\ job'[r].new = job[r].new /\ job'[r].targets = job[r].targets
      /\ job'[r].edits = job[r].edits /\ job'[r].needsLocation = job[r].needsLocation
      /\ IF pc[r] = "idle" THEN job'[r] = job[r] ELSE job'[r].raced

LEMMA CommitFrame ==
  ASSUME TypeOK, NEW q \in Request, Commit(q)
  PROVE  /\ OthersKept(q) /\ pc'[q] = "idle" /\ job'[q] = NoJob
         /\ pc' \in [Request -> Positions] /\ job' \in [Request -> JobOfHandler]
         /\ reply' \in [Request -> {"none", "done", "error", "not_found", "conflict"}]
         /\ \A r \in Request : r # q /\ pc[r] # "idle" => job'[r] = Noticed(q, r)
  <1>1. \A r \in Request : r # q => pc'[r] = pc[r]
    BY DEF Commit, TypeOK
  <1>2. \A r \in Request :
          r # q => job'[r] = IF pc[r] = "idle" THEN job[r] ELSE Noticed(q, r)
    BY DEF Commit
  <1>3. ASSUME NEW r \in Request
        PROVE  /\ Noticed(q, r) \in JobOfHandler
               /\ Noticed(q, r).op = job[r].op /\ Noticed(q, r).key = job[r].key
               /\ Noticed(q, r).new = job[r].new
               /\ Noticed(q, r).targets = job[r].targets
               /\ Noticed(q, r).edits = job[r].edits
               /\ Noticed(q, r).needsLocation = job[r].needsLocation
               /\ Noticed(q, r).raced
    <2>1. job[r] \in JobOfHandler /\ job[q] \in JobOfHandler
      BY DEF TypeOK
    <2>2. Noticed(q, r) \in JobOfHandler
      BY ONLY <2>1 DEF Noticed, JobOfHandler
    <2>3. QED
      BY ONLY <2>1, <2>2 DEF Noticed, JobOfHandler
  <1>4. job' \in [Request -> JobOfHandler] /\ job'[q] = NoJob
    BY <1>3, NoJobType DEF Commit, TypeOK
  <1>5. /\ pc' \in [Request -> Positions] /\ pc'[q] = "idle"
        /\ reply' \in [Request -> {"none", "done", "error", "not_found", "conflict"}]
    BY DEF Commit, TypeOK, Positions
  <1>6. OthersKept(q)
    BY <1>1, <1>2, <1>3 DEF OthersKept
  <1>7. QED
    BY <1>2, <1>4, <1>5, <1>6

(* A key that somebody is about to commit as new is in nobody's hands.     *)
LEMMA EffectOnKeys ==
  ASSUME Inv, NEW q \in Request, Effect(q), NEW k \in Key, Known(k)
  PROVE  /\ Known(k)'
         /\ Present(k)' => Kept(q, k)
  <1>1. ~Creates(q, k)
    BY DEF Creates, Inv, JobOK, CreateOK, Known
  <1>2. QED
    BY <1>1 DEF Effect, Added, Known

LEMMA UnlinkedRoles ==
  ASSUME NEW q \in Request, JobOK(q)
  PROVE  /\ Unlinking(q) \subseteq Role
         /\ \A t \in Unlinking(q) :
              /\ Known(t) /\ Present(t) /\ row[t].parent \in {job[q].key, None}
              /\ Duplicates(t, None, row[t].code) \subseteq {t}
  <1>1. Unlinking(q) # {} =>
          Unlinking(q) = job[q].targets /\ DeleteOK(q) /\ ReadyToUnlink(q)
    BY DEF Unlinking, JobOK, Doing
  <1>2. QED
    BY <1>1 DEF DeleteOK, ReadyToUnlink

LEMMA CommittedReferences ==
  ASSUME Inv, NEW q \in Request, pc[q] = "commit", Effect(q), TypeOK'
  PROVE  ReferencesHold'
  <1>1. JobOK(q) /\ \A k \in Key : RowOK(k)
    BY DEF Inv
  <1>2. ASSUME NEW k \in Key, Present(k)', row'[k].parent # None
        PROVE  Present(row[k].parent)'
    <2>1. PICK p : p = row'[k].parent
      OBVIOUS
    <2>2. p \in Key
      <3>1. RowOK(k)'
        BY DEF Effect
      <3>2. QED
        BY <3>1, <2>1, <1>2, Rows, Tables DEF RowOK, ParentOK, Present, Key
    <2>3. Present(p) /\ ~Deletes(q, p)
      <3>1. CASE Kept(q, k)
        <4>1. Present(k) /\ k \notin Unlinking(q) /\ row[k].parent = p
          BY <3>1, <1>2, <2>1 DEF Kept
        <4>2. Present(p)
          BY <4>1, <1>2, <2>1 DEF Inv, ReferencesHold
        <4>3. Deletes(q, p) => k \in Children(p) /\ Children(p) \subseteq Unlinking(q)
          BY <4>1, <1>1 DEF Deletes, Children, JobOK, ReadyToDelete, Doing, Unlinking
        <4>4. QED
          BY <4>1, <4>2, <4>3
      <3>2. CASE Added(q, k)
        <4>1. Doing(q, "create") /\ job[q].new.parent = p
          BY <3>2, <2>1 DEF Added, Creates
        <4>2. Present(p)
          BY <4>1, <1>1, <1>2, <2>1 DEF JobOK, ReadyToCreate
        <4>3. QED
          BY <4>1, <4>2 DEF Deletes, Doing
      <3>3. QED
        BY <3>1, <3>2, <1>2 DEF Effect
    <2>4. Present(p)'
      BY <2>2, <2>3 DEF Effect
    <2>5. QED
      BY <2>1, <2>4
  <1>3. ASSUME NEW k \in Key, Present(k)', Located(k)
        PROVE  row'[k].location \in locations'
    <2>1. locations \subseteq locations' /\ LocatedBy(q, k)
      BY <1>3 DEF Effect
    <2>2. \A c \in Key : Present(c) /\ Located(c) => row[c].location \in locations
      BY DEF Inv, ReferencesHold
    <2>3. CASE k \in Warehouse /\ Present(row'[k].parent)
               /\ row'[k].location = row[row'[k].parent].location
      <3>1. RowOK(k)'
        BY DEF Effect
      <3>2. row'[k].parent \in Branch
        BY <3>1, <2>3, <1>3, Rows DEF RowOK, ParentOK, Present
      <3>3. QED
        BY <3>2, <2>1, <2>2, <2>3, Tables DEF Located
    <2>4. QED
      BY <2>1, <2>2, <2>3, <1>3 DEF LocatedBy
  <1>4. \A k \in Role \cup User : links'[k] # {} => Present(k)'
    BY DEF Effect
  <1>5. ASSUME NEW u \in User, NEW c \in links'[u]
        PROVE  Present(c)'
    <2>1. c \in Role /\ c \in Key /\ (c \in links[u] \/ Needs(q, c))
      BY Tables DEF Effect, TypeOK
    <2>2. CASE c \in links[u]
      <3>1. Present(c)
        BY <2>2 DEF Inv, ReferencesHold
      <3>2. ~Deletes(q, c)
        BY <2>2, <1>1 DEF Deletes, JobOK, ReadyToDelete, Doing
      <3>3. QED
        BY <2>1, <3>1, <3>2 DEF Effect
    <2>3. CASE Needs(q, c)
      <3>1. Present(c)
        BY <2>3, <1>1, <2>1, Tables DEF Needs, JobOK, ReadyToCreate, ReadyToAssign
      <3>2. ~Deletes(q, c)
        BY <2>3 DEF Needs, Deletes, Doing
      <3>3. QED
        BY <2>1, <3>1, <3>2 DEF Effect
    <2>4. QED
      BY <2>1, <2>2, <2>3
  <1>6. QED
    BY <1>2, <1>3, <1>4, <1>5 DEF ReferencesHold

LEMMA CommittedCodes ==
  ASSUME Inv, NEW q \in Request, pc[q] = "commit", Effect(q)
  PROVE  CodesAreUnique'
  <1>1. JobOK(q)
    BY DEF Inv
  <1>2. SUFFICES ASSUME NEW k \in Key, NEW c \in Key, Present(k)', Present(c)',
                        SameTable(k, c), row'[c].code = row'[k].code,
                        k \in User \/ row'[c].parent = row'[k].parent
                 PROVE  k = c
    BY DEF CodesAreUnique, Collides
  <1>3. SameTable(c, k) /\ (k \in User <=> c \in User)
    BY <1>2, SameTables
  <1>4. (Kept(q, k) \/ Added(q, k)) /\ (Kept(q, c) \/ Added(q, c))
    BY <1>2 DEF Effect
  (* A role that loses its organization has a code of its own.             *)
  <1>5. ASSUME NEW x \in Unlinking(q), NEW y \in Key, Present(y), SameTable(x, y),
               row[y].code = row[x].code,
               row[y].parent = None \/ y \in Unlinking(q)
        PROVE  x = y
    <2>1. /\ Present(x) /\ Duplicates(x, None, row[x].code) \subseteq {x}
          /\ Known(x) /\ row[x].parent \in {job[q].key, None}
      BY <1>1, <1>5, UnlinkedRoles
    <2>2. CASE row[y].parent = None
      BY <2>1, <2>2, <1>5 DEF Duplicates, Collides
    <2>3. CASE y \in Unlinking(q) /\ row[y].parent # None
      <3>1. /\ row[y].parent = job[q].key /\ SameTable(y, x)
            /\ Duplicates(y, None, row[y].code) \subseteq {y}
        BY <1>1, <2>3, <1>5, SameTables, UnlinkedRoles
      <3>2. CASE row[x].parent = None
        BY <3>1, <3>2, <2>1, <1>5 DEF Duplicates, Collides, Known
      <3>3. CASE row[x].parent = job[q].key
        <4>1. x \in Key /\ Collides(x, row[x].parent, row[x].code, y)
          BY <3>1, <3>3, <2>1, <1>5 DEF Collides, Known
        <4>2. QED
          BY <4>1, <2>1, <1>5 DEF Inv, CodesAreUnique
      <3>4. QED
        BY <3>2, <3>3, <2>1
    <2>4. QED
      BY <2>2, <2>3, <1>5
  <1>6. CASE Kept(q, k) /\ Kept(q, c)
    <2>1. Present(k) /\ Present(c) /\ row[k].code = row[c].code
      BY <1>2, <1>6 DEF Kept
    <2>2. CASE k \in Unlinking(q)
      <3>1. k \notin User
        BY <1>1, <2>2, Tables, UnlinkedRoles
      <3>2. row[c].parent = None \/ c \in Unlinking(q)
        BY <1>2, <1>6, <2>2, <3>1 DEF Kept
      <3>3. QED
        BY <1>2, <1>5, <2>1, <2>2, <3>2
    <2>3. CASE c \in Unlinking(q)
      <3>1. c \notin User
        BY <1>1, <2>3, Tables, UnlinkedRoles
      <3>2. row[k].parent = None \/ k \in Unlinking(q)
        BY <1>2, <1>3, <1>6, <2>3, <3>1 DEF Kept
      <3>3. QED
        BY <1>3, <1>5, <2>1, <2>3, <3>2
    <2>4. CASE k \notin Unlinking(q) /\ c \notin Unlinking(q)
      <3>1. Collides(k, row[k].parent, row[k].code, c)
        BY <1>2, <1>6, <2>1, <2>4 DEF Kept, Collides
      <3>2. QED
        BY <2>1, <3>1 DEF Inv, CodesAreUnique
    <2>5. QED
      BY <2>2, <2>3, <2>4
  <1>7. ASSUME NEW x \in Key, NEW y \in Key, Added(q, x), Kept(q, y), SameTable(x, y),
               row'[y].code = row'[x].code, x \in User \/ row'[y].parent = row'[x].parent
        PROVE  FALSE
    <2>1. /\ Doing(q, "create") /\ x = job[q].key /\ ReadyToCreate(q)
          /\ row'[x].code = job[q].new.code /\ row'[x].parent = job[q].new.parent
      BY <1>1, <1>7 DEF Added, Creates, JobOK
    <2>2. y \notin Unlinking(q)
      BY <2>1 DEF Unlinking, Doing
    <2>3. /\ Present(y) /\ row[y].code = job[q].new.code
          /\ x \in User \/ row[y].parent = job[q].new.parent
      BY <1>7, <2>1, <2>2 DEF Kept
    <2>4. y \in Duplicates(x, job[q].new.parent, job[q].new.code)
      BY <1>7, <2>3 DEF Duplicates, Collides
    <2>5. QED
      BY <2>1, <2>4 DEF ReadyToCreate
  <1>8. CASE Added(q, k) /\ Kept(q, c)
    BY <1>2, <1>7, <1>8
  <1>9. CASE Kept(q, k) /\ Added(q, c)
    BY <1>2, <1>3, <1>7, <1>9
  <1>10. CASE Added(q, k) /\ Added(q, c)
    BY <1>10 DEF Added, Creates
  <1>11. QED
    BY <1>4, <1>6, <1>8, <1>9, <1>10

(* The branch whose location a row has after the commit.                   *)
LEMMA CommittedLocations ==
  ASSUME Inv, NEW q \in Request, pc[q] = "commit", Effect(q), ReferencesHold'
  PROVE  LocationsApart'
  <1> DEFINE Loc(k) == row'[k].location
             Same(k) == Present(k) /\ Loc(k) = row[k].location
             New(k) == k = job[q].key /\ Loc(k) \in locations' \ locations
             Shared(k) == /\ k \in Warehouse /\ row'[k].parent \in Branch
                          /\ Present(row[k].parent)'
                          /\ Loc(k) = Loc(row'[k].parent)
             Under(k, b) == row'[k].parent = b
  <1>1. \A k \in Branch \cup Warehouse :
          /\ k \in Key /\ Located(k) /\ k \notin Role
          /\ Present(k) => row[k].location \in locations
    BY Tables DEF Inv, ReferencesHold, Located
  <1>2. ASSUME NEW k \in Branch \cup Warehouse, Present(k)'
        PROVE  /\ k \in Branch => row'[k].parent \in Org
               /\ k \in Warehouse => row'[k].parent \in Branch
               /\ Present(row[k].parent)'
    <2>1. RowOK(k)' /\ row'[k] \notin {NoRow, Deleted}
      BY <1>1, <1>2, Rows DEF Effect, Present
    <2>2. ParentOK(k, row'[k].parent)
      BY <2>1 DEF RowOK
    <2>3. row'[k].parent # None
      BY <2>2, <1>2, Tables DEF ParentOK
    <2>4. QED
      BY <1>1, <1>2, <2>2, <2>3 DEF ReferencesHold, ParentOK
  <1>3. ASSUME NEW k \in Branch \cup Warehouse, Present(k)'
        PROVE  Same(k) \/ New(k) \/ Shared(k)
    <2>1. LocatedBy(q, k)
      BY <1>1, <1>3 DEF Effect
    <2>2. ASSUME k \in Warehouse, Present(row'[k].parent), Loc(k) = row[row'[k].parent].location
          PROVE  Shared(k)
      <3>1. PICK b : b = row'[k].parent
        OBVIOUS
      <3>2. b \in Branch /\ Present(b)' /\ Present(b)
        BY <3>1, <2>2, <1>2, <1>3
      <3>3. row'[b].location = row[b].location
        BY <3>2 DEF Effect
      <3>4. QED
        BY <3>1, <3>2, <3>3, <2>2
    <2>3. QED
      BY <2>1, <2>2 DEF LocatedBy
  <1>4. ASSUME NEW k \in Branch \cup Warehouse, NEW c \in Branch \cup Warehouse,
               k # c, Same(k), Same(c), Loc(k) = Loc(c),
               Present(k)', Present(c)'
        PROVE  \E b \in Branch : /\ Present(b)' /\ Loc(b) = Loc(k)
                                 /\ k = b \/ Under(k, b)
                                 /\ c = b \/ Under(c, b)
    <2>1. PICK b \in Branch : /\ row[b].location = row[k].location
                              /\ {k, c} \subseteq {b} \cup Children(b)
      BY <1>4 DEF Inv, LocationsApart
    <2>2. ASSUME NEW x \in Branch \cup Warehouse, x \in Children(b), Present(x)'
          PROVE  Under(x, b) /\ Present(b) /\ Present(b)'
      <3>1. Present(x) /\ row[x].parent = b /\ x \in Key
        BY <2>2 DEF Children
      <3>2. x \notin Unlinking(q)
        BY <1>1, UnlinkedRoles DEF Inv
      <3>3. Known(x)
        BY <3>1, PresentRow DEF Inv, Known
      <3>4. Kept(q, x)
        BY <3>3, <2>2, EffectOnKeys, <1>1
      <3>5. row'[x].parent = b
        BY <3>1, <3>2, <3>4 DEF Kept
      <3>6. Present(b)
        BY <3>1, Tables DEF Inv, ReferencesHold
      <3>7. QED
        BY <3>5, <3>6, <1>2, <2>2
    <2>3. Present(b) /\ Present(b)' /\ (k = b \/ Under(k, b)) /\ (c = b \/ Under(c, b))
      BY <1>4, <2>1, <2>2
    <2>4. Loc(b) = Loc(k)
      BY <1>4, <2>1, <2>3 DEF Effect
    <2>5. QED
      BY <2>3, <2>4
  <1> HIDE DEF Loc
  <1>5. ASSUME NEW a \in Branch, NEW b \in Branch, Present(a)', Present(b)', Loc(a) = Loc(b)
        PROVE  a = b
    <2>1. ~Shared(a) /\ ~Shared(b) /\ ~(\E x \in Branch : Under(a, x) \/ Under(b, x))
      BY <1>2, <1>5, Tables
    <2>2. CASE Same(a) /\ Same(b)
      BY <1>4, <1>5, <2>1, <2>2
    <2>3. CASE ~Same(a) \/ ~Same(b)
      BY <1>1, <1>3, <1>5, <2>1, <2>3
    <2>4. QED
      BY <2>2, <2>3
  <1>6. ASSUME NEW b \in Branch, NEW c \in Branch \cup Warehouse, b # c,
               Present(b)', Present(c)', Loc(b) = Loc(c)
        PROVE  Under(c, b)
    <2>1. c \in Warehouse /\ ~Shared(b) /\ ~(\E x \in Branch : Under(b, x))
      BY <1>2, <1>5, <1>6, Tables
    <2>2. CASE Same(b) /\ Same(c)
      <3>1. PICK x \in Branch : /\ b = x \/ Under(b, x)
                                /\ c = x \/ Under(c, x)
        BY <1>4, <1>6, <2>2
      <3>2. QED
        BY <3>1, <2>1, <1>6
    <2>3. CASE Shared(c)
      BY <1>2, <1>5, <1>6, <2>3
    <2>4. CASE ~Shared(c) /\ (~Same(b) \/ ~Same(c))
      BY <1>1, <1>3, <1>6, <2>1, <2>4
    <2>5. QED
      BY <2>2, <2>3, <2>4
  <1>7. ASSUME NEW k \in Branch \cup Warehouse, NEW c \in Branch \cup Warehouse,
               k # c, Present(k)', Present(c)', Loc(k) = Loc(c)
        PROVE  \E b \in Branch : /\ Loc(b) = Loc(k)
                                 /\ k = b \/ Under(k, b)
                                 /\ c = b \/ Under(c, b)
    <2>1. ASSUME NEW x \in Branch \cup Warehouse, NEW y \in Branch \cup Warehouse,
                 Shared(x), Present(x)', Present(y)', Loc(x) = Loc(y)
          PROVE  \E b \in Branch : Loc(b) = Loc(x) /\ Under(x, b) /\ (y = b \/ Under(y, b))
      <3>1. PICK b \in Branch : b = row'[x].parent
        BY <2>1
      <3>2. Present(b)' /\ Loc(b) = Loc(x)
        BY <3>1, <2>1, <1>2
      <3>3. y = b \/ Under(y, b)
        BY <3>2, <2>1, <1>6
      <3>4. QED
        BY <3>1, <3>2, <3>3
    <2>2. CASE Shared(k)
      BY <1>7, <2>1, <2>2
    <2>3. CASE Shared(c)
      BY <1>7, <2>1, <2>3
    <2>4. CASE Same(k) /\ Same(c)
      BY <1>4, <1>7, <2>4
    <2>5. CASE ~Shared(k) /\ ~Shared(c) /\ (~Same(k) \/ ~Same(c))
      BY <1>1, <1>3, <1>7, <2>5
    <2>6. QED
      BY <2>2, <2>3, <2>4, <2>5
  <1>8. \A k, c \in Branch \cup Warehouse :
          Present(k)' /\ Present(c)' /\ k # c /\ Loc(k) = Loc(c) =>
            \E b \in Branch : /\ Loc(b) = Loc(k)
                              /\ {k, c} \subseteq {b} \cup Children(b)'
    <2>1. \A k \in Branch \cup Warehouse : \A b \in Branch :
            Present(k)' /\ Under(k, b) => k \in Children(b)'
      BY <1>1 DEF Children
    <2>2. QED
      BY <1>7, <2>1
  <1>9. QED
    BY <1>8 DEF LocationsApart, Loc

(* What others need stays, because q does not delete it.                   *)
LEMMA CommittedCreate ==
  ASSUME Inv, NEW q \in Request, pc[q] = "commit", Effect(q), OthersKept(q),
         NEW r \in Request, r # q, Doing(r, "create"),
         NEW k, k = job[r].key, NEW new, new = job[r].new
  PROVE  CreateOK(r)' /\ (pc[r] = "commit" => ReadyToCreate(r)')
  <1>1. /\ job'[r].key = k /\ job'[r].new = new /\ job'[r].targets = job[r].targets
        /\ job'[r].needsLocation = job[r].needsLocation
    BY DEF OthersKept
  <1>2. CreateOK(r) /\ (pc[r] = "commit" => ReadyToCreate(r))
    BY DEF Inv, JobOK
  <1>3. k \in Key /\ row[k] = NoRow /\ ~Creates(q, k)
    <2>1. job[q].key # k
      BY DEF Inv, Apart
    <2>2. QED
      BY <1>2, <2>1 DEF CreateOK, Creates
  <1>4. row'[k] = NoRow
    BY <1>3 DEF Effect
  <1>5. \A c \in Key : Known(c) => Known(c)' /\ (Present(c)' => Kept(q, c))
    BY EffectOnKeys
  <1>6. new.parent # None => Known(new.parent)'
    BY <1>2, <1>5 DEF CreateOK, Known
  <1>7. ASSUME Located(k), ~job[r].needsLocation, Present(new.parent)'
        PROVE  new.location = row'[new.parent].location
    <2>1. new.parent \in Branch
      BY <1>2, <1>7, Tables DEF CreateOK, ParentOK, Located
    <2>2. new.parent \in Key /\ Known(new.parent)
      BY <1>2, <2>1, Tables DEF CreateOK
    <2>3. Present(new.parent)
      BY <1>5, <1>7, <2>2 DEF Kept
    <2>4. row'[new.parent].location = row[new.parent].location
      BY <1>7, <2>1, <2>3 DEF Effect
    <2>5. QED
      BY <1>2, <1>7, <2>3, <2>4 DEF CreateOK, BranchLocation
  <1>8. CreateOK(r)'
    <2>1. /\ new.state = "present" /\ new.code \in Code /\ ParentOK(k, new.parent)
          /\ job[r].targets \subseteq Role /\ (k \notin User => job[r].targets = {})
          /\ ~Located(k) \/ job[r].needsLocation => new.location = None
          /\ k \in Branch => job[r].needsLocation
          /\ ~Located(k) => ~job[r].needsLocation
      BY <1>2 DEF CreateOK
    <2>2. Located(k) /\ ~job[r].needsLocation /\ row'[new.parent].state = "present" =>
            new.location = row'[new.parent].location
      BY <1>7 DEF Present
    <2>3. new.parent # None => new.parent \in Key /\ row'[new.parent] # NoRow
      BY <1>6 DEF Known
    <2>4. QED
      BY <1>1, <1>3, <1>4, <2>1, <2>2, <2>3
         DEF CreateOK, Known, BranchLocation, Present
  <1>9. ASSUME pc[r] = "commit"
        PROVE  ReadyToCreate(r)'
    <2>1. ReadyToCreate(r)
      BY <1>2, <1>9
    <2>2. ASSUME NEW c \in Key, Needs(r, c), Present(c)
          PROVE  Present(c)'
      <3>1. ~Deletes(q, c)
        BY <2>2 DEF Inv, Apart, Deletes, Doing
      <3>2. QED
        BY <2>2, <3>1 DEF Effect
    <2>3. new.parent # None => Present(new.parent)'
      <3>1. new.parent # None =>
              new.parent \in Key /\ Needs(r, new.parent) /\ Present(new.parent)
        BY <1>2, <1>9, <2>1 DEF Needs, CreateOK, Known, ReadyToCreate
      <3>2. QED
        BY <3>1, <2>2
    <2>4. \A t \in job[r].targets : Present(t)'
      <3>1. \A t \in job[r].targets : t \in Key /\ Needs(r, t) /\ Present(t)
        BY <1>2, <1>9, <2>1, Tables DEF Needs, CreateOK, ReadyToCreate
      <3>2. QED
        BY <3>1, <2>2
    <2>5. ASSUME NEW c \in Key, Present(c)', SameTable(k, c),
                 row'[c].code = new.code, k \in User \/ row'[c].parent = new.parent
          PROVE  FALSE
      <3>1. ~Adds(q, k, new.parent, new.code)
        BY <1>9 DEF Inv, Apart
      <3>2. Kept(q, c) \/ Added(q, c)
        BY <2>5 DEF Effect
      <3>3. CASE Added(q, c)
        <4>1. c = job[q].key /\ Doing(q, "create") /\ job[q].new.code = new.code
              /\ (k \in User \/ job[q].new.parent = new.parent)
          BY <2>5, <3>3 DEF Added, Creates
        <4>2. QED
          BY <2>5, <3>1, <4>1 DEF Adds
      <3>4. CASE Kept(q, c) /\ c \in Unlinking(q)
        <4>1. JobOK(q)
          BY DEF Inv
        <4>2. c \in Role
          BY <3>4, <4>1, UnlinkedRoles
        <4>3. k \in Role /\ k \notin User
          BY <4>2, <2>5, SameTables, Tables
        <4>4. new.parent = None /\ row[c].code = new.code
          BY <4>3, <2>5, <3>4 DEF Kept
        <4>5. QED
          BY <3>1, <3>4, <4>3, <4>4 DEF Adds
      <3>5. CASE Kept(q, c) /\ c \notin Unlinking(q)
        <4>1. /\ Present(c) /\ row[c].code = new.code
              /\ k \in User \/ row[c].parent = new.parent
          BY <2>5, <3>5 DEF Kept
        <4>2. c \in Duplicates(k, new.parent, new.code)
          BY <2>5, <4>1 DEF Duplicates, Collides
        <4>3. QED
          BY <2>1, <4>2 DEF ReadyToCreate
      <3>6. QED
        BY <3>2, <3>3, <3>4, <3>5
    <2>6. \A c \in Key :
            ~(/\ row'[c].state = "present" /\ SameTable(k, c)
              /\ row'[c].code = new.code /\ (k \in User \/ row'[c].parent = new.parent))
      BY <2>5 DEF Present
    <2>7. /\ new.parent # None => row'[new.parent].state = "present"
          /\ \A t \in job[r].targets : row'[t].state = "present"
      BY <2>3, <2>4 DEF Present
    <2>8. QED
      BY <1>1, <2>6, <2>7 DEF ReadyToCreate, Duplicates, Collides, Present
  <1>10. QED
    BY <1>8, <1>9

LEMMA CommittedUpdate ==
  ASSUME Inv, NEW q \in Request, pc[q] = "commit", Effect(q), OthersKept(q),
         ReferencesHold', NEW r \in Request, r # q, Doing(r, "update"),
         NEW k, k = job[r].key, NEW location, location = job[r].new.location
  PROVE  UpdateOK(r)' /\ (pc[r] = "commit" => Present(k)')
  <1>1. /\ job'[r].key = k /\ job'[r].new = job[r].new /\ job'[r].edits = job[r].edits
        /\ job'[r].needsLocation = job[r].needsLocation
    BY DEF OthersKept
  <1>2. UpdateOK(r) /\ k \in Key /\ Known(k)
    BY DEF Inv, JobOK, UpdateOK, Known
  <1>3. Known(k)' /\ (Present(k)' => Kept(q, k))
    BY <1>2, EffectOnKeys
  <1>4. job[r].edits \subseteq locations'
    BY <1>2 DEF UpdateOK, Effect
  <1>5. ASSUME k \in Warehouse, NEW b \in Branch, Present(b)'
        PROVE  row'[b].location \notin job[r].edits
    <2>1. LocatedBy(q, b) /\ b \in Key
      BY <1>5, Tables DEF Effect, Located
    <2>2. CASE Present(b)
      BY <1>2, <1>5, <2>2 DEF UpdateOK, Effect
    <2>3. CASE ~Present(b)
      <3>1. row'[b].location \notin locations
        BY <2>1, <2>3, <1>5, Tables DEF LocatedBy
      <3>2. QED
        BY <3>1, <1>2 DEF UpdateOK
    <2>4. QED
      BY <2>2, <2>3
  <1>6. ASSUME k \in Warehouse, location # None, Present(k)'
        PROVE  location = row'[row'[k].parent].location
    <2>1. Present(k) /\ k \notin Role
      BY <1>3, <1>6, Tables DEF Kept
    <2>2. k \notin Unlinking(q)
      BY <2>1, UnlinkedRoles, Tables DEF Inv
    <2>3. PICK b : b = row[k].parent
      OBVIOUS
    <2>4. row'[k].parent = b
      BY <1>3, <1>6, <2>2, <2>3 DEF Kept
    <2>5. b \in Branch
      BY <1>2, <1>6, <2>1, <2>3, PresentRow DEF Inv, ParentOK
    <2>6. Present(b) /\ Present(b)'
      <3>1. b # None
        BY <2>5, Tables
      <3>2. Present(b)
        BY <1>2, <2>1, <2>3, <3>1 DEF Inv, ReferencesHold
      <3>3. Present(row[k].parent)'
        BY <1>2, <1>6, <2>4, <3>1 DEF ReferencesHold
      <3>4. QED
        BY <3>2, <3>3, <2>4
    <2>7. row'[b].location = row[b].location
      BY <2>5, <2>6 DEF Effect
    <2>8. QED
      BY <1>2, <1>6, <2>1, <2>3, <2>4, <2>7 DEF UpdateOK, BranchLocation
  <1>7. UpdateOK(r)'
    <2>1. /\ k \notin Warehouse => ~job[r].needsLocation /\ location = None
          /\ k \in Warehouse => (job[r].needsLocation => location = None)
      BY <1>2 DEF UpdateOK
    <2>2. k \in Warehouse =>
            /\ \A b \in Branch :
                 row'[b].state = "present" => row'[b].location \notin job[r].edits
            /\ location # None /\ row'[k].state = "present" =>
                 location = row'[row'[k].parent].location
      BY <1>5, <1>6 DEF Present
    <2>3. k \in Key /\ row'[k] # NoRow
      BY <1>3 DEF Known
    <2>4. QED
      BY <1>1, <1>4, <2>1, <2>2, <2>3 DEF UpdateOK, Known, Present, BranchLocation
  <1>8. ASSUME pc[r] = "commit"
        PROVE  Present(k)'
    <2>1. Present(k)
      BY <1>8 DEF Inv, JobOK
    <2>2. ~Deletes(q, k)
      <3>1. Writes(r, k)
        BY <1>8 DEF Writes, Doing
      <3>2. QED
        BY <3>1 DEF Inv, Apart, Deletes, Doing
    <2>3. QED
      BY <1>2, <2>1, <2>2 DEF Effect
  <1>9. QED
    BY <1>7, <1>8

LEMMA CommittedDelete ==
  ASSUME Inv, NEW q \in Request, pc[q] = "commit", Effect(q), OthersKept(q),
         NEW r \in Request, r # q, Doing(r, "delete"),
         NEW k, k = job[r].key, NEW targets, targets = job[r].targets
  PROVE  /\ DeleteOK(r)'
         /\ pc[r] \in {"delete", "commit"} => ReadyToUnlink(r)'
         /\ pc[r] = "commit" => ReadyToDelete(r)'
  <1>1. job'[r].key = k /\ job'[r].targets = targets
    BY DEF OthersKept
  <1>2. JobOK(q) /\ JobOK(r) /\ DeleteOK(r)
    BY DEF Inv, JobOK
  <1>3. \A c \in Key : Known(c) => Known(c)' /\ (Present(c)' => Kept(q, c))
    BY EffectOnKeys
  <1>4. /\ k \in Key /\ Known(k) /\ k \notin User /\ targets \subseteq Role
        /\ k \notin Org => targets = {}
        /\ \A t \in targets : t \in Key /\ Known(t)
    BY <1>2, Tables DEF DeleteOK, Known
  <1>5. DeleteOK(r)'
    <2>1. ASSUME NEW t \in targets, Present(t)'
          PROVE  row'[t].parent \in {k, None}
      <3>1. Kept(q, t)
        BY <1>3, <1>4, <2>1
      <3>2. QED
        BY <3>1, <1>2 DEF Kept, DeleteOK
    <2>2. \A t \in targets : /\ row'[t] # NoRow
                             /\ row'[t].state = "present" => row'[t].parent \in {k, None}
      BY <1>3, <1>4, <2>1 DEF Known, Present
    <2>3. row'[k] # NoRow
      BY <1>3, <1>4 DEF Known
    <2>4. QED
      BY <1>1, <1>4, <2>2, <2>3 DEF DeleteOK, Known, Present
  <1>6. ASSUME pc[r] \in {"delete", "commit"}
        PROVE  ReadyToUnlink(r)'
    <2>1. targets = Unlinking(r)
      BY <1>6 DEF Unlinking, Doing
    <2>2. ASSUME NEW t \in targets
          PROVE  /\ Present(t)' /\ row'[t].code = row[t].code
                 /\ \A c \in Key :
                      /\ Present(c)' /\ SameTable(t, c)
                      /\ row'[c].code = row[t].code /\ row'[c].parent = None
                      => c = t
      <3>1. /\ t \in Key /\ Known(t) /\ Present(t)
            /\ Duplicates(t, None, row[t].code) \subseteq {t}
        BY <1>2, <1>4, <2>1, UnlinkedRoles
      <3>2. ~Deletes(q, t)
        BY <2>1, <2>2 DEF Inv, Apart, Writes, Deletes, Doing
      <3>3. Present(t)' /\ row'[t].code = row[t].code
        BY <1>3, <3>1, <3>2 DEF Effect, Kept
      <3>4. ~Adds(q, t, None, row[t].code)
        BY <2>1, <2>2 DEF Inv, Apart
      <3>5. ASSUME NEW c \in Key, Present(c)', SameTable(t, c),
                   row'[c].code = row[t].code, row'[c].parent = None
            PROVE  c = t
        <4>1. Kept(q, c) \/ Added(q, c)
          BY <3>5 DEF Effect
        <4>2. CASE Added(q, c)
          BY <3>4, <3>5, <4>2 DEF Added, Creates, Adds
        <4>3. CASE Kept(q, c) /\ c \in Unlinking(q)
          <5>1. t \in Role /\ row[c].code = row[t].code
            BY <1>4, <2>2, <3>5, <4>3 DEF Kept
          <5>2. QED
            BY <3>4, <4>3, <5>1 DEF Adds
        <4>4. CASE Kept(q, c) /\ c \notin Unlinking(q)
          <5>1. c \in Duplicates(t, None, row[t].code)
            BY <3>5, <4>4 DEF Duplicates, Collides, Kept
          <5>2. QED
            BY <3>1, <5>1
        <4>5. QED
          BY <4>1, <4>2, <4>3, <4>4
      <3>6. QED
        BY <3>3, <3>5
    <2>3. ASSUME NEW t \in targets
          PROVE  /\ row'[t].state = "present"
                 /\ \A c \in Key :
                      /\ row'[c].state = "present" /\ SameTable(t, c)
                      /\ row'[c].code = row'[t].code
                      /\ t \in User \/ row'[c].parent = None
                      => c = t
      BY <2>2, <1>4, Tables DEF Present
    <2>4. QED
      BY <1>1, <2>3 DEF ReadyToUnlink, Duplicates, Collides, Present
  <1>7. ASSUME pc[r] = "commit"
        PROVE  ReadyToDelete(r)'
    <2>1. ReadyToDelete(r) /\ ~Needs(q, k)
      BY <1>2, <1>7 DEF Inv, JobOK, Apart
    <2>2. ASSUME NEW c \in Key, Present(c)', row'[c].parent = k
          PROVE  c \in targets
      <3>1. Kept(q, c) \/ Added(q, c)
        BY <2>2 DEF Effect
      <3>2. k # None
        BY <1>4, Tables
      <3>3. CASE Added(q, c)
        BY <2>1, <2>2, <3>3 DEF Added, Creates, Needs
      <3>4. CASE Kept(q, c)
        <4>1. c \in Children(k)
          BY <2>2, <3>2, <3>4 DEF Kept, Children
        <4>2. QED
          BY <2>1, <4>1 DEF ReadyToDelete
      <3>5. QED
        BY <3>1, <3>3, <3>4
    <2>3. \A c \in Key : row'[c].state = "present" /\ row'[c].parent = k => c \in targets
      BY <2>2 DEF Present
    <2>4. \A u \in User : k \notin links'[u]
      BY <2>1 DEF Effect, ReadyToDelete
    <2>5. QED
      BY <1>1, <2>3, <2>4 DEF ReadyToDelete, Children, Present
  <1>8. QED
    BY <1>5, <1>6, <1>7

LEMMA CommittedAssign ==
  ASSUME Inv, NEW q \in Request, pc[q] = "commit", Effect(q), OthersKept(q),
         NEW r \in Request, r # q, Doing(r, "assign"),
         NEW k, k = job[r].key, NEW targets, targets = job[r].targets,
         links'[k] \subseteq job'[r].gone \cup job'[r].since
  PROVE  AssignOK(r)' /\ (pc[r] = "commit" => ReadyToAssign(r)')
  <1>1. job'[r].key = k /\ job'[r].targets = targets
    BY DEF OthersKept
  <1>2. JobOK(q) /\ JobOK(r) /\ AssignOK(r)
    BY DEF Inv, JobOK
  <1>3. /\ k \in Role \cup User /\ k \in Key /\ Known(k)
        /\ k \in User => Present(k) /\ targets \subseteq Role
        /\ k \in Role => targets \subseteq Permission
    BY <1>2, Tables DEF AssignOK
  <1>4. Known(k)'
    BY <1>3, EffectOnKeys
  <1>5. k \in User => Present(k)'
    <2>1. k \in User => ~Deletes(q, k)
      BY <1>2 DEF Deletes, Doing, JobOK, DeleteOK
    <2>2. QED
      BY <1>3, <2>1 DEF Effect
  <1>6. AssignOK(r)'
    BY <1>1, <1>3, <1>4, <1>5 DEF AssignOK, Known, Present
  <1>7. ASSUME pc[r] = "commit", NEW c \in Referenced(k, targets)
        PROVE  Present(c)'
    <2>1. Present(c) /\ c \in Key
      BY <1>2, <1>3, <1>7, Tables DEF JobOK, ReadyToAssign, Referenced
    <2>2. Needs(r, c)
      BY <1>7 DEF Needs
    <2>3. ~Deletes(q, c)
      BY <2>2 DEF Inv, Apart, Deletes, Doing
    <2>4. QED
      BY <2>1, <2>3 DEF Effect
  <1>8. ASSUME pc[r] = "commit"
        PROVE  ReadyToAssign(r)'
    <2>1. \A c \in Referenced(k, targets) : row'[c].state = "present"
      BY <1>7, <1>8 DEF Present
    <2>2. QED
      BY <1>1, <2>1 DEF ReadyToAssign, Referenced, Present
  <1>9. QED
    BY <1>6, <1>8

LEMMA CommittedPairs ==
  ASSUME Inv, NEW q \in Request, pc[q] = "commit", Effect(q), OthersKept(q),
         NEW r \in Request, r # q, NEW s \in Request, s # q, r # s
  PROVE  Apart(r, s)'
  <1>1. /\ pc'[r] = pc[r] /\ job'[r].op = job[r].op /\ job'[r].key = job[r].key
        /\ job'[r].new = job[r].new /\ job'[r].targets = job[r].targets
        /\ pc'[s] = pc[s] /\ job'[s].op = job[s].op /\ job'[s].key = job[s].key
        /\ job'[s].new = job[s].new /\ job'[s].targets = job[s].targets
    BY DEF OthersKept
  <1>2. Apart(r, s) /\ JobOK(q) /\ JobOK(r) /\ JobOK(s)
    BY DEF Inv
  <1>3. /\ Unlinking(r)' = Unlinking(r) /\ Unlinking(s)' = Unlinking(s)
        /\ Doing(r, "create")' <=> Doing(r, "create")
        /\ Doing(r, "delete")' <=> Doing(r, "delete")
    BY <1>1 DEF Unlinking, Doing
  <1>4. \A k : Writes(s, k)' <=> Writes(s, k)
    BY <1>1, <1>3 DEF Writes, Deletes
  <1>5. \A k : Needs(s, k)' <=> Needs(s, k)
    BY <1>1 DEF Needs, Doing, Referenced
  <1>6. ASSUME NEW x \in Request, x # q, NEW t \in Unlinking(x)
        PROVE  row'[t].code = row[t].code
    <2>1. JobOK(x) /\ Apart(x, q)
      BY <1>6 DEF Inv
    <2>2. Present(t) /\ t \in Key /\ Known(t)
      BY <1>6, <2>1, UnlinkedRoles, Tables
    <2>3. ~Deletes(q, t)
      BY <1>6 DEF Inv, Apart, Writes, Deletes, Doing
    <2>4. Kept(q, t)
      BY <2>2, <2>3, EffectOnKeys DEF Effect
    <2>5. QED
      BY <2>4 DEF Kept
  <1>7. \A k, parent, code : Adds(s, k, parent, code)' <=> Adds(s, k, parent, code)
    BY <1>1, <1>3, <1>6 DEF Adds, Doing
  <1>8. \A t \in Unlinking(r) : row'[t].code = row[t].code
    BY <1>6
  <1>9. Doing(r, "create")' => job'[s].key # job'[r].key
    BY <1>1, <1>2, <1>3 DEF Apart
  <1>10. pc'[r] = "commit" /\ Doing(r, "delete")' =>
           ~Writes(s, job[r].key)' /\ ~Needs(s, job[r].key)'
    <2>1. PICK k : k = job[r].key
      OBVIOUS
    <2>2. pc[r] = "commit" /\ Doing(r, "delete") => ~Writes(s, k) /\ ~Needs(s, k)
      BY <1>2, <2>1 DEF Apart
    <2>3. QED
      BY <1>1, <1>3, <1>4, <1>5, <2>1, <2>2
  <1>11. pc'[r] = "commit" /\ Doing(r, "create")' =>
           ~Adds(s, job[r].key, job[r].new.parent, job[r].new.code)'
    <2>1. PICK k, parent, code :
            k = job[r].key /\ parent = job[r].new.parent /\ code = job[r].new.code
      OBVIOUS
    <2>2. pc[r] = "commit" /\ Doing(r, "create") => ~Adds(s, k, parent, code)
      BY <1>2, <2>1 DEF Apart
    <2>3. QED
      BY <1>1, <1>3, <1>7, <2>1, <2>2
  <1>12. \A t \in Unlinking(r)' : ~Adds(s, t, None, row[t].code)'
    <2>1. ASSUME NEW t \in Unlinking(r), NEW code, code = row[t].code
          PROVE  ~Adds(s, t, None, code)' /\ code = row'[t].code
      BY <1>2, <1>7, <1>8, <2>1 DEF Apart
    <2>2. QED
      BY <1>3, <2>1
  <1>13. QED
    BY <1>9, <1>10, <1>11, <1>12 DEF Apart

(* All that a commit has to show.                                          *)
LEMMA Commits ==
  ASSUME Inv, NEW q \in Request, pc[q] = "commit", Effect(q), OthersKept(q), TypeOK',
         pc'[q] = "idle", job'[q] = NoJob,
         \A r \in Request :
           r # q /\ Doing(r, "assign") =>
             links'[job[r].key] \subseteq job'[r].gone \cup job'[r].since
  PROVE  Inv'
  <1>1. \A k \in Key : RowOK(k)'
    BY DEF Effect
  <1>2. ReferencesHold' /\ CodesAreUnique'
    BY CommittedReferences, CommittedCodes
  <1>3. LocationsApart'
    BY <1>2, CommittedLocations
  <1>4. ASSUME NEW r \in Request, r # q
        PROVE  JobOK(r)'
    <2>1. /\ pc'[r] = pc[r] /\ job'[r].edits = job[r].edits
          /\ \A op : Doing(r, op)' <=> Doing(r, op)
          /\ IF pc[r] = "idle" THEN job'[r] = job[r] ELSE job'[r].raced
      BY <1>4 DEF OthersKept, Doing
    <2>2. JobOK(r)
      BY DEF Inv
    <2>3. Doing(r, "create") => CreateOK(r)' /\ (pc[r] = "commit" => ReadyToCreate(r)')
      BY <1>4, CommittedCreate
    <2>4. Doing(r, "update") => UpdateOK(r)' /\ (pc[r] = "commit" => Present(job[r].key)')
      BY <1>2, <1>4, CommittedUpdate DEF OthersKept
    <2>5. Doing(r, "delete") => /\ DeleteOK(r)'
                                /\ pc[r] \in {"delete", "commit"} => ReadyToUnlink(r)'
                                /\ pc[r] = "commit" => ReadyToDelete(r)'
      BY <1>4, CommittedDelete
    <2>6. Doing(r, "assign") => AssignOK(r)' /\ (pc[r] = "commit" => ReadyToAssign(r)')
      BY <1>4, CommittedAssign
    <2>7. ~job'[r].raced => StillAsRead(r)'
      BY <2>1 DEF StillAsRead
    <2>8. job'[r].targets = job[r].targets /\ job'[r].key = job[r].key
          /\ job'[r].op = job[r].op
      BY <1>4 DEF OthersKept
    <2>9. QED
      BY <2>1, <2>2, <2>3, <2>4, <2>5, <2>6, <2>7, <2>8 DEF JobOK
  <1>5. IdleIsOK'
    BY Idle, PTL
  <1>6. \A r \in Request : JobOK(r)'
    BY <1>4, <1>5 DEF IdleIsOK
  <1>7. \A r \in Request : Apart(q, r)' /\ Apart(r, q)'
    BY <1>5, <1>6 DEF IdleIsOK
  <1>8. \A r, s \in Request : r # s => Apart(r, s)'
    BY <1>7, CommittedPairs
  <1>9. QED
    BY <1>1, <1>2, <1>3, <1>6, <1>8 DEF Inv

-----------------------------------------------------------------------------
(* Creating.                                                               *)

LEMMA StartsCreate ==
  ASSUME Inv, NEW q \in Request, NEW k \in Key, NEW parent, NEW code \in Code,
         NEW own \in BOOLEAN, NEW location \in Location \cup {None},
         NEW twice \in BOOLEAN,
         StartCreate(q, k, parent, code, own, location, twice), ParentOK(k, parent),
         ~Located(k) \/ own => location = None,
         k \in Branch => own,
         ~Located(k) => ~own,
         Located(k) /\ ~own /\ Present(parent) => location = BranchLocation(parent)
  PROVE  Inv'
  <1> DEFINE work == [NoJob EXCEPT !.op = "create", !.key = k, !.needsLocation = own,
                                   !.new = Row(parent, code, location), !.twice = twice]
  <1>1. UNCHANGED tables /\ row[k] = NoRow /\ \A r \in Request : job[r].key # k
    BY DEF StartCreate, Fresh
  <1>2. CASE Finish(q, "not_found") \/ Finish(q, "conflict")
    BY <1>1, <1>2, Finishes
  <1>3. CASE /\ parent # None => Present(parent)
             /\ Duplicates(k, parent, code) = {}
             /\ Goto(q, "insert", work)
    <2>1. parent \in Key \cup {None} /\ (parent # None => Known(parent))
      <3>1. parent # None => parent \in Key
        BY Tables DEF ParentOK, Key
      <3>2. parent # None => row[parent] # NoRow
        BY <1>3, Rows DEF Present
      <3>3. QED
        BY <3>1, <3>2 DEF Known
    <2>2. /\ Row(parent, code, location) \in RowOfTable
          /\ Row(parent, code, location).state = "present"
          /\ Row(parent, code, location).parent = parent
          /\ Row(parent, code, location).code = code
          /\ Row(parent, code, location).location = location
      BY <2>1 DEF Row, RowOfTable
    <2>3. /\ work \in JobOfHandler /\ work.op = "create" /\ work.key = k
          /\ work.new = Row(parent, code, location) /\ work.targets = {}
          /\ work.edits = {} /\ work.needsLocation = own
      BY <2>2, NoJobType DEF NoJob, JobOfHandler, Operation
    <2> HIDE DEF work
    <2>4. pc'[q] = "insert" /\ job'[q] = work /\ row' = row
      BY <1>1, <1>3, <2>3, GotoType DEF Inv, Positions, tables
    <2>5. CreateOK(q)'
      <3>1. /\ parent # None => parent \in Key /\ row[parent] # NoRow
            /\ Located(k) /\ ~own /\ row[parent].state = "present" =>
                 location = row[parent].location
        BY <2>1 DEF Known, Present, BranchLocation
      <3>2. QED
        BY <1>1, <2>2, <2>3, <2>4, <3>1 DEF CreateOK, Known, Present, BranchLocation
    <2>6. StillAsRead(q)'
      <3>1. Duplicates(k, parent, code)' = {} /\ (parent # None => Present(parent)')
        BY <1>3, <2>4 DEF Duplicates, Collides, Present
      <3>2. QED
        BY <2>2, <2>3, <2>4, <3>1 DEF StillAsRead
    <2>7. JobOK(q)'
      BY <2>3, <2>4, <2>5, <2>6 DEF JobOK, Doing
    <2>8. QED
      BY <1>1, <1>3, <2>3, <2>7, Starts
  <1>4. QED
    BY <1>2, <1>3 DEF StartCreate

LEMMA InsertKeeps ==
  ASSUME Inv, NEW q \in Request, NEW roles \in SUBSET Role, Insert(q, roles),
         NEW k, k = job[q].key, NEW new, new = job[q].new
  PROVE  Inv'
  <1> DEFINE work == [job[q] EXCEPT !.targets = roles]
  <1>1. /\ pc[q] = "insert" /\ UNCHANGED tables
        /\ roles # {} => k \in User /\ roles \in Resolved(new.parent)
        /\ \A r \in Request : r # q =>
             /\ ~Deletes(r, new.parent) /\ ~Disputes(r, k, new.parent, new.code)
             /\ \A c \in roles : ~Deletes(r, c)
    BY DEF Insert, Others
  <1>2. JobOK(q) /\ Doing(q, "create") /\ CreateOK(q) /\ job[q] \in JobOfHandler
    BY <1>1 DEF Inv, JobOK, TypeOK
  <1>3. CASE Fail(q)
    BY <1>1, <1>3, Finishes DEF Fail
  <1>4. CASE /\ new.parent # None => Present(new.parent)
             /\ Duplicates(k, new.parent, new.code) = {}
             /\ Goto(q, "commit", work)
    <2>1. /\ work \in JobOfHandler /\ work.op = "create" /\ work.key = k
          /\ work.new = new /\ work.targets = roles
          /\ work.edits = job[q].edits /\ work.needsLocation = job[q].needsLocation
          /\ work.raced = job[q].raced
      BY <1>2 DEF JobOfHandler, Doing
    <2> HIDE DEF work
    <2>2. /\ pc'[q] = "commit" /\ job'[q] = work /\ OthersSame(q) /\ TypeOK'
          /\ row' = row
      BY <1>1, <1>4, <2>1, GotoType DEF Inv, Positions, tables
    <2>3. \A c \in roles : Present(c)
      BY <1>1 DEF Resolved, Resolves
    <2>4. CreateOK(q)'
      BY <1>1, <1>2, <2>1, <2>2 DEF CreateOK, Known, Present, BranchLocation
    <2>5. ReadyToCreate(q)'
      <3>1. Duplicates(k, new.parent, new.code)' = {}
        BY <1>4, <2>2 DEF Duplicates, Collides, Present
      <3>2. (new.parent # None => Present(new.parent)') /\ \A c \in roles : Present(c)'
        BY <1>4, <2>2, <2>3 DEF Present
      <3>3. QED
        BY <2>1, <2>2, <3>1, <3>2 DEF ReadyToCreate
    <2>6. JobOK(q)'
      <3>1. StillAsRead(q)'
        BY <2>2 DEF StillAsRead
      <3>2. job[q].edits = {}
        BY <1>2 DEF JobOK, Doing
      <3>3. QED
        BY <2>1, <2>2, <2>4, <2>5, <3>1, <3>2, Tables DEF JobOK, Doing
    <2>7. ASSUME NEW r \in Request, r # q
          PROVE  Apart(q, r)' /\ Apart(r, q)'
      <3>1. pc'[r] = pc[r] /\ job'[r] = job[r] /\ JobOK(r) /\ Apart(q, r) /\ Apart(r, q)
        BY <2>2, <2>7 DEF OthersSame, Inv
      <3>2. /\ ~Deletes(r, new.parent) /\ ~Disputes(r, k, new.parent, new.code)
            /\ \A c \in roles : ~Deletes(r, c)
        BY <1>1, <2>7
      <3>3. Unlinking(q)' = {} /\ Unlinking(r)' = Unlinking(r)
            /\ \A c : ~Writes(q, c)'
        BY <2>1, <2>2, <3>1 DEF Unlinking, Writes, Deletes
      <3>4. ~Adds(r, k, new.parent, new.code)
        BY <3>2 DEF Adds, Disputes, Doing
      <3>5. ~Adds(r, job[q].key, job[q].new.parent, job[q].new.code)'
        BY <2>1, <2>2, <3>1, <3>3, <3>4 DEF Adds, Doing
      <3>6. Apart(q, r)'
        BY <1>2, <2>1, <2>2, <3>1, <3>3, <3>5 DEF Apart, Doing
      <3>7. Doing(r, "create")' => job'[q].key # job'[r].key
        BY <2>1, <2>2, <3>1 DEF Apart, Doing
      <3>8. pc[r] = "commit" /\ Doing(r, "delete") => ~Needs(q, job[r].key)'
        BY <2>1, <2>2, <3>1, <3>2 DEF Needs, Deletes, Doing
      <3>9. pc[r] = "commit" /\ Doing(r, "create") =>
              ~Adds(q, job[r].key, job[r].new.parent, job[r].new.code)'
        <4>1. ASSUME pc[r] = "commit", Doing(r, "create"),
                     SameTable(job[r].key, k), job[r].new.code = new.code,
                     job[r].key \in User \/ job[r].new.parent = new.parent
              PROVE  FALSE
          <5>1. SameTable(k, job[r].key) /\ (k \in User <=> job[r].key \in User)
            BY <4>1, SameTables
          <5>2. QED
            BY <3>2, <4>1, <5>1 DEF Disputes, Doing
        <4>2. QED
          BY <2>1, <2>2, <3>1, <3>3, <4>1 DEF Adds, Doing
      <3>10. ASSUME NEW t \in Unlinking(r)
             PROVE  ~Adds(q, t, None, row[t].code)'
        <4>1. t \in Role /\ t \notin User
          BY <3>1, UnlinkedRoles, Tables
        <4>2. ~(k \in Role /\ new.parent = None /\ row[t].code = new.code)
          BY <3>2 DEF Disputes
        <4>3. QED
          BY <2>1, <2>2, <3>3, <4>1, <4>2, SameTables DEF Adds
      <3>11. Apart(r, q)'
        BY <2>2, <3>1, <3>3, <3>7, <3>8, <3>9, <3>10 DEF Apart, Doing
      <3>12. QED
        BY <3>6, <3>11
    <2>8. QED
      BY <1>1, <2>2, <2>6, <2>7, Quiet
  <1>5. QED
    BY <1>3, <1>4 DEF Insert

LEMMA CommitCreateKeeps ==
  ASSUME Inv, NEW q \in Request, NEW l \in Location, CommitCreate(q, l),
         NEW k, k = job[q].key, NEW new, new = job[q].new
  PROVE  Inv'
  <1> DEFINE own == job[q].needsLocation
             there == IF own THEN l ELSE new.location
  <1>1. /\ pc[q] = "commit" /\ Doing(q, "create") /\ Commit(q)
        /\ own => l \notin locations
        /\ row' = [row EXCEPT ![k] = IF own THEN [new EXCEPT !.location = l] ELSE new]
        /\ locations' = IF own THEN locations \cup {l} ELSE locations
        /\ links' = IF k \in User THEN [links EXCEPT ![k] = job[q].targets] ELSE links
    BY DEF CommitCreate, Doing
  <1>2. /\ CreateOK(q) /\ ReadyToCreate(q) /\ k \in Key /\ row[k] = NoRow
        /\ new \in RowOfTable /\ job[q].targets \subseteq Role /\ own \in BOOLEAN
    BY <1>1 DEF Inv, JobOK, CreateOK, TypeOK, JobOfHandler
  <1>3. /\ \A c \in Key : c # k => row'[c] = row[c]
        /\ row'[k] \in RowOfTable /\ row'[k].state = "present"
        /\ row'[k].parent = new.parent /\ row'[k].code = new.code
        /\ row'[k].location = there
        /\ row' \in [Key -> RowOfTable]
    <2>1. row \in [Key -> RowOfTable]
      BY DEF Inv, TypeOK
    <2>2. ASSUME NEW x \in RowOfTable
          PROVE  /\ [x EXCEPT !.location = l] \in RowOfTable
                 /\ [x EXCEPT !.location = l].state = x.state
                 /\ [x EXCEPT !.location = l].parent = x.parent
                 /\ [x EXCEPT !.location = l].code = x.code
                 /\ [x EXCEPT !.location = l].location = l
      BY DEF RowOfTable
    <2>3. PICK x \in RowOfTable : /\ x = IF own THEN [new EXCEPT !.location = l] ELSE new
                                  /\ x.state = new.state /\ x.parent = new.parent
                                  /\ x.code = new.code /\ x.location = there
      BY <1>2, <2>2
    <2>4. row' = [row EXCEPT ![k] = x]
      BY <1>1, <2>3
    <2>5. new.state = "present"
      BY <1>2 DEF CreateOK
    <2>6. QED
      BY <1>2, <2>1, <2>3, <2>4, <2>5
  <1>4. ~Present(k) /\ row'[k] # NoRow /\ ~Deletes(q, k) /\ Unlinking(q) = {}
    BY <1>1, <1>2, <1>3, Rows DEF Present, Deletes, Doing, Unlinking
  <1>5. Located(k) => there # None /\ there \in locations'
    <2>1. ASSUME Located(k), ~own
          PROVE  there \in locations
      <3>1. new.parent \in Branch /\ new.parent \in Key /\ new.parent # None
        BY <1>2, <2>1, Tables DEF CreateOK, ParentOK, Located
      <3>2. Present(new.parent)
        BY <1>2, <3>1 DEF ReadyToCreate
      <3>3. there = row[new.parent].location
        BY <1>2, <2>1, <3>2 DEF CreateOK, BranchLocation
      <3>4. QED
        BY <3>1, <3>2, <3>3 DEF Inv, ReferencesHold, Located
    <2>2. None \notin locations
      BY Tables DEF Inv, TypeOK
    <2>3. QED
      BY <1>1, <2>1, <2>2, Tables
  <1>6. Effect(q)
    <2>1. locations \subseteq locations'
      BY <1>1
    <2>2. ASSUME NEW c \in Key
          PROVE  RowOK(c)'
      <3>1. RowOK(c)
        BY DEF Inv
      <3>2. CASE c # k
        BY <1>3, <2>1, <3>1, <3>2 DEF RowOK, Present
      <3>3. CASE c = k
        <4>1. ParentOK(k, new.parent) /\ new.code \in Code
              /\ (~Located(k) => there = None)
          BY <1>2 DEF CreateOK
        <4>2. QED
          BY <1>3, <1>5, <3>3, <4>1 DEF RowOK, Present
      <3>4. QED
        BY <3>2, <3>3
    <2>3. \A c \in Key : row[c] # NoRow => row'[c] # NoRow
      BY <1>2, <1>3
    <2>4. \A c \in Key : row[c] = NoRow /\ row'[c] # NoRow => Creates(q, c)
      BY <1>1, <1>3 DEF Creates
    <2>5. \A c \in Key : Present(c) /\ ~Deletes(q, c) => Present(c)'
      BY <1>3, <1>4 DEF Present
    <2>6. \A c \in Key : Present(c)' => Kept(q, c) \/ Added(q, c)
      BY <1>1, <1>3, <1>4 DEF Present, Kept, Added, Creates
    <2>7. ASSUME NEW c \in Key, Located(c), Present(c)'
          PROVE  LocatedBy(q, c)
      <3>1. CASE c # k
        BY <1>3, <2>7, <3>1 DEF LocatedBy, Present
      <3>2. CASE c = k /\ own
        BY <1>1, <1>3, <3>2 DEF LocatedBy
      <3>3. CASE c = k /\ ~own
        <4>1. k \in Warehouse
          BY <1>2, <2>7, <3>3 DEF CreateOK, Located
        <4>2. Present(new.parent)
          BY <1>2, <4>1, Tables DEF ReadyToCreate, CreateOK, ParentOK
        <4>3. new.location = row[new.parent].location
          BY <1>2, <2>7, <3>3, <4>2 DEF CreateOK, BranchLocation
        <4>4. QED
          BY <1>3, <3>3, <4>1, <4>2, <4>3 DEF LocatedBy
      <3>4. QED
        BY <3>1, <3>2, <3>3
    <2>8. \A b \in Branch : Present(b) /\ Present(b)' => row'[b].location = row[b].location
      BY <1>3, <1>4, Tables
    <2>9. ASSUME NEW c \in Role \cup User, links'[c] # {}
          PROVE  Present(c)'
      <3>1. CASE c = k
        BY <1>3, <3>1 DEF Present
      <3>2. CASE c # k
        <4>1. links[c] # {}
          BY <1>1, <2>9, <3>2 DEF Inv, TypeOK
        <4>2. Present(c) /\ c \in Key
          BY <2>9, <4>1, Tables DEF Inv, ReferencesHold
        <4>3. QED
          BY <1>3, <3>2, <4>2 DEF Present
      <3>3. QED
        BY <3>1, <3>2
    <2>10. \A u \in User : \A c \in links'[u] : c \in links[u] \/ Needs(q, c)
      BY <1>1 DEF Needs, Inv, TypeOK
    <2>11. QED
      BY <2>1, <2>2, <2>3, <2>4, <2>5, <2>6, <2>7, <2>8, <2>9, <2>10 DEF Effect
  <1>7. TypeOK'
    <2>1. /\ pc' \in [Request -> Positions] /\ job' \in [Request -> JobOfHandler]
          /\ reply' \in [Request -> {"none", "done", "error", "not_found", "conflict"}]
      BY <1>1, CommitFrame DEF Inv
    <2>2. locations' \subseteq Location
      BY <1>1 DEF Inv, TypeOK
    <2>3. /\ links' \in [Role \cup User -> SUBSET (Role \cup Permission)]
          /\ \A c \in Role : links'[c] \subseteq Permission
          /\ \A u \in User : links'[u] \subseteq Role
      BY <1>1, <1>2, Tables DEF Inv, TypeOK
    <2>4. QED
      BY <1>3, <2>1, <2>2, <2>3 DEF TypeOK, Positions
  <1>8. ASSUME NEW r \in Request, r # q, Doing(r, "assign")
        PROVE  links'[job[r].key] \subseteq job'[r].gone \cup job'[r].since
    <2>1. pc[r] # "idle" /\ AssignOK(r) /\ job[r] \in JobOfHandler
      BY <1>8, Tables DEF Inv, JobOK, TypeOK, NoJob, Doing
    <2>2. job[r].key # k /\ job[r].key \in Role \cup User
      BY <1>1, <1>8, <2>1 DEF Inv, Apart, AssignOK
    <2>3. links'[job[r].key] = links[job[r].key]
      BY <1>1, <2>2 DEF Inv, TypeOK
    <2>4. job'[r].gone = job[r].gone /\ job'[r].since = job[r].since
      <3>1. job'[r] = Noticed(q, r)
        BY <1>1, <1>8, <2>1, CommitFrame DEF Inv
      <3>2. job[q].op # "assign"
        BY <1>1 DEF Doing
      <3>3. QED
        BY <2>1, <3>1, <3>2 DEF Noticed, JobOfHandler
    <2>5. QED
      BY <2>1, <2>3, <2>4 DEF AssignOK
  <1>9. QED
    BY <1>1, <1>6, <1>7, <1>8, Commits, CommitFrame DEF Inv

-----------------------------------------------------------------------------
(* Updating.                                                               *)

LEMMA StartsUpdate ==
  ASSUME Inv, NEW q \in Request, NEW k \in Key, NEW edits, NEW own \in BOOLEAN,
         NEW location, StartUpdate(q, k, edits, own, location),
         Present(k) =>
           /\ edits \subseteq locations /\ location \in locations \cup {None}
           /\ k \notin Warehouse => ~own /\ location = None
           /\ k \in Warehouse =>
                /\ \A b \in Branch : Present(b) => row[b].location \notin edits
                /\ own => location = None
                /\ location # None => location = BranchLocation(row[k].parent)
  PROVE  Inv'
  <1> DEFINE work == [NoJob EXCEPT !.op = "update", !.key = k, !.edits = edits,
                                   !.needsLocation = own, !.new.location = location]
  <1>1. UNCHANGED tables /\ row[k] # NoRow
    BY DEF StartUpdate
  <1>2. CASE Finish(q, "not_found")
    BY <1>1, <1>2, Finishes
  <1>3. CASE Present(k) /\ Goto(q, "update", work)
    <2>1. locations \subseteq Location
      BY DEF Inv, TypeOK
    <2>2. /\ work \in JobOfHandler /\ work.op = "update" /\ work.key = k
          /\ work.new.location = location /\ work.edits = edits
          /\ work.needsLocation = own
      <3> DEFINE new == [NoRow EXCEPT !.location = location]
      <3>1. new \in RowOfTable /\ new.location = location
        BY <1>3, <2>1 DEF NoRow, RowOfTable
      <3>2. work = [NoJob EXCEPT !.op = "update", !.key = k, !.edits = edits,
                                 !.needsLocation = own, !.new = new]
        BY DEF NoJob
      <3>3. edits \subseteq Location
        BY <1>3, <2>1
      <3> HIDE DEF work, new
      <3>4. QED
        BY ONLY <3>1, <3>2, <3>3, NoJobType, k \in Key, own \in BOOLEAN
           DEF NoJob, JobOfHandler, Operation
    <2> HIDE DEF work
    <2>3. /\ pc'[q] = "update" /\ job'[q] = work /\ row' = row /\ locations' = locations
      BY <1>1, <1>3, <2>2, GotoType DEF Inv, Positions, tables
    <2>4. UpdateOK(q)'
      BY <1>1, <1>3, <2>2, <2>3 DEF UpdateOK, Known, Present, BranchLocation
    <2>5. StillAsRead(q)'
      BY <1>3, <2>2, <2>3 DEF StillAsRead, Present
    <2>6. JobOK(q)'
      BY <2>2, <2>3, <2>4, <2>5 DEF JobOK, Doing
    <2>7. QED
      BY <1>1, <1>3, <2>2, <2>6, Starts
  <1>4. QED
    BY <1>2, <1>3 DEF StartUpdate

(* A warehouse that has an address of its own shares it with no branch.    *)
LEMMA AloneIsApart ==
  ASSUME Inv, NEW w \in Warehouse, Present(w)
  PROVE  /\ row[w].location \in locations
         /\ row[w].parent \in Branch /\ BranchLocation(row[w].parent) \in locations
         /\ Alone(w) => \A b \in Branch : Present(b) => row[b].location # row[w].location
  <1>1. w \in Key /\ Located(w) /\ RowOK(w)
    BY Tables DEF Inv, Located
  <1>2. row[w].parent \in Branch
    BY <1>1, PresentRow DEF ParentOK
  <1>3. Present(row[w].parent) /\ row[w].parent \in Key
    BY <1>1, <1>2, Tables DEF Inv, ReferencesHold
  <1>4. row[w].location \in locations /\ BranchLocation(row[w].parent) \in locations
    BY <1>1, <1>2, <1>3 DEF Inv, ReferencesHold, BranchLocation, Located
  <1>5. ASSUME Alone(w), NEW b \in Branch, Present(b), row[b].location = row[w].location
        PROVE  FALSE
    <2>1. b # w /\ b \in Key
      BY Tables
    <2>2. PICK x \in Branch : {b, w} \subseteq {x} \cup Children(x)
      BY <1>5, <2>1 DEF Inv, LocationsApart
    <2>3. b \notin Children(x)
      <3>1. row[b].parent \in Org
        BY <1>5, <2>1, PresentRow DEF Inv, ParentOK
      <3>2. QED
        BY <3>1, Tables DEF Children
    <2>4. row[w].parent = b
      BY <2>2, <2>3, Tables DEF Children
    <2>5. QED
      BY <1>5, <2>4 DEF Alone, BranchLocation
  <1>6. QED
    BY <1>2, <1>4, <1>5

LEMMA UpdatesStart ==
  ASSUME Inv, NEW q \in Request,
         \/ \E o \in Org : UpdateOrganization(q, o)
         \/ \E b \in Branch, address \in BOOLEAN : UpdateBranch(q, b, address)
         \/ \E w \in Warehouse : UpdateWarehouse(q, w)
         \/ \E r \in Role : UpdateRole(q, r)
  PROVE  Inv'
  <1>1. ASSUME NEW o \in Org, UpdateOrganization(q, o)
        PROVE  Inv'
    BY <1>1, StartsUpdate, Tables DEF UpdateOrganization
  <1>2. ASSUME NEW r \in Role, UpdateRole(q, r)
        PROVE  Inv'
    BY <1>2, StartsUpdate, Tables DEF UpdateRole
  <1>3. ASSUME NEW b \in Branch, NEW address \in BOOLEAN, UpdateBranch(q, b, address)
        PROVE  Inv'
    <2>1. PICK edits : /\ edits = IF address THEN {row[b].location} ELSE {}
                       /\ StartUpdate(q, b, edits, FALSE, None)
      BY <1>3 DEF UpdateBranch
    <2>2. Present(b) => edits \subseteq locations
      BY <2>1, Tables DEF Inv, ReferencesHold, Located
    <2>3. QED
      BY <2>1, <2>2, StartsUpdate, Tables
  <1>4. ASSUME NEW w \in Warehouse, UpdateWarehouse(q, w)
        PROVE  Inv'
    <2>1. CASE Present(w) /\ Alone(w) /\ StartUpdate(q, w, {row[w].location}, FALSE, None)
      BY <2>1, AloneIsApart, StartsUpdate, Tables
    <2>2. CASE StartUpdate(q, w, {}, TRUE, None)
      BY <2>2, StartsUpdate, Tables
    <2>3. CASE Present(w) /\ StartUpdate(q, w, {}, FALSE, BranchLocation(row[w].parent))
      BY <2>3, AloneIsApart, StartsUpdate, Tables
    <2>4. CASE StartUpdate(q, w, {}, FALSE, None)
      BY <2>4, StartsUpdate, Tables
    <2>5. QED
      BY <1>4, <2>1, <2>2, <2>3, <2>4 DEF UpdateWarehouse, Custom
  <1>5. QED
    BY <1>1, <1>2, <1>3, <1>4

LEMMA UpdateKeeps ==
  ASSUME Inv, NEW q \in Request, Update(q), NEW k, k = job[q].key
  PROVE  Inv'
  <1>1. /\ pc[q] = "update" /\ UNCHANGED tables
        /\ \A r \in Request : r # q => ~Writes(r, k)
    BY DEF Update, Others
  <1>2. JobOK(q) /\ Doing(q, "update") /\ UpdateOK(q) /\ job[q] \in JobOfHandler
    BY <1>1 DEF Inv, JobOK, TypeOK
  <1>3. CASE Fail(q)
    BY <1>1, <1>3, Finishes DEF Fail
  <1>4. CASE Present(k) /\ Goto(q, "commit", job[q])
    <2>1. /\ pc'[q] = "commit" /\ job'[q] = job[q] /\ OthersSame(q) /\ TypeOK'
          /\ row' = row /\ locations' = locations
      BY <1>1, <1>2, <1>4, GotoType DEF Inv, Positions, tables
    <2>2. UpdateOK(q)'
      BY <1>2, <2>1 DEF UpdateOK, Known, Present, BranchLocation
    <2>3. JobOK(q)'
      <3>1. StillAsRead(q)' /\ Present(job[q].key)'
        BY <1>4, <2>1 DEF StillAsRead, Present
      <3>2. QED
        BY <1>2, <2>1, <2>2, <3>1, Tables DEF JobOK, Doing
    <2>4. ASSUME NEW r \in Request, r # q
          PROVE  Apart(q, r)' /\ Apart(r, q)'
      <3>1. pc'[r] = pc[r] /\ job'[r] = job[r] /\ Apart(q, r) /\ Apart(r, q)
        BY <2>1, <2>4 DEF OthersSame, Inv
      <3>2. Unlinking(q)' = {} /\ ~Doing(q, "create")' /\ ~Doing(q, "delete")'
            /\ ~Doing(q, "assign")'
        BY <1>2, <2>1 DEF Unlinking, Doing
      <3>3. /\ \A c : ~Needs(q, c)'
            /\ \A c, parent, code : ~Adds(q, c, parent, code)'
        BY <3>2 DEF Needs, Adds
      <3>4. Apart(q, r)'
        BY <3>2 DEF Apart
      <3>5. pc[r] = "commit" /\ Doing(r, "delete") => ~Writes(q, job[r].key)'
        BY <1>1, <2>1, <2>4, <3>1, <3>2 DEF Writes, Deletes, Doing
      <3>6. Doing(r, "create")' => job'[q].key # job'[r].key
        BY <2>1, <3>1 DEF Apart, Doing
      <3>7. Apart(r, q)'
        BY <3>1, <3>3, <3>5, <3>6 DEF Apart, Doing
      <3>8. QED
        BY <3>4, <3>7
    <2>5. QED
      BY <1>1, <2>1, <2>3, <2>4, Quiet
  <1>5. QED
    BY <1>3, <1>4 DEF Update

LEMMA CommitUpdateKeeps ==
  ASSUME Inv, NEW q \in Request, NEW l \in Location, CommitUpdate(q, l),
         NEW k, k = job[q].key, NEW location, location = job[q].new.location
  PROVE  Inv'
  <1> DEFINE own == job[q].needsLocation
             there == IF own THEN l ELSE IF location # None THEN location ELSE row[k].location
  <1>1. /\ pc[q] = "commit" /\ Doing(q, "update") /\ Commit(q)
        /\ own => l \notin locations
        /\ row' = [row EXCEPT ![k] = [row[k] EXCEPT !.location = there]]
        /\ locations' = IF own THEN locations \cup {l} ELSE locations
        /\ links' = links
    BY DEF CommitUpdate, Doing
  <1>2. /\ UpdateOK(q) /\ k \in Key /\ Present(k) /\ own \in BOOLEAN
        /\ location \in Location \cup {None} /\ RowOK(k) /\ row \in [Key -> RowOfTable]
    BY <1>1 DEF Inv, JobOK, UpdateOK, Known, TypeOK, JobOfHandler, RowOfTable
  <1>3. /\ \A c \in Key : c # k => row'[c] = row[c]
        /\ row'[k].state = "present"
        /\ row'[k].parent = row[k].parent /\ row'[k].code = row[k].code
        /\ row'[k].location = there
        /\ row' \in [Key -> RowOfTable]
    <2>1. row[k] \in RowOfTable /\ there \in Location \cup {None}
      BY <1>2 DEF RowOfTable
    <2>2. PICK x : x = [row[k] EXCEPT !.location = there]
      OBVIOUS
    <2>3. /\ x \in RowOfTable /\ x.state = "present" /\ x.parent = row[k].parent
          /\ x.code = row[k].code /\ x.location = there
      BY <1>2, <2>1, <2>2 DEF RowOfTable, Present
    <2>4. row' = [row EXCEPT ![k] = x]
      BY <1>1, <2>2
    <2>5. QED
      BY <1>2, <2>3, <2>4
  <1>4. row'[k] # NoRow /\ ~Deletes(q, k) /\ Unlinking(q) = {}
    BY <1>1, <1>3, Rows DEF Deletes, Doing, Unlinking
  <1>5. k \notin Warehouse => there = row[k].location
    BY <1>2 DEF UpdateOK
  <1>6. /\ own => there \in locations' \ locations
        /\ ~own /\ location # None =>
             /\ k \in Warehouse /\ there = BranchLocation(row[k].parent)
             /\ there \in locations /\ Present(row[k].parent)
    <2>1. own => there \in locations' \ locations
      BY <1>1
    <2>2. ASSUME ~own, location # None
          PROVE  /\ k \in Warehouse /\ there = BranchLocation(row[k].parent)
                 /\ there \in locations /\ Present(row[k].parent)
      <3>1. k \in Warehouse /\ there = BranchLocation(row[k].parent)
        BY <1>2, <2>2 DEF UpdateOK
      <3>2. row[k].parent # None
        BY <1>2, <3>1, Tables, AloneIsApart
      <3>3. QED
        BY <1>2, <3>1, <3>2, AloneIsApart DEF Inv, ReferencesHold
    <2>3. QED
      BY <2>1, <2>2
  <1> HIDE DEF there
  <1>7. there = row[k].location \/ own \/ (~own /\ location # None)
    BY DEF there
  <1>8. Effect(q)
    <2>1. locations \subseteq locations'
      BY <1>1
    <2>2. ASSUME NEW c \in Key
          PROVE  RowOK(c)'
      <3>1. RowOK(c)
        BY DEF Inv
      <3>2. CASE c # k
        BY <1>3, <2>1, <3>1, <3>2 DEF RowOK, Present
      <3>3. CASE c = k
        <4>1. there # None => there \in locations'
          BY <1>2, <1>6, <1>7, <2>1, Rows DEF RowOK, Present
        <4>2. ParentOK(k, row[k].parent) /\ row[k].code \in Code
          BY <1>2, PresentRow
        <4>3. QED
          BY <1>3, <3>3, <4>1, <4>2 DEF RowOK, Present
      <3>4. QED
        BY <3>2, <3>3
    <2>3. \A c \in Key : row[c] # NoRow <=> row'[c] # NoRow
      BY <1>2, <1>3, <1>4, Rows DEF Present
    <2>4. \A c \in Key : Present(c) <=> Present(c)'
      BY <1>2, <1>3 DEF Present
    <2>5. \A c \in Key : Present(c)' => Kept(q, c)
      BY <1>3, <1>4, <2>4 DEF Kept
    <2>6. ASSUME NEW c \in Key, Located(c), Present(c)'
          PROVE  LocatedBy(q, c)
      <3>1. CASE c # k \/ there = row[k].location
        BY <1>3, <2>4, <2>6, <3>1 DEF LocatedBy
      <3>2. CASE c = k /\ own
        BY <1>3, <1>6, <3>2 DEF LocatedBy
      <3>3. CASE c = k /\ ~own /\ location # None
        BY <1>3, <1>6, <3>3 DEF LocatedBy, BranchLocation
      <3>4. QED
        BY <1>7, <3>1, <3>2, <3>3
    <2>7. \A b \in Branch : row'[b].location = row[b].location
      BY <1>3, <1>5, Tables
    <2>8. \A c \in Role \cup User : links'[c] # {} => Present(c)'
      BY <1>1, <2>4, Tables DEF Inv, ReferencesHold
    <2>9. \A u \in User : \A c \in links'[u] : c \in links[u]
      BY <1>1
    <2>10. QED
      BY <2>1, <2>2, <2>3, <2>4, <2>5, <2>6, <2>7, <2>8, <2>9 DEF Effect
  <1>9. TypeOK'
    <2>1. /\ pc' \in [Request -> Positions] /\ job' \in [Request -> JobOfHandler]
          /\ reply' \in [Request -> {"none", "done", "error", "not_found", "conflict"}]
      BY <1>1, CommitFrame DEF Inv
    <2>2. locations' \subseteq Location
      BY <1>1 DEF Inv, TypeOK
    <2>3. QED
      BY <1>1, <1>3, <2>1, <2>2 DEF Inv, TypeOK, Positions
  <1>10. ASSUME NEW r \in Request, r # q, Doing(r, "assign")
         PROVE  links'[job[r].key] \subseteq job'[r].gone \cup job'[r].since
    <2>1. pc[r] # "idle" /\ AssignOK(r) /\ job[r] \in JobOfHandler
      BY <1>10, Tables DEF Inv, JobOK, TypeOK, NoJob, Doing
    <2>2. job'[r] = Noticed(q, r)
      BY <1>1, <1>10, <2>1, CommitFrame DEF Inv
    <2>3. job[q].op # "assign"
      BY <1>1 DEF Doing
    <2>4. job'[r].gone = job[r].gone /\ job'[r].since = job[r].since
      BY <2>1, <2>2, <2>3 DEF Noticed, JobOfHandler
    <2>5. QED
      BY <1>1, <2>1, <2>4 DEF AssignOK
  <1>11. QED
    BY <1>1, <1>8, <1>9, <1>10, Commits, CommitFrame DEF Inv

-----------------------------------------------------------------------------
(* Deleting.                                                               *)

LEMMA StartsDelete ==
  ASSUME Inv, NEW q \in Request, NEW k \in Key, k \notin User, NEW protected \in BOOLEAN,
         NEW step \in {"unlink", "delete"}, NEW roles \in SUBSET Role,
         StartDelete(q, k, protected, step, roles),
         roles \subseteq Children(k),
         step = "unlink" <=> k \in Org,
         k \notin Org => roles = {},
         Present(k) /\ ~protected => Children(k) \subseteq roles \cup Series \cup User
  PROVE  Inv'
  <1> DEFINE work == [NoJob EXCEPT !.op = "delete", !.key = k, !.targets = roles]
  <1>1. UNCHANGED tables /\ row[k] # NoRow
    BY DEF StartDelete
  <1>2. CASE Finish(q, "not_found") \/ Finish(q, "conflict")
    BY <1>1, <1>2, Finishes
  <1>3. CASE Present(k) /\ ~protected /\ Goto(q, step, work)
    <2>1. /\ work \in JobOfHandler /\ work.op = "delete" /\ work.key = k
          /\ work.targets = roles /\ work.edits = {}
      BY NoJobType DEF NoJob, JobOfHandler, Operation
    <2> HIDE DEF work
    <2>2. /\ pc'[q] = step /\ job'[q] = work /\ row' = row
      BY <1>1, <1>3, <2>1, GotoType DEF Inv, Positions, tables
    <2>3. \A t \in roles : t \in Key /\ Present(t) /\ row[t] # NoRow /\ row[t].parent = k
      BY Rows DEF Children, Present
    <2>4. DeleteOK(q)'
      BY <1>1, <2>1, <2>2, <2>3 DEF DeleteOK, Known, Present
    <2>5. StillAsRead(q)'
      <3>1. Children(k)' \subseteq roles \cup Series \cup User /\ \A t \in roles : Present(t)'
        BY <1>3, <2>2, <2>3 DEF Children, Present
      <3>2. QED
        BY <2>1, <2>2, <3>1 DEF StillAsRead
    <2>6. step = "delete" => ReadyToUnlink(q)'
      BY <2>1, <2>2 DEF ReadyToUnlink
    <2>7. JobOK(q)'
      BY <2>1, <2>2, <2>4, <2>5, <2>6 DEF JobOK, Doing
    <2>8. QED
      BY <1>1, <1>3, <2>1, <2>7, Starts
  <1>4. QED
    BY <1>2, <1>3 DEF StartDelete

LEMMA DeletesStart ==
  ASSUME Inv, NEW q \in Request,
         \/ \E o \in Org : DeleteOrganization(q, o)
         \/ \E b \in Branch : DeleteBranch(q, b)
         \/ \E w \in Warehouse : DeleteWarehouse(q, w)
         \/ \E r \in Role : DeleteRole(q, r)
  PROVE  Inv'
  <1>1. ASSUME NEW c \in Key, Present(c), row[c].parent # None
        PROVE  /\ row[c].parent \in Org => c \in Branch \cup Role \cup User
               /\ row[c].parent \in Branch => c \in Warehouse \cup Series
               /\ row[c].parent \in Org \cup Branch
    BY <1>1, PresentRow, Tables DEF Inv, ParentOK, Key
  <1>2. ASSUME NEW o \in Org, DeleteOrganization(q, o)
        PROVE  Inv'
    <2>1. StartDelete(q, o, HasBranches(o), "unlink", Children(o) \cap Role)
      BY <1>2 DEF DeleteOrganization
    <2>2. HasBranches(o) \in BOOLEAN
      BY DEF HasBranches
    <2>3. ~HasBranches(o) => Children(o) \subseteq (Children(o) \cap Role) \cup Series \cup User
      BY <1>1, Tables DEF HasBranches, Children
    <2>4. QED
      BY <2>1, <2>2, <2>3, StartsDelete, Tables
  <1>3. ASSUME NEW b \in Branch, DeleteBranch(q, b)
        PROVE  Inv'
    <2>1. PICK protected \in BOOLEAN : protected = (Children(b) \cap Warehouse # {})
      OBVIOUS
    <2>2. StartDelete(q, b, protected, "delete", {})
      BY <1>3, <2>1 DEF DeleteBranch
    <2>3. ~protected => Children(b) \subseteq {} \cup Series \cup User
      BY <1>1, <2>1, Tables DEF Children
    <2>4. QED
      BY <2>2, <2>3, StartsDelete, Tables
  <1>4. ASSUME NEW k \in Warehouse \cup Role, NEW protected \in BOOLEAN,
               StartDelete(q, k, protected, "delete", {})
        PROVE  Inv'
    <2>1. Children(k) = {}
      BY <1>1, Tables DEF Children
    <2>2. QED
      BY <1>4, <2>1, StartsDelete, Tables
  <1>5. ASSUME NEW r \in Role, DeleteRole(q, r)
        PROVE  Inv'
    <2>1. PICK protected \in BOOLEAN : protected <=> r \in SystemRole
      OBVIOUS
    <2>2. StartDelete(q, r, protected, "delete", {})
      BY <1>5, <2>1 DEF DeleteRole, StartDelete
    <2>3. QED
      BY <1>4, <2>2
  <1>6. QED
    BY <1>2, <1>3, <1>4, <1>5 DEF DeleteWarehouse

LEMMA UnlinkKeeps ==
  ASSUME Inv, NEW q \in Request, UnlinkRoles(q),
         NEW k, k = job[q].key, NEW targets, targets = job[q].targets
  PROVE  Inv'
  <1>1. /\ pc[q] = "unlink" /\ UNCHANGED tables
        /\ \A r \in Request : r # q =>
             \A t \in targets : ~Writes(r, t) /\ ~Disputes(r, t, None, row[t].code)
    BY DEF UnlinkRoles, Others
  <1>2. JobOK(q) /\ Doing(q, "delete") /\ DeleteOK(q) /\ job[q] \in JobOfHandler
    BY <1>1 DEF Inv, JobOK, TypeOK
  <1>3. CASE Fail(q)
    BY <1>1, <1>3, Finishes DEF Fail
  <1>4. CASE /\ \A t \in targets : Present(t) /\ Duplicates(t, None, row[t].code) \ {t} = {}
             /\ Goto(q, "delete", job[q])
    <2>1. /\ pc'[q] = "delete" /\ job'[q] = job[q] /\ OthersSame(q) /\ TypeOK'
          /\ row' = row /\ links' = links
      BY <1>1, <1>2, <1>4, GotoType DEF Inv, Positions, tables
    <2>2. DeleteOK(q)'
      BY <1>2, <2>1 DEF DeleteOK, Known, Present
    <2>3. ReadyToUnlink(q)'
      <3>1. ReadyToUnlink(q)
        BY <1>4 DEF ReadyToUnlink
      <3>2. QED
        BY <2>1, <3>1 DEF ReadyToUnlink, Duplicates, Collides, Present
    <2>4. JobOK(q)'
      <3>1. ~job[q].raced => Children(k) \subseteq targets \cup Series \cup User
        BY <1>1, <1>2 DEF JobOK, StillAsRead
      <3>2. Children(k)' = Children(k)
        BY <2>1 DEF Children, Present
      <3>3. ~job'[q].raced => StillAsRead(q)'
        BY <2>1, <3>1, <3>2 DEF StillAsRead
      <3>4. QED
        BY <1>2, <2>1, <2>2, <2>3, <3>3 DEF JobOK, Doing
    <2>5. ASSUME NEW r \in Request, r # q
          PROVE  Apart(q, r)' /\ Apart(r, q)'
      <3>1. pc'[r] = pc[r] /\ job'[r] = job[r] /\ JobOK(r) /\ Apart(q, r) /\ Apart(r, q)
        BY <2>1, <2>5 DEF OthersSame, Inv
      <3>2. /\ Unlinking(q)' = targets /\ Unlinking(r)' = Unlinking(r)
            /\ ~Doing(q, "create")'
        BY <1>2, <2>1, <3>1 DEF Unlinking, Doing
      <3>3. targets \subseteq Role
        BY <1>2 DEF DeleteOK
      <3>4. ASSUME NEW t \in targets
            PROVE  ~Adds(r, t, None, row[t].code)'
        <4>1. ~Disputes(r, t, None, row[t].code)
          BY <1>1, <2>5
        <4>2. ~Adds(r, t, None, row[t].code)
          BY <4>1 DEF Adds, Disputes, Doing
        <4>3. QED
          BY <2>1, <3>1, <3>2, <4>2 DEF Adds, Doing
      <3>5. Apart(q, r)'
        BY <2>1, <3>2, <3>4 DEF Apart
      <3>6. Doing(r, "create")' => job'[q].key # job'[r].key
        BY <2>1, <3>1 DEF Apart, Doing
      <3>7. pc[r] = "commit" /\ Doing(r, "delete") =>
              ~Writes(q, job[r].key)' /\ ~Needs(q, job[r].key)'
        <4>1. pc[r] = "commit" /\ Doing(r, "delete") => job[r].key \notin targets
          BY <1>1, <2>5 DEF Writes, Deletes, Doing
        <4>2. QED
          BY <2>1, <3>1, <3>2, <4>1 DEF Writes, Deletes, Needs
      <3>8. pc[r] = "commit" /\ Doing(r, "create") =>
              ~Adds(q, job[r].key, job[r].new.parent, job[r].new.code)'
        <4>1. ASSUME pc[r] = "commit", Doing(r, "create"), job[r].key \in Role,
                     job[r].new.parent = None, NEW t \in targets,
                     row[t].code = job[r].new.code
              PROVE  FALSE
          <5>1. SameTable(t, job[r].key)
            BY <3>3, <4>1, SameTables
          <5>2. Disputes(r, t, None, row[t].code)
            BY <4>1, <5>1 DEF Disputes, Doing
          <5>3. QED
            BY <1>1, <2>5, <5>2
        <4>2. QED
          BY <2>1, <3>1, <3>2, <4>1 DEF Adds
      <3>9. ASSUME NEW t \in Unlinking(r)
            PROVE  ~Adds(q, t, None, row[t].code)'
        <4>1. ASSUME NEW s \in targets, row[s].code = row[t].code
              PROVE  FALSE
          <5>1. s \in Role /\ Disputes(r, s, None, row[s].code)
            BY <3>3, <3>9, <4>1 DEF Disputes
          <5>2. QED
            BY <1>1, <2>5, <5>1
        <4>2. QED
          BY <2>1, <3>2, <4>1 DEF Adds
      <3>10. Apart(r, q)'
        BY <3>1, <3>2, <3>6, <3>7, <3>8, <3>9 DEF Apart, Doing
      <3>11. QED
        BY <3>5, <3>10
    <2>6. QED
      BY <1>1, <2>1, <2>4, <2>5, Quiet
  <1>5. QED
    BY <1>3, <1>4 DEF UnlinkRoles

LEMMA DeleteKeeps ==
  ASSUME Inv, NEW q \in Request, Delete(q),
         NEW k, k = job[q].key, NEW targets, targets = job[q].targets
  PROVE  Inv'
  <1>1. /\ pc[q] = "delete" /\ UNCHANGED tables
        /\ \A r \in Request : r # q => ~Writes(r, k) /\ ~Refers(r, k)
    BY DEF Delete, Others
  <1>2. JobOK(q) /\ Doing(q, "delete") /\ DeleteOK(q) /\ job[q] \in JobOfHandler
    BY <1>1 DEF Inv, JobOK, TypeOK
  <1>3. CASE Fail(q)
    BY <1>1, <1>3, Finishes DEF Fail
  <1>4. CASE Restricting(q, k) = {} /\ Goto(q, "commit", job[q])
    <2>1. /\ pc'[q] = "commit" /\ job'[q] = job[q] /\ OthersSame(q) /\ TypeOK'
          /\ row' = row /\ links' = links
      BY <1>1, <1>2, <1>4, GotoType DEF Inv, Positions, tables
    <2>2. DeleteOK(q)'
      BY <1>2, <2>1 DEF DeleteOK, Known, Present
    <2>3. ReadyToUnlink(q)'
      <3>1. ReadyToUnlink(q)
        BY <1>1, <1>2 DEF JobOK
      <3>2. QED
        BY <2>1, <3>1 DEF ReadyToUnlink, Duplicates, Collides, Present
    <2>4. ReadyToDelete(q)'
      <3>1. Children(k) \subseteq targets /\ \A u \in User : k \notin links[u]
        BY <1>4 DEF Restricting
      <3>2. QED
        BY <2>1, <3>1 DEF ReadyToDelete, Children, Present
    <2>5. JobOK(q)'
      <3>1. StillAsRead(q)'
        BY <2>1 DEF StillAsRead
      <3>2. QED
        BY <1>2, <2>1, <2>2, <2>3, <2>4, <3>1, Tables DEF JobOK, Doing
    <2>6. ASSUME NEW r \in Request, r # q
          PROVE  Apart(q, r)' /\ Apart(r, q)'
      <3>1. pc'[r] = pc[r] /\ job'[r] = job[r] /\ Apart(q, r) /\ Apart(r, q)
        BY <2>1, <2>6 DEF OthersSame, Inv
      <3>2. /\ Unlinking(q) = targets /\ Unlinking(q)' = targets
            /\ Unlinking(r)' = Unlinking(r)
            /\ ~Doing(q, "create")' /\ ~Doing(q, "create")
        BY <1>1, <1>2, <2>1, <3>1 DEF Unlinking, Doing
      <3>3. ~Writes(r, k) /\ ~Needs(r, k)
        BY <1>1, <2>6 DEF Needs, Refers, Referenced, Doing
      <3>4. ~Writes(r, job[q].key)' /\ ~Needs(r, job[q].key)'
        BY <2>1, <3>1, <3>2, <3>3 DEF Writes, Deletes, Needs, Doing, Referenced
      <3>5. \A t \in targets : ~Adds(r, t, None, row[t].code)'
        BY <2>1, <3>1, <3>2 DEF Apart, Adds, Doing
      <3>6. Apart(q, r)'
        BY <3>2, <3>4, <3>5 DEF Apart
      <3>7. Doing(r, "create")' => job'[q].key # job'[r].key
        BY <2>1, <3>1 DEF Apart, Doing
      <3>8. pc[r] = "commit" /\ Doing(r, "delete") =>
              ~Writes(q, job[r].key)' /\ ~Needs(q, job[r].key)'
        <4>1. ASSUME pc[r] = "commit", Doing(r, "delete")
              PROVE  job[r].key # k /\ job[r].key \notin targets
          BY <3>1, <3>2, <3>3, <4>1 DEF Apart, Writes, Deletes, Doing
        <4>2. QED
          BY <1>2, <2>1, <3>1, <3>2, <4>1 DEF Writes, Deletes, Needs, Doing
      <3>9. pc[r] = "commit" /\ Doing(r, "create") =>
              ~Adds(q, job[r].key, job[r].new.parent, job[r].new.code)'
        BY <2>1, <3>1, <3>2 DEF Apart, Adds, Doing
      <3>10. \A t \in Unlinking(r) : ~Adds(q, t, None, row[t].code)'
        BY <2>1, <3>1, <3>2 DEF Apart, Adds, Doing
      <3>11. Apart(r, q)'
        BY <3>1, <3>2, <3>7, <3>8, <3>9, <3>10 DEF Apart, Doing
      <3>12. QED
        BY <3>6, <3>11
    <2>7. QED
      BY <1>1, <2>1, <2>5, <2>6, Quiet
  <1>5. QED
    BY <1>3, <1>4 DEF Delete

LEMMA CommitDeleteKeeps ==
  ASSUME Inv, NEW q \in Request, CommitDelete(q),
         NEW k, k = job[q].key, NEW targets, targets = job[q].targets
  PROVE  Inv'
  <1>1. /\ pc[q] = "commit" /\ Doing(q, "delete") /\ Commit(q)
        /\ row' = [c \in Key |->
                     IF c = k THEN Deleted
                     ELSE IF c \in targets THEN [row[c] EXCEPT !.parent = None]
                     ELSE row[c]]
        /\ links' = IF k \in Role THEN [links EXCEPT ![k] = {}] ELSE links
        /\ locations' = locations
    BY DEF CommitDelete, Doing
  <1>2. JobOK(q) /\ DeleteOK(q) /\ ReadyToUnlink(q) /\ ReadyToDelete(q)
    BY <1>1 DEF Inv, JobOK
  <1>3. /\ k \in Key /\ k \notin User /\ targets \subseteq Role /\ Unlinking(q) = targets
        /\ \A t \in targets : t \in Key /\ Present(t)
    BY <1>1, <1>2, Tables DEF DeleteOK, Known, ReadyToUnlink, Unlinking, Doing
  <1>4. row \in [Key -> RowOfTable] /\ \A c \in Key : RowOK(c)
    BY DEF Inv, TypeOK
  <1>5. /\ row' \in [Key -> RowOfTable]
        /\ row'[k] = Deleted
        /\ \A c \in Key : c # k /\ c \notin targets => row'[c] = row[c]
        /\ \A c \in targets :
             c # k => /\ row'[c].state = "present" /\ row'[c].code = row[c].code
                      /\ row'[c].parent = None /\ row'[c].location = row[c].location
    <2>1. ASSUME NEW x \in RowOfTable
          PROVE  /\ [x EXCEPT !.parent = None] \in RowOfTable
                 /\ [x EXCEPT !.parent = None].state = x.state
                 /\ [x EXCEPT !.parent = None].code = x.code
                 /\ [x EXCEPT !.parent = None].parent = None
                 /\ [x EXCEPT !.parent = None].location = x.location
      BY DEF RowOfTable
    <2>2. \A c \in Key : row[c] \in RowOfTable
      BY <1>4
    <2>3. row' \in [Key -> RowOfTable]
      BY <1>1, <2>1, <2>2, Rows
    <2>4. row'[k] = Deleted /\ \A c \in Key : c # k /\ c \notin targets => row'[c] = row[c]
      BY <1>1, <1>3
    <2>5. ASSUME NEW c \in targets, c # k
          PROVE  /\ row'[c].state = "present" /\ row'[c].code = row[c].code
                 /\ row'[c].parent = None /\ row'[c].location = row[c].location
      <3>1. c \in Key /\ row[c].state = "present"
        BY <1>3 DEF Present
      <3>2. row'[c] = [row[c] EXCEPT !.parent = None]
        BY <1>1, <2>5, <3>1
      <3>3. QED
        BY <2>1, <2>2, <3>1, <3>2
    <2>6. QED
      BY <2>3, <2>4, <2>5
  <1>6. /\ ~Present(k)' /\ row'[k] # NoRow
        /\ \A c : Deletes(q, c) <=> c = k
    BY <1>1, <1>5, Rows DEF Present, Deletes, Doing
  <1>7. \A c \in Key : c # k => (Present(c)' <=> Present(c))
    BY <1>3, <1>5 DEF Present
  <1>8. Effect(q)
    <2>1. ASSUME NEW c \in Key
          PROVE  RowOK(c)'
      <3>1. CASE c = k
        BY <1>5, <3>1 DEF RowOK
      <3>2. CASE c # k /\ c \notin targets
        BY <1>1, <1>4, <1>5, <3>2 DEF RowOK, Present
      <3>3. CASE c # k /\ c \in targets
        <4>1. Present(c) /\ c \in Role /\ RowOK(c)
          BY <1>3, <1>4, <3>3
        <4>2. row[c].code \in Code /\ (row[c].location # None => row[c].location \in locations)
          BY <4>1, Rows DEF RowOK, Present
        <4>3. ParentOK(c, None)
          BY <4>1, Tables DEF ParentOK
        <4>4. QED
          BY <1>1, <1>5, <3>3, <4>2, <4>3 DEF RowOK, Present
      <3>4. QED
        BY <3>1, <3>2, <3>3
    <2>2. \A c \in Key : row[c] # NoRow => row'[c] # NoRow
      BY <1>5, <1>6, Rows
    <2>3. \A c \in Key : row[c] = NoRow => c # k /\ c \notin targets
      BY <1>2, <1>3, Rows DEF DeleteOK, Known, Present
    <2>4. \A c \in Key : row[c] = NoRow => row'[c] = NoRow
      BY <1>5, <2>3
    <2>5. \A c \in Key : Present(c) /\ ~Deletes(q, c) => Present(c)'
      BY <1>6, <1>7
    <2>6. ASSUME NEW c \in Key, Present(c)'
          PROVE  Kept(q, c)
      <3>1. c # k /\ Present(c)
        BY <1>6, <1>7, <2>6
      <3>2. QED
        BY <1>3, <1>5, <3>1 DEF Kept
    <2>7. ASSUME NEW c \in Key, Present(c)'
          PROVE  Present(c) /\ row'[c].location = row[c].location
      <3>1. c # k /\ Present(c)
        BY <1>6, <1>7, <2>7
      <3>2. QED
        BY <1>5, <3>1
    <2>8. ASSUME NEW c \in Role \cup User, links'[c] # {}
          PROVE  Present(c)'
      <3>1. c # k /\ links[c] # {}
        BY <1>1, <1>3, <2>8 DEF Inv, TypeOK
      <3>2. Present(c) /\ c \in Key
        BY <2>8, <3>1, Tables DEF Inv, ReferencesHold
      <3>3. QED
        BY <1>7, <3>1, <3>2
    <2>9. \A u \in User : links'[u] = links[u]
      BY <1>1, Tables DEF Inv, TypeOK
    <2>10. \A c \in Key : Located(c) /\ Present(c)' => LocatedBy(q, c)
      BY <2>7 DEF LocatedBy
    <2>11. \A b \in Branch : Present(b)' => row'[b].location = row[b].location
      BY <2>7, Tables
    <2>12. QED
      BY <1>1, <2>1, <2>2, <2>4, <2>5, <2>6, <2>8, <2>9, <2>10, <2>11 DEF Effect
  <1>9. TypeOK'
    <2>1. /\ pc' \in [Request -> Positions] /\ job' \in [Request -> JobOfHandler]
          /\ reply' \in [Request -> {"none", "done", "error", "not_found", "conflict"}]
      BY <1>1, CommitFrame DEF Inv
    <2>2. /\ links' \in [Role \cup User -> SUBSET (Role \cup Permission)]
          /\ \A c \in Role : links'[c] \subseteq Permission
          /\ \A u \in User : links'[u] \subseteq Role
      BY <1>1, Tables DEF Inv, TypeOK
    <2>3. QED
      BY <1>1, <1>5, <2>1, <2>2 DEF Inv, TypeOK, Positions
  <1>10. ASSUME NEW r \in Request, r # q, Doing(r, "assign")
         PROVE  links'[job[r].key] \subseteq job'[r].gone \cup job'[r].since
    <2>1. pc[r] # "idle" /\ AssignOK(r) /\ job[r] \in JobOfHandler
      BY <1>10, Tables DEF Inv, JobOK, TypeOK, NoJob, Doing
    <2>2. job'[r] = Noticed(q, r)
      BY <1>1, <1>10, <2>1, CommitFrame DEF Inv
    <2>3. job[q].op # "assign"
      BY <1>1 DEF Doing
    <2>4. job'[r].gone = job[r].gone /\ job'[r].since = job[r].since
      BY <2>1, <2>2, <2>3 DEF Noticed, JobOfHandler
    <2>5. links'[job[r].key] \subseteq links[job[r].key]
      BY <1>1, <2>1 DEF AssignOK, Inv, TypeOK
    <2>6. QED
      BY <2>1, <2>4, <2>5 DEF AssignOK
  <1>11. QED
    BY <1>1, <1>8, <1>9, <1>10, Commits, CommitFrame DEF Inv

-----------------------------------------------------------------------------
(* Assigning.                                                              *)

LEMMA StartsAssign ==
  ASSUME Inv, NEW q \in Request, NEW k \in Role \cup User, Present(k),
         NEW targets, k \in Role => targets \subseteq Permission,
         k \in User => targets \subseteq Role,
         NEW twice \in BOOLEAN, StartAssign(q, k, targets, twice), UNCHANGED tables
  PROVE  Inv'
  <1> DEFINE work == [NoJob EXCEPT !.op = "assign", !.key = k, !.targets = targets,
                                   !.gone = links[k], !.twice = twice]
  <1>1. k \in Key /\ row[k] # NoRow /\ targets \subseteq Role \cup Permission
    BY Rows, Tables DEF Present
  <1>2. /\ work \in JobOfHandler /\ work.op = "assign" /\ work.key = k
        /\ work.targets = targets /\ work.edits = {} /\ work.gone = links[k]
    <2>1. links[k] \subseteq Role \cup Permission
      BY DEF Inv, TypeOK
    <2>2. QED
      BY <1>1, <2>1, NoJobType DEF NoJob, JobOfHandler, Operation
  <1>3. Goto(q, "link", work)
    BY DEF StartAssign
  <1> HIDE DEF work
  <1>4. /\ pc'[q] = "link" /\ job'[q] = work /\ row' = row /\ links' = links
    BY <1>2, <1>3, GotoType DEF Inv, Positions, tables
  <1>5. AssignOK(q)'
    BY <1>1, <1>2, <1>4 DEF AssignOK, Known, Present
  <1>6. StillAsRead(q)'
    BY <1>2, <1>4 DEF StillAsRead
  <1>7. JobOK(q)'
    BY <1>2, <1>4, <1>5, <1>6 DEF JobOK, Doing
  <1>8. QED
    BY <1>1, <1>2, <1>3, <1>7, Starts

LEMMA AssignsStart ==
  ASSUME Inv, NEW q \in Request,
         \/ \E k \in Role, permissions \in SUBSET Permission :
              AssignRolePermissions(q, k, permissions)
         \/ \E u \in User, roles \in SUBSET Role, byId, twice \in BOOLEAN :
              AssignUserRoles(q, u, roles, byId, twice)
  PROVE  Inv'
  <1>1. ASSUME NEW k \in Role, NEW permissions \in SUBSET Permission,
               AssignRolePermissions(q, k, permissions)
        PROVE  Inv'
    BY <1>1, Finishes, StartsAssign, Tables DEF AssignRolePermissions
  <1>2. ASSUME NEW u \in User, NEW roles \in SUBSET Role, NEW byId \in BOOLEAN,
               NEW twice \in BOOLEAN, AssignUserRoles(q, u, roles, byId, twice)
        PROVE  Inv'
    BY <1>2, Finishes, StartsAssign, Tables DEF AssignUserRoles
  <1>3. QED
    BY <1>1, <1>2

LEMMA LinkKeeps ==
  ASSUME Inv, NEW q \in Request, Link(q),
         NEW k, k = job[q].key, NEW targets, targets = job[q].targets
  PROVE  Inv'
  <1>1. /\ pc[q] = "link" /\ UNCHANGED tables
        /\ \A r \in Request : r # q => \A c \in Referenced(k, targets) : ~Deletes(r, c)
    BY DEF Link, Others
  <1>2. JobOK(q) /\ Doing(q, "assign") /\ AssignOK(q) /\ job[q] \in JobOfHandler
    BY <1>1 DEF Inv, JobOK, TypeOK
  <1>3. CASE Fail(q)
    BY <1>1, <1>3, Finishes DEF Fail
  <1>4. CASE (\A c \in Referenced(k, targets) : Present(c)) /\ Goto(q, "commit", job[q])
    <2>1. /\ pc'[q] = "commit" /\ job'[q] = job[q] /\ OthersSame(q) /\ TypeOK'
          /\ row' = row /\ links' = links
      BY <1>1, <1>2, <1>4, GotoType DEF Inv, Positions, tables
    <2>2. AssignOK(q)'
      BY <1>2, <2>1 DEF AssignOK, Known, Present
    <2>3. ReadyToAssign(q)'
      BY <1>4, <2>1 DEF ReadyToAssign, Present, Referenced
    <2>4. JobOK(q)'
      <3>1. StillAsRead(q)'
        BY <2>1 DEF StillAsRead
      <3>2. QED
        BY <1>2, <2>1, <2>2, <2>3, <3>1, Tables DEF JobOK, Doing
    <2>5. ASSUME NEW r \in Request, r # q
          PROVE  Apart(q, r)' /\ Apart(r, q)'
      <3>1. pc'[r] = pc[r] /\ job'[r] = job[r] /\ Apart(r, q)
        BY <2>1, <2>5 DEF OthersSame, Inv
      <3>2. /\ Unlinking(q)' = {} /\ ~Doing(q, "create")' /\ ~Doing(q, "delete")'
            /\ ~Doing(q, "update")'
        BY <1>2, <2>1 DEF Unlinking, Doing
      <3>3. /\ \A c : ~Writes(q, c)'
            /\ \A c, parent, code : ~Adds(q, c, parent, code)'
        BY <3>2 DEF Writes, Deletes, Adds, Doing
      <3>4. Apart(q, r)'
        BY <3>2 DEF Apart
      <3>5. pc[r] = "commit" /\ Doing(r, "delete") => ~Needs(q, job[r].key)'
        <4>1. pc[r] = "commit" /\ Doing(r, "delete") =>
                job[r].key \notin Referenced(k, targets)
          BY <1>1, <2>5 DEF Deletes, Doing
        <4>2. QED
          BY <2>1, <3>1, <3>2, <4>1 DEF Needs, Referenced
      <3>6. Doing(r, "create")' => job'[q].key # job'[r].key
        BY <2>1, <3>1 DEF Apart, Doing
      <3>7. Apart(r, q)'
        BY <3>1, <3>3, <3>5, <3>6 DEF Apart, Doing
      <3>8. QED
        BY <3>4, <3>7
    <2>6. QED
      BY <1>1, <2>1, <2>4, <2>5, Quiet
  <1>5. QED
    BY <1>3, <1>4 DEF Link

LEMMA CommitAssignKeeps ==
  ASSUME Inv, NEW q \in Request, CommitAssign(q),
         NEW k, k = job[q].key, NEW targets, targets = job[q].targets
  PROVE  Inv'
  <1>1. /\ pc[q] = "commit" /\ Doing(q, "assign") /\ Commit(q)
        /\ links' = [links EXCEPT ![k] = (links[k] \ job[q].gone) \cup targets]
        /\ row' = row /\ locations' = locations
    BY DEF CommitAssign, Remaining, Doing
  <1>2. AssignOK(q) /\ ReadyToAssign(q) /\ k \in Role \cup User /\ k \in Key
    BY <1>1, Tables DEF Inv, JobOK, AssignOK
  <1>3. /\ links'[k] = (links[k] \ job[q].gone) \cup targets
        /\ \A c \in Role \cup User : c # k => links'[c] = links[c]
    BY <1>1, <1>2 DEF Inv, TypeOK
  <1>4. /\ \A c : ~Deletes(q, c) /\ ~Creates(q, c)
        /\ Unlinking(q) = {}
    BY <1>1 DEF Deletes, Creates, Unlinking, Doing
  <1>5. \A c \in Key : (Present(c)' <=> Present(c)) /\ (RowOK(c)' <=> RowOK(c))
    BY <1>1 DEF Present, RowOK
  <1>6. Effect(q)
    <2>1. \A c \in Key : RowOK(c)'
      BY <1>5 DEF Inv
    <2>2. \A c \in Key : Present(c)' => Kept(q, c)
      BY <1>1, <1>4, <1>5 DEF Kept
    <2>3. \A c \in Key : Located(c) /\ Present(c)' => LocatedBy(q, c)
      BY <1>1, <1>5 DEF LocatedBy
    <2>4. ASSUME NEW c \in Role \cup User, links'[c] # {}
          PROVE  Present(c)'
      <3>1. c \in Key
        BY Tables
      <3>2. CASE links[c] # {}
        BY <1>5, <3>1, <3>2 DEF Inv, ReferencesHold
      <3>3. CASE links[c] = {}
        <4>1. c = k /\ targets # {}
          BY <1>3, <2>4, <3>3
        <4>2. Present(k)
          BY <1>2, <4>1 DEF AssignOK, ReadyToAssign, Referenced
        <4>3. QED
          BY <1>5, <3>1, <4>1, <4>2
      <3>4. QED
        BY <3>2, <3>3
    <2>5. \A u \in User : \A c \in links'[u] : c \in links[u] \/ Needs(q, c)
      BY <1>1, <1>3 DEF Needs, Referenced
    <2>6. QED
      BY <1>1, <1>4, <1>5, <2>1, <2>2, <2>3, <2>4, <2>5 DEF Effect
  <1>7. TypeOK'
    <2>1. /\ pc' \in [Request -> Positions] /\ job' \in [Request -> JobOfHandler]
          /\ reply' \in [Request -> {"none", "done", "error", "not_found", "conflict"}]
      BY <1>1, CommitFrame DEF Inv
    <2>2. /\ links' \in [Role \cup User -> SUBSET (Role \cup Permission)]
          /\ \A c \in Role : links'[c] \subseteq Permission
          /\ \A u \in User : links'[u] \subseteq Role
      <3>1. /\ k \in User => targets \subseteq Role
            /\ k \in Role => targets \subseteq Permission
        BY <1>2 DEF AssignOK
      <3>2. QED
        BY <1>1, <1>2, <1>3, <3>1, Tables DEF Inv, TypeOK
    <2>3. QED
      BY <1>1, <2>1, <2>2 DEF Inv, TypeOK, Positions
  <1>8. ASSUME NEW r \in Request, r # q, Doing(r, "assign")
        PROVE  links'[job[r].key] \subseteq job'[r].gone \cup job'[r].since
    <2>1. pc[r] # "idle" /\ AssignOK(r) /\ job[r] \in JobOfHandler
      BY <1>8, Tables DEF Inv, JobOK, TypeOK, NoJob, Doing
    <2>2. job'[r] = Noticed(q, r)
      BY <1>1, <1>8, <2>1, CommitFrame DEF Inv
    <2>3. links[job[r].key] \subseteq job[r].gone \cup job[r].since
      BY <2>1 DEF AssignOK
    <2>4. CASE job[r].key = k
      <3>1. /\ job'[r].gone = job[r].gone \ job[q].gone
            /\ job'[r].since = job[r].since \cup targets
        BY <1>1, <2>1, <2>2, <2>4 DEF Noticed, JobOfHandler, Doing
      <3>2. QED
        BY <1>3, <2>3, <2>4, <3>1
    <2>5. CASE job[r].key # k
      <3>1. job'[r].gone = job[r].gone /\ job'[r].since = job[r].since
        BY <2>1, <2>2, <2>5 DEF Noticed, JobOfHandler
      <3>2. links'[job[r].key] = links[job[r].key]
        BY <1>3, <2>1, <2>5 DEF AssignOK
      <3>3. QED
        BY <2>3, <3>1, <3>2
    <2>6. QED
      BY <2>4, <2>5
  <1>9. QED
    BY <1>1, <1>6, <1>7, <1>8, Commits, CommitFrame DEF Inv

-----------------------------------------------------------------------------
(* The invariant.                                                          *)

LEMMA InitInv ==
  ASSUME Init
  PROVE  Inv
  <1>1. PICK code \in [SystemRole -> Code] :
          /\ \A r, s \in SystemRole : code[r] = code[s] => r = s
          /\ row = [k \in Key |->
                      IF k \in SystemRole THEN Row(None, code[k], None) ELSE NoRow]
    BY DEF Init
  <1>2. \A c \in Code : /\ Row(None, c, None) \in RowOfTable
                        /\ Row(None, c, None).state = "present"
                        /\ Row(None, c, None).parent = None
                        /\ Row(None, c, None).code = c
                        /\ Row(None, c, None).location = None
    BY DEF Row, RowOfTable
  <1>3. SystemRole \subseteq Role /\ SystemRole \subseteq Key
    BY OrganizationAssumption, Tables
  <1>4. /\ \A k \in Key : Present(k) <=> k \in SystemRole
        /\ \A k \in SystemRole : row[k].parent = None /\ row[k].code = code[k]
                                 /\ row[k].location = None
        /\ \A k \in Key : k \notin SystemRole => row[k] = NoRow
        /\ row \in [Key -> RowOfTable]
    BY <1>1, <1>2, <1>3, Rows DEF Present
  <1>5. /\ locations = {} /\ links = [k \in Role \cup User |-> {}]
        /\ pc = [q \in Request |-> "idle"] /\ job = [q \in Request |-> NoJob]
        /\ reply = [q \in Request |-> "none"]
    BY DEF Init
  <1>6. TypeOK
    BY <1>4, <1>5, NoJobType DEF TypeOK
  <1>7. \A k \in Key : RowOK(k)
    BY <1>3, <1>4, Tables DEF RowOK, ParentOK
  <1>8. ReferencesHold
    BY <1>3, <1>4, <1>5, Tables DEF ReferencesHold, Located
  <1>9. CodesAreUnique
    BY <1>1, <1>4 DEF CodesAreUnique, Collides
  <1>10. LocationsApart
    BY <1>3, <1>4, Tables DEF LocationsApart
  <1>11. IdleIsOK
    BY Idle
  <1>12. \A q \in Request : JobOK(q)
    BY <1>5, <1>11 DEF IdleIsOK
  <1>13. \A q, r \in Request : q # r => Apart(q, r)
    BY <1>5, <1>11, <1>12 DEF IdleIsOK
  <1>14. QED
    BY <1>6, <1>7, <1>8, <1>9, <1>10, <1>12, <1>13 DEF Inv

LEMMA CreateInv ==
  ASSUME Inv, NEW q \in Request, Create(q)
  PROVE  Inv'
  <1>1. ASSUME NEW code \in Code, NEW o \in Org, CreateOrganization(q, o, code)
        PROVE  Inv'
    BY <1>1, StartsCreate, Tables DEF CreateOrganization, ParentOK, Located
  <1>2. ASSUME NEW code \in Code, NEW b \in Branch, NEW o \in Org, CreateBranch(q, b, o, code)
        PROVE  Inv'
    BY <1>2, StartsCreate, Tables DEF CreateBranch, ParentOK, Located
  <1>3. ASSUME NEW code \in Code, NEW w \in Warehouse, NEW b \in Branch,
               NEW shared \in BOOLEAN, CreateWarehouse(q, w, b, code, shared)
        PROVE  Inv'
    <2>1. /\ BranchLocation(b) \in Location \cup {None} /\ b \in Key /\ w \in Key
          /\ ParentOK(w, b)
      BY Tables DEF Inv, TypeOK, RowOfTable, BranchLocation, ParentOK
    <2>2. CASE shared
      <3>1. StartCreate(q, w, b, code, FALSE, BranchLocation(b), FALSE)
        BY <1>3, <2>2 DEF CreateWarehouse
      <3>2. QED
        BY <2>1, <3>1, StartsCreate, Tables DEF Located
    <2>3. CASE ~shared
      <3>1. StartCreate(q, w, b, code, TRUE, None, FALSE)
        BY <1>3, <2>3 DEF CreateWarehouse
      <3>2. QED
        BY <2>1, <3>1, StartsCreate, Tables DEF Located
    <2>4. QED
      BY <2>2, <2>3
  <1>4. ASSUME NEW code \in Code, NEW r \in Role, NEW o \in Org \cup {None},
               CreateRole(q, r, o, code)
        PROVE  Inv'
    BY <1>4, StartsCreate, Tables DEF CreateRole, ParentOK, Located
  <1>5. ASSUME NEW code \in Code, NEW u \in User, NEW o \in Org, NEW twice \in BOOLEAN,
               CreateUser(q, u, o, code, twice)
        PROVE  Inv'
    <2>1. StartCreate(q, u, o, code, FALSE, None, twice)
      BY <1>5 DEF CreateUser
    <2>2. u \in Key /\ ParentOK(u, o) /\ ~Located(u) /\ u \notin Branch
      BY Tables DEF ParentOK, Located
    <2>3. QED
      BY <2>1, <2>2, StartsCreate
  <1>6. ASSUME NEW code \in Code, NEW s \in Series, NEW b \in Branch,
               CreateSeries(q, s, b, code)
        PROVE  Inv'
    BY <1>6, StartsCreate, Tables DEF CreateSeries, ParentOK, Located
  <1>7. ASSUME NEW roles \in SUBSET Role, Insert(q, roles)
        PROVE  Inv'
    BY <1>7, InsertKeeps
  <1>8. ASSUME NEW l \in Location, CommitCreate(q, l)
        PROVE  Inv'
    BY <1>8, CommitCreateKeeps
  <1>9. QED
    BY <1>1, <1>2, <1>3, <1>4, <1>5, <1>6, <1>7, <1>8 DEF Create

LEMMA InvHolds == Spec => []Inv
  <1>1. Init => Inv
    BY InitInv
  <1>2. Inv /\ [Next]_vars => Inv'
    <2> SUFFICES ASSUME Inv, [Next]_vars
                 PROVE  Inv'
      OBVIOUS
    <2>1. ASSUME NEW q \in Request, Alter(q)
          PROVE  Inv'
      BY <2>1, UpdatesStart, UpdateKeeps, CommitUpdateKeeps DEF Alter
    <2>2. ASSUME NEW q \in Request, Remove(q)
          PROVE  Inv'
      BY <2>2, DeletesStart, UnlinkKeeps, DeleteKeeps, CommitDeleteKeeps DEF Remove
    <2>3. ASSUME NEW q \in Request, Assign(q)
          PROVE  Inv'
      BY <2>3, AssignsStart, LinkKeeps, CommitAssignKeeps DEF Assign
    <2>4. ASSUME NEW q \in Request, Rollback(q)
          PROVE  Inv'
      BY <2>4, Finishes DEF Rollback
    <2>5. CASE UNCHANGED vars
      BY <2>5, Stutters
    <2>6. QED
      BY <2>1, <2>2, <2>3, <2>4, <2>5, CreateInv DEF Next
  <1>3. QED
    BY <1>1, <1>2, PTL DEF Spec

-----------------------------------------------------------------------------
(* The theorems.                                                           *)

(* Whatever the handlers do, tables, positions and answers have the shape  *)
(* the code gives them: role_permissions hold permissions, user_roles hold *)
(* roles.                                                                  *)
THEOREM TypeCorrect == Spec => []TypeOK
  <1>1. Inv => TypeOK
    BY DEF Inv
  <1>2. QED
    BY <1>1, InvHolds, PTL

(* No row ever refers to a row that is gone, for any number of handlers    *)
(* that create, assign and delete.                                         *)
THEOREM NoDanglingReference == Spec => []ReferencesHold
  <1>1. Inv => ReferencesHold
    BY DEF Inv
  <1>2. QED
    BY <1>1, InvHolds, PTL

(* A code never stands for two rows of its scope, though duplicates are    *)
(* looked for without a lock and roles become global.                      *)
THEOREM CodesStayUnique == Spec => []CodesAreUnique
  <1>1. Inv => CodesAreUnique
    BY DEF Inv
  <1>2. QED
    BY <1>1, InvHolds, PTL

(* Only a branch and its warehouses ever share a location, and no update   *)
(* of a warehouse edits that of a branch.                                  *)
THEOREM LocationsStayPrivate == Spec => []LocationsArePrivate
  <1>1. Inv => LocationsArePrivate
    <2> SUFFICES ASSUME Inv
                 PROVE  LocationsArePrivate
      OBVIOUS
    <2>1. ASSUME NEW q \in Request, NEW b \in Branch, job[q].key \in Warehouse, Present(b)
          PROVE  row[b].location \notin job[q].edits
      <3>1. JobOK(q)
        BY DEF Inv
      <3>2. CASE Doing(q, "update")
        BY <2>1, <3>1, <3>2 DEF JobOK, UpdateOK
      <3>3. CASE ~Doing(q, "update")
        BY <3>1, <3>3 DEF JobOK
      <3>4. QED
        BY <3>2, <3>3
    <2>2. QED
      BY <2>1 DEF Inv, LocationsApart, LocationsArePrivate
  <1>2. QED
    BY <1>1, InvHolds, PTL

-----------------------------------------------------------------------------
(* Steps that answer.                                                      *)

LEMMA GotoAnswers ==
  ASSUME NEW q \in Request, NEW step, NEW work, Goto(q, step, work), NEW r \in Request
  PROVE  reply'[r] = "none"
  BY DEF Goto

LEMMA FinishAnswers ==
  ASSUME NEW q \in Request, NEW answer, Finish(q, answer), NEW r \in Request
  PROVE  reply'[r] = IF r = q THEN answer ELSE "none"
  BY DEF Finish

LEMMA CommitAnswers ==
  ASSUME NEW q \in Request, Commit(q), NEW r \in Request
  PROVE  reply'[r] = IF r = q THEN "done" ELSE "none"
  BY DEF Commit

(* Only a commit answers "done", and only that of an assignment ends one. *)
LEMMA OnlyAssignsReply ==
  ASSUME TypeOK, NEW q \in Request, NEW r \in Request, Committing(r, "assign"),
         Create(q) \/ Alter(q) \/ Remove(q) \/ Assign(q) \/ Rollback(q)
  PROVE  q = r /\ CommitAssign(q)
  <1>1. pc[r] = "commit" /\ job[r].op = "assign" /\ reply'[r] = "done"
    BY DEF Committing
  <1>2. CASE Create(q)
    <2>1. ASSUME NEW k, NEW parent, NEW code, NEW own, NEW location, NEW twice,
                 StartCreate(q, k, parent, code, own, location, twice)
          PROVE  FALSE
      BY <1>1, <2>1, GotoAnswers, FinishAnswers DEF StartCreate
    <2>2. ASSUME NEW roles, Insert(q, roles)
          PROVE  FALSE
      BY <1>1, <2>2, GotoAnswers, FinishAnswers DEF Insert, Fail
    <2>3. ASSUME NEW l, CommitCreate(q, l)
          PROVE  FALSE
      BY <1>1, <2>3, CommitAnswers DEF CommitCreate
    <2>4. QED
      BY <1>2, <2>1, <2>2, <2>3
         DEF Create, CreateOrganization, CreateBranch, CreateWarehouse, CreateRole, CreateUser,
             CreateSeries
  <1>3. CASE Alter(q)
    <2>1. ASSUME NEW k, NEW edits, NEW own, NEW location,
                 StartUpdate(q, k, edits, own, location)
          PROVE  FALSE
      BY <1>1, <2>1, GotoAnswers, FinishAnswers DEF StartUpdate
    <2>2. ~Update(q)
      BY <1>1, GotoAnswers, FinishAnswers DEF Update, Fail
    <2>3. ASSUME NEW l, CommitUpdate(q, l)
          PROVE  FALSE
      BY <1>1, <2>3, CommitAnswers DEF CommitUpdate
    <2>4. ASSUME NEW w \in Warehouse, UpdateWarehouse(q, w)
          PROVE  FALSE
      BY <2>1, <2>4 DEF UpdateWarehouse, Custom
    <2>5. QED
      BY <1>3, <2>1, <2>2, <2>3, <2>4
         DEF Alter, UpdateOrganization, UpdateBranch, UpdateRole
  <1>4. CASE Remove(q)
    <2>1. ASSUME NEW k, NEW protected, NEW step, NEW roles,
                 StartDelete(q, k, protected, step, roles)
          PROVE  FALSE
      BY <1>1, <2>1, GotoAnswers, FinishAnswers DEF StartDelete
    <2>2. ~UnlinkRoles(q)
      BY <1>1, GotoAnswers, FinishAnswers DEF UnlinkRoles, Fail
    <2>3. ~Delete(q)
      BY <1>1, GotoAnswers, FinishAnswers DEF Delete, Fail
    <2>4. ~CommitDelete(q)
      BY <1>1, CommitAnswers DEF CommitDelete
    <2>5. QED
      BY <1>4, <2>1, <2>2, <2>3, <2>4
         DEF Remove, DeleteOrganization, DeleteBranch, DeleteWarehouse, DeleteRole
  <1>5. CASE Assign(q)
    <2>1. ASSUME NEW k, NEW permissions, AssignRolePermissions(q, k, permissions)
          PROVE  FALSE
      BY <1>1, <2>1, GotoAnswers, FinishAnswers DEF AssignRolePermissions, StartAssign
    <2>2. ASSUME NEW u, NEW roles, NEW byId, NEW twice,
                 AssignUserRoles(q, u, roles, byId, twice)
          PROVE  FALSE
      BY <1>1, <2>2, GotoAnswers, FinishAnswers DEF AssignUserRoles, StartAssign
    <2>3. ~Link(q)
      BY <1>1, GotoAnswers, FinishAnswers DEF Link, Fail
    <2>4. CommitAssign(q) => q = r
      BY <1>1, CommitAnswers DEF CommitAssign
    <2>5. QED
      BY <1>5, <2>1, <2>2, <2>3, <2>4 DEF Assign
  <1>6. CASE Rollback(q)
    BY <1>1, <1>6, FinishAnswers DEF Rollback
  <1>7. QED
    BY <1>2, <1>3, <1>4, <1>5, <1>6

(* What remains of the old links was inserted while the assignment ran.    *)
THEOREM AssignmentsReplace == Spec => AssignmentReplaces
  <1>1. Inv /\ [Next]_vars =>
          [\A q \in Request :
             Committing(q, "assign") =>
               /\ job[q].targets \subseteq links'[job[q].key]
               /\ links'[job[q].key] \subseteq job[q].targets \cup job[q].since]_vars
    <2> SUFFICES ASSUME Inv, Next, NEW r \in Request, Committing(r, "assign")
                 PROVE  /\ job[r].targets \subseteq links'[job[r].key]
                        /\ links'[job[r].key] \subseteq job[r].targets \cup job[r].since
      OBVIOUS
    <2>1. CommitAssign(r)
      BY OnlyAssignsReply DEF Next, Inv
    <2>2. AssignOK(r)
      BY <2>1 DEF Inv, JobOK, Doing, CommitAssign
    <2>3. links'[job[r].key] = Remaining(r) \cup job[r].targets
      BY <2>1, <2>2 DEF CommitAssign, Inv, TypeOK, AssignOK
    <2>4. QED
      BY <2>2, <2>3 DEF Remaining, AssignOK
  <1>2. QED
    BY <1>1, InvHolds, PTL DEF Spec, AssignmentReplaces

(* Where an error no handler translates comes from.                        *)
LEMMA ErrorsFail ==
  ASSUME TypeOK, NEW q \in Request, NEW r \in Request, pc[r] # "idle", reply'[r] = "error",
         Create(q) \/ Alter(q) \/ Remove(q) \/ Assign(q) \/ Rollback(q)
  PROVE  /\ q = r
         /\ \/ \E roles \in SUBSET Role : Insert(q, roles)
            \/ Update(q) \/ UnlinkRoles(q) \/ Delete(q) \/ Link(q)
  <1>1. CASE Create(q)
    <2>1. ASSUME NEW k, NEW parent, NEW code, NEW own, NEW location, NEW twice,
                 StartCreate(q, k, parent, code, own, location, twice)
          PROVE  FALSE
      BY <2>1, GotoAnswers, FinishAnswers DEF StartCreate
    <2>2. ASSUME NEW roles, Insert(q, roles)
          PROVE  q = r
      BY <2>2, GotoAnswers, FinishAnswers DEF Insert, Fail
    <2>3. ASSUME NEW l, CommitCreate(q, l)
          PROVE  FALSE
      BY <2>3, CommitAnswers DEF CommitCreate
    <2>4. QED
      BY <1>1, <2>1, <2>2, <2>3
         DEF Create, CreateOrganization, CreateBranch, CreateWarehouse, CreateRole, CreateUser,
             CreateSeries
  <1>2. CASE Alter(q)
    <2>1. ASSUME NEW k, NEW edits, NEW own, NEW location,
                 StartUpdate(q, k, edits, own, location)
          PROVE  FALSE
      BY <2>1, GotoAnswers, FinishAnswers DEF StartUpdate
    <2>2. Update(q) => q = r
      BY GotoAnswers, FinishAnswers DEF Update, Fail
    <2>3. ASSUME NEW l, CommitUpdate(q, l)
          PROVE  FALSE
      BY <2>3, CommitAnswers DEF CommitUpdate
    <2>4. ASSUME NEW w \in Warehouse, UpdateWarehouse(q, w)
          PROVE  FALSE
      BY <2>1, <2>4 DEF UpdateWarehouse, Custom
    <2>5. QED
      BY <1>2, <2>1, <2>2, <2>3, <2>4
         DEF Alter, UpdateOrganization, UpdateBranch, UpdateRole
  <1>3. CASE Remove(q)
    <2>1. ASSUME NEW k, NEW protected, NEW step, NEW roles,
                 StartDelete(q, k, protected, step, roles)
          PROVE  FALSE
      BY <2>1, GotoAnswers, FinishAnswers DEF StartDelete
    <2>2. UnlinkRoles(q) => q = r
      BY GotoAnswers, FinishAnswers DEF UnlinkRoles, Fail
    <2>3. Delete(q) => q = r
      BY GotoAnswers, FinishAnswers DEF Delete, Fail
    <2>4. ~CommitDelete(q)
      BY CommitAnswers DEF CommitDelete
    <2>5. QED
      BY <1>3, <2>1, <2>2, <2>3, <2>4
         DEF Remove, DeleteOrganization, DeleteBranch, DeleteWarehouse, DeleteRole
  <1>4. CASE Assign(q)
    <2>1. ASSUME NEW k, NEW permissions, AssignRolePermissions(q, k, permissions)
          PROVE  FALSE
      BY <2>1, GotoAnswers, FinishAnswers DEF AssignRolePermissions, StartAssign
    <2>2. ASSUME NEW u, NEW roles, NEW byId, NEW twice,
                 AssignUserRoles(q, u, roles, byId, twice)
          PROVE  FALSE
      BY <2>2, GotoAnswers, FinishAnswers DEF AssignUserRoles, StartAssign
    <2>3. Link(q) => q = r
      BY GotoAnswers, FinishAnswers DEF Link, Fail
    <2>4. ~CommitAssign(q)
      BY CommitAnswers DEF CommitAssign
    <2>5. QED
      BY <1>4, <2>1, <2>2, <2>3, <2>4 DEF Assign
  <1>5. ~Rollback(q)
    BY FinishAnswers DEF Rollback
  <1>6. QED
    BY <1>1, <1>2, <1>3, <1>4, <1>5

(* An untranslated error needs another commit since the handler started,   *)
(* or one of the listed requests that fail by themselves.                  *)
THEOREM ErrorsTyped == Spec => ErrorsAreTyped
  <1>1. Inv /\ [Next]_vars =>
          [\A q \in Request :
             pc[q] # "idle" /\ pc'[q] = "idle" /\ reply'[q] = "error" =>
               job[q].raced \/ Careless(q)]_vars
    <2> SUFFICES ASSUME Inv, Next, NEW r \in Request, pc[r] # "idle", pc'[r] = "idle",
                        reply'[r] = "error", ~job[r].raced
                 PROVE  Careless(r)
      OBVIOUS
    <2>1. StillAsRead(r) /\ JobOK(r) /\ TypeOK
      BY DEF Inv, JobOK
    <2>2. \/ \E roles \in SUBSET Role : Insert(r, roles)
          \/ Update(r) \/ UnlinkRoles(r) \/ Delete(r) \/ Link(r)
      BY <2>1, ErrorsFail DEF Next
    <2>3. \A step, work : ~Goto(r, step, work)
      BY GotoAnswers
    <2>4. ASSUME NEW roles \in SUBSET Role, Insert(r, roles)
          PROVE  Careless(r)
      BY <2>1, <2>3, <2>4 DEF Insert, StillAsRead, Careless
    <2>5. ~Update(r)
      BY <2>1, <2>3 DEF Update, StillAsRead
    <2>6. ASSUME UnlinkRoles(r)
          PROVE  Careless(r)
      BY <2>1, <2>3, <2>6 DEF UnlinkRoles, StillAsRead, Careless
    <2>7. ASSUME Delete(r)
          PROVE  Careless(r)
      <3>1. /\ job[r].op = "delete" /\ Restricting(r, job[r].key) # {}
            /\ Children(job[r].key) \subseteq job[r].targets \cup Series \cup User
        BY <2>1, <2>3, <2>7 DEF Delete, StillAsRead, JobOK, Doing
      <3>2. QED
        BY <3>1 DEF Restricting, Careless
    <2>8. ASSUME Link(r)
          PROVE  Careless(r)
      <3>1. job[r].op = "assign" /\ links[job[r].key] \subseteq job[r].gone
        BY <2>1, <2>8 DEF Link, StillAsRead, JobOK, Doing
      <3>2. \/ \E c \in Referenced(job[r].key, job[r].targets) : ~Present(c)
            \/ job[r].twice
        BY <2>3, <2>8, <3>1 DEF Link
      <3>3. QED
        BY <3>1, <3>2 DEF Careless
    <2>9. QED
      BY <2>2, <2>4, <2>5, <2>6, <2>7, <2>8
  <1>2. QED
    BY <1>1, InvHolds, PTL DEF Spec, ErrorsAreTyped
=============================================================================
