---------------------------- MODULE Organization ----------------------------
(***************************************************************************)
(* Organizations, branches, warehouses, locations, roles and users: the    *)
(* services of modules/organization/service.py, and create_user and        *)
(* assign_user_roles of modules/auth/service.py.  Of the document series   *)
(* there are the rows, for whose sake a branch cannot be deleted: numbers  *)
(* and the refusals of create_series are in DocumentSeries.                *)
(*                                                                         *)
(* All of them work alike: they read without a lock and answer a typed     *)
(* error, then write, and whatever changed in between is for the unique    *)
(* indexes and foreign keys to notice, as an error no handler translates.  *)
(* One variable holds the rows of all tables, because their keys and       *)
(* foreign keys are all that matters here.  Names, descriptions, addresses *)
(* and is_active are one value, so that an update only locks its row and   *)
(* moves a warehouse between locations.  Audit events are left out.        *)
(***************************************************************************)
EXTENDS Naturals, FiniteSets

CONSTANTS
  Request,     \* handlers that run concurrently
  Org, Branch, Warehouse, Series, Role, User,  \* primary keys, one set per table
  Location,    \* primary keys of operational_locations
  Permission,  \* the permission catalogue, which no handler changes
  Mutation,    \* those whose action is one of dangerous_actions
  Code,        \* codes of all tables, e-mail addresses of users, and the
               \* pairs of document type and year of series
  AuditorCode, \* "AUDITOR"
  SystemRole,  \* the roles the loader creates with is_system
  None         \* NULL

Key == Org \cup Branch \cup Warehouse \cup Series \cup Role \cup User

Operation == {"create", "update", "delete", "assign"}

ASSUME OrganizationAssumption ==
  /\ Mutation \subseteq Permission
  /\ AuditorCode \in Code
  /\ SystemRole \subseteq Role
  /\ Org \cap (Branch \cup Warehouse \cup Series \cup Role \cup User) = {}
  /\ Branch \cap (Warehouse \cup Series \cup Role \cup User) = {}
  /\ Warehouse \cap (Series \cup Role \cup User) = {}
  /\ Series \cap (Role \cup User) = {}
  /\ Role \cap User = {}
  /\ None \notin Key \cup Location \cup Code \cup Operation

VARIABLES
  row,        \* the rows of all tables with keys in Key
  locations,  \* the keys in operational_locations, which nothing deletes
  links,      \* role_permissions by role, user_roles by user
  pc, job,
  reply       \* what the last step answered to whom

tables == <<row, locations, links>>
vars == <<tables, pc, job, reply>>

-----------------------------------------------------------------------------
(* Rows.  parent is organization_id, and branch_id for a warehouse or a    *)
(* series, whose organization_id is that of its branch.                    *)

NoRow == [state |-> "unused", parent |-> None, code |-> None, location |-> None]
Row(parent, code, location) ==
  [state |-> "present", parent |-> parent, code |-> code, location |-> location]
Deleted == [NoRow EXCEPT !.state = "deleted"]

Present(k) == row[k].state = "present"
Children(k) == {c \in Key : Present(c) /\ row[c].parent = k}

(* Whether both are of one table.                                          *)
SameTable(k, c) ==
  \E Table \in {Org, Branch, Warehouse, Series, Role, User} : {k, c} \subseteq Table

(* Codes are unique within the parent, addresses of users everywhere.      *)
Collides(k, parent, code, c) ==
  /\ SameTable(k, c)
  /\ row[c].code = code
  /\ k \in User \/ row[c].parent = parent

Duplicates(k, parent, code) ==
  {c \in Key : Present(c) /\ Collides(k, parent, code, c)}

(* get_by_code with the organization of the user and then without: the     *)
(* role a code may stand for.                                              *)
Resolves(r, code, org) ==
  /\ Present(r) /\ row[r].code = code
  /\ \/ row[r].parent = org
     \/ /\ row[r].parent = None
        /\ \A s \in Role : Present(s) /\ row[s].code = code => row[s].parent # org

(* The sets of roles that lists of codes may stand for.                    *)
Resolved(org) == SUBSET {r \in Role : Resolves(r, row[r].code, org)}

-----------------------------------------------------------------------------
(* Handlers.                                                               *)

NoJob ==
  [op |-> None, key |-> None, new |-> NoRow, targets |-> {}, gone |-> {},
   edits |-> {}, needsLocation |-> FALSE, twice |-> FALSE,
   raced |-> FALSE, since |-> {}]

Goto(q, step, work) ==
  /\ pc' = [pc EXCEPT ![q] = step]
  /\ job' = [job EXCEPT ![q] = work]
  /\ reply' = [r \in Request |-> "none"]

Finish(q, answer) ==
  /\ pc' = [pc EXCEPT ![q] = "idle"]
  /\ job' = [job EXCEPT ![q] = NoJob]
  /\ reply' = [r \in Request |-> IF r = q THEN answer ELSE "none"]

(* A statement that a constraint refuses: IntegrityError or StaleDataError,*)
(* for which there is no handler of exceptions.                            *)
Fail(q) == Finish(q, "error")

(* What a commit of q means to another handler: rows its DELETE had found  *)
(* are no longer there; raced and since only record that it happened.      *)
Noticed(q, r) ==
  LET together == job[r].key = job[q].key /\ job[q].op = "assign"
  IN  [job[r] EXCEPT
         !.gone = IF together THEN @ \ job[q].gone ELSE @,
         !.since = IF together THEN @ \cup job[q].targets ELSE @,
         !.raced = TRUE]

Commit(q) ==
  /\ pc' = [pc EXCEPT ![q] = "idle"]
  /\ job' = [r \in Request |->
               IF r = q THEN NoJob
               ELSE IF pc[r] = "idle" THEN job[r] ELSE Noticed(q, r)]
  /\ reply' = [r \in Request |-> IF r = q THEN "done" ELSE "none"]

-----------------------------------------------------------------------------
(* Locks.  A handler in position "commit" has written everything, and      *)
(* delete_organization in position "delete" has already written its roles. *)

Others(q) == Request \ {q}

Unlinking(r) == IF pc[r] \in {"delete", "commit"} /\ job[r].op = "delete"
                THEN job[r].targets ELSE {}
Deletes(r, k) == pc[r] = "commit" /\ job[r].op = "delete" /\ job[r].key = k

(* The row lock of a writer.                                               *)
Writes(r, k) ==
  \/ Deletes(r, k)
  \/ pc[r] = "commit" /\ job[r].op = "update" /\ job[r].key = k
  \/ k \in Unlinking(r)

(* FOR KEY SHARE: what an inserted foreign key takes of the row it names.  *)
Refers(r, k) ==
  /\ pc[r] = "commit"
  /\ \/ job[r].op = "create" /\ job[r].new.parent = k
     \/ job[r].op \in {"create", "assign"} /\ k \in job[r].targets
     \/ job[r].op = "assign" /\ job[r].key = k /\ job[r].targets # {}

(* r has removed a row that refers to k, and not yet committed.            *)
Releases(r, k) ==
  /\ pc[r] = "commit"
  /\ \/ job[r].op = "assign" /\ k \in job[r].gone
     \/ job[r].op = "assign" /\ k = job[r].key /\ job[r].gone # {}
     \/ job[r].op = "delete" /\ job[r].key \in Children(k)

(* Fault: an entry that is not committed is not seen.                      *)
Disputes_Committed(r, k, parent, code) == FALSE

(* An entry of a unique index that r inserted or removed.                  *)
Disputes(r, k, parent, code) ==
  \/ /\ pc[r] = "commit" /\ job[r].op = "create"
     /\ SameTable(k, job[r].key) /\ job[r].new.code = code
     /\ k \in User \/ job[r].new.parent = parent
  \/ \E c \in Duplicates(k, parent, code) : Deletes(r, c)
  \/ \E c \in Unlinking(r) : k \in Role /\ parent = None /\ row[c].code = code

-----------------------------------------------------------------------------
(* Creating: create_organization, create_branch, create_warehouse,         *)
(* create_role, create_user, create_series.                                *)

Located(k) == k \in Branch \cup Warehouse

BranchLocation(b) == row[b].location

(* Bound: there is a location left for each handler that may insert one.   *)
RoomForLocation ==
  Cardinality({r \in Request : job[r].needsLocation})
    < Cardinality(Location \ locations)

(* A key is a new UUID: no other handler is about to insert it.            *)
Fresh(k) == row[k] = NoRow /\ \A r \in Request : job[r].key # k

(* The reads: the parent, if there is one, and the code.  own says that    *)
(* the row gets a new location, otherwise it has the given one; twice that *)
(* the list of role codes names a role more than once.                     *)
StartCreate(q, k, parent, code, own, location, twice) ==
  /\ pc[q] = "idle" /\ Fresh(k)
  /\ own => RoomForLocation
  /\ IF parent # None /\ ~Present(parent) THEN Finish(q, "not_found")
     ELSE IF Duplicates(k, parent, code) # {} THEN Finish(q, "conflict")
     ELSE Goto(q, "insert",
            [NoJob EXCEPT !.op = "create", !.key = k, !.needsLocation = own,
                          !.new = Row(parent, code, location), !.twice = twice])
  /\ UNCHANGED tables

CreateOrganization(q, o, code) == StartCreate(q, o, None, code, FALSE, None, FALSE)
CreateBranch(q, b, o, code) == StartCreate(q, b, o, code, TRUE, None, FALSE)
CreateUser(q, u, o, email, twice) ==
  StartCreate(q, u, o, email, FALSE, None, twice)
CreateSeries(q, s, b, code) == StartCreate(q, s, b, code, FALSE, None, FALSE)

(* A role without an organization is global.                               *)
CreateRole(q, r, o, code) == StartCreate(q, r, o, code, FALSE, None, FALSE)

(* shared is use_branch_location.                                          *)
CreateWarehouse(q, w, b, code, shared) ==
  StartCreate(q, w, b, code, ~shared, IF shared THEN BranchLocation(b) ELSE None,
              FALSE)

(* The INSERT, with the roles that create_user looks up and inserts after  *)
(* it: a list is the set of its roles and twice, on which uq_user_role     *)
(* fails.                                                                  *)
Insert(q, roles) ==
  LET k == job[q].key
      new == job[q].new
  IN  /\ pc[q] = "insert"
      /\ \A r \in Others(q) :
           /\ ~Deletes(r, new.parent)
           /\ ~Disputes(r, k, new.parent, new.code)
           /\ \A role \in roles : ~Deletes(r, role)
      /\ roles # {} => k \in User /\ roles \in Resolved(new.parent)
      /\ IF \/ new.parent # None /\ ~Present(new.parent)
            \/ Duplicates(k, new.parent, new.code) # {}
            \/ job[q].twice /\ roles # {}
           THEN Fail(q)
           ELSE Goto(q, "commit", [job[q] EXCEPT !.targets = roles])
      /\ UNCHANGED tables

CommitCreate(q, l) ==
  LET k == job[q].key
      own == job[q].needsLocation
  IN  /\ pc[q] = "commit" /\ job[q].op = "create"
      /\ own => l \notin locations
      /\ row' = [row EXCEPT ![k] =
                   IF own THEN [job[q].new EXCEPT !.location = l] ELSE job[q].new]
      /\ locations' = IF own THEN locations \cup {l} ELSE locations
      /\ links' = IF k \in User THEN [links EXCEPT ![k] = job[q].targets] ELSE links
      /\ Commit(q)

-----------------------------------------------------------------------------
(* Updating: update_organization, update_branch, update_warehouse,         *)
(* update_role.                                                            *)

(* Warehouse w has a location of its own.                                  *)
Alone(w) == row[w].location # BranchLocation(row[w].parent)

(* edits is the row of operational_locations that is written, own says     *)
(* that one is inserted, location is a new value of location_id, if any.   *)
StartUpdate(q, k, edits, own, location) ==
  /\ pc[q] = "idle" /\ row[k] # NoRow
  /\ own => RoomForLocation
  /\ IF Present(k)
       THEN Goto(q, "update",
              [NoJob EXCEPT !.op = "update", !.key = k, !.edits = edits,
                            !.needsLocation = own, !.new.location = location])
       ELSE Finish(q, "not_found")
  /\ UNCHANGED tables

UpdateOrganization(q, o) == StartUpdate(q, o, {}, FALSE, None)
UpdateRole(q, r) == StartUpdate(q, r, {}, FALSE, None)

(* With an address or without.                                             *)
UpdateBranch(q, b, address) ==
  StartUpdate(q, b, IF address THEN {row[b].location} ELSE {}, FALSE, None)

(* Fault: a custom address is always written into the row there is.        *)
Custom_InPlace(q, w) == StartUpdate(q, w, {row[w].location}, FALSE, None)

(* A custom address is written into a row of its own, or inserted.         *)
Custom(q, w) ==
  IF Alone(w) THEN StartUpdate(q, w, {row[w].location}, FALSE, None)
              ELSE StartUpdate(q, w, {}, TRUE, None)

(* An address of its own, use_branch_location, or neither.                 *)
UpdateWarehouse(q, w) ==
  \/ Present(w) /\ Custom(q, w)
  \/ Present(w) /\ Alone(w)
       /\ StartUpdate(q, w, {}, FALSE, BranchLocation(row[w].parent))
  \/ StartUpdate(q, w, {}, FALSE, None)

(* The UPDATE finds the row or not (StaleDataError).                       *)
Update(q) ==
  /\ pc[q] = "update"
  /\ \A r \in Others(q) :
       /\ ~Writes(r, job[q].key)
       /\ pc[r] = "commit" => job[q].edits \cap job[r].edits = {}
  /\ IF Present(job[q].key) THEN Goto(q, "commit", job[q]) ELSE Fail(q)
  /\ UNCHANGED tables

(* Of the columns in the model, only location_id is ever written.          *)
CommitUpdate(q, l) ==
  LET own == job[q].needsLocation
  IN  /\ pc[q] = "commit" /\ job[q].op = "update"
      /\ own => l \notin locations
      /\ row' = [row EXCEPT ![job[q].key].location =
                   IF own THEN l
                   ELSE IF job[q].new.location # None THEN job[q].new.location ELSE @]
      /\ locations' = IF own THEN locations \cup {l} ELSE locations
      /\ Commit(q)
      /\ UNCHANGED links

-----------------------------------------------------------------------------
(* Deleting: delete_organization, delete_branch, delete_warehouse,         *)
(* delete_role.                                                            *)

(* What is counted or looked at first makes the row protected.             *)
StartDelete(q, k, protected, step, roles) ==
  /\ pc[q] = "idle" /\ row[k] # NoRow
  /\ IF ~Present(k) THEN Finish(q, "not_found")
     ELSE IF protected THEN Finish(q, "conflict")
     ELSE Goto(q, step, [NoJob EXCEPT !.op = "delete", !.key = k, !.targets = roles])
  /\ UNCHANGED tables

(* Fault: the branches of an organization are not counted.                 *)
HasBranches_NotCounted(o) == FALSE

HasBranches(o) == Children(o) \cap Branch # {}

(* The session loads the roles of the organization it is to delete.        *)
DeleteOrganization(q, o) ==
  StartDelete(q, o, HasBranches(o), "unlink", Children(o) \cap Role)

(* Warehouses are counted, series are not.                                 *)
DeleteBranch(q, b) ==
  StartDelete(q, b, Children(b) \cap Warehouse # {}, "delete", {})
DeleteWarehouse(q, w) == StartDelete(q, w, FALSE, "delete", {})
DeleteRole(q, r) == StartDelete(q, r, r \in SystemRole, "delete", {})

(* Organization.roles has no cascade: the flush sets organization_id of    *)
(* the roles to NULL before it deletes the organization.                   *)
UnlinkRoles(q) ==
  /\ pc[q] = "unlink"
  /\ \A r \in Others(q), role \in job[q].targets :
       ~Writes(r, role) /\ ~Disputes(r, role, None, row[role].code)
  /\ IF \E role \in job[q].targets :
          ~Present(role) \/ Duplicates(role, None, row[role].code) \ {role} # {}
       THEN Fail(q)
       ELSE Goto(q, "delete", job[q])
  /\ UNCHANGED tables

(* Fault: the foreign keys do not restrict deletions.                      *)
Restricting_None(q, k) == {}

(* The rows for whose sake a foreign key with RESTRICT refuses to delete k.*)
Restricting(q, k) ==
  (Children(k) \ job[q].targets) \cup {u \in User : k \in links[u]}

(* The DELETE.  That the row is gone already is only a warning.            *)
Delete(q) ==
  LET k == job[q].key
  IN  /\ pc[q] = "delete"
      /\ \A r \in Others(q) : ~Writes(r, k) /\ ~Refers(r, k) /\ ~Releases(r, k)
      /\ IF Restricting(q, k) # {} THEN Fail(q) ELSE Goto(q, "commit", job[q])
      /\ UNCHANGED tables

CommitDelete(q) ==
  LET k == job[q].key
  IN  /\ pc[q] = "commit" /\ job[q].op = "delete"
      /\ row' = [c \in Key |->
                   IF c = k THEN Deleted
                   ELSE IF c \in job[q].targets THEN [row[c] EXCEPT !.parent = None]
                   ELSE row[c]]
      /\ links' = IF k \in Role THEN [links EXCEPT ![k] = {}] ELSE links
      /\ Commit(q)
      /\ UNCHANGED locations

-----------------------------------------------------------------------------
(* Assigning: assign_role_permissions and assign_user_roles, which delete  *)
(* all rows of their key and insert new ones.                              *)

(* The gate for AUDITOR.                                                   *)
Permitted(k, permissions) ==
  row[k].code = AuditorCode => permissions \cap Mutation = {}

(* The rows the DELETE finds are those of the moment it starts.            *)
StartAssign(q, k, targets, twice) ==
  Goto(q, "link", [NoJob EXCEPT !.op = "assign", !.key = k, !.targets = targets,
                                !.gone = links[k], !.twice = twice])

(* set_role_permissions removes duplicates.                                *)
AssignRolePermissions(q, k, permissions) ==
  /\ pc[q] = "idle"
  /\ k \in Role /\ row[k] # NoRow
  /\ IF ~Present(k) THEN Finish(q, "not_found")
     ELSE IF ~Permitted(k, permissions) THEN Finish(q, "conflict")
     ELSE StartAssign(q, k, permissions, FALSE)
  /\ UNCHANGED tables

(* Roles given by id are taken as they are, roles given by code looked up. *)
(* A user without a row is a path parameter that names nobody.             *)
(* set_user_roles inserts a role as often as the list names it.            *)
AssignUserRoles(q, u, roles, byId, twice) ==
  /\ pc[q] = "idle"
  /\ twice => roles # {}
  /\ byId \/ (Present(u) /\ roles \in Resolved(row[u].parent))
  /\ IF ~Present(u) THEN Finish(q, "not_found")
     ELSE StartAssign(q, u, roles, twice)
  /\ UNCHANGED tables

(* The rows an insert of the new links needs.                              *)
Referenced(k, targets) ==
  IF k \in User THEN targets ELSE IF targets = {} THEN {} ELSE {k}

(* The DELETE and the INSERTs, which wait for other writers of the rows    *)
(* found and of the unique entries, and for deletions of what they name.   *)
Link(q) ==
  LET k == job[q].key
      targets == job[q].targets
  IN  /\ pc[q] = "link"
      /\ \A r \in Others(q) :
           /\ ~Deletes(r, k) /\ \A c \in Referenced(k, targets) : ~Deletes(r, c)
           /\ job[r].key = k /\ job[r].op = "assign" /\ pc[r] = "commit" =>
                (job[q].gone \cup targets) \cap (job[r].gone \cup job[r].targets) = {}
      /\ IF \/ targets \cap (links[k] \ job[q].gone) # {}
            \/ \E c \in Referenced(k, targets) : ~Present(c)
            \/ job[q].twice
           THEN Fail(q)
           ELSE Goto(q, "commit", job[q])
      /\ UNCHANGED tables

(* Fault: the old rows are not deleted.                                    *)
Remaining_All(q) == links[job[q].key]

(* What the DELETE did not find.                                           *)
Remaining(q) == links[job[q].key] \ job[q].gone

CommitAssign(q) ==
  /\ pc[q] = "commit" /\ job[q].op = "assign"
  /\ links' = [links EXCEPT ![job[q].key] = Remaining(q) \cup job[q].targets]
  /\ Commit(q)
  /\ UNCHANGED <<row, locations>>

-----------------------------------------------------------------------------
(* A handler that fails or whose client gives up before the commit.        *)
Rollback(q) ==
  /\ pc[q] # "idle"
  /\ Finish(q, "none")
  /\ UNCHANGED tables

Create(q) ==
  \/ \E code \in Code :
       \/ \E o \in Org : CreateOrganization(q, o, code)
       \/ \E b \in Branch, o \in Org : CreateBranch(q, b, o, code)
       \/ \E w \in Warehouse, b \in Branch, shared \in BOOLEAN :
            CreateWarehouse(q, w, b, code, shared)
       \/ \E r \in Role, o \in Org \cup {None} : CreateRole(q, r, o, code)
       \/ \E u \in User, o \in Org, twice \in BOOLEAN : CreateUser(q, u, o, code, twice)
       \/ \E s \in Series, b \in Branch : CreateSeries(q, s, b, code)
  \/ \E roles \in SUBSET Role : Insert(q, roles)
  \/ \E l \in Location : CommitCreate(q, l)

Alter(q) ==
  \/ \E o \in Org : UpdateOrganization(q, o)
  \/ \E b \in Branch, address \in BOOLEAN : UpdateBranch(q, b, address)
  \/ \E w \in Warehouse : UpdateWarehouse(q, w)
  \/ \E r \in Role : UpdateRole(q, r)
  \/ Update(q)
  \/ \E l \in Location : CommitUpdate(q, l)

Remove(q) ==
  \/ \E o \in Org : DeleteOrganization(q, o)
  \/ \E b \in Branch : DeleteBranch(q, b)
  \/ \E w \in Warehouse : DeleteWarehouse(q, w)
  \/ \E r \in Role : DeleteRole(q, r)
  \/ UnlinkRoles(q) \/ Delete(q) \/ CommitDelete(q)

Assign(q) ==
  \/ \E k \in Role, permissions \in SUBSET Permission :
       AssignRolePermissions(q, k, permissions)
  \/ \E u \in User, roles \in SUBSET Role, byId, twice \in BOOLEAN :
       AssignUserRoles(q, u, roles, byId, twice)
  \/ Link(q) \/ CommitAssign(q)

(* The loader has created the system roles, which are global.              *)
Init ==
  /\ \E code \in [SystemRole -> Code] :
       /\ \A r, s \in SystemRole : code[r] = code[s] => r = s
       /\ row = [k \in Key |->
                   IF k \in SystemRole THEN Row(None, code[k], None) ELSE NoRow]
  /\ locations = {}
  /\ links = [k \in Role \cup User |-> {}]
  /\ pc = [q \in Request |-> "idle"]
  /\ job = [q \in Request |-> NoJob]
  /\ reply = [q \in Request |-> "none"]

Next ==
  \E q \in Request : Create(q) \/ Alter(q) \/ Remove(q) \/ Assign(q) \/ Rollback(q)

Spec == Init /\ [][Next]_vars

-----------------------------------------------------------------------------
(* Properties.                                                             *)

RowOfTable ==
  [state : {"unused", "present", "deleted"}, parent : Key \cup {None},
   code : Code \cup {None}, location : Location \cup {None}]

JobOfHandler ==
  [op : Operation \cup {None}, key : Key \cup {None},
   new : RowOfTable, targets : SUBSET (Role \cup Permission),
   gone : SUBSET (Role \cup Permission), edits : SUBSET Location,
   needsLocation : BOOLEAN, twice : BOOLEAN,
   raced : BOOLEAN, since : SUBSET (Role \cup Permission)]

(* The tables, positions and answers have the shape the code gives them,   *)
(* and every branch and warehouse has a location that exists.              *)
TypeOK ==
  /\ row \in [Key -> RowOfTable]
  /\ locations \subseteq Location
  /\ links \in [Role \cup User -> SUBSET (Role \cup Permission)]
  /\ \A k \in Role : links[k] \subseteq Permission
  /\ \A u \in User : links[u] \subseteq Role
  /\ pc \in [Request -> {"idle", "insert", "update", "unlink", "delete", "link", "commit"}]
  /\ job \in [Request -> JobOfHandler]
  /\ reply \in [Request -> {"none", "done", "error", "not_found", "conflict"}]

(* No row refers to a row that is gone, whichever creations, assignments   *)
(* and deletions overlap: a parent is counted empty without a lock before  *)
(* it is deleted, and looked up without a lock before it gets a child.     *)
(* Every branch and warehouse has a location that is still there.          *)
ReferencesHold ==
  /\ \A k \in Key : Present(k) /\ row[k].parent # None => Present(row[k].parent)
  /\ \A k \in Key : Present(k) /\ Located(k) => row[k].location \in locations
  /\ \A k \in Role \cup User : links[k] # {} => Present(k)
  /\ \A u \in User : \A r \in links[u] : Present(r)

(* A code stands for one row of its organization, branch or table, and a   *)
(* code of a global role for one role, although duplicates are looked for  *)
(* without a lock and the deletion of an organization moves its roles to   *)
(* the global ones.                                                        *)
CodesAreUnique ==
  \A k, c \in Key :
    Present(k) /\ Present(c) /\ Collides(k, row[k].parent, row[k].code, c) => k = c

(* Two rows share a location only if one is a branch and the other one of  *)
(* its warehouses, or both are warehouses that use that of their branch;   *)
(* and update_warehouse never edits the address of a branch, although it   *)
(* decides on what it read whether the address is the warehouse's own.     *)
LocationsArePrivate ==
  /\ \A k, c \in Branch \cup Warehouse :
       /\ Present(k) /\ Present(c) /\ k # c
       /\ row[k].location = row[c].location
       => \E b \in Branch : /\ row[b].location = row[k].location
                            /\ {k, c} \subseteq {b} \cup Children(b)
  /\ \A q \in Request, b \in Branch :
       /\ pc[q] \in {"update", "commit"} /\ job[q].key \in Warehouse
       /\ Present(b)
       => row[b].location \notin job[q].edits

Committing(q, op) ==
  pc[q] = "commit" /\ job[q].op = op /\ pc'[q] = "idle" /\ reply'[q] = "done"

(* An assignment replaces what there was when it started: whatever stays   *)
(* besides the permissions or roles asked for was inserted by assignments  *)
(* that committed while it ran.                                            *)
AssignmentReplaces ==
  [][\A q \in Request :
       Committing(q, "assign") =>
         /\ job[q].targets \subseteq links'[job[q].key]
         /\ links'[job[q].key] \subseteq job[q].targets \cup job[q].since]_vars

(* Requests that a foreign key or a unique index refuses without any       *)
(* concurrency, because nothing in the code looks: a role id that names    *)
(* nothing, a role named twice, a branch with a series, an organization    *)
(* with users, a role that is assigned, and an organization with a role    *)
(* whose code is a global one.                                             *)
Careless(q) ==
  LET k == job[q].key
  IN  \/ job[q].twice
      \/ job[q].op = "assign" /\ \E c \in Referenced(k, job[q].targets) : ~Present(c)
      \/ job[q].op = "delete" /\ Children(k) \cap (Series \cup User) # {}
      \/ job[q].op = "delete" /\ \E u \in User : k \in links[u]
      \/ pc[q] = "unlink" /\ \E r \in job[q].targets :
                                Duplicates(r, None, row[r].code) \ {r} # {}

(* For every other request an error of the database that no handler        *)
(* translates needs another handler to commit since this one started.      *)
(* Texts that do not fit their column are not in the model.                *)
ErrorsAreTyped ==
  [][\A q \in Request :
       pc[q] # "idle" /\ pc'[q] = "idle" /\ reply'[q] = "error" =>
         job[q].raced \/ Careless(q)]_vars
=============================================================================
