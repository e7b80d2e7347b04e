--------------------------- MODULE AccessControl ---------------------------
(***************************************************************************)
(* Requests on their way to a handler, and the handlers and scripts that   *)
(* change what they may do.  A request is dispatched, its principal is put *)
(* together by verify_session (one statement for the roles of the user and *)
(* one for the permissions of each role), and require_permission decides   *)
(* on it.  Meanwhile other requests assign permissions and roles, disable  *)
(* users and roles, and load_canonical_catalog.py or seed_demo.py gives    *)
(* the canonical roles their baselines again, in one transaction.          *)
(*                                                                         *)
(* Whether a session is valid is the matter of AuthSession, whether a      *)
(* step-up grant is there that of StepUp, and how rows of roles and users  *)
(* come and go that of Organization; here they are what a request brings,  *)
(* a verdict, and fixed sets.  Ids and codes of a body that name nothing   *)
(* are None and sets that are not subsets of Permission.                   *)
(***************************************************************************)
EXTENDS Endpoints

CONSTANTS
  Request,      \* requests and scripts that run concurrently
  Calls,        \* the endpoints that each of them may ask for
  User, Role,   \* primary keys of users and roles
  CodeOf,       \* the code of each role
  SystemRole,   \* the roles without an organization
  Requestable,  \* sets of permissions that the body of an assignment names
  None          \* no session, or an id that names nothing

ASSUME AccessAssumption ==
  /\ Calls \in [Request -> SUBSET Endpoints]
  /\ DOMAIN CodeOf = Role
  /\ SystemRole \subseteq Role
  /\ \A r, s \in SystemRole : CodeOf[r] = CodeOf[s] => r = s
  /\ None \notin User \cup Role

Canonical == {r \in SystemRole : CodeOf[r] \in CanonicalCode}

VARIABLES
  granted,  \* role_permissions: the permissions of each role
  held,     \* user_roles: the roles of each user
  enabled,  \* the users and roles with is_active
  pc, job,
  window,   \* history: what held since a request began to read its rights
  reply,    \* what the last step answered to whom
  events    \* the audit events that the last step committed

tables == <<granted, held, enabled>>
vars == <<tables, pc, job, window, reply, events>>

-----------------------------------------------------------------------------

Call(method, path) == [method |-> method, path |-> path]

NoJob ==
  [op |-> "none", user |-> None, call |-> None, csrf |-> FALSE, left |-> {},
   rights |-> {}, current |-> None, todo |-> {}, written |-> {}, raced |-> {},
   gone |-> [r \in Role |-> {}], targets |-> [r \in Role |-> {}]]

Goto(q, step, work) ==
  /\ pc' = [pc EXCEPT ![q] = step]
  /\ job' = [job EXCEPT ![q] = work]
  /\ reply' = [o \in Request |-> "none"]
  /\ events' = {}

FinishWith(q, answer, recorded) ==
  /\ pc' = [pc EXCEPT ![q] = "idle"]
  /\ job' = [job EXCEPT ![q] = NoJob]
  /\ reply' = [o \in Request |-> IF o = q THEN answer ELSE "none"]
  /\ events' = recorded

Finish(q, answer) == FinishWith(q, answer, {})

-----------------------------------------------------------------------------
(* The dependencies of a route.                                            *)

(* Those of the decorator come first: validate_csrf before the principal   *)
(* unless require_permission, which needs the principal, is before it.     *)
Arrive(q, u, call, csrf) ==
  LET route == Dispatch[call]
  IN  /\ pc[q] = "idle"
      /\ IF route.csrf /\ route.needs # "permission" /\ ~csrf THEN Finish(q, "csrf")
         ELSE IF route.needs = "nothing" THEN Finish(q, "served")
         ELSE IF u \notin enabled THEN Finish(q, "unauthenticated")
         ELSE Goto(q, "roles",
                [NoJob EXCEPT !.user = u, !.call = call, !.csrf = csrf])
      /\ UNCHANGED tables

(* Fault: is_active of a role is ignored.                                  *)
RolesOf_Inactive(u) == held[u]

(* list_roles_by_user and the active ones of them.                         *)
RolesOf(u) == held[u] \cap enabled

ReadRoles(q) ==
  /\ pc[q] = "roles"
  /\ Goto(q, "permissions", [job[q] EXCEPT !.left = RolesOf(job[q].user)])
  /\ UNCHANGED tables

(* list_permissions_by_role; the order makes no difference.                *)
ReadPermissions(q, r) ==
  /\ pc[q] = "permissions" /\ r \in job[q].left
  /\ Goto(q, "permissions",
       [job[q] EXCEPT !.left = @ \ {r}, !.rights = @ \cup granted[r]])
  /\ UNCHANGED tables

(* Default deny.                                                           *)
HasPermission(q, p) == p \in job[q].rights

Denied(p) == <<"DENIED", p>>

(* The rest of require_permission, and validate_csrf.  The verdict is that *)
(* of evaluate_step_up: a grant, no factor, or a new challenge.            *)
Decide(q, verdict) ==
  LET route == Dispatch[job[q].call]
      p == route.permission
  IN  /\ pc[q] = "permissions" /\ job[q].left = {}
      /\ verdict # "granted" => HasPermission(q, p) /\ NeedsStepUp(p)
      /\ IF route.needs = "principal" THEN Finish(q, "served")
         ELSE IF ~HasPermission(q, p) THEN FinishWith(q, "denied", {Denied(p)})
         ELSE IF verdict = "enroll" THEN Finish(q, "enroll")
         ELSE IF verdict = "challenge" THEN
           FinishWith(q, "challenge", {<<"SUCCESS", "step_up.challenge.created">>})
         ELSE IF route.csrf /\ ~job[q].csrf THEN Finish(q, "csrf")
         ELSE Goto(q, "handler", [NoJob EXCEPT !.call = job[q].call])
      /\ UNCHANGED tables

-----------------------------------------------------------------------------
(* Handlers that change what others may do.                                *)

Handling(q, method, path) ==
  pc[q] = "handler" /\ job[q].call = Call(method, path)

(* assign_user_roles; how assignments overlap is in Organization.          *)
AssignUserRoles(q, u, roles) ==
  /\ Handling(q, "PUT", UserRolesPath)
  /\ IF u = None
       THEN Finish(q, "not_found") /\ UNCHANGED held
       ELSE /\ FinishWith(q, "done", {<<"SUCCESS", "users.roles.assign">>})
            /\ held' = [held EXCEPT ![u] = roles]
  /\ UNCHANGED <<granted, enabled>>

DisableUser(q, u) ==
  /\ Handling(q, "PATCH", DisablePath)
  /\ IF u = None
       THEN Finish(q, "not_found") /\ UNCHANGED enabled
       ELSE /\ FinishWith(q, "done", {<<"SUCCESS", "users.disable">>})
            /\ enabled' = enabled \ {u}
  /\ UNCHANGED <<granted, held>>

UpdateRole(q, r, active) ==
  /\ Handling(q, "PATCH", RolePath)
  /\ IF r = None
       THEN Finish(q, "not_found") /\ UNCHANGED enabled
       ELSE /\ FinishWith(q, "done", {<<"SUCCESS", "roles.update">>})
            /\ enabled' = IF active THEN enabled \cup {r} ELSE enabled \ {r}
  /\ UNCHANGED <<granted, held>>

(* Every other handler changes nothing here.                               *)
Serve(q) ==
  /\ pc[q] = "handler"
  /\ job[q].call \notin {Call("PUT", RolePermissionsPath), Call("PUT", UserRolesPath),
                         Call("PATCH", DisablePath), Call("PATCH", RolePath)}
  /\ Finish(q, "served")
  /\ UNCHANGED tables

(* Fault: the code of the role makes no difference.                        *)
Permitted_NoGate(r, permissions) == TRUE

(* The gate for AUDITOR.                                                   *)
Permitted(r, permissions) ==
  CodeOf[r] = "AUDITOR" => permissions \cap Dangerous = {}

(* What is going to be deleted and inserted.                               *)
Replace(q, op, r, permissions) ==
  Goto(q, "clear", [job[q] EXCEPT !.op = op, !.current = r,
                                  !.todo = @ \ {r}, !.targets[r] = permissions])

AssignRolePermissions(q, r, permissions) ==
  /\ Handling(q, "PUT", RolePermissionsPath)
  /\ IF r = None THEN Finish(q, "not_found")
     ELSE IF ~(permissions \subseteq Permission) THEN Finish(q, "invalid")
     ELSE IF ~Permitted(r, permissions)
       THEN FinishWith(q, "conflict", {Denied(<<"permissions", "assign">>)})
     ELSE Replace(q, "assign", r, permissions)
  /\ UNCHANGED tables

-----------------------------------------------------------------------------
(* Scripts: load() of load_canonical_catalog.py gives every canonical role *)
(* its baseline, seed() of seed_demo.py those that do not have it.         *)

StartScript(q, op) ==
  /\ pc[q] = "idle"
  /\ op \in {"load", "seed"}
  /\ Goto(q, "script", [NoJob EXCEPT !.op = op, !.todo = Canonical])
  /\ UNCHANGED tables

(* Fault: only missing codes are looked for.                               *)
UpToDate_NoCount(r) == Baseline[CodeOf[r]] \subseteq granted[r]

(* No code is missing and there are as many.                               *)
UpToDate(r) == Baseline[CodeOf[r]] = granted[r]

IsNext(q, r) ==
  \A i \in DOMAIN CanonicalOrder :
    CanonicalOrder[i] = CodeOf[r] =>
      \A s \in job[q].todo : \A j \in 1..(i - 1) : CanonicalOrder[j] # CodeOf[s]

ScriptRole(q, r) ==
  /\ pc[q] = "script" /\ r \in job[q].todo /\ IsNext(q, r)
  /\ IF job[q].op = "seed" /\ UpToDate(r)
       THEN Goto(q, "script", [job[q] EXCEPT !.todo = @ \ {r}])
       ELSE Replace(q, job[q].op, r, Baseline[CodeOf[r]])
  /\ UNCHANGED tables

-----------------------------------------------------------------------------
(* set_role_permissions, and the commits.                                  *)

(* The rows the DELETE finds are those of the moment it starts.            *)
Clear(q) ==
  /\ pc[q] = "clear"
  /\ Goto(q, "link",
       [job[q] EXCEPT !.gone[job[q].current] = granted[job[q].current]])
  /\ UNCHANGED tables

Touched(q, r) == job[q].gone[r] \cup job[q].targets[r]

(* The DELETE and the INSERTs, which wait for others that deleted or       *)
(* inserted the same rows; a row the DELETE did not find is a duplicate.   *)
Link(q) ==
  LET r == job[q].current
  IN  /\ pc[q] = "link"
      /\ \A o \in Request \ {q} :
           r \in job[o].written => Touched(q, r) \cap Touched(o, r) = {}
      /\ IF job[q].targets[r] \cap (granted[r] \ job[q].gone[r]) # {}
           THEN Finish(q, "error")
           ELSE Goto(q, IF job[q].op = "assign" THEN "commit" ELSE "script",
                  [job[q] EXCEPT !.written = @ \cup {r}, !.current = None])
      /\ UNCHANGED tables

(* What a commit of q means to o: rows o has found are no longer there.    *)
(* raced only records that it happened.                                    *)
Noticed(o, q) ==
  [job[o] EXCEPT
     !.gone = [r \in Role |-> IF r \in job[q].written
                                THEN job[o].gone[r] \ job[q].gone[r] ELSE job[o].gone[r]],
     !.raced = @ \cup job[q].written]

Commit(q) ==
  /\ \/ pc[q] = "commit"
     \/ pc[q] = "script" /\ job[q].todo = {}
  /\ granted' = [r \in Role |->
                   IF r \in job[q].written
                     THEN (granted[r] \ job[q].gone[r]) \cup job[q].targets[r]
                     ELSE granted[r]]
  /\ pc' = [pc EXCEPT ![q] = "idle"]
  /\ job' = [o \in Request |->
               IF o = q THEN NoJob
               ELSE IF job[o].op = "none" THEN job[o] ELSE Noticed(o, q)]
  /\ reply' = [o \in Request |-> IF o = q THEN "done" ELSE "none"]
  /\ events' = IF job[q].op = "assign"
                 THEN {<<"SUCCESS", "permissions.assign">>} ELSE {}
  /\ UNCHANGED <<held, enabled>>

(* An error, a client that gives up, or a script that is stopped.          *)
Rollback(q) ==
  /\ pc[q] # "idle"
  /\ Finish(q, "none")
  /\ UNCHANGED tables

-----------------------------------------------------------------------------
(* History.  ever and always are the active roles the user had at some     *)
(* moment and at every moment since the request began to read, given and   *)
(* kept the permissions each role had.                                     *)

Reading == {"roles", "permissions"}

Closed ==
  [ever |-> {}, always |-> {},
   given |-> [r \in Role |-> {}], kept |-> [r \in Role |-> {}]]

Watch ==
  window' =
    [q \in Request |->
       IF pc'[q] \notin Reading THEN Closed
       ELSE LET now == held'[job'[q].user] \cap enabled'
            IN  IF pc[q] \notin Reading
                  THEN [ever |-> now, always |-> now, given |-> granted', kept |-> granted']
                  ELSE [ever |-> window[q].ever \cup now,
                        always |-> window[q].always \cap now,
                        given |-> [r \in Role |-> window[q].given[r] \cup granted'[r]],
                        kept |-> [r \in Role |-> window[q].kept[r] \cap granted'[r]]]]

(* The state the seed leaves and the first requests find.                  *)
Init ==
  /\ granted = [r \in Role |-> IF r \in Canonical THEN Baseline[CodeOf[r]] ELSE {}]
  /\ held \in [User -> SUBSET Role]
  /\ enabled = User \cup Role
  /\ pc = [q \in Request |-> "idle"]
  /\ job = [q \in Request |-> NoJob]
  /\ window = [q \in Request |-> Closed]
  /\ reply = [q \in Request |-> "none"]
  /\ events = {}

Access(q) ==
  \/ \E u \in User \cup {None}, call \in Calls[q], csrf \in BOOLEAN :
       Arrive(q, u, call, csrf)
  \/ ReadRoles(q)
  \/ \E r \in Role : ReadPermissions(q, r)
  \/ \E verdict \in {"granted", "enroll", "challenge"} : Decide(q, verdict)

Handle(q) ==
  \/ \E u \in User \cup {None}, roles \in SUBSET Role : AssignUserRoles(q, u, roles)
  \/ \E u \in User \cup {None} : DisableUser(q, u)
  \/ \E r \in Role \cup {None}, active \in BOOLEAN : UpdateRole(q, r, active)
  \/ \E r \in Role \cup {None}, permissions \in Requestable :
       AssignRolePermissions(q, r, permissions)
  \/ Serve(q)

Script(q) ==
  \/ \E op \in {"load", "seed"} : StartScript(q, op)
  \/ \E r \in Role : ScriptRole(q, r)

Step(q) ==
  \/ Access(q) \/ Handle(q) \/ Script(q)
  \/ Clear(q) \/ Link(q) \/ Commit(q) \/ Rollback(q)

Next == (\E q \in Request : Step(q)) /\ Watch

Spec == Init /\ [][Next]_vars

-----------------------------------------------------------------------------
(* Properties.                                                             *)

Jobs ==
  [op : {"none", "assign", "load", "seed"}, user : User \cup {None},
   call : Endpoints \cup {None}, csrf : BOOLEAN, left : SUBSET Role,
   rights : SUBSET Permission, current : Role \cup {None}, todo : SUBSET Role,
   written : SUBSET Role, raced : SUBSET Role,
   gone : [Role -> SUBSET Permission], targets : [Role -> SUBSET Permission]]

(* The tables, positions and answers have the shape the code gives them.   *)
TypeOK ==
  /\ granted \in [Role -> SUBSET Permission]
  /\ held \in [User -> SUBSET Role]
  /\ enabled \subseteq User \cup Role
  /\ pc \in [Request -> {"idle", "roles", "permissions", "handler", "script",
                         "clear", "link", "commit"}]
  /\ job \in [Request -> Jobs]
  /\ window \in [Request -> [ever : SUBSET Role, always : SUBSET Role,
                             given : [Role -> SUBSET Permission],
                             kept : [Role -> SUBSET Permission]]]

(* A principal is put together by several statements while roles and       *)
(* permissions change.  What it may do is still recent: each of its rights *)
(* was a permission some role had, and that role an active one the user    *)
(* had, since the request began, though perhaps not at the same moment; a  *)
(* right withdrawn before is not used.  And nothing is lost: what the user *)
(* could do by one role all the time is among them.                        *)
RightsAreRecent ==
  \A q \in Request :
    /\ \A p \in job[q].rights : \E r \in window[q].ever : p \in window[q].given[r]
    /\ pc[q] = "permissions" =>
         \A r \in window[q].always \ job[q].left :
           window[q].kept[r] \subseteq job[q].rights

(* A role called AUDITOR has no permission with a dangerous action of the  *)
(* catalogue: its baseline has none, and the gate of assignments holds     *)
(* whichever assignments, loads and seeds overlap.                         *)
AuditorIsReadOnly ==
  \A r \in Role : CodeOf[r] = "AUDITOR" => granted[r] \cap Dangerous = {}

Decides(q) ==
  /\ pc[q] = "permissions" /\ job[q].left = {} /\ pc'[q] # "permissions"
  /\ reply'[q] # "none" \/ pc'[q] = "handler"

(* The matrix that is published is the one that is applied: a request for  *)
(* one of its endpoints reaches the handler of that endpoint; it passes    *)
(* only if some role gave the user the permission listed since it began,   *)
(* and is refused, with one audit event and no other change, only if no    *)
(* role did all the time; and step-up is asked only of those who pass, for *)
(* permissions of high or critical risk.                                   *)
PublishedMatrixHolds ==
  [][\A q \in Request : \A row \in PublishedMatrix :
       Decides(q) /\ job[q].call = Endpoint(row) =>
         /\ Dispatch[job[q].call].path = row.path
         /\ reply'[q] # "denied" =>
              \E r \in window[q].ever : row.permission \in window[q].given[r]
         /\ reply'[q] = "denied" =>
              \A r \in window[q].always : row.permission \notin window[q].kept[r]
         /\ reply'[q] = "denied" <=> events' = {Denied(row.permission)}
         /\ reply'[q] \in {"enroll", "challenge"} => NeedsStepUp(row.permission)
         /\ UNCHANGED tables]_vars

Loads(q) == job[q].op \in {"load", "seed"} /\ pc[q] = "script" /\ reply'[q] = "done"

(* A load leaves every canonical role with at least its baseline, and it   *)
(* and a seed with exactly that if no assignment to the role committed     *)
(* meanwhile: counting is enough to see that a role needs no seeding.      *)
LoadRestoresBaselines ==
  [][\A q \in Request : Loads(q) =>
       \A r \in Canonical :
         /\ job[q].op = "load" => Baseline[CodeOf[r]] \subseteq granted'[r]
         /\ r \notin job[q].raced => granted'[r] = Baseline[CodeOf[r]]]_vars
=============================================================================
