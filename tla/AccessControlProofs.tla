------------------------ MODULE AccessControlProofs ------------------------
(***************************************************************************)
(* Proofs about AccessControl, for any requests and scripts, users, roles  *)
(* and bodies of assignments.                                              *)
(***************************************************************************)
EXTENDS AccessControl, EndpointsProofs

-----------------------------------------------------------------------------
(* The data: every baseline is made of permissions of the catalogue, and   *)
(* that of AUDITOR of harmless actions.                                    *)

LEMMA BaselineTypes ==
  ASSUME NEW code \in CanonicalCode
  PROVE  Baseline[code] \subseteq Permission
  <1>1. StructureRead \subseteq Permission
    BY DEF StructureRead, StructurePermissions, Permission
  <1>2. ReportsView \subseteq Permission
    BY DEF ReportsView, On, ControlPermissions, Permission
  <1>3. PurchasingBaseline \subseteq Permission
    BY <1>1, <1>2 DEF PurchasingBaseline, On, GoodsPermissions, Permission
  <1>4. ReceivingBaseline \subseteq Permission
    BY <1>1, <1>2 DEF ReceivingBaseline, On, GoodsPermissions, Permission
  <1>5. QualityBaseline \subseteq Permission
    BY <1>1, <1>2 DEF QualityBaseline, On, GoodsPermissions, Permission
  <1>6. WarehouseBaseline \subseteq Permission
    BY <1>1 DEF WarehouseBaseline, On, GoodsPermissions, DocumentPermissions, Permission
  <1>7. InventoryBaseline \subseteq Permission
    BY <1>1, <1>2 DEF InventoryBaseline, On, GoodsPermissions, Permission
  <1>8. DispatchBaseline \subseteq Permission
    BY <1>1 DEF DispatchBaseline, On, DeliveryPermissions, DocumentPermissions, Permission
  <1>9. TransportBaseline \subseteq Permission
    BY <1>1, <1>2 DEF TransportBaseline, On, DeliveryPermissions, Permission
  <1>10. DriverBaseline \subseteq Permission
    BY DEF DriverBaseline, On, DeliveryPermissions, DocumentPermissions, Permission
  <1>11. {"roles", "permissions", "purchasing", "receiving", "quality", "inventory",
          "dispatch", "driver", "document_catalog"} \X {"read"} \subseteq Permission
    BY DEF On, AccessPermissions, GoodsPermissions, DeliveryPermissions,
           DocumentPermissions, Permission
  <1>12. {"reports"} \X {"view", "export"} \cup {"audit"} \X {"read", "export"}
           \subseteq Permission
    BY DEF ControlPermissions, Permission
  <1>13. AuditorBaseline \subseteq Permission
    BY <1>1, <1>11, <1>12 DEF AuditorBaseline, On, DocumentPermissions, Permission
  <1>14. {"receiving", "quality", "inventory", "dispatch", "driver"} \X {"read"}
           \subseteq Permission
    BY <1>11
  <1>15. ManagementBaseline \subseteq Permission
    BY <1>12, <1>14 DEF ManagementBaseline, On, GoodsPermissions, DeliveryPermissions,
                        DocumentPermissions, Permission
  <1>16. QED
    BY <1>3, <1>4, <1>5, <1>6, <1>7, <1>8, <1>9, <1>10, <1>13, <1>15
       DEF Baseline, CanonicalCode

LEMMA AuditorBaselineIsHarmless ==
  Baseline["AUDITOR"] \cap Dangerous = {}
  <1>1. \A p \in AuditorBaseline : p[2] \in {"read", "download", "view", "export", "preview"}
    BY DEF AuditorBaseline, StructureRead, On
  <1>2. AuditorBaseline \cap Dangerous = {}
    BY <1>1 DEF Dangerous, DangerousAction
  <1>3. QED
    BY <1>2 DEF Baseline

-----------------------------------------------------------------------------
(* The invariant.                                                          *)

Steps == {"idle", "roles", "permissions", "handler", "script", "clear", "link", "commit"}
Scripts == {"load", "seed"}

Harmless(permissions) ==
  \A r \in Role : CodeOf[r] = "AUDITOR" => permissions[r] \cap Dangerous = {}

(* What a request or script has on its hands.                              *)
AtWork(step, work) == IF step \in {"clear", "link"} THEN {work.current} ELSE {}

(* A script has each canonical role still to do, on its hands, or done: a  *)
(* role it passed over has its baseline, and of one it replaced it deletes *)
(* all there is, unless a commit raced it.                                 *)
ScriptOK(step, work) ==
  \A r \in Canonical :
    /\ r \in work.written \cup AtWork(step, work) => work.targets[r] = Baseline[CodeOf[r]]
    /\ work.op = "load" => r \in work.todo \cup work.written \cup AtWork(step, work)
    /\ r \notin work.raced =>
         /\ \/ r \in work.todo \cup AtWork(step, work)
            \/ granted[r] = Baseline[CodeOf[r]]
            \/ r \in work.written /\ granted[r] \subseteq work.gone[r]
         /\ step = "link" /\ r = work.current => granted[r] \subseteq work.gone[r]

WorkOK(step, work) ==
  /\ step \in Reading => work.user \in User
  /\ step # "permissions" => work.rights = {} /\ work.left = {}
  /\ step \in {"clear", "link"} => work.current \in Role /\ work.op # "none"
  /\ step \in Reading \cup {"idle", "handler"} => work.op = "none"
  /\ step = "script" => work.op \in Scripts
  /\ Harmless(work.targets)
  /\ work.op \in Scripts => work.todo \subseteq Canonical /\ ScriptOK(step, work)

TablesOK ==
  /\ granted \in [Role -> SUBSET Permission]
  /\ held \in [User -> SUBSET Role]
  /\ enabled \subseteq User \cup Role
  /\ Harmless(granted)

ControlInv ==
  /\ TablesOK
  /\ pc \in [Request -> Steps]
  /\ job \in [Request -> Jobs]
  /\ \A q \in Request : WorkOK(pc[q], job[q])

Window ==
  [ever : SUBSET Role, always : SUBSET Role,
   given : [Role -> SUBSET Permission], kept : [Role -> SUBSET Permission]]

(* While a request reads, its window holds what it could still read.       *)
WindowOK(q) ==
  LET roles == RolesOf(job[q].user)
  IN  pc[q] \in Reading =>
        /\ roles \cup job[q].left \subseteq window[q].ever
        /\ window[q].always \subseteq roles
        /\ \A r \in Role :
             /\ granted[r] \subseteq window[q].given[r]
             /\ window[q].kept[r] \subseteq granted[r]

WindowInv ==
  /\ window \in [Request -> Window]
  /\ \A q \in Request : WindowOK(q)
  /\ RightsAreRecent

Inv == ControlInv /\ WindowInv

-----------------------------------------------------------------------------
(* Jobs.                                                                   *)

LEMMA NoJobType == NoJob \in Jobs
  BY DEF NoJob, Jobs

LEMMA IdleWork == WorkOK("idle", NoJob)
  BY DEF WorkOK, NoJob, Harmless, Scripts, Reading

(* What Finish and Goto assign.                                            *)
LEMMA FinishControl ==
  ASSUME ControlInv, NEW q \in Request, NEW answer, NEW recorded,
         FinishWith(q, answer, recorded), TablesOK', granted' = granted
  PROVE  /\ ControlInv'
         /\ pc'[q] = "idle" /\ job'[q] = NoJob
         /\ \A o \in Request \ {q} : pc'[o] = pc[o] /\ job'[o] = job[o]
  <1>1. /\ pc' \in [Request -> Steps]
        /\ job' \in [Request -> Jobs]
        /\ pc'[q] = "idle" /\ job'[q] = NoJob
        /\ \A o \in Request \ {q} : pc'[o] = pc[o] /\ job'[o] = job[o]
    BY NoJobType DEF ControlInv, FinishWith, Steps
  <1>2. \A o \in Request : WorkOK(pc'[o], job'[o])
    BY <1>1, IdleWork DEF ControlInv
  <1>3. \A o \in Request : WorkOK(pc[o], job[o])'
    BY <1>2 DEF WorkOK, ScriptOK
  <1>4. QED
    BY <1>1, <1>3 DEF ControlInv

LEMMA GotoControl ==
  ASSUME ControlInv, NEW q \in Request, NEW step \in Steps, NEW work \in Jobs,
         WorkOK(step, work), Goto(q, step, work), UNCHANGED tables
  PROVE  /\ ControlInv'
         /\ pc'[q] = step /\ job'[q] = work
         /\ \A o \in Request \ {q} : pc'[o] = pc[o] /\ job'[o] = job[o]
  <1>1. /\ pc' \in [Request -> Steps]
        /\ job' \in [Request -> Jobs]
        /\ pc'[q] = step /\ job'[q] = work
        /\ \A o \in Request \ {q} : pc'[o] = pc[o] /\ job'[o] = job[o]
    BY DEF ControlInv, Goto
  <1>2. \A o \in Request : WorkOK(pc'[o], job'[o])
    BY <1>1 DEF ControlInv
  <1>3. \A o \in Request : WorkOK(pc[o], job[o])'
    BY <1>2 DEF WorkOK, ScriptOK, tables
  <1>4. TablesOK'
    BY DEF ControlInv, TablesOK, tables, Harmless
  <1>5. QED
    BY <1>1, <1>3, <1>4 DEF ControlInv

-----------------------------------------------------------------------------
(* What a step means to the rights that are read: those of the others stay *)
(* as they are, and q begins to read, reads, or has none afterwards.       *)

Others(q) ==
  \A o \in Request \ {q} :
    /\ pc'[o] = pc[o] /\ job'[o].user = job[o].user
    /\ job'[o].left = job[o].left /\ job'[o].rights = job[o].rights

Begins(q) ==
  pc[q] = "idle" /\ pc'[q] = "roles" /\ job'[q].left = {} /\ job'[q].rights = {}

Reads(q) ==
  /\ UNCHANGED tables
  /\ pc[q] \in Reading /\ pc'[q] = "permissions" /\ job'[q].user = job[q].user
  /\ \/ /\ pc[q] = "roles" /\ job'[q].left = RolesOf(job[q].user)
        /\ job'[q].rights = {}
     \/ /\ pc[q] = "permissions"
        /\ \E r \in job[q].left :
             /\ job'[q].left = job[q].left \ {r}
             /\ job'[q].rights = job[q].rights \cup granted[r]

Stops(q) == pc'[q] \notin Reading /\ job'[q].rights = {}

Moves(q) == ControlInv' /\ Others(q) /\ (Begins(q) \/ Reads(q) \/ Stops(q))

LEMMA FinishMoves ==
  ASSUME ControlInv, NEW q \in Request, NEW answer, NEW recorded,
         FinishWith(q, answer, recorded), TablesOK', granted' = granted
  PROVE  Moves(q)
  <1>1. QED
    BY FinishControl DEF Moves, Others, Stops, NoJob, Reading

LEMMA KeptTables ==
  ASSUME ControlInv, UNCHANGED tables
  PROVE  TablesOK' /\ granted' = granted
  BY DEF ControlInv, TablesOK, tables, Harmless

LEMMA ArriveMoves ==
  ASSUME ControlInv, NEW q \in Request, NEW u \in User \cup {None},
         NEW call \in Calls[q], NEW csrf \in BOOLEAN, Arrive(q, u, call, csrf)
  PROVE  Moves(q)
  <1> DEFINE work == [NoJob EXCEPT !.user = u, !.call = call, !.csrf = csrf]
  <1>1. TablesOK' /\ granted' = granted
    BY KeptTables DEF Arrive
  <1>2. CASE \E answer : Finish(q, answer)
    BY <1>1, <1>2, FinishMoves DEF Finish
  <1>3. CASE u \in enabled /\ Goto(q, "roles", work)
    <2>1. u \in User
      BY <1>3, AccessAssumption DEF ControlInv, TablesOK
    <2>2. call \in Endpoints
      BY AccessAssumption
    <2>3. work \in Jobs
      BY <2>1, <2>2, NoJobType DEF Jobs, NoJob
    <2>4. WorkOK("roles", work)
      BY <2>1 DEF WorkOK, NoJob, Harmless, Scripts, Reading
    <2>5. UNCHANGED tables /\ pc[q] = "idle"
      BY DEF Arrive
    <2>6. /\ ControlInv' /\ pc'[q] = "roles" /\ job'[q] = work
          /\ \A o \in Request \ {q} : pc'[o] = pc[o] /\ job'[o] = job[o]
      BY <1>3, <2>3, <2>4, <2>5, GotoControl DEF Steps
    <2>7. QED
      BY <2>5, <2>6 DEF Moves, Others, Begins, NoJob
  <1>4. QED
    BY <1>2, <1>3 DEF Arrive

LEMMA ReadRolesMoves ==
  ASSUME ControlInv, NEW q \in Request, ReadRoles(q)
  PROVE  Moves(q)
  <1> DEFINE work == [job[q] EXCEPT !.left = RolesOf(job[q].user)]
  <1>1. /\ UNCHANGED tables /\ pc[q] = "roles" /\ Goto(q, "permissions", work)
        /\ job[q] \in Jobs /\ WorkOK("roles", job[q])
    BY DEF ReadRoles, ControlInv
  <1>2. job[q].user \in User /\ job[q].rights = {}
    BY <1>1 DEF WorkOK, Reading
  <1>3. RolesOf(job[q].user) \in SUBSET Role
    BY <1>2 DEF RolesOf, ControlInv, TablesOK
  <1>4. work \in Jobs
    BY <1>1, <1>3 DEF Jobs
  <1>5. WorkOK("permissions", work)
    BY <1>1, <1>2 DEF WorkOK, Reading, Scripts, Jobs
  <1>6. /\ ControlInv' /\ pc'[q] = "permissions" /\ job'[q] = work
        /\ \A o \in Request \ {q} : pc'[o] = pc[o] /\ job'[o] = job[o]
    BY <1>1, <1>4, <1>5, GotoControl DEF Steps
  <1>7. QED
    BY <1>1, <1>2, <1>6 DEF Moves, Others, Reads, Reading, Jobs

LEMMA ReadPermissionsMoves ==
  ASSUME ControlInv, NEW q \in Request, NEW r \in Role, ReadPermissions(q, r)
  PROVE  Moves(q)
  <1> DEFINE work == [job[q] EXCEPT !.left = @ \ {r}, !.rights = @ \cup granted[r]]
  <1>1. /\ UNCHANGED tables /\ pc[q] = "permissions" /\ r \in job[q].left
        /\ Goto(q, "permissions", work)
        /\ job[q] \in Jobs /\ WorkOK("permissions", job[q])
    BY DEF ReadPermissions, ControlInv
  <1>2. granted[r] \in SUBSET Permission
    BY DEF ControlInv, TablesOK
  <1>3. work \in Jobs
    BY <1>1, <1>2 DEF Jobs
  <1>4. WorkOK("permissions", work)
    BY <1>1 DEF WorkOK, Reading, Scripts, Jobs
  <1>5. /\ ControlInv' /\ pc'[q] = "permissions" /\ job'[q] = work
        /\ \A o \in Request \ {q} : pc'[o] = pc[o] /\ job'[o] = job[o]
    BY <1>1, <1>3, <1>4, GotoControl DEF Steps
  <1>6. QED
    BY <1>1, <1>5 DEF Moves, Others, Reads, Reading, Jobs

LEMMA DecideMoves ==
  ASSUME ControlInv, NEW q \in Request,
         NEW verdict \in {"granted", "enroll", "challenge"}, Decide(q, verdict)
  PROVE  Moves(q)
  <1> DEFINE work == [NoJob EXCEPT !.call = job[q].call]
  <1>1. TablesOK' /\ granted' = granted
    BY KeptTables DEF Decide
  <1>2. CASE \E answer, recorded : FinishWith(q, answer, recorded)
    BY <1>1, <1>2, FinishMoves
  <1>3. CASE Goto(q, "handler", work)
    <2>1. job[q] \in Jobs
      BY DEF ControlInv
    <2>2. work \in Jobs
      BY <2>1, NoJobType DEF Jobs, NoJob
    <2>3. WorkOK("handler", work)
      BY DEF WorkOK, NoJob, Harmless, Scripts, Reading
    <2>4. /\ ControlInv' /\ pc'[q] = "handler" /\ job'[q] = work
          /\ \A o \in Request \ {q} : pc'[o] = pc[o] /\ job'[o] = job[o]
      BY <1>3, <2>2, <2>3, GotoControl DEF Steps, Decide
    <2>5. QED
      BY <2>4 DEF Moves, Others, Stops, NoJob, Reading
  <1>4. QED
    BY <1>2, <1>3 DEF Decide, Finish

-----------------------------------------------------------------------------
(* Handlers and scripts.                                                   *)

LEMMA HandleMoves ==
  ASSUME ControlInv, NEW q \in Request, NEW u \in User \cup {None},
         NEW roles \in SUBSET Role, NEW r \in Role \cup {None}, NEW active \in BOOLEAN,
         \/ AssignUserRoles(q, u, roles) \/ DisableUser(q, u)
         \/ UpdateRole(q, r, active) \/ Serve(q)
  PROVE  Moves(q)
  <1>1. CASE AssignUserRoles(q, u, roles)
    <2>1. TablesOK' /\ granted' = granted
      BY <1>1 DEF AssignUserRoles, ControlInv, TablesOK, Harmless
    <2>2. \E answer, recorded : FinishWith(q, answer, recorded)
      BY <1>1 DEF AssignUserRoles, Finish
    <2>3. QED
      BY <2>1, <2>2, FinishMoves
  <1>2. CASE DisableUser(q, u)
    <2>1. TablesOK' /\ granted' = granted
      BY <1>2 DEF DisableUser, ControlInv, TablesOK, Harmless
    <2>2. \E answer, recorded : FinishWith(q, answer, recorded)
      BY <1>2 DEF DisableUser, Finish
    <2>3. QED
      BY <2>1, <2>2, FinishMoves
  <1>3. CASE UpdateRole(q, r, active)
    <2>1. TablesOK' /\ granted' = granted
      BY <1>3 DEF UpdateRole, ControlInv, TablesOK, Harmless
    <2>2. \E answer, recorded : FinishWith(q, answer, recorded)
      BY <1>3 DEF UpdateRole, Finish
    <2>3. QED
      BY <2>1, <2>2, FinishMoves
  <1>4. CASE Serve(q)
    BY <1>4, KeptTables, FinishMoves DEF Serve, Finish
  <1>5. QED
    BY <1>1, <1>2, <1>3, <1>4

LEMMA ReplaceMoves ==
  ASSUME ControlInv, NEW q \in Request, NEW r \in Role,
         NEW permissions \in SUBSET Permission, NEW op \in Scripts \cup {"assign"},
         CodeOf[r] = "AUDITOR" => permissions \cap Dangerous = {},
         pc[q] # "permissions",
         op \in Scripts =>
           pc[q] = "script" /\ job[q].op = op /\ permissions = Baseline[CodeOf[r]],
         Replace(q, op, r, permissions), UNCHANGED tables
  PROVE  Moves(q)
  <1> DEFINE work == [job[q] EXCEPT !.op = op, !.current = r, !.todo = @ \ {r},
                                    !.targets[r] = permissions]
  <1>1. Goto(q, "clear", work)
    BY DEF Replace
  <1>2. job[q] \in Jobs /\ WorkOK(pc[q], job[q])
    BY DEF ControlInv
  <1>3. work \in Jobs
    BY <1>2 DEF Jobs, Scripts
  <1>4. /\ work.op = op /\ work.current = r /\ work.todo = job[q].todo \ {r}
        /\ work.rights = job[q].rights /\ work.left = job[q].left
        /\ work.written = job[q].written /\ work.raced = job[q].raced
        /\ work.gone = job[q].gone
        /\ \A s \in Role : work.targets[s] = IF s = r THEN permissions ELSE job[q].targets[s]
    BY <1>2 DEF Jobs
  <1>5. Harmless(work.targets)
    BY <1>2, <1>4 DEF WorkOK, Harmless
  <1>6. ASSUME op \in Scripts
        PROVE  work.todo \subseteq Canonical /\ ScriptOK("clear", work)
    <2>1. job[q].todo \subseteq Canonical /\ ScriptOK("script", job[q])
      BY <1>2, <1>6 DEF WorkOK
    <2>2. Canonical \subseteq Role
      BY AccessAssumption DEF Canonical
    <2>3. QED
      BY <1>4, <1>6, <2>1, <2>2 DEF ScriptOK, AtWork
  <1>7. WorkOK("clear", work)
    BY <1>2, <1>4, <1>5, <1>6 DEF WorkOK, Reading, Scripts
  <1>8. /\ ControlInv' /\ pc'[q] = "clear" /\ job'[q] = work
        /\ \A o \in Request \ {q} : pc'[o] = pc[o] /\ job'[o] = job[o]
    BY <1>1, <1>3, <1>7, GotoControl DEF Steps
  <1>9. work.rights = {}
    BY <1>2, <1>4 DEF WorkOK
  <1>10. QED
    BY <1>8, <1>9 DEF Moves, Others, Stops, Reading

LEMMA AssignRolePermissionsMoves ==
  ASSUME ControlInv, NEW q \in Request, NEW r \in Role \cup {None},
         NEW permissions \in Requestable, AssignRolePermissions(q, r, permissions)
  PROVE  Moves(q)
  <1>1. UNCHANGED tables /\ pc[q] = "handler"
    BY DEF AssignRolePermissions, Handling
  <1>2. CASE \E answer, recorded : FinishWith(q, answer, recorded)
    BY <1>1, <1>2, KeptTables, FinishMoves
  <1>3. CASE /\ r # None /\ permissions \subseteq Permission /\ Permitted(r, permissions)
             /\ Replace(q, "assign", r, permissions)
    BY <1>1, <1>3, ReplaceMoves DEF Permitted, Scripts
  <1>4. QED
    BY <1>2, <1>3 DEF AssignRolePermissions, Finish

LEMMA StartScriptMoves ==
  ASSUME ControlInv, NEW q \in Request, NEW op \in Scripts, StartScript(q, op)
  PROVE  Moves(q)
  <1> DEFINE work == [NoJob EXCEPT !.op = op, !.todo = Canonical]
  <1>1. Canonical \subseteq Role
    BY AccessAssumption DEF Canonical
  <1>2. work \in Jobs
    BY <1>1, NoJobType DEF Jobs, NoJob, Scripts
  <1>3. WorkOK("script", work)
    BY <1>1 DEF WorkOK, NoJob, Harmless, Scripts, Reading, ScriptOK, AtWork
  <1>4. /\ ControlInv' /\ pc'[q] = "script" /\ job'[q] = work
        /\ \A o \in Request \ {q} : pc'[o] = pc[o] /\ job'[o] = job[o]
    BY <1>2, <1>3, GotoControl DEF Steps, StartScript
  <1>5. QED
    BY <1>4 DEF Moves, Others, Stops, NoJob, Reading

LEMMA ScriptRoleMoves ==
  ASSUME ControlInv, NEW q \in Request, NEW r \in Role, ScriptRole(q, r)
  PROVE  Moves(q)
  <1>1. /\ UNCHANGED tables /\ pc[q] = "script" /\ r \in job[q].todo
        /\ job[q] \in Jobs /\ WorkOK("script", job[q])
    BY DEF ScriptRole, ControlInv
  <1>2. /\ job[q].op \in Scripts /\ job[q].todo \subseteq Canonical
        /\ ScriptOK("script", job[q]) /\ job[q].rights = {} /\ job[q].left = {}
    BY <1>1 DEF WorkOK
  <1>3. CASE /\ job[q].op = "seed" /\ UpToDate(r)
             /\ Goto(q, "script", [job[q] EXCEPT !.todo = @ \ {r}])
    <2> DEFINE work == [job[q] EXCEPT !.todo = @ \ {r}]
    <2>1. work \in Jobs
      BY <1>1 DEF Jobs
    <2>2. /\ work.op = "seed" /\ work.todo = job[q].todo \ {r}
          /\ work.rights = {} /\ work.left = {}
          /\ work.written = job[q].written /\ work.raced = job[q].raced
          /\ work.gone = job[q].gone /\ work.targets = job[q].targets
      BY <1>1, <1>2, <1>3 DEF Jobs
    <2>3. ScriptOK("script", work)
      BY <1>2, <1>3, <2>2 DEF ScriptOK, AtWork, UpToDate
    <2>4. WorkOK("script", work)
      BY <1>1, <1>2, <2>2, <2>3 DEF WorkOK, Reading, Scripts
    <2>5. /\ ControlInv' /\ pc'[q] = "script" /\ job'[q] = work
          /\ \A o \in Request \ {q} : pc'[o] = pc[o] /\ job'[o] = job[o]
      BY <1>1, <1>3, <2>1, <2>4, GotoControl DEF Steps
    <2>6. QED
      BY <2>2, <2>5 DEF Moves, Others, Stops, Reading
  <1>4. CASE Replace(q, job[q].op, r, Baseline[CodeOf[r]])
    <2>1. CodeOf[r] \in CanonicalCode
      BY <1>1, <1>2 DEF Canonical
    <2>2. Baseline[CodeOf[r]] \in SUBSET Permission
      BY <2>1, BaselineTypes
    <2>3. QED
      BY <1>1, <1>2, <1>4, <2>2, ReplaceMoves, AuditorBaselineIsHarmless
  <1>5. QED
    BY <1>3, <1>4 DEF ScriptRole

LEMMA ClearMoves ==
  ASSUME ControlInv, NEW q \in Request, Clear(q)
  PROVE  Moves(q)
  <1> DEFINE r == job[q].current
             work == [job[q] EXCEPT !.gone[r] = granted[r]]
  <1>1. /\ UNCHANGED tables /\ pc[q] = "clear" /\ Goto(q, "link", work)
        /\ job[q] \in Jobs /\ WorkOK("clear", job[q])
    BY DEF Clear, ControlInv
  <1>2. /\ r \in Role /\ job[q].op # "none" /\ job[q].rights = {} /\ job[q].left = {}
        /\ granted[r] \in SUBSET Permission
    BY <1>1 DEF WorkOK, ControlInv, TablesOK
  <1>3. work \in Jobs
    BY <1>1, <1>2 DEF Jobs
  <1>4. /\ work.op = job[q].op /\ work.current = r /\ work.todo = job[q].todo
        /\ work.rights = {} /\ work.left = {}
        /\ work.written = job[q].written /\ work.raced = job[q].raced
        /\ work.targets = job[q].targets
        /\ \A s \in Role : work.gone[s] = IF s = r THEN granted[r] ELSE job[q].gone[s]
    BY <1>1, <1>2 DEF Jobs
  <1>5. ASSUME work.op \in Scripts
        PROVE  work.todo \subseteq Canonical /\ ScriptOK("link", work)
    <2>1. job[q].todo \subseteq Canonical /\ ScriptOK("clear", job[q])
      BY <1>1, <1>4, <1>5 DEF WorkOK
    <2>2. Canonical \subseteq Role
      BY AccessAssumption DEF Canonical
    <2>3. QED
      BY <1>4, <2>1, <2>2 DEF ScriptOK, AtWork
  <1>6. WorkOK("link", work)
    BY <1>1, <1>2, <1>4, <1>5 DEF WorkOK, Reading, Scripts
  <1>7. /\ ControlInv' /\ pc'[q] = "link" /\ job'[q] = work
        /\ \A o \in Request \ {q} : pc'[o] = pc[o] /\ job'[o] = job[o]
    BY <1>1, <1>3, <1>6, GotoControl DEF Steps
  <1>8. QED
    BY <1>4, <1>7 DEF Moves, Others, Stops, Reading

LEMMA LinkMoves ==
  ASSUME ControlInv, NEW q \in Request, Link(q)
  PROVE  Moves(q)
  <1> DEFINE r == job[q].current
             step == IF job[q].op = "assign" THEN "commit" ELSE "script"
             work == [job[q] EXCEPT !.written = @ \cup {r}, !.current = None]
  <1>1. /\ UNCHANGED tables /\ pc[q] = "link"
        /\ job[q] \in Jobs /\ WorkOK("link", job[q])
    BY DEF Link, ControlInv
  <1>2. r \in Role /\ job[q].op # "none" /\ job[q].rights = {} /\ job[q].left = {}
    BY <1>1 DEF WorkOK
  <1>3. CASE Finish(q, "error")
    BY <1>1, <1>3, KeptTables, FinishMoves DEF Finish
  <1>4. CASE Goto(q, step, work)
    <2>1. work \in Jobs
      BY <1>1, <1>2 DEF Jobs
    <2>2. /\ work.op = job[q].op /\ work.todo = job[q].todo
          /\ work.rights = {} /\ work.left = {}
          /\ work.written = job[q].written \cup {r} /\ work.raced = job[q].raced
          /\ work.targets = job[q].targets /\ work.gone = job[q].gone
      BY <1>1, <1>2 DEF Jobs
    <2>3. ASSUME work.op \in Scripts
          PROVE  work.todo \subseteq Canonical /\ ScriptOK("script", work)
      <3>1. job[q].todo \subseteq Canonical /\ ScriptOK("link", job[q])
        BY <1>1, <2>2, <2>3 DEF WorkOK
      <3>2. QED
        BY <2>2, <3>1 DEF ScriptOK, AtWork
    <2>4. job[q].op \in Scripts \cup {"assign"}
      BY <1>1, <1>2 DEF Jobs, Scripts
    <2>5. WorkOK(step, work)
      BY <1>1, <2>2, <2>3, <2>4 DEF WorkOK, Reading, Scripts
    <2>6. /\ ControlInv' /\ pc'[q] = step /\ job'[q] = work
          /\ \A o \in Request \ {q} : pc'[o] = pc[o] /\ job'[o] = job[o]
      BY <1>1, <1>4, <2>1, <2>5, GotoControl DEF Steps
    <2>7. QED
      BY <2>2, <2>6 DEF Moves, Others, Stops, Reading
  <1>5. QED
    BY <1>3, <1>4 DEF Link

(* A commit leaves what races it with the knowledge that it did.           *)
LEMMA NoticedWork ==
  ASSUME ControlInv, NEW q \in Request, NEW o \in Request \ {q}, Commit(q),
         job[o].op # "none"
  PROVE  job'[o] \in Jobs /\ WorkOK(pc[o], job[o])'
  <1>1. job'[o] = Noticed(o, q) /\ job[o] \in Jobs /\ job[q] \in Jobs
    BY DEF ControlInv, Commit
  <1> DEFINE gone == [r \in Role |->
                IF r \in job[q].written THEN job[o].gone[r] \ job[q].gone[r]
                ELSE job[o].gone[r]]
  <1>2. gone \in [Role -> SUBSET Permission] /\ job[q].written \subseteq Role
    BY <1>1 DEF Jobs
  <1>3. job'[o] = [job[o] EXCEPT !.gone = gone, !.raced = @ \cup job[q].written]
    BY <1>1 DEF Noticed
  <1>4. \A r \in Role \ job[q].written : gone[r] = job[o].gone[r]
    OBVIOUS
  <1> HIDE DEF gone
  <1>5. /\ job'[o].op = job[o].op /\ job'[o].user = job[o].user
        /\ job'[o].left = job[o].left /\ job'[o].rights = job[o].rights
        /\ job'[o].current = job[o].current /\ job'[o].todo = job[o].todo
        /\ job'[o].written = job[o].written /\ job'[o].targets = job[o].targets
        /\ job'[o].raced = job[o].raced \cup job[q].written
        /\ job'[o].gone = gone /\ job'[o] \in Jobs
    BY <1>1, <1>2, <1>3 DEF Jobs
  <1>6. \A r \in Role \ job[q].written : granted'[r] = granted[r]
    BY DEF Commit
  <1>7. WorkOK(pc[o], job[o])
    BY DEF ControlInv
  <1>8. Canonical \subseteq Role
    BY AccessAssumption DEF Canonical
  <1>9. pc'[o] = pc[o]
    BY DEF Commit, ControlInv
  <1>10. ASSUME job[o].op \in Scripts
         PROVE  ScriptOK(pc[o], job[o])'
    <2>1. ScriptOK(pc[o], job[o])
      BY <1>7, <1>10 DEF WorkOK
    <2>2. QED
      BY <1>4, <1>5, <1>6, <1>8, <1>9, <2>1 DEF ScriptOK, AtWork
  <1>11. QED
    BY <1>5, <1>7, <1>9, <1>10 DEF WorkOK, Harmless

LEMMA CommitMoves ==
  ASSUME ControlInv, NEW q \in Request, Commit(q)
  PROVE  Moves(q)
  <1>1. /\ pc' \in [Request -> Steps] /\ pc'[q] = "idle" /\ job'[q] = NoJob
        /\ job[q] \in Jobs /\ Harmless(job[q].targets)
        /\ \A o \in Request \ {q} : pc'[o] = pc[o]
    BY DEF ControlInv, Commit, Steps, WorkOK
  <1>2. TablesOK'
    <2>1. /\ granted' \in [Role -> SUBSET Permission]
          /\ \A r \in Role : granted'[r] \subseteq granted[r] \cup job[q].targets[r]
      BY <1>1 DEF ControlInv, TablesOK, Commit, Jobs
    <2>2. QED
      BY <1>1, <2>1 DEF ControlInv, TablesOK, Commit, Harmless
  <1>3. ASSUME NEW o \in Request \ {q}
        PROVE  /\ job'[o] \in Jobs /\ WorkOK(pc[o], job[o])'
               /\ job'[o].user = job[o].user /\ job'[o].left = job[o].left
               /\ job'[o].rights = job[o].rights
    <2>1. job[o] \in Jobs /\ WorkOK(pc[o], job[o])
      BY DEF ControlInv
    <2>2. CASE job[o].op = "none"
      <3>1. job'[o] = job[o]
        BY <2>2 DEF Commit
      <3>2. QED
        BY <1>1, <2>1, <2>2, <3>1 DEF WorkOK, Scripts, Harmless
    <2>3. CASE job[o].op # "none"
      <3>1. job'[o] = Noticed(o, q)
        BY <2>3 DEF Commit
      <3>2. QED
        BY <2>1, <2>3, <3>1, NoticedWork DEF Noticed, Jobs
    <2>4. QED
      BY <2>2, <2>3
  <1>4. WorkOK(pc[q], job[q])'
    BY <1>1, IdleWork DEF WorkOK, ScriptOK, NoJob, Scripts, Harmless
  <1>5. job' \in [Request -> Jobs]
    BY <1>1, <1>3, NoJobType DEF Commit
  <1>6. ControlInv'
    BY <1>1, <1>2, <1>3, <1>4, <1>5 DEF ControlInv
  <1>7. QED
    BY <1>1, <1>3, <1>6 DEF Moves, Others, Stops, NoJob, Reading

LEMMA StepMoves ==
  ASSUME ControlInv, NEW q \in Request, Step(q)
  PROVE  Moves(q)
  <1>1. CASE Access(q)
    BY <1>1, ArriveMoves, ReadRolesMoves, ReadPermissionsMoves, DecideMoves DEF Access
  <1>2. CASE Handle(q)
    <2>1. ASSUME NEW u \in User \cup {None}, NEW roles \in SUBSET Role,
                 AssignUserRoles(q, u, roles)
          PROVE  Moves(q)
      BY <2>1, HandleMoves
    <2>2. ASSUME NEW u \in User \cup {None}, DisableUser(q, u)
          PROVE  Moves(q)
      BY <2>2, HandleMoves
    <2>3. ASSUME NEW r \in Role \cup {None}, NEW active \in BOOLEAN,
                 UpdateRole(q, r, active)
          PROVE  Moves(q)
      BY <2>3, HandleMoves
    <2>4. CASE Serve(q)
      BY <2>4, HandleMoves
    <2>5. QED
      BY <1>2, <2>1, <2>2, <2>3, <2>4, AssignRolePermissionsMoves DEF Handle
  <1>3. CASE Script(q)
    BY <1>3, StartScriptMoves, ScriptRoleMoves DEF Script, Scripts
  <1>4. CASE Rollback(q)
    BY <1>4, KeptTables, FinishMoves DEF Rollback, Finish
  <1>5. QED
    BY <1>1, <1>2, <1>3, <1>4, ClearMoves, LinkMoves, CommitMoves DEF Step

-----------------------------------------------------------------------------
(* The window.                                                             *)

LEMMA WatchKeeps ==
  ASSUME Inv, NEW q \in Request, Moves(q), Watch
  PROVE  WindowInv'
  <1> DEFINE roles(o) == held'[job'[o].user] \cap enabled'
  <1>1. ControlInv' /\ Others(q) /\ (Begins(q) \/ Reads(q) \/ Stops(q))
    BY DEF Moves
  <1>2. ASSUME NEW o \in Request, pc'[o] \in Reading
        PROVE  roles(o) \in SUBSET Role
    BY <1>1, <1>2 DEF ControlInv, TablesOK, WorkOK
  <1>3. granted' \in [Role -> SUBSET Permission]
    BY <1>1 DEF ControlInv, TablesOK
  <1>4. ASSUME NEW o \in Request
        PROVE  window'[o] \in Window
    BY <1>2, <1>3 DEF Watch, Window, Closed, Inv, WindowInv
  <1>5. window' \in [Request -> Window]
    BY <1>4 DEF Watch
  <1>6. ASSUME NEW o \in Request, pc'[o] \in Reading, pc[o] \notin Reading
        PROVE  /\ window'[o].ever = roles(o) /\ window'[o].always = roles(o)
               /\ window'[o].given = granted' /\ window'[o].kept = granted'
    BY <1>6 DEF Watch
  <1>7. ASSUME NEW o \in Request, pc'[o] \in Reading, pc[o] \in Reading
        PROVE  /\ window'[o].ever = window[o].ever \cup roles(o)
               /\ window'[o].always = window[o].always \cap roles(o)
               /\ \A r \in Role :
                    /\ window'[o].given[r] = window[o].given[r] \cup granted'[r]
                    /\ window'[o].kept[r] = window[o].kept[r] \cap granted'[r]
    BY <1>7 DEF Watch
  <1>8. ASSUME NEW o \in Request, pc'[o] \in Reading
        PROVE  /\ roles(o) \subseteq window'[o].ever /\ window'[o].always \subseteq roles(o)
               /\ \A r \in Role : /\ granted'[r] \subseteq window'[o].given[r]
                                  /\ window'[o].kept[r] \subseteq granted'[r]
    BY <1>6, <1>7, <1>8
  <1>9. ASSUME NEW o \in Request, pc[o] \in Reading
        PROVE  WindowOK(o) /\ window[o] \in Window /\ WorkOK(pc[o], job[o])
    BY DEF Inv, WindowInv, ControlInv
  <1>10. ASSUME NEW o \in Request
         PROVE  /\ \A p \in job[o].rights :
                     \E r \in window[o].ever : p \in window[o].given[r]
                /\ pc[o] = "permissions" =>
                     \A r \in window[o].always \ job[o].left :
                       window[o].kept[r] \subseteq job[o].rights
    BY DEF Inv, WindowInv, RightsAreRecent
  <1> DEFINE Recent(o) ==
               /\ \A p \in job'[o].rights :
                    \E r \in window'[o].ever : p \in window'[o].given[r]
               /\ pc'[o] = "permissions" =>
                    \A r \in window'[o].always \ job'[o].left :
                      window'[o].kept[r] \subseteq job'[o].rights
             Fresh(o) == pc'[o] \in Reading => job'[o].left \subseteq window'[o].ever
  <1>11. ASSUME NEW o \in Request \ {q}
         PROVE  Fresh(o) /\ Recent(o)
    <2>1. /\ pc'[o] = pc[o] /\ job'[o].user = job[o].user
          /\ job'[o].left = job[o].left /\ job'[o].rights = job[o].rights
      BY <1>1 DEF Others
    <2>2. CASE pc[o] \notin Reading
      <3>1. job[o].rights = {}
        BY <2>2 DEF Inv, ControlInv, WorkOK, Reading
      <3>2. QED
        BY <2>1, <2>2, <3>1 DEF Reading
    <2>3. CASE pc[o] \in Reading
      <3>1. /\ job[o].left \subseteq window[o].ever /\ window[o].ever \subseteq Role
            /\ window[o].always \subseteq Role
        BY <1>9, <2>3 DEF WindowOK, Window
      <3>2. QED
        BY <1>7, <1>10, <2>1, <2>3, <3>1
    <2>4. QED
      BY <2>2, <2>3
  <1>12. Fresh(q) /\ Recent(q)
    <2>1. CASE Begins(q)
      BY <2>1 DEF Begins
    <2>2. CASE Stops(q)
      BY <2>2 DEF Stops, Reading
    <2>3. CASE Reads(q)
      <3>1. /\ pc[q] \in Reading /\ pc'[q] \in Reading /\ pc'[q] = "permissions"
            /\ roles(q) = RolesOf(job[q].user) /\ granted' = granted
        BY <2>3 DEF Reads, Reading, RolesOf, tables
      <3>2. /\ job[q].left \subseteq window[q].ever
            /\ RolesOf(job[q].user) \subseteq window[q].ever
            /\ window[q].always \subseteq RolesOf(job[q].user)
            /\ window[q].ever \subseteq Role /\ window[q].always \subseteq Role
            /\ \A r \in Role : /\ granted[r] \subseteq window[q].given[r]
                               /\ window[q].kept[r] \subseteq granted[r]
        BY <1>9, <3>1 DEF WindowOK, Window
      <3>3. CASE /\ pc[q] = "roles" /\ job'[q].left = RolesOf(job[q].user)
                 /\ job'[q].rights = {}
        BY <1>7, <3>1, <3>2, <3>3
      <3>4. ASSUME pc[q] = "permissions", NEW r \in job[q].left,
                   job'[q].left = job[q].left \ {r},
                   job'[q].rights = job[q].rights \cup granted[r]
            PROVE  Fresh(q) /\ Recent(q)
        <4>1. Fresh(q)
          BY <1>7, <3>1, <3>2, <3>4
        <4>2. r \in window'[q].ever /\ granted[r] \subseteq window'[q].given[r] /\ r \in Role
          BY <1>7, <3>1, <3>2, <3>4
        <4>3. ASSUME NEW p \in job'[q].rights
              PROVE  \E s \in window'[q].ever : p \in window'[q].given[s]
          BY <1>7, <1>10, <3>1, <3>2, <3>4, <4>2, <4>3
        <4>4. ASSUME NEW s \in window'[q].always \ job'[q].left
              PROVE  window'[q].kept[s] \subseteq job'[q].rights
          BY <1>7, <1>10, <3>1, <3>2, <3>4, <4>4
        <4>5. QED
          BY <4>1, <4>3, <4>4
      <3>5. QED
        BY <2>3, <3>3, <3>4 DEF Reads
    <2>4. QED
      BY <1>1, <2>1, <2>2, <2>3
  <1>13. \A o \in Request : WindowOK(o)'
    BY <1>8, <1>11, <1>12 DEF WindowOK, RolesOf
  <1>14. RightsAreRecent'
    BY <1>11, <1>12 DEF RightsAreRecent
  <1>15. QED
    BY <1>5, <1>13, <1>14 DEF WindowInv

-----------------------------------------------------------------------------
(* The theorems.                                                           *)

LEMMA InitInv == Init => Inv
  <1> SUFFICES ASSUME Init PROVE Inv
    OBVIOUS
  <1>1. \A r \in Canonical : Baseline[CodeOf[r]] \subseteq Permission
    BY BaselineTypes DEF Canonical
  <1>2. granted \in [Role -> SUBSET Permission]
    BY <1>1 DEF Init
  <1>3. Harmless(granted)
    BY AuditorBaselineIsHarmless DEF Init, Harmless
  <1>4. ControlInv
    BY <1>2, <1>3, NoJobType, IdleWork DEF Init, ControlInv, TablesOK, Steps
  <1>5. WindowInv
    BY DEF Init, WindowInv, WindowOK, RightsAreRecent, Window, Closed, NoJob, Reading
  <1>6. QED
    BY <1>4, <1>5 DEF Inv

LEMMA NextInv == Inv /\ [Next]_vars => Inv'
  <1> SUFFICES ASSUME Inv, [Next]_vars PROVE Inv'
    OBVIOUS
  <1>1. ASSUME NEW q \in Request, Step(q), Watch
        PROVE  Inv'
    <2>1. Moves(q)
      BY <1>1, StepMoves DEF Inv
    <2>2. QED
      BY <1>1, <2>1, WatchKeeps DEF Inv, Moves
  <1>2. CASE UNCHANGED vars
    <2>1. ControlInv'
      BY <1>2 DEF Inv, ControlInv, TablesOK, WorkOK, ScriptOK, Harmless, vars, tables
    <2>2. WindowInv'
      BY <1>2 DEF Inv, WindowInv, WindowOK, RightsAreRecent, RolesOf, vars, tables
    <2>3. QED
      BY <2>1, <2>2 DEF Inv
  <1>3. QED
    BY <1>1, <1>2 DEF Next

THEOREM Invariance == Spec => []Inv
  <1>1. Init => Inv
    BY InitInv
  <1>2. Inv /\ [Next]_vars => Inv'
    BY NextInv
  <1>3. QED
    BY <1>1, <1>2, PTL DEF Spec

(* Tables, positions and jobs have the shape the code gives them.          *)
THEOREM TypeCorrectness == Spec => []TypeOK
  <1>1. Inv => TypeOK
    BY DEF Inv, ControlInv, WindowInv, TablesOK, TypeOK, Steps, Window
  <1>2. QED
    BY <1>1, Invariance, PTL

(* The rights a principal is given are recent, and none it had all the     *)
(* time is missing, however many requests change what roles grant, who     *)
(* has them and which are active while it is put together.                 *)
THEOREM RightsTheorem == Spec => []RightsAreRecent
  <1>1. Inv => RightsAreRecent
    BY DEF Inv, WindowInv
  <1>2. QED
    BY <1>1, Invariance, PTL

(* No overlap of assignments, loads and seeds gives a role called AUDITOR  *)
(* a permission with a dangerous action.                                   *)
THEOREM AuditorTheorem == Spec => []AuditorIsReadOnly
  <1>1. Inv => AuditorIsReadOnly
    BY DEF Inv, ControlInv, TablesOK, Harmless, AuditorIsReadOnly
  <1>2. QED
    BY <1>1, Invariance, PTL

(* What a script leaves: only its last commit answers.                     *)
LEMMA LoadsCommit ==
  ASSUME Inv, NEW q \in Request, NEW o \in Request, Step(o), Loads(q)
  PROVE  o = q /\ Commit(q)
  <1>1. pc[q] = "script" /\ reply'[q] = "done"
    BY DEF Loads
  <1>2. o = q
    BY <1>1 DEF Step, Access, Handle, Script, Arrive, ReadRoles, ReadPermissions, Decide,
           AssignUserRoles, DisableUser, UpdateRole, Serve, AssignRolePermissions,
           Replace, StartScript, ScriptRole, Clear, Link, Commit, Rollback,
           Finish, FinishWith, Goto
  <1>3. QED
    BY <1>1, <1>2 DEF Step, Access, Handle, Script, Arrive, ReadRoles, ReadPermissions, Decide,
           AssignUserRoles, DisableUser, UpdateRole, Serve, AssignRolePermissions, Handling,
           Replace, StartScript, ScriptRole, Clear, Link, Rollback, Finish, FinishWith, Goto

(* A load leaves every canonical role with at least its baseline, and it   *)
(* and a seed with exactly that unless an assignment raced them.           *)
THEOREM LoadTheorem == Spec => LoadRestoresBaselines
  <1>1. ASSUME Inv, NEW q \in Request, NEW o \in Request, Step(o), Loads(q),
               NEW r \in Canonical
        PROVE  /\ job[q].op = "load" => Baseline[CodeOf[r]] \subseteq granted'[r]
               /\ r \notin job[q].raced => granted'[r] = Baseline[CodeOf[r]]
    <2>1. Commit(q) /\ pc[q] = "script" /\ job[q].op \in Scripts
      BY <1>1, LoadsCommit DEF Loads, Scripts
    <2>2. ScriptOK("script", job[q]) /\ job[q].todo = {}
      <3>1. WorkOK("script", job[q])
        BY <1>1, <2>1 DEF Inv, ControlInv
      <3>2. QED
        BY <2>1, <3>1 DEF Commit, WorkOK
    <2>3. r \in Role
      BY AccessAssumption DEF Canonical
    <2>4. granted'[r] = IF r \in job[q].written
                          THEN (granted[r] \ job[q].gone[r]) \cup job[q].targets[r]
                          ELSE granted[r]
      BY <2>1, <2>3 DEF Commit
    <2>5. QED
      BY <2>2, <2>4 DEF ScriptOK, AtWork
  <1> DEFINE Restores ==
        \A q \in Request : Loads(q) =>
          \A r \in Canonical :
            /\ job[q].op = "load" => Baseline[CodeOf[r]] \subseteq granted'[r]
            /\ r \notin job[q].raced => granted'[r] = Baseline[CodeOf[r]]
  <1>2. Inv /\ [Next]_vars => [Restores]_vars
    BY <1>1 DEF Next
  <1>3. Spec => [][Restores]_vars
    BY <1>2, Invariance, PTL DEF Spec
  <1>4. QED
    BY <1>3 DEF LoadRestoresBaselines

-----------------------------------------------------------------------------
(* What is published is what is applied.                                   *)

LEMMA DecidesSteps ==
  ASSUME Inv, NEW q \in Request, NEW o \in Request, Step(o), Decides(q)
  PROVE  \E verdict \in {"granted", "enroll", "challenge"} : Decide(q, verdict)
  <1>1. /\ pc[q] = "permissions" /\ pc'[q] # "permissions"
        /\ reply'[q] # "none" \/ pc'[q] = "handler"
    BY DEF Decides
  <1>2. o = q
    BY <1>1, StepMoves DEF Inv, Moves, Others
  <1>3. ~Rollback(q)
    BY <1>1 DEF Rollback, Finish, FinishWith, Inv, ControlInv, Steps
  <1>4. ASSUME NEW r \in Role, ReadPermissions(q, r)
        PROVE  FALSE
    BY <1>1, <1>4 DEF ReadPermissions, Goto, Inv, ControlInv, Steps
  <1>5. QED
    BY <1>1, <1>2, <1>3, <1>4 DEF Step, Access, Handle, Script, Arrive, ReadRoles,
           AssignUserRoles, DisableUser, UpdateRole, Serve, AssignRolePermissions,
           Handling, StartScript, ScriptRole, Clear, Link, Commit

(* What the rights of a principal that is complete say.                    *)
LEMMA CompleteRights ==
  ASSUME Inv, NEW q \in Request, pc[q] = "permissions", job[q].left = {}, NEW p
  PROVE  /\ HasPermission(q, p) => \E r \in window[q].ever : p \in window[q].given[r]
         /\ ~HasPermission(q, p) => \A r \in window[q].always : p \notin window[q].kept[r]
  BY DEF Inv, WindowInv, RightsAreRecent, HasPermission

LEMMA DecisionIsPublished ==
  ASSUME Inv, NEW q \in Request, NEW row \in PublishedMatrix,
         NEW verdict \in {"granted", "enroll", "challenge"}, Decide(q, verdict),
         job[q].call = Endpoint(row)
  PROVE  /\ Dispatch[job[q].call].path = row.path
         /\ reply'[q] # "denied" =>
              \E r \in window[q].ever : row.permission \in window[q].given[r]
         /\ reply'[q] = "denied" =>
              \A r \in window[q].always : row.permission \notin window[q].kept[r]
         /\ reply'[q] = "denied" <=> events' = {Denied(row.permission)}
         /\ reply'[q] \in {"enroll", "challenge"} => NeedsStepUp(row.permission)
         /\ UNCHANGED tables
  <1> DEFINE p == row.permission
             route == Dispatch[job[q].call]
  <1>1. route.path = row.path /\ route.needs = "permission" /\ route.permission = p
    BY RowsGranted
  <1> HIDE DEF p, route
  <1>2. /\ pc[q] = "permissions" /\ job[q].left = {}
        /\ verdict # "granted" => HasPermission(q, p) /\ NeedsStepUp(p)
        /\ UNCHANGED tables
    BY <1>1 DEF Decide, route
  <1>3. /\ HasPermission(q, p) => \E r \in window[q].ever : p \in window[q].given[r]
        /\ ~HasPermission(q, p) => \A r \in window[q].always : p \notin window[q].kept[r]
    BY <1>2, CompleteRights
  <1>4. \/ ~HasPermission(q, p) /\ FinishWith(q, "denied", {Denied(p)})
        \/ HasPermission(q, p) /\ verdict = "enroll" /\ Finish(q, "enroll")
        \/ /\ HasPermission(q, p) /\ verdict = "challenge"
           /\ FinishWith(q, "challenge", {<<"SUCCESS", "step_up.challenge.created">>})
        \/ HasPermission(q, p) /\ Finish(q, "csrf")
        \/ HasPermission(q, p) /\ \E work : Goto(q, "handler", work)
    BY <1>1 DEF Decide, route
  <1>5. Denied(p) # <<"SUCCESS", "step_up.challenge.created">>
    BY DEF Denied
  <1>6. \/ ~HasPermission(q, p) /\ reply'[q] = "denied" /\ events' = {Denied(p)}
        \/ /\ HasPermission(q, p) /\ events' # {Denied(p)}
           /\ reply'[q] # "denied"
           /\ reply'[q] \in {"enroll", "challenge"} => verdict # "granted"
    BY <1>4, <1>5 DEF Finish, FinishWith, Goto
  <1>7. QED
    BY <1>1, <1>2, <1>3, <1>6 DEF p, route

(* A request for an endpoint of the published matrix is decided by the     *)
(* permission the matrix lists for it: it passes only with a right that is *)
(* recent, is refused only without it, and step-up is asked of no others.  *)
THEOREM MatrixTheorem == Spec => PublishedMatrixHolds
  <1> DEFINE Published ==
        \A q \in Request : \A row \in PublishedMatrix :
          Decides(q) /\ job[q].call = Endpoint(row) =>
            /\ Dispatch[job[q].call].path = row.path
            /\ reply'[q] # "denied" =>
                 \E r \in window[q].ever : row.permission \in window[q].given[r]
            /\ reply'[q] = "denied" =>
                 \A r \in window[q].always : row.permission \notin window[q].kept[r]
            /\ reply'[q] = "denied" <=> events' = {Denied(row.permission)}
            /\ reply'[q] \in {"enroll", "challenge"} => NeedsStepUp(row.permission)
            /\ UNCHANGED tables
  <1>1. ASSUME Inv, NEW o \in Request, Step(o)
        PROVE  Published
    BY <1>1, DecidesSteps, DecisionIsPublished
  <1>2. Inv /\ [Next]_vars => [Published]_vars
    BY <1>1 DEF Next
  <1>3. Spec => [][Published]_vars
    BY <1>2, Invariance, PTL DEF Spec
  <1>4. QED
    BY <1>3 DEF PublishedMatrixHolds
=============================================================================
