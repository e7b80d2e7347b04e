----------------------------- MODULE MCGateway ------------------------------
(* Instances of AccessControl and DocumentOutputs for TLC.                 *)
EXTENDS AccessControl, DocumentOutputs

CONSTANTS q1, q2, q3, u1, ra, rd, rc

Assigning == Call("PUT", RolePermissionsPath)
MCCalls ==
  [q \in Request |->
     IF q = q1 THEN Endpoints
     ELSE IF q = q2 THEN {Assigning}
     ELSE {Assigning, Call("PUT", UserRolesPath), Call("PATCH", DisablePath),
           Call("PATCH", RolePath)}]

MCCodeOf == [r \in Role |-> IF r = ra THEN "AUDITOR"
                            ELSE IF r = rd THEN "DRIVER" ELSE "CUSTOM"]

MCRequestable ==
  {{<<"audit", "read">>}, {<<"audit", "read">>, <<"inventory", "adjust">>},
   {<<"unknown", "read">>}}

(* Codes that look like years, like samples and like each other.           *)
MCBranch(organization, parts) == [organization |-> organization, code |-> parts]
MCBranches ==
  {MCBranch("o1", <<Text("LIM")>>), MCBranch("o1", <<Text("lim")>>),
   MCBranch("o2", <<Text("LIM")>>),
   MCBranch("o1", <<Text("LIM"), Digits(4, 2026)>>),
   MCBranch("o1", <<Text("REQ"), Text("LIM")>>)}

MCType(code, scope, active) == [code |-> code, scope |-> scope, active |-> active]
MCTypes ==
  {MCType(<<Text("PO")>>, "INTERNAL", TRUE), MCType(<<Text("PREVIEW")>>, "INTERNAL", TRUE),
   MCType(<<Text("PO"), Text("LIM")>>, "INTERNAL", TRUE),
   MCType(<<Text("PSC")>>, "EXTERNAL", TRUE), MCType(<<Text("REQ")>>, "INTERNAL", FALSE)}

MCYear == {Absent, 0, 1999, 2027}

MCContext(template, status, watermark, complete) ==
  [texts |-> <<"PO", "client">>, template |-> template, display |-> <<Text("A")>>,
   status |-> status, watermark |-> watermark, columns |-> {}, complete |-> complete]
MCContexts ==
  {MCContext(template, status, Absent, TRUE) :
     template \in {"base_document_v1", "purchase_order_v9"}, status \in {"DRAFT", "void"}}
    \cup {MCContext("other_v1", "ISSUED", Absent, TRUE),
          MCContext("base_document_v1", "DRAFT", "COPIA", TRUE),
          MCContext("base_document_v1", "DRAFT", Absent, FALSE)}

VARIABLE part  \* what this behaviour is about

(* "routes": one request to any endpoint, of a user whose only role has a  *)
(* baseline or a single permission.  "rights": q2 reads its rights while   *)
(* q3 changes permissions, roles and users.  "loading": scripts and        *)
(* assignments of permissions.  "outputs": any two previews and samples    *)
(* one after the other.                                                    *)
Acting == [routes |-> {q1}, rights |-> {q2, q3}, loading |-> {q2, q3}, outputs |-> {}]

Administration == {"permissions", "users"} \X {"assign"} \cup
  {<<"roles", "update">>, <<"users", "disable">>}
Single == {{row.permission} : row \in PublishedMatrix}

MCInit ==
  /\ part \in DOMAIN Acting
  /\ held = [u \in User |-> IF part = "rights" THEN {rd, rc} ELSE {rc}]
  /\ \E rights \in IF part = "routes" THEN {Baseline[c] : c \in CanonicalCode} \cup Single
                                      ELSE {Administration} :
       granted = [r \in Role |-> IF r = rc THEN rights
                                 ELSE IF part # "loading" THEN {} ELSE Baseline[CodeOf[r]]]
  /\ enabled = User \cup Role
  /\ pc = [q \in Request |-> "idle"]
  /\ job = [q \in Request |-> NoJob]
  /\ window = [q \in Request |-> Closed]
  /\ reply = [q \in Request |-> "none"]
  /\ events = {}
  /\ OutputInit

(* Reads at once: no other step is taken before its rights are read.       *)
AtOnce(q) ==
  \A o \in Request \ {q} : pc[q] \in Reading => pc'[o] = pc[o] /\ job'[o] = job[o]

PartNext ==
  \/ /\ part = "routes"
     /\ tables' = tables /\ job'[q1].op = "none"
  \/ /\ part = "rights"
     /\ \A q \in Request : job'[q].op \in {"none", "assign"}
     /\ pc'[q2] \in Reading \cup {"idle"} /\ AtOnce(q3)
     /\ job'[q3].current \in {None, rd} /\ held'[u1] \subseteq {rc, rd} /\ ra \in enabled'
     /\ job'[q2].csrf = (job'[q2].user # None) /\ job'[q3].csrf = (job'[q3].user # None)
  \/ /\ part = "loading"
     /\ held' = held /\ enabled' = enabled
     /\ job'[q2].call = None /\ AtOnce(q3)
     /\ job'[q3].current # rc
     /\ job'[q3].csrf = (job'[q3].user # None)

Answered == part = "routes" /\ reply[q1] # "none"
MCNext ==
  \/ /\ ~Answered
     /\ \E q \in Acting[part] : Step(q)
     /\ Watch /\ PartNext /\ UNCHANGED <<part, answer>>
  \/ part = "outputs" /\ OutputNext /\ UNCHANGED <<vars, part>>
  \/ Answered /\ UNCHANGED <<vars, part, answer>>
MCSpec == MCInit /\ [][MCNext]_<<vars, part, answer>>
=============================================================================
