-------------------------- MODULE EndpointsProofs ---------------------------
(***************************************************************************)
(* What Endpoints decides: no route hides a later one, every request goes  *)
(* to the route it was written for, and every row of the matrix that is    *)
(* published has a route that asks for exactly its permission.             *)
(***************************************************************************)
EXTENDS Endpoints, SequenceTheorems, TLAPS

-----------------------------------------------------------------------------
(* Single routes.                                                          *)

(* What a route is for, and the permission it asks for.                    *)
Is(route, method, path) == route.method = method /\ route.path = path
Grants(route, method, path, resource, action) ==
  /\ Is(route, method, path)
  /\ route.needs = "permission" /\ route.permission = <<resource, action>>

LEMMA Fields ==
  ASSUME NEW method, NEW path, NEW resource, NEW action, NEW csrf
  PROVE  /\ Grants(Read(path, resource), "GET", path, resource, "read")
         /\ Grants(Checked(method, path, resource, action), method, path, resource,
                   action)
         /\ Grants(Guarded(method, path, resource, action), method, path, resource,
                   action)
         /\ Is(Session(method, path, csrf), method, path)
         /\ Is(Public(method, path, csrf), method, path)
  BY DEF Read, Checked, Guarded, Session, Public, Grants, Is

(* The routes differ in method, length or a segment that is no parameter.  *)
Literal(route, other, n) ==
  /\ n \in DOMAIN other.path
  /\ route.path[n] # Param /\ route.path[n] # other.path[n]
Differ(route, other) ==
  \/ route.method # other.method
  \/ Len(route.path) # Len(other.path)
  \/ Literal(route, other, 1) \/ Literal(route, other, 2)
  \/ Literal(route, other, 3) \/ Literal(route, other, 4)

(* A parameter is no name, of those that tell routes apart.                *)
LEMMA NoLiteral ==
  /\ Param # "audit-events" /\ Param # "auth"
  /\ Param # "branches" /\ Param # "confirm"
  /\ Param # "csrf" /\ Param # "disable"
  /\ Param # "document-families" /\ Param # "document-numbering"
  /\ Param # "document-renderer" /\ Param # "document-retention-policies"
  /\ Param # "document-series" /\ Param # "document-types"
  /\ Param # "endpoint-matrix" /\ Param # "enroll"
  /\ Param # "export" /\ Param # "inventory"
  /\ Param # "live" /\ Param # "login" /\ Param # "matrix" /\ Param # "mfa"
  /\ Param # "organizations" /\ Param # "permissions"
  /\ Param # "preview" /\ Param # "purchasing"
  /\ Param # "ready" /\ Param # "receiving"
  /\ Param # "reservations" /\ Param # "roles"
  /\ Param # "status" /\ Param # "structure" /\ Param # "system" /\ Param # "totp"
  /\ Param # "users" /\ Param # "warehouses"
  BY DEF Param

(* No route of s gets the requests made for a later one.                   *)
Unshadowed(s) ==
  \A i \in DOMAIN s : \A j \in 1 .. (i - 1) : ~Matches(s[j], Endpoint(s[i]))

(* A request made for other never matches route.                           *)
LEMMA Differing ==
  ASSUME NEW route, NEW other, Differ(route, other)
  PROVE  ~Matches(route, Endpoint(other))
  BY DEF Differ, Literal, Matches, Endpoint

(* The router of a path can be told from its first segment and its length. *)
Router(path) ==
  IF 1 \notin DOMAIN path \/ path[1] = Param THEN 0
  ELSE IF path[1] \in {"live", "ready", "system"} THEN 1
  ELSE IF path[1] = "auth" THEN (IF Len(path) <= 2 THEN 2 ELSE 3)
  ELSE IF path[1] = "status" THEN 4
  ELSE IF path[1] = "structure" THEN 5
  ELSE IF path[1] = "organizations" THEN (IF Len(path) <= 2 THEN 5 ELSE 6)
  ELSE IF path[1] = "branches" THEN (IF Len(path) <= 2 THEN 6 ELSE 7)
  ELSE IF path[1] = "warehouses" THEN 7
  ELSE IF path[1] = "permissions" THEN 8
  ELSE IF path[1] = "roles" THEN 9
  ELSE IF path[1] = "audit-events" THEN 10
  ELSE IF path[1] = "users" THEN 11
  ELSE IF path[1] \in {"document-families", "document-retention-policies"} THEN 12
  ELSE IF path[1] = "document-types" THEN 13
  ELSE IF path[1] = "document-numbering" THEN 14
  ELSE IF path[1] = "document-series" THEN (IF Len(path) <= 2 THEN 15 ELSE 16)
  ELSE IF path[1] = "document-renderer" THEN 17
  ELSE 0

(* Routes of these routers, none of which an earlier one hides.            *)
Section(s, routers) ==
  /\ \E S : s \in Seq(S)
  /\ Unshadowed(s)
  /\ \A i \in DOMAIN s : Router(s[i].path) \in routers

-----------------------------------------------------------------------------
(* Paths that are put together.                                            *)

LEMMA Headed ==
  ASSUME NEW S, NEW a \in S, NEW s \in Seq(S), NEW t \in Seq(S),
         Len(t) = Len(s) + 1, t[1] = a, \A i \in 1 .. Len(s) : t[i + 1] = s[i]
  PROVE  <<a>> \o s = t
  <1>1. <<a>> \in Seq(S) /\ Len(<<a>>) = 1 /\ <<a>>[1] = a
    OBVIOUS
  <1> DEFINE h == <<a>>
  <1> HIDE DEF h
  <1>2. /\ h \o s \in Seq(S)
        /\ Len(h \o s) = 1 + Len(s)
        /\ \A i \in 1 .. 1 + Len(s) : (h \o s)[i] = IF i <= 1 THEN h[1] ELSE s[i - 1]
    BY <1>1, ConcatProperties DEF h
  <1>3. Len(s) \in Nat
    OBVIOUS
  <1>4. ASSUME NEW i \in 1 .. Len(h \o s) PROVE (h \o s)[i] = t[i]
    <2>1. CASE i = 1
      BY <1>1, <1>2, <1>3, <2>1 DEF h
    <2>2. CASE i # 1
      <3>1. i - 1 \in 1 .. Len(s) /\ (i - 1) + 1 = i
        BY <1>2, <1>3, <2>2
      <3> QED BY <1>1, <1>2, <1>3, <2>2, <3>1
    <2> QED BY <2>1, <2>2
  <1>5. h \o s = t
    BY <1>2, <1>4, SeqEqual
  <1> QED BY <1>5 DEF h

LEMMA Prefixed ==
  \A a, b, c, d :
    /\ <<a>> \o <<>> = <<a>>
    /\ <<a>> \o <<b>> = <<a, b>>
    /\ <<a>> \o <<b, c>> = <<a, b, c>>
    /\ <<a>> \o <<b, c, d>> = <<a, b, c, d>>
  <1> SUFFICES ASSUME NEW a, NEW b, NEW c, NEW d
               PROVE  /\ <<a>> \o <<>> = <<a>>
                      /\ <<a>> \o <<b>> = <<a, b>>
                      /\ <<a>> \o <<b, c>> = <<a, b, c>>
                      /\ <<a>> \o <<b, c, d>> = <<a, b, c, d>>
    OBVIOUS
  <1> DEFINE S == {a, b, c, d}
  <1>1. <<a>> \o <<>> = <<a>>
    OBVIOUS
  <1>0. a \in S
    OBVIOUS
  <1>2. <<b>> \in Seq(S) /\ <<a, b>> \in Seq(S) /\ Len(<<b>>) = 1 /\ Len(<<a,b>>) = 2
        /\ <<a,b>>[1] = a /\ \A i \in 1..1 : <<a, b>>[i+1] = <<b>>[i]
    OBVIOUS
  <1>3. <<b,c>> \in Seq(S) /\ <<a,
     b,c>> \in Seq(S) /\ Len(<<b,c>>) = 2 /\ Len(<<a,b,c>>) = 3
        /\ <<a,b,c>>[1] = a /\ \A i \in 1..2 : <<a, b,c>>[i+1] = <<b,c>>[i]
    OBVIOUS
  <1>4. <<b,c,d>> \in Seq(S) /\ <<a,
     b,c,d>> \in Seq(S) /\ Len(<<b,c,d>>) = 3 /\ Len(<<a,b,c,d>>) = 4
        /\ <<a,b,c,d>>[1] = a /\ \A i \in 1..3 : <<a, b,c,d>>[i+1] = <<b,c,d>>[i]
    OBVIOUS
  <1>5. <<a>> \o <<b>> = <<a, b>>
    <2> DEFINE s == <<b>>  t == <<a, b>>
    <2>1. /\ s \in Seq(S) /\ t \in Seq(S) /\ Len(t) = Len(s) + 1 /\ t[1] = a
          /\ \A i \in 1 .. Len(s) : t[i + 1] = s[i]
      BY <1>2
    <2> HIDE DEF s, t, S
    <2>2. <<a>> \o s = t
      BY <1>0, <2>1, Headed
    <2> QED BY <2>2 DEF s, t
  <1>6. <<a>> \o <<b, c>> = <<a, b, c>>
    <2> DEFINE s == <<b, c>>  t == <<a, b, c>>
    <2>1. /\ s \in Seq(S) /\ t \in Seq(S) /\ Len(t) = Len(s) + 1 /\ t[1] = a
          /\ \A i \in 1 .. Len(s) : t[i + 1] = s[i]
      BY <1>3
    <2> HIDE DEF s, t, S
    <2>2. <<a>> \o s = t
      BY <1>0, <2>1, Headed
    <2> QED BY <2>2 DEF s, t
  <1>7. <<a>> \o <<b, c, d>> = <<a, b, c, d>>
    <2> DEFINE s == <<b, c, d>>  t == <<a, b, c, d>>
    <2>1. /\ s \in Seq(S) /\ t \in Seq(S) /\ Len(t) = Len(s) + 1 /\ t[1] = a
          /\ \A i \in 1 .. Len(s) : t[i + 1] = s[i]
      BY <1>4
    <2> HIDE DEF s, t, S
    <2>2. <<a>> \o s = t
      BY <1>0, <2>1, Headed
    <2> QED BY <2>2 DEF s, t
  <1> QED BY <1>1, <1>5, <1>6, <1>7

-----------------------------------------------------------------------------
(* The routers, one after another: what their routes are for, and that     *)
(* none of them hides a later one.                                         *)

LEMMA SystemRoutesAre ==
  /\ DOMAIN SystemRoutes = 1..3
  /\ Is(SystemRoutes[1], "GET", <<"live">>)
  /\ Is(SystemRoutes[2], "GET", <<"ready">>)
  /\ Is(SystemRoutes[3], "GET", <<"system", "info">>)
  <1>1. /\ DOMAIN SystemRoutes = 1..3
        /\ SystemRoutes[1] = Public("GET", <<"live">>, FALSE)
        /\ SystemRoutes[2] = Public("GET", <<"ready">>, FALSE)
        /\ SystemRoutes[3] = Public("GET", <<"system", "info">>, FALSE)
    BY DEF SystemRoutes
  <1>2. QED
    BY <1>1, Fields

LEMMA SystemSection == Section(SystemRoutes, {1})
  <1> DEFINE At(i) == Router(SystemRoutes[i].path) = 1
             Apart(j, i) == Differ(SystemRoutes[j], SystemRoutes[i])
  <1>1. 1..3 = {1, 2, 3}
    OBVIOUS
  <1>2. At(1) /\ At(2) /\ At(3)
    BY SystemRoutesAre, NoLiteral DEF Grants, Is, Router
  <1>3. Apart(1, 2)
    BY SystemRoutesAre, NoLiteral DEF Grants, Is, Differ, Literal
  <1>4. Apart(1, 3) /\ Apart(2, 3)
    BY SystemRoutesAre, NoLiteral DEF Grants, Is, Differ, Literal
  <1>5. PICK a, b, c : SystemRoutes = <<a, b, c>>
    BY Zenon DEF SystemRoutes
  <1>6. SystemRoutes \in Seq({a, b, c})
    BY <1>5
  <1>7. QED
    BY <1>1, <1>2, <1>3, <1>4, <1>6, SystemRoutesAre, Differing DEF Section, Unshadowed

LEMMA AuthRoutesAre ==
  /\ DOMAIN AuthRoutes = 1..4
  /\ Is(AuthRoutes[1], "GET", <<"auth", "csrf">>)
  /\ Is(AuthRoutes[2], "POST", <<"auth", "login">>)
  /\ Is(AuthRoutes[3], "POST", <<"auth", "logout">>)
  /\ Is(AuthRoutes[4], "GET", <<"auth", "me">>)
  <1>1. /\ DOMAIN AuthRoutes = 1..4
        /\ AuthRoutes[1] = Public("GET", <<"auth", "csrf">>, FALSE)
        /\ AuthRoutes[2] = Public("POST", <<"auth", "login">>, TRUE)
        /\ AuthRoutes[3] = Public("POST", <<"auth", "logout">>, TRUE)
        /\ AuthRoutes[4] = Session("GET", <<"auth", "me">>, FALSE)
    BY DEF AuthRoutes
  <1>2. QED
    BY <1>1, Fields

LEMMA AuthSection == Section(AuthRoutes, {2})
  <1> DEFINE At(i) == Router(AuthRoutes[i].path) = 2
             Apart(j, i) == Differ(AuthRoutes[j], AuthRoutes[i])
  <1>1. 1..4 = {1, 2, 3, 4}
    OBVIOUS
  <1>2. At(1) /\ At(2) /\ At(3) /\ At(4)
    BY AuthRoutesAre, NoLiteral DEF Grants, Is, Router
  <1>3. Apart(1, 2)
    BY AuthRoutesAre, NoLiteral DEF Grants, Is, Differ, Literal
  <1>4. Apart(1, 3) /\ Apart(2, 3)
    BY AuthRoutesAre, NoLiteral DEF Grants, Is, Differ, Literal
  <1>5. Apart(1, 4) /\ Apart(2, 4) /\ Apart(3, 4)
    BY AuthRoutesAre, NoLiteral DEF Grants, Is, Differ, Literal
  <1>6. PICK a, b, c, d : AuthRoutes = <<a, b, c, d>>
    BY Zenon DEF AuthRoutes
  <1>7. AuthRoutes \in Seq({a, b, c, d})
    BY <1>6
  <1>8. QED
    BY <1>1, <1>2, <1>3, <1>4, <1>5, <1>7, AuthRoutesAre, Differing DEF Section,
       Unshadowed

LEMMA MfaRoutesAre ==
  /\ DOMAIN MfaRoutes = 1..7
  /\ Is(MfaRoutes[1], "GET", <<"auth", "mfa", "status">>)
  /\ Is(MfaRoutes[2], "POST", <<"auth", "mfa", "totp", "enroll">>)
  /\ Is(MfaRoutes[3], "GET", <<"auth", "mfa", "totp", "enrollments", Param, "qr">>)
  /\ Is(MfaRoutes[4], "POST", <<"auth", "mfa", "totp", "confirm">>)
  /\ Is(MfaRoutes[5], "POST", <<"auth", "mfa", "disable">>)
  /\ Is(MfaRoutes[6], "POST", <<"auth", "mfa", "recovery-codes", "regenerate">>)
  /\ Is(MfaRoutes[7], "POST", <<"auth", "step-up", "verify">>)
  <1>1. /\ DOMAIN MfaRoutes = 1..7
        /\ MfaRoutes[1] = Session("GET", <<"auth", "mfa", "status">>, FALSE)
        /\ MfaRoutes[2] = Session("POST", <<"auth", "mfa", "totp", "enroll">>, TRUE)
        /\ MfaRoutes[3] = Session("GET", <<"auth", "mfa", "totp", "enrollments", Param,
                "qr">>, FALSE)
        /\ MfaRoutes[4] = Session("POST", <<"auth", "mfa", "totp", "confirm">>, TRUE)
        /\ MfaRoutes[5] = Session("POST", <<"auth", "mfa", "disable">>, TRUE)
        /\ MfaRoutes[6] = Session("POST", <<"auth", "mfa", "recovery-codes",
                "regenerate">>, TRUE)
        /\ MfaRoutes[7] = Session("POST", <<"auth", "step-up", "verify">>, TRUE)
    BY DEF MfaRoutes
  <1>2. QED
    BY <1>1, Fields

LEMMA MfaSection == Section(MfaRoutes, {3})
  <1> DEFINE At(i) == Router(MfaRoutes[i].path) = 3
             Apart(j, i) == Differ(MfaRoutes[j], MfaRoutes[i])
  <1>1. 1..7 = {1, 2, 3, 4, 5, 6, 7}
    OBVIOUS
  <1>2. At(1) /\ At(2) /\ At(3) /\ At(4) /\ At(5) /\ At(6) /\ At(7)
    BY MfaRoutesAre, NoLiteral DEF Grants, Is, Router
  <1>3. Apart(1, 2)
    BY MfaRoutesAre, NoLiteral DEF Grants, Is, Differ, Literal
  <1>4. Apart(1, 3) /\ Apart(2, 3)
    BY MfaRoutesAre, NoLiteral DEF Grants, Is, Differ, Literal
  <1>5. Apart(1, 4) /\ Apart(2, 4) /\ Apart(3, 4)
    BY MfaRoutesAre, NoLiteral DEF Grants, Is, Differ, Literal
  <1>6. Apart(1, 5) /\ Apart(2, 5) /\ Apart(3, 5) /\ Apart(4, 5)
    BY MfaRoutesAre, NoLiteral DEF Grants, Is, Differ, Literal
  <1>7. Apart(1, 6) /\ Apart(2, 6) /\ Apart(3, 6) /\ Apart(4, 6) /\ Apart(5, 6)
    BY MfaRoutesAre, NoLiteral DEF Grants, Is, Differ, Literal
  <1>8. /\ Apart(1, 7) /\ Apart(2, 7) /\ Apart(3, 7) /\ Apart(4, 7) /\ Apart(5, 7)
        /\ Apart(6, 7)
    BY MfaRoutesAre, NoLiteral DEF Grants, Is, Differ, Literal
  <1>9. PICK a, b, c, d, e, f, g : MfaRoutes = <<a, b, c, d, e, f, g>>
    BY Zenon DEF MfaRoutes
  <1>10. MfaRoutes \in Seq({a, b, c, d, e, f, g})
    BY <1>9
  <1>11. QED
    BY <1>1, <1>2, <1>3, <1>4, <1>5, <1>6, <1>7, <1>8, <1>10, MfaRoutesAre,
       Differing DEF Section, Unshadowed

LEMMA StatusRoutesAre ==
  /\ DOMAIN StatusRoutes = 1..1
  /\ Is(StatusRoutes[1], "GET", <<"status">>)
  <1>1. /\ DOMAIN StatusRoutes = 1..1
        /\ StatusRoutes[1] = Public("GET", <<"status">>, FALSE)
    BY DEF StatusRoutes
  <1>2. QED
    BY <1>1, Fields

LEMMA StatusSection == Section(StatusRoutes, {4})
  <1> DEFINE At(i) == Router(StatusRoutes[i].path) = 4
  <1>1. 1..1 = {1}
    OBVIOUS
  <1>2. At(1)
    BY StatusRoutesAre, NoLiteral DEF Grants, Is, Router
  <1>3. PICK a : StatusRoutes = <<a>>
    BY Zenon DEF StatusRoutes
  <1>4. StatusRoutes \in Seq({a})
    BY <1>3
  <1>5. QED
    BY <1>1, <1>2, <1>4, StatusRoutesAre, Differing DEF Section, Unshadowed

LEMMA OrganizationRoutesAre ==
  /\ DOMAIN OrganizationRoutes = 1..6
  /\ Grants(OrganizationRoutes[1], "GET", <<"structure">>, "organization", "read")
  /\ Grants(OrganizationRoutes[2], "POST", <<"organizations">>, "organization",
            "create")
  /\ Grants(OrganizationRoutes[3], "GET", <<"organizations">>, "organization", "read")
  /\ Grants(OrganizationRoutes[4], "GET", <<"organizations", Param>>, "organization",
            "read")
  /\ Grants(OrganizationRoutes[5], "PATCH", <<"organizations", Param>>, "organization",
            "update")
  /\ Grants(OrganizationRoutes[6], "DELETE", <<"organizations", Param>>,
            "organization", "delete")
  BY Fields DEF OrganizationRoutes

LEMMA OrganizationSection == Section(OrganizationRoutes, {5})
  <1> DEFINE At(i) == Router(OrganizationRoutes[i].path) = 5
             Apart(j, i) == Differ(OrganizationRoutes[j], OrganizationRoutes[i])
  <1>1. 1..6 = {1, 2, 3, 4, 5, 6}
    OBVIOUS
  <1>2. At(1) /\ At(2) /\ At(3) /\ At(4) /\ At(5) /\ At(6)
    BY OrganizationRoutesAre, NoLiteral DEF Grants, Is, Router
  <1>3. Apart(1, 2)
    BY OrganizationRoutesAre, NoLiteral DEF Grants, Is, Differ, Literal
  <1>4. Apart(1, 3) /\ Apart(2, 3)
    BY OrganizationRoutesAre, NoLiteral DEF Grants, Is, Differ, Literal
  <1>5. Apart(1, 4) /\ Apart(2, 4) /\ Apart(3, 4)
    BY OrganizationRoutesAre, NoLiteral DEF Grants, Is, Differ, Literal
  <1>6. Apart(1, 5) /\ Apart(2, 5) /\ Apart(3, 5) /\ Apart(4, 5)
    BY OrganizationRoutesAre, NoLiteral DEF Grants, Is, Differ, Literal
  <1>7. Apart(1, 6) /\ Apart(2, 6) /\ Apart(3, 6) /\ Apart(4, 6) /\ Apart(5, 6)
    BY OrganizationRoutesAre, NoLiteral DEF Grants, Is, Differ, Literal
  <1>8. OrganizationRoutes
          \in Seq({OrganizationRoutes[i] : i \in DOMAIN OrganizationRoutes})
    BY DEF OrganizationRoutes
  <1>9. QED
    BY <1>1, <1>2, <1>3, <1>4, <1>5, <1>6, <1>7, <1>8, OrganizationRoutesAre,
       Differing DEF Section, Unshadowed

LEMMA BranchRoutesAre ==
  /\ DOMAIN BranchRoutes = 1..5
  /\ Grants(BranchRoutes[1], "POST", <<"organizations", Param, "branches">>, "branch",
            "create")
  /\ Grants(BranchRoutes[2], "GET", <<"organizations", Param, "branches">>, "branch",
            "read")
  /\ Grants(BranchRoutes[3], "GET", <<"branches", Param>>, "branch", "read")
  /\ Grants(BranchRoutes[4], "PATCH", <<"branches", Param>>, "branch", "update")
  /\ Grants(BranchRoutes[5], "DELETE", <<"branches", Param>>, "branch", "delete")
  BY Fields DEF BranchRoutes

LEMMA BranchSection == Section(BranchRoutes, {6})
  <1> DEFINE At(i) == Router(BranchRoutes[i].path) = 6
             Apart(j, i) == Differ(BranchRoutes[j], BranchRoutes[i])
  <1>1. 1..5 = {1, 2, 3, 4, 5}
    OBVIOUS
  <1>2. At(1) /\ At(2) /\ At(3) /\ At(4) /\ At(5)
    BY BranchRoutesAre, NoLiteral DEF Grants, Is, Router
  <1>3. Apart(1, 2)
    BY BranchRoutesAre, NoLiteral DEF Grants, Is, Differ, Literal
  <1>4. Apart(1, 3) /\ Apart(2, 3)
    BY BranchRoutesAre, NoLiteral DEF Grants, Is, Differ, Literal
  <1>5. Apart(1, 4) /\ Apart(2, 4) /\ Apart(3, 4)
    BY BranchRoutesAre, NoLiteral DEF Grants, Is, Differ, Literal
  <1>6. Apart(1, 5) /\ Apart(2, 5) /\ Apart(3, 5) /\ Apart(4, 5)
    BY BranchRoutesAre, NoLiteral DEF Grants, Is, Differ, Literal
  <1>7. BranchRoutes \in Seq({BranchRoutes[i] : i \in DOMAIN BranchRoutes})
    BY DEF BranchRoutes
  <1>8. QED
    BY <1>1, <1>2, <1>3, <1>4, <1>5, <1>6, <1>7, BranchRoutesAre, Differing
    DEF Section, Unshadowed

LEMMA WarehouseRoutesAre ==
  /\ DOMAIN WarehouseRoutes = 1..5
  /\ Grants(WarehouseRoutes[1], "POST", <<"branches", Param, "warehouses">>,
            "warehouse", "create")
  /\ Grants(WarehouseRoutes[2], "GET", <<"branches", Param, "warehouses">>,
            "warehouse", "read")
  /\ Grants(WarehouseRoutes[3], "GET", <<"warehouses", Param>>, "warehouse", "read")
  /\ Grants(WarehouseRoutes[4], "PATCH", <<"warehouses", Param>>, "warehouse", "update")
  /\ Grants(WarehouseRoutes[5], "DELETE", <<"warehouses", Param>>, "warehouse",
            "delete")
  BY Fields DEF WarehouseRoutes

LEMMA WarehouseSection == Section(WarehouseRoutes, {7})
  <1> DEFINE At(i) == Router(WarehouseRoutes[i].path) = 7
             Apart(j, i) == Differ(WarehouseRoutes[j], WarehouseRoutes[i])
  <1>1. 1..5 = {1, 2, 3, 4, 5}
    OBVIOUS
  <1>2. At(1) /\ At(2) /\ At(3) /\ At(4) /\ At(5)
    BY WarehouseRoutesAre, NoLiteral DEF Grants, Is, Router
  <1>3. Apart(1, 2)
    BY WarehouseRoutesAre, NoLiteral DEF Grants, Is, Differ, Literal
  <1>4. Apart(1, 3) /\ Apart(2, 3)
    BY WarehouseRoutesAre, NoLiteral DEF Grants, Is, Differ, Literal
  <1>5. Apart(1, 4) /\ Apart(2, 4) /\ Apart(3, 4)
    BY WarehouseRoutesAre, NoLiteral DEF Grants, Is, Differ, Literal
  <1>6. Apart(1, 5) /\ Apart(2, 5) /\ Apart(3, 5) /\ Apart(4, 5)
    BY WarehouseRoutesAre, NoLiteral DEF Grants, Is, Differ, Literal
  <1>7. WarehouseRoutes \in Seq({WarehouseRoutes[i] : i \in DOMAIN WarehouseRoutes})
    BY DEF WarehouseRoutes
  <1>8. QED
    BY <1>1, <1>2, <1>3, <1>4, <1>5, <1>6, <1>7, WarehouseRoutesAre, Differing
    DEF Section, Unshadowed

LEMMA PermissionRoutesAre ==
  /\ DOMAIN PermissionRoutes = 1..3
  /\ Grants(PermissionRoutes[1], "GET", <<"permissions", "endpoint-matrix">>,
            "permissions", "read")
  /\ Grants(PermissionRoutes[2], "GET", <<"permissions">>, "permissions", "read")
  /\ Grants(PermissionRoutes[3], "GET", <<"permissions", Param>>, "permissions", "read")
  BY Fields DEF PermissionRoutes

LEMMA PermissionSection == Section(PermissionRoutes, {8})
  <1> DEFINE At(i) == Router(PermissionRoutes[i].path) = 8
             Apart(j, i) == Differ(PermissionRoutes[j], PermissionRoutes[i])
  <1>1. 1..3 = {1, 2, 3}
    OBVIOUS
  <1>2. At(1) /\ At(2) /\ At(3)
    BY PermissionRoutesAre, NoLiteral DEF Grants, Is, Router
  <1>3. Apart(1, 2)
    BY PermissionRoutesAre, NoLiteral DEF Grants, Is, Differ, Literal
  <1>4. Apart(1, 3) /\ Apart(2, 3)
    BY PermissionRoutesAre, NoLiteral DEF Grants, Is, Differ, Literal
  <1>5. PermissionRoutes \in Seq({PermissionRoutes[i] : i \in DOMAIN PermissionRoutes})
    BY DEF PermissionRoutes
  <1>6. QED
    BY <1>1, <1>2, <1>3, <1>4, <1>5, PermissionRoutesAre, Differing DEF Section,
       Unshadowed

LEMMA RoleRoutesAre ==
  /\ DOMAIN RoleRoutes = 1..8
  /\ Grants(RoleRoutes[1], "GET", <<"roles", "matrix">>, "roles", "read")
  /\ Grants(RoleRoutes[2], "POST", <<"roles">>, "roles", "create")
  /\ Grants(RoleRoutes[3], "GET", <<"roles">>, "roles", "read")
  /\ Grants(RoleRoutes[4], "GET", <<"roles", Param>>, "roles", "read")
  /\ Grants(RoleRoutes[5], "PATCH", <<"roles", Param>>, "roles", "update")
  /\ Grants(RoleRoutes[6], "DELETE", <<"roles", Param>>, "roles", "delete")
  /\ Grants(RoleRoutes[7], "GET", <<"roles", Param, "permissions">>, "permissions",
            "read")
  /\ Grants(RoleRoutes[8], "PUT", <<"roles", Param, "permissions">>, "permissions",
            "assign")
  BY Fields DEF RoleRoutes, RolePermissionsPath, RolePath

LEMMA RoleSection == Section(RoleRoutes, {9})
  <1> DEFINE At(i) == Router(RoleRoutes[i].path) = 9
             Apart(j, i) == Differ(RoleRoutes[j], RoleRoutes[i])
  <1>1. 1..8 = {1, 2, 3, 4, 5, 6, 7, 8}
    OBVIOUS
  <1>2. At(1) /\ At(2) /\ At(3) /\ At(4) /\ At(5) /\ At(6) /\ At(7) /\ At(8)
    BY RoleRoutesAre, NoLiteral DEF Grants, Is, Router
  <1>3. Apart(1, 2)
    BY RoleRoutesAre, NoLiteral DEF Grants, Is, Differ, Literal
  <1>4. Apart(1, 3) /\ Apart(2, 3)
    BY RoleRoutesAre, NoLiteral DEF Grants, Is, Differ, Literal
  <1>5. Apart(1, 4) /\ Apart(2, 4) /\ Apart(3, 4)
    BY RoleRoutesAre, NoLiteral DEF Grants, Is, Differ, Literal
  <1>6. Apart(1, 5) /\ Apart(2, 5) /\ Apart(3, 5) /\ Apart(4, 5)
    BY RoleRoutesAre, NoLiteral DEF Grants, Is, Differ, Literal
  <1>7. Apart(1, 6) /\ Apart(2, 6) /\ Apart(3, 6) /\ Apart(4, 6) /\ Apart(5, 6)
    BY RoleRoutesAre, NoLiteral DEF Grants, Is, Differ, Literal
  <1>8. /\ Apart(1, 7) /\ Apart(2, 7) /\ Apart(3, 7) /\ Apart(4, 7) /\ Apart(5, 7)
        /\ Apart(6, 7)
    BY RoleRoutesAre, NoLiteral DEF Grants, Is, Differ, Literal
  <1>9. /\ Apart(1, 8) /\ Apart(2, 8) /\ Apart(3, 8) /\ Apart(4, 8) /\ Apart(5, 8)
        /\ Apart(6, 8) /\ Apart(7, 8)
    BY RoleRoutesAre, NoLiteral DEF Grants, Is, Differ, Literal
  <1>10. RoleRoutes \in Seq({RoleRoutes[i] : i \in DOMAIN RoleRoutes})
    BY DEF RoleRoutes
  <1>11. QED
    BY <1>1, <1>2, <1>3, <1>4, <1>5, <1>6, <1>7, <1>8, <1>9, <1>10, RoleRoutesAre,
       Differing DEF Section, Unshadowed

LEMMA AuditRoutesAre ==
  /\ DOMAIN AuditRoutes = 1..3
  /\ Grants(AuditRoutes[1], "GET", <<"audit-events", "export">>, "audit", "export")
  /\ Grants(AuditRoutes[2], "GET", <<"audit-events">>, "audit", "read")
  /\ Grants(AuditRoutes[3], "GET", <<"audit-events", Param>>, "audit", "read")
  BY Fields DEF AuditRoutes

LEMMA AuditSection == Section(AuditRoutes, {10})
  <1> DEFINE At(i) == Router(AuditRoutes[i].path) = 10
             Apart(j, i) == Differ(AuditRoutes[j], AuditRoutes[i])
  <1>1. 1..3 = {1, 2, 3}
    OBVIOUS
  <1>2. At(1) /\ At(2) /\ At(3)
    BY AuditRoutesAre, NoLiteral DEF Grants, Is, Router
  <1>3. Apart(1, 2)
    BY AuditRoutesAre, NoLiteral DEF Grants, Is, Differ, Literal
  <1>4. Apart(1, 3) /\ Apart(2, 3)
    BY AuditRoutesAre, NoLiteral DEF Grants, Is, Differ, Literal
  <1>5. AuditRoutes \in Seq({AuditRoutes[i] : i \in DOMAIN AuditRoutes})
    BY DEF AuditRoutes
  <1>6. QED
    BY <1>1, <1>2, <1>3, <1>4, <1>5, AuditRoutesAre, Differing DEF Section, Unshadowed

LEMMA UserRoutesAre ==
  /\ DOMAIN UserRoutes = 1..6
  /\ Grants(UserRoutes[1], "GET", <<"users">>, "users", "read")
  /\ Grants(UserRoutes[2], "POST", <<"users">>, "users", "create")
  /\ Grants(UserRoutes[3], "GET", <<"users", Param>>, "users", "read")
  /\ Grants(UserRoutes[4], "PATCH", <<"users", Param>>, "users", "update")
  /\ Grants(UserRoutes[5], "PATCH", <<"users", Param, "disable">>, "users", "disable")
  /\ Grants(UserRoutes[6], "PUT", <<"users", Param, "roles">>, "users", "assign")
  BY Fields DEF UserRoutes, DisablePath, UserRolesPath

LEMMA UserSection == Section(UserRoutes, {11})
  <1> DEFINE At(i) == Router(UserRoutes[i].path) = 11
             Apart(j, i) == Differ(UserRoutes[j], UserRoutes[i])
  <1>1. 1..6 = {1, 2, 3, 4, 5, 6}
    OBVIOUS
  <1>2. At(1) /\ At(2) /\ At(3) /\ At(4) /\ At(5) /\ At(6)
    BY UserRoutesAre, NoLiteral DEF Grants, Is, Router
  <1>3. Apart(1, 2)
    BY UserRoutesAre, NoLiteral DEF Grants, Is, Differ, Literal
  <1>4. Apart(1, 3) /\ Apart(2, 3)
    BY UserRoutesAre, NoLiteral DEF Grants, Is, Differ, Literal
  <1>5. Apart(1, 4) /\ Apart(2, 4) /\ Apart(3, 4)
    BY UserRoutesAre, NoLiteral DEF Grants, Is, Differ, Literal
  <1>6. Apart(1, 5) /\ Apart(2, 5) /\ Apart(3, 5) /\ Apart(4, 5)
    BY UserRoutesAre, NoLiteral DEF Grants, Is, Differ, Literal
  <1>7. Apart(1, 6) /\ Apart(2, 6) /\ Apart(3, 6) /\ Apart(4, 6) /\ Apart(5, 6)
    BY UserRoutesAre, NoLiteral DEF Grants, Is, Differ, Literal
  <1>8. UserRoutes \in Seq({UserRoutes[i] : i \in DOMAIN UserRoutes})
    BY DEF UserRoutes
  <1>9. QED
    BY <1>1, <1>2, <1>3, <1>4, <1>5, <1>6, <1>7, <1>8, UserRoutesAre, Differing
    DEF Section, Unshadowed

LEMMA CatalogRoutesAre ==
  /\ DOMAIN CatalogRoutes = 1..4
  /\ Grants(CatalogRoutes[1], "GET", <<"document-families">>, "document_catalog",
            "read")
  /\ Grants(CatalogRoutes[2], "POST", <<"document-families">>, "document_catalog",
            "manage")
  /\ Grants(CatalogRoutes[3], "GET", <<"document-retention-policies">>,
            "document_catalog", "read")
  /\ Grants(CatalogRoutes[4], "POST", <<"document-retention-policies">>,
            "document_catalog", "manage")
  BY Fields DEF CatalogRoutes, Managed

LEMMA CatalogSection == Section(CatalogRoutes, {12})
  <1> DEFINE At(i) == Router(CatalogRoutes[i].path) = 12
             Apart(j, i) == Differ(CatalogRoutes[j], CatalogRoutes[i])
  <1>1. 1..4 = {1, 2, 3, 4}
    OBVIOUS
  <1>2. At(1) /\ At(2) /\ At(3) /\ At(4)
    BY CatalogRoutesAre, NoLiteral DEF Grants, Is, Router
  <1>3. Apart(1, 2)
    BY CatalogRoutesAre, NoLiteral DEF Grants, Is, Differ, Literal
  <1>4. Apart(1, 3) /\ Apart(2, 3)
    BY CatalogRoutesAre, NoLiteral DEF Grants, Is, Differ, Literal
  <1>5. Apart(1, 4) /\ Apart(2, 4) /\ Apart(3, 4)
    BY CatalogRoutesAre, NoLiteral DEF Grants, Is, Differ, Literal
  <1>6. CatalogRoutes \in Seq({CatalogRoutes[i] : i \in DOMAIN CatalogRoutes})
    BY DEF CatalogRoutes
  <1>7. QED
    BY <1>1, <1>2, <1>3, <1>4, <1>5, <1>6, CatalogRoutesAre, Differing DEF Section,
       Unshadowed

LEMMA TypeRoutesAre ==
  /\ DOMAIN TypeRoutes = 1..7
  /\ Grants(TypeRoutes[1], "GET", <<"document-types">>, "document_catalog", "read")
  /\ Grants(TypeRoutes[2], "POST", <<"document-types">>, "document_catalog", "manage")
  /\ Grants(TypeRoutes[3], "GET", <<"document-types", Param>>, "document_catalog",
            "read")
  /\ Grants(TypeRoutes[4], "PATCH", <<"document-types", Param>>, "document_catalog",
            "manage")
  /\ Grants(TypeRoutes[5], "GET", <<"document-types", Param, "versions">>,
            "document_catalog", "read")
  /\ Grants(TypeRoutes[6], "POST", <<"document-types", Param, "versions">>,
            "document_catalog", "manage")
  /\ Grants(TypeRoutes[7], "GET", <<"document-types", Param, "versions", Param>>,
            "document_catalog", "read")
  BY Fields DEF TypeRoutes, Managed

LEMMA TypeSection == Section(TypeRoutes, {13})
  <1> DEFINE At(i) == Router(TypeRoutes[i].path) = 13
             Apart(j, i) == Differ(TypeRoutes[j], TypeRoutes[i])
  <1>1. 1..7 = {1, 2, 3, 4, 5, 6, 7}
    OBVIOUS
  <1>2. At(1) /\ At(2) /\ At(3) /\ At(4) /\ At(5) /\ At(6) /\ At(7)
    BY TypeRoutesAre, NoLiteral DEF Grants, Is, Router
  <1>3. Apart(1, 2)
    BY TypeRoutesAre, NoLiteral DEF Grants, Is, Differ, Literal
  <1>4. Apart(1, 3) /\ Apart(2, 3)
    BY TypeRoutesAre, NoLiteral DEF Grants, Is, Differ, Literal
  <1>5. Apart(1, 4) /\ Apart(2, 4) /\ Apart(3, 4)
    BY TypeRoutesAre, NoLiteral DEF Grants, Is, Differ, Literal
  <1>6. Apart(1, 5) /\ Apart(2, 5) /\ Apart(3, 5) /\ Apart(4, 5)
    BY TypeRoutesAre, NoLiteral DEF Grants, Is, Differ, Literal
  <1>7. Apart(1, 6) /\ Apart(2, 6) /\ Apart(3, 6) /\ Apart(4, 6) /\ Apart(5, 6)
    BY TypeRoutesAre, NoLiteral DEF Grants, Is, Differ, Literal
  <1>8. /\ Apart(1, 7) /\ Apart(2, 7) /\ Apart(3, 7) /\ Apart(4, 7) /\ Apart(5, 7)
        /\ Apart(6, 7)
    BY TypeRoutesAre, NoLiteral DEF Grants, Is, Differ, Literal
  <1>9. TypeRoutes \in Seq({TypeRoutes[i] : i \in DOMAIN TypeRoutes})
    BY DEF TypeRoutes
  <1>10. QED
    BY <1>1, <1>2, <1>3, <1>4, <1>5, <1>6, <1>7, <1>8, <1>9, TypeRoutesAre,
       Differing DEF Section, Unshadowed

LEMMA NumberingRoutesAre ==
  /\ DOMAIN NumberingRoutes = 1..2
  /\ Grants(NumberingRoutes[1], "GET", <<"document-numbering", "standard">>,
            "document_catalog", "read")
  /\ Grants(NumberingRoutes[2], "POST", <<"document-numbering", "preview">>,
            "document_catalog", "read")
  BY Fields DEF NumberingRoutes

LEMMA NumberingSection == Section(NumberingRoutes, {14})
  <1> DEFINE At(i) == Router(NumberingRoutes[i].path) = 14
             Apart(j, i) == Differ(NumberingRoutes[j], NumberingRoutes[i])
  <1>1. 1..2 = {1, 2}
    OBVIOUS
  <1>2. At(1) /\ At(2)
    BY NumberingRoutesAre, NoLiteral DEF Grants, Is, Router
  <1>3. Apart(1, 2)
    BY NumberingRoutesAre, NoLiteral DEF Grants, Is, Differ, Literal
  <1>4. NumberingRoutes \in Seq({NumberingRoutes[i] : i \in DOMAIN NumberingRoutes})
    BY DEF NumberingRoutes
  <1>5. QED
    BY <1>1, <1>2, <1>3, <1>4, NumberingRoutesAre, Differing DEF Section, Unshadowed

LEMMA SeriesRoutesAre ==
  /\ DOMAIN SeriesRoutes = 1..3
  /\ Grants(SeriesRoutes[1], "GET", <<"document-series">>, "document_series", "read")
  /\ Grants(SeriesRoutes[2], "POST", <<"document-series">>, "document_series", "create")
  /\ Grants(SeriesRoutes[3], "GET", <<"document-series", Param>>, "document_series",
            "read")
  BY Fields DEF SeriesRoutes

LEMMA SeriesSection == Section(SeriesRoutes, {15})
  <1> DEFINE At(i) == Router(SeriesRoutes[i].path) = 15
             Apart(j, i) == Differ(SeriesRoutes[j], SeriesRoutes[i])
  <1>1. 1..3 = {1, 2, 3}
    OBVIOUS
  <1>2. At(1) /\ At(2) /\ At(3)
    BY SeriesRoutesAre, NoLiteral DEF Grants, Is, Router
  <1>3. Apart(1, 2)
    BY SeriesRoutesAre, NoLiteral DEF Grants, Is, Differ, Literal
  <1>4. Apart(1, 3) /\ Apart(2, 3)
    BY SeriesRoutesAre, NoLiteral DEF Grants, Is, Differ, Literal
  <1>5. SeriesRoutes \in Seq({SeriesRoutes[i] : i \in DOMAIN SeriesRoutes})
    BY DEF SeriesRoutes
  <1>6. QED
    BY <1>1, <1>2, <1>3, <1>4, <1>5, SeriesRoutesAre, Differing DEF Section, Unshadowed

LEMMA NumberRoutesAre ==
  /\ DOMAIN NumberRoutes = 1..5
  /\ Grants(NumberRoutes[1], "POST", <<"document-series", Param, "reservations">>,
            "document_series", "reserve")
  /\ Grants(NumberRoutes[2], "GET", <<"document-series", "reservations", Param>>,
            "document_series", "read")
  /\ Grants(NumberRoutes[3], "GET", <<"document-series", Param, "numbers">>,
            "document_series", "read")
  /\ Grants(NumberRoutes[4], "POST", <<"document-series", "numbers", Param, "void">>,
            "document_series", "void")
  /\ Grants(NumberRoutes[5], "GET", <<"document-series", "reservations", Param,
            "booklet">>, "document_series", "download")
  BY Fields DEF NumberRoutes

LEMMA NumberSection == Section(NumberRoutes, {16})
  <1> DEFINE At(i) == Router(NumberRoutes[i].path) = 16
             Apart(j, i) == Differ(NumberRoutes[j], NumberRoutes[i])
  <1>1. 1..5 = {1, 2, 3, 4, 5}
    OBVIOUS
  <1>2. At(1) /\ At(2) /\ At(3) /\ At(4) /\ At(5)
    BY NumberRoutesAre, NoLiteral DEF Grants, Is, Router
  <1>3. Apart(1, 2)
    BY NumberRoutesAre, NoLiteral DEF Grants, Is, Differ, Literal
  <1>4. Apart(1, 3) /\ Apart(2, 3)
    BY NumberRoutesAre, NoLiteral DEF Grants, Is, Differ, Literal
  <1>5. Apart(1, 4) /\ Apart(2, 4) /\ Apart(3, 4)
    BY NumberRoutesAre, NoLiteral DEF Grants, Is, Differ, Literal
  <1>6. Apart(1, 5) /\ Apart(2, 5) /\ Apart(3, 5) /\ Apart(4, 5)
    BY NumberRoutesAre, NoLiteral DEF Grants, Is, Differ, Literal
  <1>7. NumberRoutes \in Seq({NumberRoutes[i] : i \in DOMAIN NumberRoutes})
    BY DEF NumberRoutes
  <1>8. QED
    BY <1>1, <1>2, <1>3, <1>4, <1>5, <1>6, <1>7, NumberRoutesAre, Differing
    DEF Section, Unshadowed

LEMMA RendererRoutesAre ==
  /\ DOMAIN RendererRoutes = 1..8
  /\ Grants(RendererRoutes[1], "GET", <<"document-renderer", "templates">>,
            "document_templates", "read")
  /\ Grants(RendererRoutes[2], "GET", <<"document-renderer", "templates", Param>>,
            "document_templates", "read")
  /\ Grants(RendererRoutes[3], "POST", <<"document-renderer", "preview">>,
            "document_templates", "preview")
  /\ Grants(RendererRoutes[4], "POST", <<"document-renderer", "sample">>,
            "document_templates", "preview")
  /\ Grants(RendererRoutes[5], "POST", <<"document-renderer", "purchasing", Param,
            "sample">>, "document_templates", "preview")
  /\ Grants(RendererRoutes[6], "POST", <<"document-renderer", "receiving", Param,
            "sample">>, "document_templates", "preview")
  /\ Grants(RendererRoutes[7], "POST", <<"document-renderer", "inventory", Param,
            "sample">>, "document_templates", "preview")
  /\ Grants(RendererRoutes[8], "POST", <<"document-renderer", "outbound", Param,
            "sample">>, "document_templates", "preview")
  <1>1. /\ DOMAIN RendererRoutes = 1..8
        /\ RendererRoutes[1] = Read(<<"document-renderer", "templates">>,
                "document_templates")
        /\ RendererRoutes[2] = Read(<<"document-renderer", "templates", Param>>,
                "document_templates")
        /\ RendererRoutes[3] = Preview(<<"preview">>)
        /\ RendererRoutes[4] = Preview(<<"sample">>)
        /\ RendererRoutes[5] = Preview(<<"purchasing", Param, "sample">>)
        /\ RendererRoutes[6] = Preview(<<"receiving", Param, "sample">>)
        /\ RendererRoutes[7] = Preview(<<"inventory", Param, "sample">>)
        /\ RendererRoutes[8] = Preview(<<"outbound", Param, "sample">>)
    BY DEF RendererRoutes
  <1>2. /\ <<"document-renderer">> \o <<"preview">> = <<"document-renderer", "preview">>
        /\ <<"document-renderer">> \o <<"sample">> = <<"document-renderer", "sample">>
        /\ <<"document-renderer">> \o <<"purchasing", Param, "sample">>
               = <<"document-renderer", "purchasing", Param, "sample">>
        /\ <<"document-renderer">> \o <<"receiving", Param, "sample">>
               = <<"document-renderer", "receiving", Param, "sample">>
        /\ <<"document-renderer">> \o <<"inventory", Param, "sample">>
               = <<"document-renderer", "inventory", Param, "sample">>
        /\ <<"document-renderer">> \o <<"outbound", Param, "sample">>
               = <<"document-renderer", "outbound", Param, "sample">>
    BY Prefixed
  <1>3. QED
    BY <1>1, <1>2, Fields DEF Preview

LEMMA RendererSection == Section(RendererRoutes, {17})
  <1> DEFINE At(i) == Router(RendererRoutes[i].path) = 17
             Apart(j, i) == Differ(RendererRoutes[j], RendererRoutes[i])
  <1>1. 1..8 = {1, 2, 3, 4, 5, 6, 7, 8}
    OBVIOUS
  <1>2. At(1) /\ At(2) /\ At(3) /\ At(4) /\ At(5) /\ At(6) /\ At(7) /\ At(8)
    BY RendererRoutesAre, NoLiteral DEF Grants, Is, Router
  <1>3. Apart(1, 2)
    BY RendererRoutesAre, NoLiteral DEF Grants, Is, Differ, Literal
  <1>4. Apart(1, 3) /\ Apart(2, 3)
    BY RendererRoutesAre, NoLiteral DEF Grants, Is, Differ, Literal
  <1>5. Apart(1, 4) /\ Apart(2, 4) /\ Apart(3, 4)
    BY RendererRoutesAre, NoLiteral DEF Grants, Is, Differ, Literal
  <1>6. Apart(1, 5) /\ Apart(2, 5) /\ Apart(3, 5) /\ Apart(4, 5)
    BY RendererRoutesAre, NoLiteral DEF Grants, Is, Differ, Literal
  <1>7. Apart(1, 6) /\ Apart(2, 6) /\ Apart(3, 6) /\ Apart(4, 6) /\ Apart(5, 6)
    BY RendererRoutesAre, NoLiteral DEF Grants, Is, Differ, Literal
  <1>8. /\ Apart(1, 7) /\ Apart(2, 7) /\ Apart(3, 7) /\ Apart(4, 7) /\ Apart(5, 7)
        /\ Apart(6, 7)
    BY RendererRoutesAre, NoLiteral DEF Grants, Is, Differ, Literal
  <1>9. /\ Apart(1, 8) /\ Apart(2, 8) /\ Apart(3, 8) /\ Apart(4, 8) /\ Apart(5, 8)
        /\ Apart(6, 8) /\ Apart(7, 8)
    BY RendererRoutesAre, NoLiteral DEF Grants, Is, Differ, Literal
  <1>10. RendererRoutes \in Seq({RendererRoutes[i] : i \in DOMAIN RendererRoutes})
    BY DEF RendererRoutes
  <1>11. QED
    BY <1>1, <1>2, <1>3, <1>4, <1>5, <1>6, <1>7, <1>8, <1>9, <1>10, RendererRoutesAre,
       Differing DEF Section, Unshadowed

-----------------------------------------------------------------------------
(* Routes of different routers do not match each other's requests, so that *)
(* sections can be put one after another.                                  *)

LEMMA SameRouter ==
  ASSUME NEW route, NEW other, Matches(route, Endpoint(other)),
         Router(route.path) # 0, Router(other.path) # 0
  PROVE  Router(route.path) = Router(other.path)
  <1>1. Len(route.path) = Len(other.path) /\ route.path[1] = other.path[1]
    BY DEF Matches, Endpoint, Router
  <1>2. 1 \in DOMAIN route.path /\ 1 \in DOMAIN other.path
    BY DEF Router
  <1>3. route.path[1] # Param /\ other.path[1] # Param
    BY DEF Router
  <1>4. QED
    BY <1>1, <1>2, <1>3 DEF Router

Elements(s) == {s[i] : i \in DOMAIN s}

LEMMA Joined ==
  ASSUME NEW s, NEW t, NEW k \in Nat, NEW m, m = k + 1,
         Section(s, 1..k), Section(t, {m})
  PROVE  /\ Section(s \o t, 1..m)
         /\ Elements(s) \subseteq Elements(s \o t)
         /\ Elements(t) \subseteq Elements(s \o t)
  <1>1. PICK S : s \in Seq(S)
    BY DEF Section
  <1>2. PICK T : t \in Seq(T)
    BY DEF Section
  <1>3. s \in Seq(S \cup T) /\ t \in Seq(S \cup T)
    BY <1>1, <1>2, SeqMonotonic
  <1> DEFINE st == s \o t
  <1>4. /\ st \in Seq(S \cup T)
        /\ Len(st) = Len(s) + Len(t)
        /\ \A i \in 1 .. Len(s) + Len(t) :
             st[i] = IF i <= Len(s) THEN s[i] ELSE t[i - Len(s)]
    BY <1>3, ConcatProperties
  <1> HIDE DEF st
  <1>5. /\ Len(s) \in Nat /\ Len(t) \in Nat
        /\ DOMAIN s = 1 .. Len(s) /\ DOMAIN t = 1 .. Len(t)
        /\ DOMAIN st = 1 .. Len(s) + Len(t)
    BY <1>3, <1>4
  <1>6. ASSUME NEW i \in DOMAIN s
        PROVE  i \in DOMAIN st /\ st[i] = s[i]
    BY <1>4, <1>5
  <1>7. ASSUME NEW i \in DOMAIN t
        PROVE  Len(s) + i \in DOMAIN st /\ st[Len(s) + i] = t[i]
    BY <1>4, <1>5
  <1>8. ASSUME NEW i \in DOMAIN st, i \notin DOMAIN s
        PROVE  i - Len(s) \in DOMAIN t /\ st[i] = t[i - Len(s)]
    <2>1. i \in 1 .. Len(s) + Len(t) /\ ~(i <= Len(s))
      BY <1>5, <1>8
    <2>2. i - Len(s) \in 1 .. Len(t)
      BY <1>5, <2>1
    <2>3. QED
      BY <1>4, <1>5, <2>1, <2>2
  <1>9. ASSUME NEW i \in DOMAIN st
        PROVE  Router(st[i].path) \in 1..m
    BY <1>5, <1>6, <1>8 DEF Section
  <1>10. ASSUME NEW i \in DOMAIN st, NEW j \in 1 .. (i - 1)
         PROVE  ~Matches(st[j], Endpoint(st[i]))
    <2>1. j \in DOMAIN st
      BY <1>5
    <2>2. CASE i \in DOMAIN s
      <3>1. j \in DOMAIN s
        BY <1>5, <2>2
      <3>2. QED
        BY <1>6, <2>2, <3>1 DEF Section, Unshadowed
    <2>3. CASE i \notin DOMAIN s /\ j \in DOMAIN s
      <3>1. st[j] = s[j] /\ Router(s[j].path) \in 1..k
        BY <1>6, <2>3 DEF Section
      <3>2. st[i] = t[i - Len(s)] /\ Router(t[i - Len(s)].path) = m
        BY <1>8, <2>3 DEF Section
      <3>3. Router(st[j].path) # Router(st[i].path)
        BY <3>1, <3>2
      <3>4. Router(st[j].path) # 0 /\ Router(st[i].path) # 0
        BY <3>1, <3>2
      <3>5. QED
        BY <3>3, <3>4, SameRouter
    <2>4. CASE i \notin DOMAIN s /\ j \notin DOMAIN s
      <3>1. /\ st[i] = t[i - Len(s)] /\ i - Len(s) \in DOMAIN t
            /\ st[j] = t[j - Len(s)] /\ j - Len(s) \in DOMAIN t
        BY <1>8, <2>1, <2>4
      <3>2. j - Len(s) \in 1 .. ((i - Len(s)) - 1)
        BY <1>5, <3>1
      <3>3. QED
        BY <3>1, <3>2 DEF Section, Unshadowed
    <2>5. QED
      BY <2>2, <2>3, <2>4
  <1>11. Section(st, 1..m)
    BY <1>4, <1>9, <1>10 DEF Section, Unshadowed
  <1>12. Elements(s) \subseteq Elements(st) /\ Elements(t) \subseteq Elements(st)
    BY <1>6, <1>7 DEF Elements
  <1>13. QED
    BY <1>11, <1>12 DEF st

(* No route hides a later one, and all sections are routed.                *)
LEMMA Routed ==
  /\ Section(Routes, 1..17)
  /\ Elements(OrganizationRoutes) \subseteq Elements(Routes)
  /\ Elements(BranchRoutes) \subseteq Elements(Routes)
  /\ Elements(WarehouseRoutes) \subseteq Elements(Routes)
  /\ Elements(PermissionRoutes) \subseteq Elements(Routes)
  /\ Elements(RoleRoutes) \subseteq Elements(Routes)
  /\ Elements(AuditRoutes) \subseteq Elements(Routes)
  /\ Elements(UserRoutes) \subseteq Elements(Routes)
  /\ Elements(CatalogRoutes) \subseteq Elements(Routes)
  /\ Elements(TypeRoutes) \subseteq Elements(Routes)
  /\ Elements(NumberingRoutes) \subseteq Elements(Routes)
  /\ Elements(SeriesRoutes) \subseteq Elements(Routes)
  /\ Elements(NumberRoutes) \subseteq Elements(Routes)
  /\ Elements(RendererRoutes) \subseteq Elements(Routes)
  <1> DEFINE p1 == SystemRoutes
             p2 == p1 \o AuthRoutes
             p3 == p2 \o MfaRoutes
             p4 == p3 \o StatusRoutes
             p5 == p4 \o OrganizationRoutes
             p6 == p5 \o BranchRoutes
             p7 == p6 \o WarehouseRoutes
             p8 == p7 \o PermissionRoutes
             p9 == p8 \o RoleRoutes
             p10 == p9 \o AuditRoutes
             p11 == p10 \o UserRoutes
             p12 == p11 \o CatalogRoutes
             p13 == p12 \o TypeRoutes
             p14 == p13 \o NumberingRoutes
             p15 == p14 \o SeriesRoutes
             p16 == p15 \o NumberRoutes
             p17 == p16 \o RendererRoutes
  <1>0. /\ 1 \in Nat /\ 2 = 1 + 1
        /\ 2 \in Nat /\ 3 = 2 + 1
        /\ 3 \in Nat /\ 4 = 3 + 1
        /\ 4 \in Nat /\ 5 = 4 + 1
        /\ 5 \in Nat /\ 6 = 5 + 1
        /\ 6 \in Nat /\ 7 = 6 + 1
        /\ 7 \in Nat /\ 8 = 7 + 1
        /\ 8 \in Nat /\ 9 = 8 + 1
        /\ 9 \in Nat /\ 10 = 9 + 1
        /\ 10 \in Nat /\ 11 = 10 + 1
        /\ 11 \in Nat /\ 12 = 11 + 1
        /\ 12 \in Nat /\ 13 = 12 + 1
        /\ 13 \in Nat /\ 14 = 13 + 1
        /\ 14 \in Nat /\ 15 = 14 + 1
        /\ 15 \in Nat /\ 16 = 15 + 1
        /\ 16 \in Nat /\ 17 = 16 + 1
    OBVIOUS
  <1>1. Section(p1, 1..1)
    <2>1. 1..1 = {1}
      OBVIOUS
    <2>2. QED
      BY <2>1, SystemSection
  <1> HIDE DEF p1
  <1>2. /\ Section(p2, 1..2) /\ Elements(p1) \subseteq Elements(p2)
       /\ Elements(AuthRoutes) \subseteq Elements(p2)
    BY <1>0, <1>1, AuthSection, Joined, Zenon
  <1> HIDE DEF p2
  <1>3. /\ Section(p3, 1..3) /\ Elements(p2) \subseteq Elements(p3)
       /\ Elements(MfaRoutes) \subseteq Elements(p3)
    BY <1>0, <1>2, MfaSection, Joined, Zenon
  <1> HIDE DEF p3
  <1>4. /\ Section(p4, 1..4) /\ Elements(p3) \subseteq Elements(p4)
       /\ Elements(StatusRoutes) \subseteq Elements(p4)
    BY <1>0, <1>3, StatusSection, Joined, Zenon
  <1> HIDE DEF p4
  <1>5. /\ Section(p5, 1..5) /\ Elements(p4) \subseteq Elements(p5)
       /\ Elements(OrganizationRoutes) \subseteq Elements(p5)
    BY <1>0, <1>4, OrganizationSection, Joined, Zenon
  <1> HIDE DEF p5
  <1>6. /\ Section(p6, 1..6) /\ Elements(p5) \subseteq Elements(p6)
       /\ Elements(BranchRoutes) \subseteq Elements(p6)
    BY <1>0, <1>5, BranchSection, Joined, Zenon
  <1> HIDE DEF p6
  <1>7. /\ Section(p7, 1..7) /\ Elements(p6) \subseteq Elements(p7)
       /\ Elements(WarehouseRoutes) \subseteq Elements(p7)
    BY <1>0, <1>6, WarehouseSection, Joined, Zenon
  <1> HIDE DEF p7
  <1>8. /\ Section(p8, 1..8) /\ Elements(p7) \subseteq Elements(p8)
       /\ Elements(PermissionRoutes) \subseteq Elements(p8)
    BY <1>0, <1>7, PermissionSection, Joined, Zenon
  <1> HIDE DEF p8
  <1>9. /\ Section(p9, 1..9) /\ Elements(p8) \subseteq Elements(p9)
       /\ Elements(RoleRoutes) \subseteq Elements(p9)
    BY <1>0, <1>8, RoleSection, Joined, Zenon
  <1> HIDE DEF p9
  <1>10. /\ Section(p10, 1..10) /\ Elements(p9) \subseteq Elements(p10)
        /\ Elements(AuditRoutes) \subseteq Elements(p10)
    BY <1>0, <1>9, AuditSection, Joined, Zenon
  <1> HIDE DEF p10
  <1>11. /\ Section(p11, 1..11) /\ Elements(p10) \subseteq Elements(p11)
        /\ Elements(UserRoutes) \subseteq Elements(p11)
    BY <1>0, <1>10, UserSection, Joined, Zenon
  <1> HIDE DEF p11
  <1>12. /\ Section(p12, 1..12) /\ Elements(p11) \subseteq Elements(p12)
        /\ Elements(CatalogRoutes) \subseteq Elements(p12)
    BY <1>0, <1>11, CatalogSection, Joined, Zenon
  <1> HIDE DEF p12
  <1>13. /\ Section(p13, 1..13) /\ Elements(p12) \subseteq Elements(p13)
        /\ Elements(TypeRoutes) \subseteq Elements(p13)
    BY <1>0, <1>12, TypeSection, Joined, Zenon
  <1> HIDE DEF p13
  <1>14. /\ Section(p14, 1..14) /\ Elements(p13) \subseteq Elements(p14)
        /\ Elements(NumberingRoutes) \subseteq Elements(p14)
    BY <1>0, <1>13, NumberingSection, Joined, Zenon
  <1> HIDE DEF p14
  <1>15. /\ Section(p15, 1..15) /\ Elements(p14) \subseteq Elements(p15)
        /\ Elements(SeriesRoutes) \subseteq Elements(p15)
    BY <1>0, <1>14, SeriesSection, Joined, Zenon
  <1> HIDE DEF p15
  <1>16. /\ Section(p16, 1..16) /\ Elements(p15) \subseteq Elements(p16)
        /\ Elements(NumberRoutes) \subseteq Elements(p16)
    BY <1>0, <1>15, NumberSection, Joined, Zenon
  <1> HIDE DEF p16
  <1>17. /\ Section(p17, 1..17) /\ Elements(p16) \subseteq Elements(p17)
        /\ Elements(RendererRoutes) \subseteq Elements(p17)
    BY <1>0, <1>16, RendererSection, Joined, Zenon
  <1>18. Routes = p17
    BY DEF Routes, p1, p2, p3, p4, p5, p6, p7, p8, p9, p10, p11, p12, p13, p14, p15, p16
  <1> HIDE DEF p17
  <1>19. QED
    BY <1>5, <1>6, <1>7, <1>8, <1>9, <1>10, <1>11, <1>12, <1>13, <1>14, <1>15, <1>16,
       <1>17, <1>18

(* The first route that matches a request is the one it was made for.      *)
THEOREM Dispatched ==
  ASSUME NEW i \in DOMAIN Routes
  PROVE  Dispatch[Endpoint(Routes[i])] = Routes[i]
  <1> DEFINE call == Endpoint(Routes[i])
             First(j) == /\ Matches(Routes[j], call)
                         /\ \A l \in 1 .. (j - 1) : ~Matches(Routes[l], call)
             chosen == CHOOSE j \in DOMAIN Routes : First(j)
  <1>1. DOMAIN Routes \subseteq Nat \ {0}
    <2>1. PICK S : Routes \in Seq(S)
      BY Routed DEF Section
    <2>2. QED
      BY <2>1
  <1>2. Matches(Routes[i], call)
    BY DEF Matches, Endpoint
  <1>3. First(i)
    BY <1>2, Routed DEF Section, Unshadowed
  <1>4. chosen \in DOMAIN Routes /\ First(chosen)
    BY <1>3
  <1>5. Dispatch[call] = Routes[chosen]
    BY DEF Dispatch, Endpoints
  <1> HIDE DEF chosen
  <1>6. ~(chosen < i)
    BY <1>1, <1>3, <1>4
  <1>7. ~(i < chosen)
    BY <1>1, <1>2, <1>4
  <1>8. chosen = i
    BY <1>1, <1>4, <1>6, <1>7
  <1>9. QED
    BY <1>5, <1>8

-----------------------------------------------------------------------------
(* Every row of the matrix has a route that asks for its permission.       *)

Granted(row) ==
  \E i \in DOMAIN Routes :
    /\ Is(Routes[i], row.method, row.path)
    /\ Routes[i].needs = "permission" /\ Routes[i].permission = row.permission

LEMMA Granting ==
  ASSUME NEW route \in Elements(Routes), NEW method, NEW path, NEW resource, NEW action,
         Grants(route, method, path, resource, action)
  PROVE  Granted(Row(method, path, resource, action))
  BY DEF Elements, Granted, Grants, Is, Row

LEMMA StructureRowsGranted == \A row \in StructureMatrix : Granted(row)
  <1>1. /\ Granted(Row("GET", <<"structure">>, "organization", "read"))
        /\ Granted(Row("POST", <<"organizations">>, "organization", "create"))
        /\ Granted(Row("GET", <<"organizations">>, "organization", "read"))
        /\ Granted(Row("GET", <<"organizations", Param>>, "organization", "read"))
        /\ Granted(Row("PATCH", <<"organizations", Param>>, "organization", "update"))
        /\ Granted(Row("DELETE", <<"organizations", Param>>, "organization", "delete"))
    BY OrganizationRoutesAre, Routed, Granting DEF Elements
  <1>2. /\ Granted(Row("POST", <<"organizations", Param, "branches">>, "branch",
                       "create"))
        /\ Granted(Row("GET", <<"organizations", Param, "branches">>, "branch", "read"))
        /\ Granted(Row("GET", <<"branches", Param>>, "branch", "read"))
        /\ Granted(Row("PATCH", <<"branches", Param>>, "branch", "update"))
        /\ Granted(Row("DELETE", <<"branches", Param>>, "branch", "delete"))
    BY BranchRoutesAre, Routed, Granting DEF Elements
  <1>3. /\ Granted(Row("POST", <<"branches", Param, "warehouses">>, "warehouse",
                       "create"))
        /\ Granted(Row("GET", <<"branches", Param, "warehouses">>, "warehouse", "read"))
        /\ Granted(Row("GET", <<"warehouses", Param>>, "warehouse", "read"))
        /\ Granted(Row("PATCH", <<"warehouses", Param>>, "warehouse", "update"))
        /\ Granted(Row("DELETE", <<"warehouses", Param>>, "warehouse", "delete"))
    BY WarehouseRoutesAre, Routed, Granting DEF Elements
  <1>4. QED
    BY <1>1, <1>2, <1>3 DEF StructureMatrix, ReadRow, CollectionRows, ItemRows

LEMMA AccessRowsGranted == \A row \in AccessMatrix : Granted(row)
  <1>1. /\ Granted(Row("GET", <<"permissions", "endpoint-matrix">>, "permissions",
                       "read"))
        /\ Granted(Row("GET", <<"permissions">>, "permissions", "read"))
        /\ Granted(Row("GET", <<"permissions", Param>>, "permissions", "read"))
    BY PermissionRoutesAre, Routed, Granting DEF Elements
  <1>2. /\ Granted(Row("GET", <<"roles", "matrix">>, "roles", "read"))
        /\ Granted(Row("POST", <<"roles">>, "roles", "create"))
        /\ Granted(Row("GET", <<"roles">>, "roles", "read"))
        /\ Granted(Row("GET", <<"roles", Param>>, "roles", "read"))
        /\ Granted(Row("PATCH", <<"roles", Param>>, "roles", "update"))
        /\ Granted(Row("DELETE", <<"roles", Param>>, "roles", "delete"))
        /\ Granted(Row("GET", <<"roles", Param, "permissions">>, "permissions", "read"))
        /\ Granted(Row("PUT", <<"roles", Param, "permissions">>, "permissions",
                       "assign"))
    BY RoleRoutesAre, Routed, Granting DEF Elements
  <1>3. /\ Granted(Row("GET", <<"audit-events", "export">>, "audit", "export"))
        /\ Granted(Row("GET", <<"audit-events">>, "audit", "read"))
        /\ Granted(Row("GET", <<"audit-events", Param>>, "audit", "read"))
    BY AuditRoutesAre, Routed, Granting DEF Elements
  <1>4. /\ Granted(Row("GET", <<"users">>, "users", "read"))
        /\ Granted(Row("POST", <<"users">>, "users", "create"))
        /\ Granted(Row("GET", <<"users", Param>>, "users", "read"))
        /\ Granted(Row("PATCH", <<"users", Param>>, "users", "update"))
        /\ Granted(Row("PATCH", <<"users", Param, "disable">>, "users", "disable"))
        /\ Granted(Row("PUT", <<"users", Param, "roles">>, "users", "assign"))
    BY UserRoutesAre, Routed, Granting DEF Elements
  <1>5. QED
    BY <1>1, <1>2, <1>3, <1>4 DEF AccessMatrix, ReadRow, CollectionRows, ItemRows

LEMMA CatalogRowsGranted == \A row \in CatalogMatrix : Granted(row)
  <1>1. /\ Granted(Row("GET", <<"document-families">>, "document_catalog", "read"))
        /\ Granted(Row("POST", <<"document-families">>, "document_catalog", "manage"))
        /\ Granted(Row("GET", <<"document-retention-policies">>, "document_catalog",
                       "read"))
        /\ Granted(Row("POST", <<"document-retention-policies">>, "document_catalog",
                       "manage"))
    BY CatalogRoutesAre, Routed, Granting DEF Elements
  <1>2. /\ Granted(Row("GET", <<"document-types">>, "document_catalog", "read"))
        /\ Granted(Row("POST", <<"document-types">>, "document_catalog", "manage"))
        /\ Granted(Row("GET", <<"document-types", Param>>, "document_catalog", "read"))
        /\ Granted(Row("PATCH", <<"document-types", Param>>, "document_catalog",
                       "manage"))
        /\ Granted(Row("GET", <<"document-types", Param, "versions">>,
                       "document_catalog", "read"))
        /\ Granted(Row("POST", <<"document-types", Param, "versions">>,
                       "document_catalog", "manage"))
        /\ Granted(Row("GET", <<"document-types", Param, "versions", Param>>,
                       "document_catalog", "read"))
    BY TypeRoutesAre, Routed, Granting DEF Elements
  <1>3. /\ Granted(Row("GET", <<"document-numbering", "standard">>,
                       "document_catalog", "read"))
        /\ Granted(Row("POST", <<"document-numbering", "preview">>,
                       "document_catalog", "read"))
    BY NumberingRoutesAre, Routed, Granting DEF Elements
  <1>4. QED
    BY <1>1, <1>2, <1>3 DEF CatalogMatrix, ReadRow, ManagedRows

LEMMA SeriesRowsGranted == \A row \in SeriesMatrix : Granted(row)
  <1>1. /\ Granted(Row("GET", <<"document-series">>, "document_series", "read"))
        /\ Granted(Row("POST", <<"document-series">>, "document_series", "create"))
        /\ Granted(Row("GET", <<"document-series", Param>>, "document_series", "read"))
    BY SeriesRoutesAre, Routed, Granting DEF Elements
  <1>2. /\ Granted(Row("POST", <<"document-series", Param, "reservations">>,
                       "document_series", "reserve"))
        /\ Granted(Row("GET", <<"document-series", "reservations", Param>>,
                       "document_series", "read"))
        /\ Granted(Row("GET", <<"document-series", Param, "numbers">>,
                       "document_series", "read"))
        /\ Granted(Row("POST", <<"document-series", "numbers", Param, "void">>,
                       "document_series", "void"))
        /\ Granted(Row("GET", <<"document-series", "reservations", Param, "booklet">>,
                       "document_series", "download"))
    BY NumberRoutesAre, Routed, Granting DEF Elements
  <1>3. QED
    BY <1>1, <1>2, Prefixed DEF SeriesMatrix, SeriesRow

LEMMA RendererRowsGranted == \A row \in RendererMatrix : Granted(row)
  <1>1. /\ Granted(Row("GET", <<"document-renderer", "templates">>,
                       "document_templates", "read"))
        /\ Granted(Row("GET", <<"document-renderer", "templates", Param>>,
                       "document_templates", "read"))
        /\ Granted(Row("POST", <<"document-renderer", "preview">>,
                       "document_templates", "preview"))
        /\ Granted(Row("POST", <<"document-renderer", "sample">>,
                       "document_templates", "preview"))
        /\ Granted(Row("POST", <<"document-renderer", "purchasing", Param, "sample">>,
                       "document_templates", "preview"))
        /\ Granted(Row("POST", <<"document-renderer", "receiving", Param, "sample">>,
                       "document_templates", "preview"))
        /\ Granted(Row("POST", <<"document-renderer", "inventory", Param, "sample">>,
                       "document_templates", "preview"))
        /\ Granted(Row("POST", <<"document-renderer", "outbound", Param, "sample">>,
                       "document_templates", "preview"))
    BY RendererRoutesAre, Routed, Granting DEF Elements
  <1>2. \A method, action, a :
          RendererRow(method, <<a>>, action)
            = Row(method, <<"document-renderer", a>>, "document_templates", action)
    BY Prefixed DEF RendererRow
  <1>3. \A method, action, a :
          RendererRow(method, <<a, Param>>, action)
            = Row(method, <<"document-renderer", a, Param>>, "document_templates",
                  action)
    BY Prefixed DEF RendererRow
  <1>4. \A method, action, a :
          RendererRow(method, <<a, Param, "sample">>, action)
            = Row(method, <<"document-renderer", a, Param, "sample">>,
                  "document_templates", action)
    BY Prefixed DEF RendererRow
  <1>5. QED
    BY <1>1, <1>2, <1>3, <1>4 DEF RendererMatrix

(* A request for a row of the published matrix goes to a route of the same *)
(* method and path, which asks for the permission the row lists.           *)
THEOREM RowsGranted ==
  ASSUME NEW row \in PublishedMatrix
  PROVE  /\ Dispatch[Endpoint(row)].path = row.path
         /\ Dispatch[Endpoint(row)].needs = "permission"
         /\ Dispatch[Endpoint(row)].permission = row.permission
  <1>1. Granted(row)
    BY StructureRowsGranted, AccessRowsGranted, CatalogRowsGranted, SeriesRowsGranted,
       RendererRowsGranted DEF PublishedMatrix
  <1>2. PICK i \in DOMAIN Routes :
          /\ Is(Routes[i], row.method, row.path)
          /\ Routes[i].needs = "permission" /\ Routes[i].permission = row.permission
    BY <1>1 DEF Granted
  <1>3. Endpoint(Routes[i]) = Endpoint(row)
    BY <1>2 DEF Is, Endpoint
  <1>4. QED
    BY <1>2, <1>3, Dispatched DEF Is
=============================================================================
