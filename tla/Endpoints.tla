----------------------------- MODULE Endpoints ------------------------------
(***************************************************************************)
(* The endpoints in the order main.py and api/logistics/router.py include  *)
(* their routers, and the choice among them.  A request goes to the first  *)
(* route whose method and path match, so that a literal segment must come  *)
(* before a parameter in its place.                                        *)
(*                                                                         *)
(* Of a route the model keeps which dependencies run before its handler:   *)
(* none, get_current_principal, or require_permission, and validate_csrf.  *)
(* What the handlers do is in the modules of their components.             *)
(***************************************************************************)
EXTENDS PermissionCatalog

NoPermission == <<>>

Public(method, path, csrf) ==
  [method |-> method, path |-> path, needs |-> "nothing",
   permission |-> NoPermission, csrf |-> csrf]
Session(method, path, csrf) ==
  [Public(method, path, csrf) EXCEPT !.needs = "principal"]

(* require_permission, and require_permission with validate_csrf after it. *)
Guarded(method, path, resource, action) ==
  [Public(method, path, FALSE) EXCEPT
     !.needs = "permission", !.permission = <<resource, action>>]
Checked(method, path, resource, action) ==
  [Guarded(method, path, resource, action) EXCEPT !.csrf = TRUE]

Read(path, resource) == Guarded("GET", path, resource, "read")

-----------------------------------------------------------------------------
(* health_router, system_router, auth_router, mfa_router, and the status   *)
(* endpoint of api/logistics/router.py.                                    *)

SystemRoutes ==
  <<Public("GET", <<"live">>, FALSE), Public("GET", <<"ready">>, FALSE),
    Public("GET", <<"system", "info">>, FALSE)>>

AuthRoutes ==
  <<Public("GET", <<"auth", "csrf">>, FALSE),
    Public("POST", <<"auth", "login">>, TRUE),
    Public("POST", <<"auth", "logout">>, TRUE),
    Session("GET", <<"auth", "me">>, FALSE)>>

MfaRoutes ==
  <<Session("GET", <<"auth", "mfa", "status">>, FALSE),
    Session("POST", <<"auth", "mfa", "totp", "enroll">>, TRUE),
    Session("GET", <<"auth", "mfa", "totp", "enrollments", Param, "qr">>, FALSE),
    Session("POST", <<"auth", "mfa", "totp", "confirm">>, TRUE),
    Session("POST", <<"auth", "mfa", "disable">>, TRUE),
    Session("POST", <<"auth", "mfa", "recovery-codes", "regenerate">>, TRUE),
    Session("POST", <<"auth", "step-up", "verify">>, TRUE)>>

StatusRoutes == <<Public("GET", <<"status">>, FALSE)>>

-----------------------------------------------------------------------------
(* organization_router.                                                    *)

OrganizationRoutes ==
  <<Read(<<"structure">>, "organization"),
    Checked("POST", <<"organizations">>, "organization", "create"),
    Read(<<"organizations">>, "organization"),
    Read(<<"organizations", Param>>, "organization"),
    Checked("PATCH", <<"organizations", Param>>, "organization", "update"),
    Checked("DELETE", <<"organizations", Param>>, "organization", "delete")>>

BranchRoutes ==
  <<Checked("POST", <<"organizations", Param, "branches">>, "branch", "create"),
    Read(<<"organizations", Param, "branches">>, "branch"),
    Read(<<"branches", Param>>, "branch"),
    Checked("PATCH", <<"branches", Param>>, "branch", "update"),
    Checked("DELETE", <<"branches", Param>>, "branch", "delete")>>

WarehouseRoutes ==
  <<Checked("POST", <<"branches", Param, "warehouses">>, "warehouse", "create"),
    Read(<<"branches", Param, "warehouses">>, "warehouse"),
    Read(<<"warehouses", Param>>, "warehouse"),
    Checked("PATCH", <<"warehouses", Param>>, "warehouse", "update"),
    Checked("DELETE", <<"warehouses", Param>>, "warehouse", "delete")>>

PermissionRoutes ==
  <<Read(<<"permissions", "endpoint-matrix">>, "permissions"),
    Read(<<"permissions">>, "permissions"),
    Read(<<"permissions", Param>>, "permissions")>>

RolePath == <<"roles", Param>>
RolePermissionsPath == <<"roles", Param, "permissions">>

RoleRoutes ==
  <<Read(<<"roles", "matrix">>, "roles"),
    Checked("POST", <<"roles">>, "roles", "create"),
    Read(<<"roles">>, "roles"),
    Read(RolePath, "roles"),
    Checked("PATCH", RolePath, "roles", "update"),
    Checked("DELETE", RolePath, "roles", "delete"),
    Read(RolePermissionsPath, "permissions"),
    Checked("PUT", RolePermissionsPath, "permissions", "assign")>>

-----------------------------------------------------------------------------
(* audit_router and users_router.                                          *)

(* Fault: the parameter is declared before the literal.                    *)
AuditRoutes_ExportLast ==
  <<Read(<<"audit-events">>, "audit"), Read(<<"audit-events", Param>>, "audit"),
    Guarded("GET", <<"audit-events", "export">>, "audit", "export")>>

AuditRoutes ==
  <<Guarded("GET", <<"audit-events", "export">>, "audit", "export"),
    Read(<<"audit-events">>, "audit"),
    Read(<<"audit-events", Param>>, "audit")>>

DisablePath == <<"users", Param, "disable">>
UserRolesPath == <<"users", Param, "roles">>

UserRoutes ==
  <<Read(<<"users">>, "users"),
    Checked("POST", <<"users">>, "users", "create"),
    Read(<<"users", Param>>, "users"),
    Checked("PATCH", <<"users", Param>>, "users", "update"),
    Checked("PATCH", DisablePath, "users", "disable"),
    Checked("PUT", UserRolesPath, "users", "assign")>>

-----------------------------------------------------------------------------
(* documents_router.                                                       *)

Managed(path) == Checked("POST", path, "document_catalog", "manage")

CatalogRoutes ==
  <<Read(<<"document-families">>, "document_catalog"),
    Managed(<<"document-families">>),
    Read(<<"document-retention-policies">>, "document_catalog"),
    Managed(<<"document-retention-policies">>)>>

TypeRoutes ==
  <<Read(<<"document-types">>, "document_catalog"),
    Managed(<<"document-types">>),
    Read(<<"document-types", Param>>, "document_catalog"),
    Checked("PATCH", <<"document-types", Param>>, "document_catalog", "manage"),
    Read(<<"document-types", Param, "versions">>, "document_catalog"),
    Managed(<<"document-types", Param, "versions">>),
    Read(<<"document-types", Param, "versions", Param>>, "document_catalog")>>

NumberingRoutes ==
  <<Read(<<"document-numbering", "standard">>, "document_catalog"),
    Checked("POST", <<"document-numbering", "preview">>, "document_catalog", "read")>>

SeriesRoutes ==
  <<Read(<<"document-series">>, "document_series"),
    Checked("POST", <<"document-series">>, "document_series", "create"),
    Read(<<"document-series", Param>>, "document_series")>>

NumberRoutes ==
  <<Checked("POST", <<"document-series", Param, "reservations">>,
            "document_series", "reserve"),
    Read(<<"document-series", "reservations", Param>>, "document_series"),
    Read(<<"document-series", Param, "numbers">>, "document_series"),
    Checked("POST", <<"document-series", "numbers", Param, "void">>,
            "document_series", "void"),
    Guarded("GET", <<"document-series", "reservations", Param, "booklet">>,
            "document_series", "download")>>

(* Rendering changes nothing and asks for no CSRF token.                   *)
Preview(path) ==
  Guarded("POST", <<"document-renderer">> \o path, "document_templates", "preview")

RendererRoutes ==
  <<Read(<<"document-renderer", "templates">>, "document_templates"),
    Read(<<"document-renderer", "templates", Param>>, "document_templates"),
    Preview(<<"preview">>),
    Preview(<<"sample">>),
    Preview(<<"purchasing", Param, "sample">>),
    Preview(<<"receiving", Param, "sample">>),
    Preview(<<"inventory", Param, "sample">>),
    Preview(<<"outbound", Param, "sample">>)>>

-----------------------------------------------------------------------------

Routes ==
  SystemRoutes \o AuthRoutes \o MfaRoutes \o StatusRoutes
    \o OrganizationRoutes \o BranchRoutes \o WarehouseRoutes
    \o PermissionRoutes \o RoleRoutes \o AuditRoutes \o UserRoutes
    \o CatalogRoutes \o TypeRoutes \o NumberingRoutes \o SeriesRoutes
    \o NumberRoutes \o RendererRoutes

(* What can be requested: in a path, Param stands for some id.             *)
Endpoint(row) == [method |-> row.method, path |-> row.path]
Endpoints == {Endpoint(Routes[i]) : i \in DOMAIN Routes}

Matches(route, call) ==
  /\ route.method = call.method
  /\ Len(route.path) = Len(call.path)
  /\ \A i \in DOMAIN call.path : route.path[i] \in {Param, call.path[i]}

(* The route of each request.                                              *)
Dispatch ==
  [call \in Endpoints |->
     Routes[CHOOSE i \in DOMAIN Routes :
              /\ Matches(Routes[i], call)
              /\ \A j \in 1..(i - 1) : ~Matches(Routes[j], call)]]
=============================================================================
