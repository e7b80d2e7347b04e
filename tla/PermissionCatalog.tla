------------------------- MODULE PermissionCatalog --------------------------
(***************************************************************************)
(* What access to the service is decided on, all of it data of the code:   *)
(* the permissions and role baselines of permissions_catalog.py, the       *)
(* endpoints the routers declare with their dependencies, and the matrix   *)
(* of endpoints that GET /permissions/endpoint-matrix publishes.           *)
(*                                                                         *)
(* A permission is its resource and its action, as in the columns of the   *)
(* table.  A path is the sequence of its segments, without the prefix      *)
(* /api/logistics, and every path parameter is Param.                      *)
(***************************************************************************)
EXTENDS Naturals, Sequences

On(resource, actions) == {resource} \X actions

-----------------------------------------------------------------------------
(* CANONICAL_PERMISSIONS_CATALOG.                                          *)

StructurePermissions ==
  {"organization", "branch", "warehouse"} \X {"read", "create", "update", "delete"}

AccessPermissions ==
  On("roles", {"read", "create", "update", "delete"})
    \cup On("permissions", {"read", "assign"})
    \cup On("users", {"read", "create", "update", "disable", "assign"})

GoodsPermissions ==
  On("purchasing", {"read", "create", "update", "approve"})
    \cup On("receiving", {"read", "create", "verify"})
    \cup On("quality", {"read", "inspect", "release"})
    \cup On("warehouse", {"putaway", "pick", "relocate"})
    \cup On("inventory", {"read", "count", "transfer", "adjust"})

DeliveryPermissions ==
  On("dispatch", {"read", "pack", "load", "emit"})
    \cup On("transport", {"plan", "manage", "assign"})
    \cup On("driver", {"read", "update", "confirm", "close"})

DocumentPermissions ==
  On("document_catalog", {"read", "manage"})
    \cup On("document_series", {"read", "create", "reserve", "void", "download"})
    \cup On("document_templates", {"read", "preview"})
    \cup On("documents", {"emit", "download", "reprint", "void"})

ControlPermissions == {"reports", "audit"} \X {"export"} \cup
  {<<"reports", "view">>, <<"audit", "read">>}

Permission ==
  StructurePermissions \cup AccessPermissions \cup GoodsPermissions
    \cup DeliveryPermissions \cup DocumentPermissions \cup ControlPermissions

(* risk_level; LOW and MEDIUM make no difference.                          *)
CriticalRisk == {"permissions", "users"} \X {"assign"}

HighRisk ==
  {"organization", "branch", "warehouse", "roles"} \X {"delete"}
    \cup On("users", {"create", "update", "disable"})
    \cup On("document_series", {"create", "reserve", "void"})
    \cup {<<"purchasing", "approve">>, <<"quality", "release">>,
          <<"inventory", "adjust">>, <<"document_catalog", "manage">>,
          <<"documents", "void">>}

(* get_policy_for_permission finds a policy.                               *)
NeedsStepUp(p) == p \in CriticalRisk \cup HighRisk

(* dangerous_actions.                                                      *)
DangerousAction ==
  {"create", "update", "delete", "adjust", "release", "assign", "void"}
Dangerous == {p \in Permission : p[2] \in DangerousAction}

-----------------------------------------------------------------------------
(* CANONICAL_ROLE_BASELINES.                                               *)

StructureRead == {"organization", "branch", "warehouse"} \X {"read"}
ReportsView == On("reports", {"view"})

PurchasingBaseline ==
  StructureRead \cup ReportsView
    \cup On("purchasing", {"read", "create", "update", "approve"})
ReceivingBaseline ==
  StructureRead \cup ReportsView \cup On("receiving", {"read", "create", "verify"})
QualityBaseline ==
  StructureRead \cup ReportsView \cup On("receiving", {"read"})
    \cup On("quality", {"read", "inspect", "release"})
WarehouseBaseline ==
  StructureRead \cup On("warehouse", {"putaway", "pick", "relocate"})
    \cup On("inventory", {"read"})
    \cup On("document_series", {"read", "reserve", "download"})
    \cup On("document_templates", {"read", "preview"})
InventoryBaseline ==
  StructureRead \cup ReportsView
    \cup On("inventory", {"read", "count", "transfer", "adjust"})
DispatchBaseline ==
  StructureRead \cup On("dispatch", {"read", "pack", "load", "emit"})
    \cup On("documents", {"emit", "download", "reprint"})
TransportBaseline ==
  StructureRead \cup ReportsView \cup On("transport", {"plan", "manage", "assign"})
DriverBaseline ==
  On("driver", {"read", "update", "confirm", "close"})
    \cup On("documents", {"download"})

AuditorBaseline ==
  StructureRead
    \cup {"roles", "permissions", "purchasing", "receiving", "quality", "inventory",
          "dispatch", "driver", "document_catalog"} \X {"read"}
    \cup On("documents", {"download"})
    \cup {"reports"} \X {"view", "export"} \cup {"audit"} \X {"read", "export"}
    \cup On("document_series", {"read", "download"})
    \cup On("document_templates", {"read", "preview"})

ManagementBaseline ==
  StructurePermissions \cup AccessPermissions
    \cup On("purchasing", {"read", "create", "update", "approve"})
    \cup {"receiving", "quality", "inventory", "dispatch", "driver"} \X {"read"}
    \cup On("transport", {"plan"}) \cup On("document_catalog", {"read", "manage"})
    \cup On("documents", {"download"})
    \cup {"reports"} \X {"view", "export"} \cup {"audit"} \X {"read", "export"}
    \cup On("document_series", {"read", "create", "reserve", "void", "download"})
    \cup On("document_templates", {"read", "preview"})

Baseline ==
  [PURCHASING |-> PurchasingBaseline, RECEIVING |-> ReceivingBaseline,
   QUALITY |-> QualityBaseline, WAREHOUSE |-> WarehouseBaseline,
   INVENTORY |-> InventoryBaseline, DISPATCH |-> DispatchBaseline,
   TRANSPORT |-> TransportBaseline, DRIVER |-> DriverBaseline,
   AUDITOR |-> AuditorBaseline, MANAGEMENT |-> ManagementBaseline]

CanonicalCode == DOMAIN Baseline

(* The order in which the loader and the seed go through the roles.        *)
CanonicalOrder ==
  <<"PURCHASING", "RECEIVING", "QUALITY", "WAREHOUSE", "INVENTORY", "DISPATCH",
    "TRANSPORT", "DRIVER", "AUDITOR", "MANAGEMENT">>

-----------------------------------------------------------------------------
(* ENDPOINT_PERMISSION_MATRIX.                                             *)

Param == "{}"

Row(method, path, resource, action) ==
  [method |-> method, path |-> path, permission |-> <<resource, action>>]
ReadRow(path, resource) == Row("GET", path, resource, "read")

CollectionRows(path, r) == {ReadRow(path, r), Row("POST", path, r, "create")}
ItemRows(path, r) ==
  {ReadRow(path, r), Row("PATCH", path, r, "update"), Row("DELETE", path, r, "delete")}

StructureMatrix ==
  {ReadRow(<<"structure">>, "organization")}
    \cup CollectionRows(<<"organizations">>, "organization")
    \cup ItemRows(<<"organizations", Param>>, "organization")
    \cup CollectionRows(<<"organizations", Param, "branches">>, "branch")
    \cup ItemRows(<<"branches", Param>>, "branch")
    \cup CollectionRows(<<"branches", Param, "warehouses">>, "warehouse")
    \cup ItemRows(<<"warehouses", Param>>, "warehouse")

AccessMatrix ==
  CollectionRows(<<"roles">>, "roles") \cup ItemRows(<<"roles", Param>>, "roles")
    \cup {ReadRow(<<"roles", "matrix">>, "roles"),
          ReadRow(<<"permissions">>, "permissions"),
          ReadRow(<<"permissions", "endpoint-matrix">>, "permissions"),
          ReadRow(<<"permissions", Param>>, "permissions"),
          ReadRow(<<"roles", Param, "permissions">>, "permissions"),
          Row("PUT", <<"roles", Param, "permissions">>, "permissions", "assign"),
          ReadRow(<<"audit-events">>, "audit"),
          Row("GET", <<"audit-events", "export">>, "audit", "export"),
          ReadRow(<<"audit-events", Param>>, "audit")}
    \cup CollectionRows(<<"users">>, "users")
    \cup {ReadRow(<<"users", Param>>, "users"),
          Row("PATCH", <<"users", Param>>, "users", "update"),
          Row("PATCH", <<"users", Param, "disable">>, "users", "disable"),
          Row("PUT", <<"users", Param, "roles">>, "users", "assign")}

ManagedRows(path) ==
  {ReadRow(path, "document_catalog"), Row("POST", path, "document_catalog", "manage")}

CatalogMatrix ==
  ManagedRows(<<"document-families">>)
    \cup ManagedRows(<<"document-retention-policies">>)
    \cup ManagedRows(<<"document-types">>)
    \cup ManagedRows(<<"document-types", Param, "versions">>)
    \cup {ReadRow(<<"document-types", Param>>, "document_catalog"),
          Row("PATCH", <<"document-types", Param>>, "document_catalog", "manage"),
          ReadRow(<<"document-types", Param, "versions", Param>>, "document_catalog"),
          ReadRow(<<"document-numbering", "standard">>, "document_catalog"),
          Row("POST", <<"document-numbering", "preview">>, "document_catalog", "read")}

SeriesRow(method, path, action) ==
  Row(method, <<"document-series">> \o path, "document_series", action)
SeriesMatrix ==
  {SeriesRow("GET", <<>>, "read"),
   SeriesRow("POST", <<>>, "create"),
   SeriesRow("GET", <<Param>>, "read"),
   SeriesRow("POST", <<Param, "reservations">>, "reserve"),
   SeriesRow("GET", <<"reservations", Param>>, "read"),
   SeriesRow("GET", <<Param, "numbers">>, "read"),
   SeriesRow("POST", <<"numbers", Param, "void">>, "void"),
   SeriesRow("GET", <<"reservations", Param, "booklet">>, "download")}

RendererRow(method, path, action) ==
  Row(method, <<"document-renderer">> \o path, "document_templates", action)
RendererMatrix ==
  {RendererRow("GET", <<"templates">>, "read"),
   RendererRow("GET", <<"templates", Param>>, "read"),
   RendererRow("POST", <<"preview">>, "preview"),
   RendererRow("POST", <<"sample">>, "preview")}
    \cup {RendererRow("POST", <<stage, Param, "sample">>, "preview") :
             stage \in {"purchasing", "receiving", "inventory", "outbound"}}

PublishedMatrix ==
  StructureMatrix \cup AccessMatrix \cup CatalogMatrix \cup SeriesMatrix
    \cup RendererMatrix

=============================================================================
