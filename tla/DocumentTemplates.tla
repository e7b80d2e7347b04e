------------------------- MODULE DocumentTemplates --------------------------
(***************************************************************************)
(* What documents are printed from, all of it data of the code: the types  *)
(* of canonical_catalog.py with the template each of them names, and the   *)
(* registry of templates with its two tables of aliases.                   *)
(*                                                                         *)
(* Of a type the model keeps its family, its scope, its retention policy,  *)
(* the key of its template and its lifecycle.                              *)
(***************************************************************************)

(* The rows of two tables: @@ of the module TLC, in a form for the provers. *)
f \sqcup g ==
  [x \in DOMAIN f \cup DOMAIN g |-> IF x \in DOMAIN f THEN f[x] ELSE g[x]]

Families ==
  {"PURCHASING", "RECEIVING", "INVENTORY", "OUTBOUND", "TRANSPORT", "DELIVERY",
   "QUALITY", "RETURN", "SYSTEM"}

RetentionPolicies ==
  {"OPERATIONAL_STANDARD", "AUDIT_RELEVANT", "LEGAL_LONG_TERM", "PERMANENT",
   "UNDEFINED_PENDING_POLICY"}

NoTemplate == "none"

Internal(family, retention, template, statuses) ==
  [family |-> family, scope |-> "INTERNAL", retention |-> retention,
   template |-> template, statuses |-> statuses]

(* External documents keep the number and the form they come with.         *)
External(family, retention, statuses) ==
  [Internal(family, retention, NoTemplate, statuses) EXCEPT !.scope = "EXTERNAL"]

Operational(family, template, statuses) ==
  Internal(family, "OPERATIONAL_STANDARD", template, statuses)
Audited(family, template, statuses) == Internal(family, "AUDIT_RELEVANT", template, statuses)
Legal(family, template, statuses) == Internal(family, "LEGAL_LONG_TERM", template, statuses)

-----------------------------------------------------------------------------
(* CANONICAL_DOCUMENT_TYPES.                                               *)

PurchaseTypes ==
  [REQ |-> Audited("PURCHASING", "requisition_v1",
     {"DRAFT", "PENDING", "APPROVED", "REJECTED", "COMPLETED", "VOID"}),
   RFQ |-> Operational("PURCHASING", "rfq_v1", {"DRAFT", "ISSUED", "CLOSED", "VOID"}),
   CMP |-> Audited("PURCHASING", "comparative_table_v1",
     {"DRAFT", "PENDING", "APPROVED", "VOID"}),
   PO |-> Legal("PURCHASING", "purchase_order_v1",
     {"DRAFT", "PENDING", "APPROVED", "ISSUED", "COMPLETED", "VOID"})]

ApprovalTypes ==
  [POA |-> Audited("PURCHASING", "purchase_approval_v1", {"PENDING", "APPROVED", "REJECTED"}),
   PSC |-> External("PURCHASING", "OPERATIONAL_STANDARD", {"REGISTERED", "PROCESSED", "VOID"})]

ArrivalTypes ==
  [ARR |-> Operational("RECEIVING", "arrival_appointment_v1",
     {"SCHEDULED", "CHECKED_IN", "UNLOADED", "CANCELLED"}),
   CPV |-> Operational("RECEIVING", "gate_control_v1", {"INSIDE", "EXITED", "CANCELLED"})]

ReceiptTypes ==
  [REC |-> Audited("RECEIVING", "receiving_report_v1", {"DRAFT", "COMPLETED", "VOID"}),
   GRN |-> Legal("RECEIVING", "goods_receipt_v1", {"DRAFT", "ISSUED", "CANCELLED"}),
   RDIFF |-> Audited("RECEIVING", "receiving_diff_v1", {"OPEN", "RESOLVED", "VOID"}),
   NC |-> Audited("RECEIVING", "non_conformity_v1",
     {"ISSUED", "ACCEPTED_BY_SUPPLIER", "CLOSED"}),
   GTR_EXT |-> External("RECEIVING", "LEGAL_LONG_TERM",
     {"REGISTERED", "LINKED_TO_GRN", "ARCHIVED"})]

StockTypes ==
  [LBL |-> Operational("INVENTORY", "location_label_v1", {"ACTIVE", "OBSOLETE"}),
   MOV |-> Operational("INVENTORY", "inventory_movement_v1", {"EXECUTED", "CANCELLED"}),
   INV_ADJ |-> Legal("INVENTORY", "inventory_adjustment_v1",
     {"DRAFT", "PENDING_APPROVAL", "APPROVED", "REJECTED"})]

CountTypes ==
  [CNT |-> Audited("INVENTORY", "stock_count_v1", {"IN_PROGRESS", "FINALIZED", "CANCELLED"}),
   CDIFF |-> Audited("INVENTORY", "count_difference_v1", {"DRAFT", "RECONCILED", "APPROVED"}),
   TRF |-> Audited("INVENTORY", "transfer_request_v1",
     {"DRAFT", "REQUESTED", "IN_TRANSIT", "COMPLETED", "CANCELLED"}),
   TRF_REC |-> Audited("INVENTORY", "transfer_receipt_v1",
     {"RECEIVED", "DISCREPANCY_FOUND", "CLOSED"})]

PreparationTypes ==
  [OUT_REQ |-> Operational("OUTBOUND", "outbound_request_v1",
     {"DRAFT", "PENDING_PICKING", "IN_PREPARATION", "READY", "CANCELLED"}),
   ODS |-> Audited("OUTBOUND", "outbound_order_v1",
     {"CREATED", "IN_PROCESS", "DISPATCHED", "VOID"}),
   PACK |-> Audited("OUTBOUND", "packing_list_v1", {"DRAFT", "SEALED", "VOID"})]

PickingTypes ==
  [code \in {"PICK"} |->
     Operational("OUTBOUND", "picking_list_v1",
       {"PENDING", "PICKING", "COMPLETED", "SHORT_PICKED"})]

DispatchTypes ==
  [MNF |-> Legal("OUTBOUND", "manifest_v1", {"GENERATED", "LOADED", "IN_TRANSIT", "CLOSED"}),
   DSP |-> Legal("OUTBOUND", "dispatch_report_v1", {"EMITTED", "CANCELLED"}),
   SEAL |-> Audited("OUTBOUND", "seal_control_v1",
     {"PLACED", "VERIFIED", "BROKEN_ON_ARRIVAL"})]

TransportTypes ==
  [TRIP |-> Audited("TRANSPORT", "trip_sheet_v1",
     {"PLANNED", "ACTIVE", "COMPLETED", "CANCELLED"}),
   ROUTE |-> Operational("TRANSPORT", "route_sheet_v1",
     {"SCHEDULED", "IN_EXECUTION", "COMPLETED"}),
   VEH |-> Audited("TRANSPORT", "vehicle_inspection_v1", {"APPROVED", "REJECTED"})]

DeliveryTypes ==
  [STOP |-> Operational("DELIVERY", "stop_record_v1", {"PENDING", "ARRIVED", "FINISHED"}),
   INC |-> Audited("DELIVERY", "incident_report_v1", {"REPORTED", "INVESTIGATING", "RESOLVED"}),
   POD |-> Legal("DELIVERY", "proof_of_delivery_v1", {"CONFORM", "OBSERVED", "REJECTED"}),
   REJ |-> Legal("DELIVERY", "delivery_rejection_v1", {"REJECTED", "RETURNED_TO_WAREHOUSE"}),
   PDEL |-> Legal("DELIVERY", "partial_delivery_v1", {"PARTIAL_CONFORM", "SETTLED"})]

CatalogueTypes ==
  PurchaseTypes \sqcup ApprovalTypes \sqcup ArrivalTypes \sqcup ReceiptTypes
    \sqcup StockTypes \sqcup CountTypes \sqcup PreparationTypes \sqcup PickingTypes
    \sqcup DispatchTypes \sqcup TransportTypes \sqcup DeliveryTypes

(* The loader finds the family and the policy of every type, and only what *)
(* comes from outside has no template of its own.                          *)
ASSUME CatalogueAssumption ==
  \A code \in DOMAIN CatalogueTypes :
    /\ CatalogueTypes[code].family \in Families
    /\ CatalogueTypes[code].retention \in RetentionPolicies
    /\ CatalogueTypes[code].scope = "EXTERNAL" <=> CatalogueTypes[code].template = NoTemplate

-----------------------------------------------------------------------------
(* TemplateRegistry: the statuses each manifest supports.                  *)

BaseManifests == [base_document_v1 |-> {"DRAFT", "APPROVED", "ISSUED", "VOID"}]

PurchasingManifests ==
  [purchase_requisition_v1 |->
     {"DRAFT", "PENDING", "APPROVED", "REJECTED", "COMPLETED", "VOID"},
   request_for_quotation_v1 |-> {"DRAFT", "ISSUED", "CLOSED", "VOID"},
   comparative_table_v1 |-> {"DRAFT", "PENDING", "APPROVED", "VOID"},
   purchase_order_v1 |-> {"DRAFT", "PENDING", "APPROVED", "ISSUED", "COMPLETED", "VOID"},
   purchase_approval_v1 |-> {"PENDING", "APPROVED", "REJECTED"},
   supplier_send_confirmation_v1 |-> {"REGISTERED", "PROCESSED", "VOID"}]

ReceivingManifests ==
  [arrival_appointment_v1 |-> {"SCHEDULED", "CHECKED_IN", "UNLOADED", "CANCELLED"},
   gate_control_v1 |-> {"INSIDE", "EXITED", "CANCELLED"},
   receiving_report_v1 |-> {"DRAFT", "COMPLETED", "VOID"},
   goods_receipt_v1 |-> {"DRAFT", "ISSUED", "CANCELLED"},
   receiving_difference_v1 |-> {"OPEN", "RESOLVED", "VOID"},
   non_conformity_v1 |-> {"ISSUED", "ACCEPTED_BY_SUPPLIER", "CLOSED"}]

InventoryManifests ==
  [location_label_v1 |-> {"ACTIVE", "OBSOLETE"},
   inventory_movement_v1 |-> {"EXECUTED", "CANCELLED"},
   inventory_adjustment_v1 |-> {"DRAFT", "PENDING_APPROVAL", "APPROVED", "REJECTED"},
   physical_count_v1 |-> {"IN_PROGRESS", "FINALIZED", "CANCELLED"},
   count_difference_v1 |-> {"DRAFT", "RECONCILED", "APPROVED"},
   warehouse_transfer_v1 |-> {"DRAFT", "REQUESTED", "IN_TRANSIT", "COMPLETED", "CANCELLED"},
   transfer_receipt_v1 |-> {"RECEIVED", "DISCREPANCY_FOUND", "CLOSED"}]

OutboundManifests ==
  [outbound_request_v1 |->
     {"DRAFT", "PENDING_PICKING", "IN_PREPARATION", "READY", "CANCELLED"},
   outbound_order_v1 |-> {"CREATED", "IN_PROCESS", "DISPATCHED", "VOID"},
   picking_list_v1 |-> {"PENDING", "PICKING", "COMPLETED", "SHORT_PICKED"},
   packing_list_v1 |-> {"DRAFT", "SEALED", "VOID"},
   manifest_v1 |-> {"GENERATED", "LOADED", "IN_TRANSIT", "CLOSED"},
   dispatch_report_v1 |-> {"EMITTED", "CANCELLED"},
   seal_control_v1 |-> {"DRAFT", "ISSUED", "VERIFIED", "VOID"}]

Supported ==
  BaseManifests \sqcup PurchasingManifests \sqcup ReceivingManifests \sqcup InventoryManifests
    \sqcup OutboundManifests

(* get_manifest knows the aliases by one table, resolve_template_path the  *)
(* files, named for their templates, by another.                           *)
Alias ==
  [requisition_v1 |-> "purchase_requisition_v1", rfq_v1 |-> "request_for_quotation_v1",
   purchase_order_v9 |-> "purchase_order_v1", psc_v1 |-> "supplier_send_confirmation_v1",
   receiving_diff_v1 |-> "receiving_difference_v1", stock_count_v1 |-> "physical_count_v1",
   transfer_request_v1 |-> "warehouse_transfer_v1", picking_sheet_v1 |-> "picking_list_v1",
   cargo_manifest_v1 |-> "manifest_v1", dispatch_guide_v1 |-> "dispatch_report_v1"]

AliasFile ==
  [requisition_v1 |-> "purchase_requisition_v1", rfq_v1 |-> "request_for_quotation_v1",
   purchase_order_v9 |-> "purchase_order_v1", psc_v1 |-> "supplier_send_confirmation_v1",
   receiving_diff_v1 |-> "receiving_difference_v1", stock_count_v1 |-> "physical_count_v1",
   transfer_request_v1 |-> "warehouse_transfer_v1", picking_sheet_v1 |-> "picking_list_v1",
   cargo_manifest_v1 |-> "manifest_v1", dispatch_guide_v1 |-> "dispatch_report_v1"]

Resolved(key) == IF key \in DOMAIN Alias THEN Alias[key] ELSE key

TemplateFile == [key \in DOMAIN Supported |-> key] \sqcup AliasFile
=============================================================================
