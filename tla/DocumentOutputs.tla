-------------------------- MODULE DocumentOutputs ---------------------------
(***************************************************************************)
(* What the service prints or names without storing it: the preview of a   *)
(* number, the preview of a document from a context of the client, and the *)
(* samples of every document.  One call is one step and changes nothing    *)
(* but the answer, which is kept until the next.                           *)
(*                                                                         *)
(* A display code is the sequence of its parts between hyphens, a part of  *)
(* digits being its width and its value: codes of types and branches may   *)
(* have hyphens of their own.  Of a context the model keeps what decides on the *)
(* answer; its texts are one value, and a hash is what is hashed.          *)
(***************************************************************************)
EXTENDS Naturals, Sequences, DocumentTemplates

CONSTANTS
  Types,         \* rows of document_types: code, scope, active
  Branches,      \* rows of branches: code, organization
  Organization,  \* primary keys of organizations
  Year,          \* years of period a preview may ask for, with Absent and 0
  Now,           \* the current year
  Correlative,   \* correlatives a preview may ask for
  Contexts,      \* contexts the client sends, of any texts and time
  Absent         \* a value that is not given, or an id that names nothing

VARIABLE answer

-----------------------------------------------------------------------------
(* numbering_standard.py                                                   *)

Text(word) == <<"text", word>>
Digits(width, n) == <<"digits", width, n>>

(* upper() of the words in lower case that codes and statuses are made of. *)
Upper(word) ==
  IF word = "draft" THEN "DRAFT" ELSE IF word = "void" THEN "VOID"
  ELSE IF word = "lim" THEN "LIM" ELSE word

Capitals(code) ==
  [i \in DOMAIN code |-> IF code[i][1] = "text" THEN Text(Upper(code[i][2])) ELSE code[i]]

DisplayCode(type, branch, year, correlative) ==
  Capitals(type) \o Capitals(branch) \o <<Digits(4, year), Digits(6, correlative)>>

(* 0 is no year either.                                                    *)
PeriodYear(year) == IF year \in {Absent, 0} THEN Now ELSE year

(* Codes are sequences; the catalogue holds those of types in capitals,    *)
(* each once.  A context has the fields that the templates read.           *)
Parts(code) == {code[i] : i \in DOMAIN code}

ASSUME OutputAssumption ==
  /\ \A row \in Types \cup Branches : row.code \in Seq(Parts(row.code))
  /\ \A t \in Types : Capitals(t.code) = t.code
  /\ \A t, u \in Types : t.code = u.code => t = u
  /\ \A c \in Contexts :
       c = [texts |-> c.texts, template |-> c.template, display |-> c.display,
            status |-> c.status, watermark |-> c.watermark, columns |-> c.columns,
            complete |-> c.complete]
  /\ Absent \notin Types /\ Absent \notin Branches
  /\ Absent \notin {"BORRADOR", "ANULADO", "VISTA PREVIA"}

Refusal(code) == [kind |-> "refusal", code |-> code]

Numbered(type, branch, year, correlative) ==
  [kind |-> "number", type |-> type, branch |-> branch, year |-> year,
   correlative |-> correlative,
   display |-> DisplayCode(type.code, branch.code, year, correlative)]

(* preview_numbering, for a principal of an organization or of none.       *)
PreviewNumber(organization, type, branch, asked, correlative) ==
  LET year == PeriodYear(asked)
  IN  answer' =
        IF type = Absent THEN Refusal("DOCUMENT_TYPE_NOT_FOUND")
        ELSE IF ~type.active THEN Refusal("DOCUMENT_TYPE_INACTIVE")
        ELSE IF type.scope # "INTERNAL"
          THEN Refusal("EXTERNAL_OFFICIAL_NUMBER_MUST_BE_PRESERVED")
        ELSE IF branch = Absent THEN Refusal("BRANCH_NOT_FOUND")
        ELSE IF organization \notin {Absent, branch.organization}
          THEN Refusal("BRANCH_ORGANIZATION_MISMATCH")
        ELSE IF year \notin 2000..2100 THEN Refusal("INVALID_DOCUMENT_PERIOD_YEAR")
        ELSE Numbered(type, branch, year, correlative)

-----------------------------------------------------------------------------
(* process_and_render                                                      *)

(* Fault: the context is hashed with the template it names itself.         *)
Snapshot_AsSent(context, key) == context

(* What is hashed names the template of the manifest.                      *)
Snapshot(context, key) == [context EXCEPT !.template = Resolved(key)]

Watermark(context) ==
  IF context.watermark # Absent THEN context.watermark
  ELSE IF Upper(context.status) = "DRAFT" THEN "BORRADOR"
  ELSE IF Upper(context.status) = "VOID" THEN "ANULADO" ELSE Absent

Printed(context, key) ==
  [kind |-> "document", hash |-> Snapshot(context, key), file |-> TemplateFile[key],
   shown |-> [context EXCEPT !.template = Resolved(key), !.watermark = Watermark(context)]]

(* A template is rendered strictly: a field the context lacks is an error. *)
Render(context, key) ==
  IF Resolved(key) \notin DOMAIN Supported \/ key \notin DOMAIN TemplateFile
    THEN Refusal("TEMPLATE_NOT_FOUND")
  ELSE IF ~context.complete THEN Refusal("TEMPLATE_RENDER_ERROR")
  ELSE Printed(context, key)

(* The template is that of the payload or else that of the context.        *)
PreviewDocument(context, key) ==
  answer' = Render(context, IF key = Absent THEN context.template ELSE key)

-----------------------------------------------------------------------------
(* The samples: the codes each is asked for by, its type, the beginning of *)
(* its display code, its template and its status.                          *)

Sample(names, type, prefix, template, status) ==
  [names |-> names, type |-> type, prefix |-> prefix, template |-> template,
   status |-> status, urgent |-> status, marks |-> "preview", columns |-> {},
   place |-> <<>>]

RequisitionSample ==
  [Sample({"REQ"}, "REQ", "REQ", "purchase_requisition_v1", "DRAFT")
     EXCEPT !.marks = "status"]
QuotationSample ==
  [Sample({"RFQ"}, "RFQ", "RFQ", "request_for_quotation_v1", "ISSUED")
     EXCEPT !.marks = "void"]
ComparisonSample == Sample({"CMP"}, "CMP", "CMP", "comparative_table_v1", "APPROVED")
OrderSample ==
  [Sample({"PO"}, "PO", "PO", "purchase_order_v1", "ISSUED") EXCEPT !.marks = "status"]
ApprovalSample == Sample({"POA"}, "POA", "POA", "purchase_approval_v1", "APPROVED")
ConfirmationSample ==
  Sample({"PSC"}, "PSC", "PSC", "supplier_send_confirmation_v1", "PROCESSED")

ArrivalSample == Sample({"ARR"}, "ARR", "ARR", "arrival_appointment_v1", "SCHEDULED")
GateSample == Sample({"CPV"}, "CPV", "CPV", "gate_control_v1", "INSIDE")
ReportSample == Sample({"REC"}, "REC", "REC", "receiving_report_v1", "COMPLETED")
ReceiptSample == Sample({"GRN"}, "GRN", "GRN", "goods_receipt_v1", "ISSUED")
DifferenceSample ==
  Sample({"RDIFF"}, "RDIFF", "RDIFF", "receiving_difference_v1", "OPEN")
NonConformitySample == Sample({"NC"}, "NC", "NC", "non_conformity_v1", "ISSUED")

(* Its code is the location it is stuck on.                                *)
LabelSample ==
  [Sample({"LBL", "LOCATION_LABEL"}, "LBL", "", "location_label_v1", "ACTIVE")
     EXCEPT !.place = <<Text("ALM01"), Text("Z"), Text("A"), Text("P01"), Text("R02"),
                        Text("N03")>>]
MovementSample ==
  Sample({"MOV", "INVENTORY_MOVEMENT"}, "MOV", "MOV", "inventory_movement_v1", "EXECUTED")
AdjustmentSample ==
  Sample({"INV_ADJ", "ADJ", "INVENTORY_ADJUSTMENT"}, "INV_ADJ", "ADJ",
         "inventory_adjustment_v1", "APPROVED")
CountSample ==
  [Sample({"CNT", "STOCK_COUNT", "PHYSICAL_COUNT"}, "CNT", "CNT", "physical_count_v1",
          "IN_PROGRESS")
     EXCEPT !.columns = {"system_qty", "counted_qty"}]
CountDifferenceSample ==
  Sample({"CDIFF", "COUNT_DIFFERENCE"}, "CDIFF", "CDIFF", "count_difference_v1", "DRAFT")
TransferSample ==
  Sample({"TRF", "TRANSFER_REQUEST", "WAREHOUSE_TRANSFER"}, "TRF", "TRF",
         "warehouse_transfer_v1", "IN_TRANSIT")
TransferReceiptSample ==
  Sample({"TRF_REC", "TREC", "TRANSFER_RECEIPT"}, "TRF_REC", "TREC",
         "transfer_receipt_v1", "RECEIVED")

OutboundRequestSample ==
  [Sample({"OUT_REQ", "PED", "OUTBOUND_REQUEST"}, "OUT_REQ", "PED",
          "outbound_request_v1", "READY")
     EXCEPT !.urgent = "PENDING_PICKING"]
OutboundOrderSample ==
  Sample({"ODS", "OUT_ORD", "OUTBOUND_ORDER"}, "ODS", "ODS", "outbound_order_v1", "CREATED")
PickingSample ==
  Sample({"PICK", "PICKING_LIST", "PICKING_SHEET"}, "PICK", "PICK", "picking_list_v1",
         "PICKING")
PackingSample == Sample({"PACK", "PACKING_LIST"}, "PACK", "PACK", "packing_list_v1", "SEALED")
ManifestSample ==
  Sample({"MNF", "MAN", "CARGO_MANIFEST", "MANIFEST"}, "MNF", "MNF", "manifest_v1", "LOADED")
DispatchSample ==
  Sample({"DSP", "ADSP", "DISPATCH_GUIDE", "DISPATCH_REPORT"}, "DSP", "DSP",
         "dispatch_report_v1", "EMITTED")
SealSample ==
  Sample({"SEAL", "CPREC", "SEAL_CONTROL"}, "SEAL", "SEAL", "seal_control_v1", "ISSUED")

SamplesOf ==
  [purchasing |->
     {RequisitionSample, QuotationSample, ComparisonSample, OrderSample, ApprovalSample,
      ConfirmationSample},
   receiving |->
     {ArrivalSample, GateSample, ReportSample, ReceiptSample, DifferenceSample,
      NonConformitySample},
   inventory |->
     {LabelSample, MovementSample, AdjustmentSample, CountSample, CountDifferenceSample,
      TransferSample, TransferReceiptSample},
   outbound |->
     {OutboundRequestSample, OutboundOrderSample, PickingSample, PackingSample,
      ManifestSample, DispatchSample, SealSample}]

(* The branch at the head of a sample: any of the organization, or LIM.    *)
Heads(organization) ==
  LET own == {b.code : b \in {c \in Branches : c.organization = organization}}
  IN  IF own = {} THEN {<<Text("LIM")>>} ELSE own

(* Fault: the code of a sample ends like that of a number.                 *)
SampleCode_SixDigits(sample, branch) ==
  IF sample.place # <<>> THEN sample.place
  ELSE <<Text(sample.prefix)>> \o branch \o <<Digits(4, 2026), Digits(6, 1)>>

SampleCode(sample, branch) ==
  IF sample.place # <<>> THEN sample.place
  ELSE <<Text("PREVIEW"), Text(sample.prefix)>> \o branch \o <<Digits(4, 2026), Digits(4, 1)>>

(* Only outbound takes the status as it was asked for.                     *)
SampleStatus(family, sample, scenario, asked) ==
  IF asked # Absent THEN IF family = "outbound" THEN asked ELSE Upper(asked)
  ELSE IF scenario = "high_priority" THEN sample.urgent ELSE sample.status

SampleMark(sample, status) ==
  IF sample.marks # "preview" /\ status = "VOID" THEN "ANULADO"
  ELSE IF sample.marks = "status" /\ status = "DRAFT" THEN "BORRADOR"
  ELSE "VISTA PREVIA"

(* A blind count does not show what the system believes.                   *)
SampleColumns(sample, scenario) ==
  IF scenario = "blind" THEN sample.columns \ {"system_qty"} ELSE sample.columns

SampleContext(family, sample, scenario, asked, branch) ==
  LET status == SampleStatus(family, sample, scenario, asked)
  IN  [texts |-> <<sample.type, scenario>>, template |-> sample.template,
       display |-> SampleCode(sample, branch), status |-> status,
       watermark |-> SampleMark(sample, status),
       columns |-> SampleColumns(sample, scenario), complete |-> TRUE]

Sampled(type, asked, output) == [type |-> type, asked |-> asked] \sqcup output

RenderFamilySample(family, name, scenario, asked, organization) ==
  LET found == {s \in SamplesOf[family] : name \in s.names}
  IN  IF found = {} THEN answer' = Refusal("HTTP_400_BAD_REQUEST")
      ELSE \E s \in found, branch \in Heads(organization) :
             answer' = Sampled(s.type, asked,
                         Render(SampleContext(family, s, scenario, asked, branch),
                                s.template))

(* render_sample_document: an order on the base template.                  *)
RenderSample(asked, organization) ==
  \E branch \in Heads(organization) :
    answer' = Render([texts |-> <<"PO", "sample">>, template |-> "base_document_v1",
                      display |-> <<Text("PO")>> \o branch \o <<Digits(4, 2026), Digits(6, 1)>>,
                      status |-> Upper(asked), watermark |-> Absent, columns |-> {},
                      complete |-> TRUE], "base_document_v1")

-----------------------------------------------------------------------------

OutputInit == answer = Refusal("none")

NamesOf(family) == UNION {s.names : s \in SamplesOf[family]} \cup {"OTHER"}
Keys == DOMAIN TemplateFile \cup {"other_v1", Absent}

(* The others only change texts.                                           *)
ScenariosOf ==
  [purchasing |-> {"basic"}, receiving |-> {"basic"}, inventory |-> {"basic", "blind"},
   outbound |-> {"basic", "high_priority"}]
Asked == {"draft", "VOID"}

OutputNext ==
  \/ \E organization \in Organization \cup {Absent}, type \in Types \cup {Absent},
        branch \in Branches \cup {Absent}, year \in Year, n \in Correlative :
       PreviewNumber(organization, type, branch, year, n)
  \/ \E context \in Contexts, key \in Keys : PreviewDocument(context, key)
  \/ \E family \in DOMAIN SamplesOf :
      \E name \in NamesOf(family), scenario \in ScenariosOf[family],
        asked \in Asked \cup {Absent}, organization \in Organization \cup {Absent} :
       RenderFamilySample(family, name, scenario, asked, organization)
  \/ \E asked \in Asked, organization \in Organization \cup {Absent} :
       RenderSample(asked, organization)

OutputSpec == OutputInit /\ [][OutputNext]_answer

-----------------------------------------------------------------------------
(* Properties.                                                             *)

IsSample(output) == output.kind = "document" /\ "asked" \in DOMAIN output

(* What is printed is what it says.  A draft or void document is marked,   *)
(* however its status was written.  A sample has, unless another status is *)
(* asked for, one that its template and the catalogued type provide for    *)
(* (the catalogue alone has seals that are placed and broken), and is      *)
(* printed on the template the catalogue names by whatever alias.  It is   *)
(* never taken for a number (only that of the base template is called like *)
(* an order), and a blind count hides what is in stock.                    *)
SamplesAreHonest ==
  /\ answer.kind = "document" /\ Upper(answer.shown.status) \in {"DRAFT", "VOID"} =>
       answer.shown.watermark # Absent
  /\ IsSample(answer) =>
       LET type == CatalogueTypes[answer.type]
       IN  /\ type.template # NoTemplate => answer.file = Resolved(type.template)
           /\ answer.asked = Absent =>
                /\ answer.shown.status \in Supported[answer.shown.template]
                /\ answer.type # "SEAL" => answer.shown.status \in type.statuses
           /\ \A t \in Types, b \in Branches, y \in 2000..2100, n \in Correlative :
                answer.shown.display # DisplayCode(t.code, b.code, y, n)
           /\ answer.shown.texts[2] = "blind" => "system_qty" \notin answer.shown.columns

(* Two numbers of one organization whose codes are not made to be confused.*)
Comparable(number, other) ==
  LET b == number.branch
      c == other.branch
  IN  /\ b.organization = c.organization
      /\ Len(number.type.code) = 1 /\ Len(other.type.code) = 1
      /\ b # c => Capitals(b.code) # Capitals(c.code)

(* Outputs are told apart by what identifies them: two documents with one  *)
(* snapshot hash are the same file with the same mark and contents,        *)
(* whichever alias or default chose the template; and in one organization  *)
(* two numbers with one display code are of the same type, branch, period  *)
(* and correlative, even if codes of branches look like years, as long as  *)
(* the codes of the types have no hyphen and those of the branches differ  *)
(* in more than case.  A number is only given to an internal type, in a    *)
(* period within the limits.                                               *)
OutputsAreIdentified ==
  [][/\ answer.kind = "document" /\ answer'.kind = "document"
           /\ answer.hash = answer'.hash =>
        answer.file = answer'.file /\ answer.shown = answer'.shown
     /\ answer.kind = "number" /\ answer'.kind = "number"
           /\ answer.display = answer'.display
           /\ Comparable(answer, answer') =>
        answer = answer'
     /\ answer'.kind = "number" =>
        answer'.type.scope = "INTERNAL" /\ answer'.year \in 2000..2100]_answer
=============================================================================
