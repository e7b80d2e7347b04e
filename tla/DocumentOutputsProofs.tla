----------------------- MODULE DocumentOutputsProofs -----------------------
(***************************************************************************)
(* Proofs about DocumentOutputs, for any types, branches and contexts.     *)
(***************************************************************************)
EXTENDS DocumentOutputs, SequenceTheorems, TLAPS

-----------------------------------------------------------------------------
(* The tables of the code.                                                 *)

(* No template is an alias too, and the two tables of aliases agree: what  *)
(* is hashed names the file that is printed.                               *)
LEMMA FilesAreResolved ==
  ASSUME NEW key \in DOMAIN TemplateFile
  PROVE  TemplateFile[key] = Resolved(key)
  <1>1. Alias = AliasFile
    BY DEF Alias, AliasFile
  <1>2. \A k \in DOMAIN Supported : k \notin DOMAIN Alias
    BY DEF Supported, BaseManifests, PurchasingManifests, ReceivingManifests,
      InventoryManifests, OutboundManifests, Alias, \sqcup
  <1>3. \A k \in DOMAIN Supported : TemplateFile[k] = k /\ Resolved(k) = k
    BY <1>2 DEF TemplateFile, Resolved, \sqcup
  <1>4. \A k \in DOMAIN TemplateFile : k \notin DOMAIN Supported =>
          k \in DOMAIN Alias /\ TemplateFile[k] = Alias[k]
    BY <1>1 DEF TemplateFile, \sqcup
  <1>5. QED
    BY <1>3, <1>4 DEF Resolved

(* A table with the rows of two.                                           *)
Joins(t, f, g) ==
  /\ DOMAIN t = DOMAIN f \cup DOMAIN g
  /\ \A x \in DOMAIN f : t[x] = f[x]
  /\ \A x \in DOMAIN g : x \notin DOMAIN f => t[x] = g[x]

LEMMA JoinedRows == ASSUME NEW f, NEW g PROVE Joins(f \sqcup g, f, g)
  BY DEF Joins, \sqcup

LEMMA CatalogueRows ==
  /\ \A x \in DOMAIN PurchaseTypes : CatalogueTypes[x] = PurchaseTypes[x]
  /\ \A x \in DOMAIN ApprovalTypes : CatalogueTypes[x] = ApprovalTypes[x]
  /\ \A x \in DOMAIN ArrivalTypes : CatalogueTypes[x] = ArrivalTypes[x]
  /\ \A x \in DOMAIN ReceiptTypes : CatalogueTypes[x] = ReceiptTypes[x]
  /\ \A x \in DOMAIN StockTypes : CatalogueTypes[x] = StockTypes[x]
  /\ \A x \in DOMAIN CountTypes : CatalogueTypes[x] = CountTypes[x]
  /\ \A x \in DOMAIN PreparationTypes : CatalogueTypes[x] = PreparationTypes[x]
  /\ \A x \in DOMAIN PickingTypes : CatalogueTypes[x] = PickingTypes[x]
  /\ \A x \in DOMAIN DispatchTypes : CatalogueTypes[x] = DispatchTypes[x]
  <1> DEFINE T2 == PurchaseTypes \sqcup ApprovalTypes
             T3 == T2 \sqcup ArrivalTypes
             T4 == T3 \sqcup ReceiptTypes
             T5 == T4 \sqcup StockTypes
             T6 == T5 \sqcup CountTypes
             T7 == T6 \sqcup PreparationTypes
             T8 == T7 \sqcup PickingTypes
             T9 == T8 \sqcup DispatchTypes
             T10 == T9 \sqcup TransportTypes
  <1>1. /\ DOMAIN PurchaseTypes = {"REQ", "RFQ", "CMP", "PO"}
        /\ DOMAIN ApprovalTypes = {"POA", "PSC"}
        /\ DOMAIN ArrivalTypes = {"ARR", "CPV"}
        /\ DOMAIN ReceiptTypes = {"REC", "GRN", "RDIFF", "NC", "GTR_EXT"}
        /\ DOMAIN StockTypes = {"LBL", "MOV", "INV_ADJ"}
        /\ DOMAIN CountTypes = {"CNT", "CDIFF", "TRF", "TRF_REC"}
        /\ DOMAIN PreparationTypes = {"OUT_REQ", "ODS", "PACK"}
        /\ DOMAIN PickingTypes = {"PICK"}
        /\ DOMAIN DispatchTypes = {"MNF", "DSP", "SEAL"}
    BY DEF PurchaseTypes, ApprovalTypes, ArrivalTypes, ReceiptTypes, StockTypes,
      CountTypes, PreparationTypes, PickingTypes, DispatchTypes
  <1>2. CatalogueTypes = T10 \sqcup DeliveryTypes
    BY DEF CatalogueTypes
  <1> HIDE DEF T10
  <1>3. Joins(T2, PurchaseTypes, ApprovalTypes)
    BY JoinedRows DEF T2
  <1>4. Joins(T3, T2, ArrivalTypes)
    BY JoinedRows DEF T3
  <1>5. Joins(T4, T3, ReceiptTypes)
    BY JoinedRows DEF T4
  <1>6. Joins(T5, T4, StockTypes)
    BY JoinedRows DEF T5
  <1>7. Joins(T6, T5, CountTypes)
    BY JoinedRows DEF T6
  <1>8. Joins(T7, T6, PreparationTypes)
    BY JoinedRows DEF T7
  <1>9. Joins(T8, T7, PickingTypes)
    BY JoinedRows DEF T8
  <1>10. Joins(T9, T8, DispatchTypes)
    BY JoinedRows DEF T9
  <1>11. Joins(T10, T9, TransportTypes)
    BY JoinedRows DEF T10
  <1>12. \A x \in DOMAIN T10 : CatalogueTypes[x] = T10[x]
    BY <1>2 DEF \sqcup
  <1> HIDE DEF T2, T3, T4, T5, T6, T7, T8, T9
  <1>13. QED
    BY <1>1, <1>3, <1>4, <1>5, <1>6, <1>7, <1>8, <1>9, <1>10, <1>11, <1>12 DEF Joins

LEMMA ManifestRows ==
  /\ \A x \in DOMAIN PurchasingManifests : Supported[x] = PurchasingManifests[x]
  /\ \A x \in DOMAIN ReceivingManifests : Supported[x] = ReceivingManifests[x]
  /\ \A x \in DOMAIN InventoryManifests : Supported[x] = InventoryManifests[x]
  /\ \A x \in DOMAIN OutboundManifests : Supported[x] = OutboundManifests[x]
  <1>1. \A x \in DOMAIN PurchasingManifests : Supported[x] = PurchasingManifests[x]
    BY DEF Supported, BaseManifests, PurchasingManifests, \sqcup
  <1>2. \A x \in DOMAIN ReceivingManifests : Supported[x] = ReceivingManifests[x]
    BY DEF Supported, BaseManifests, PurchasingManifests, ReceivingManifests, \sqcup
  <1>3. \A x \in DOMAIN InventoryManifests : Supported[x] = InventoryManifests[x]
    BY DEF Supported, BaseManifests, PurchasingManifests, ReceivingManifests,
      InventoryManifests, \sqcup
  <1>4. \A x \in DOMAIN OutboundManifests : Supported[x] = OutboundManifests[x]
    BY DEF Supported, BaseManifests, PurchasingManifests, ReceivingManifests,
      InventoryManifests, OutboundManifests, \sqcup
  <1>5. QED
    BY <1>1, <1>2, <1>3, <1>4

(* What a sample promises: its template is one of its own name, which the  *)
(* catalogued type names too; its statuses are provided for.               *)
Honest(s) ==
  LET type == CatalogueTypes[s.type]
  IN  /\ s.template \notin DOMAIN Alias
      /\ type.template # NoTemplate => s.template = Resolved(type.template)
      /\ \A status \in {s.status, s.urgent} :
           /\ status \in Supported[s.template]
           /\ s.type # "SEAL" => status \in type.statuses

LEMMA PurchasingHonest == \A s \in SamplesOf.purchasing : Honest(s)
  <1>1. Honest(RequisitionSample)
    BY CatalogueRows, ManifestRows DEF Honest, RequisitionSample, Sample, PurchaseTypes,
      PurchasingManifests, Alias, Resolved, Operational, Audited, Legal, External, Internal,
      NoTemplate
  <1>2. Honest(QuotationSample)
    BY CatalogueRows, ManifestRows DEF Honest, QuotationSample, Sample, PurchaseTypes,
      PurchasingManifests, Alias, Resolved, Operational, Audited, Legal, External, Internal,
      NoTemplate
  <1>3. Honest(ComparisonSample)
    BY CatalogueRows, ManifestRows DEF Honest, ComparisonSample, Sample, PurchaseTypes,
      PurchasingManifests, Alias, Resolved, Operational, Audited, Legal, External, Internal,
      NoTemplate
  <1>4. Honest(OrderSample)
    BY CatalogueRows, ManifestRows DEF Honest, OrderSample, Sample, PurchaseTypes,
      PurchasingManifests, Alias, Resolved, Operational, Audited, Legal, External, Internal,
      NoTemplate
  <1>5. Honest(ApprovalSample)
    BY CatalogueRows, ManifestRows DEF Honest, ApprovalSample, Sample, ApprovalTypes,
      PurchasingManifests, Alias, Resolved, Operational, Audited, Legal, External, Internal,
      NoTemplate
  <1>6. Honest(ConfirmationSample)
    BY CatalogueRows, ManifestRows DEF Honest, ConfirmationSample, Sample, ApprovalTypes,
      PurchasingManifests, Alias, Resolved, Operational, Audited, Legal, External, Internal,
      NoTemplate
  <1>7. QED
    BY <1>1, <1>2, <1>3, <1>4, <1>5, <1>6 DEF SamplesOf

LEMMA ReceivingHonest == \A s \in SamplesOf.receiving : Honest(s)
  <1>1. Honest(ArrivalSample)
    BY CatalogueRows, ManifestRows DEF Honest, ArrivalSample, Sample, ArrivalTypes,
      ReceivingManifests, Alias, Resolved, Operational, Audited, Legal, External, Internal,
      NoTemplate
  <1>2. Honest(GateSample)
    BY CatalogueRows, ManifestRows DEF Honest, GateSample, Sample, ArrivalTypes,
      ReceivingManifests, Alias, Resolved, Operational, Audited, Legal, External, Internal,
      NoTemplate
  <1>3. Honest(ReportSample)
    BY CatalogueRows, ManifestRows DEF Honest, ReportSample, Sample, ReceiptTypes,
      ReceivingManifests, Alias, Resolved, Operational, Audited, Legal, External, Internal,
      NoTemplate
  <1>4. Honest(ReceiptSample)
    BY CatalogueRows, ManifestRows DEF Honest, ReceiptSample, Sample, ReceiptTypes,
      ReceivingManifests, Alias, Resolved, Operational, Audited, Legal, External, Internal,
      NoTemplate
  <1>5. Honest(DifferenceSample)
    BY CatalogueRows, ManifestRows DEF Honest, DifferenceSample, Sample, ReceiptTypes,
      ReceivingManifests, Alias, Resolved, Operational, Audited, Legal, External, Internal,
      NoTemplate
  <1>6. Honest(NonConformitySample)
    BY CatalogueRows, ManifestRows DEF Honest, NonConformitySample, Sample, ReceiptTypes,
      ReceivingManifests, Alias, Resolved, Operational, Audited, Legal, External, Internal,
      NoTemplate
  <1>7. QED
    BY <1>1, <1>2, <1>3, <1>4, <1>5, <1>6 DEF SamplesOf

LEMMA InventoryHonest == \A s \in SamplesOf.inventory : Honest(s)
  <1>1. Honest(LabelSample)
    BY CatalogueRows, ManifestRows DEF Honest, LabelSample, Sample, StockTypes,
      InventoryManifests, Alias, Resolved, Operational, Audited, Legal, External, Internal,
      NoTemplate
  <1>2. Honest(MovementSample)
    BY CatalogueRows, ManifestRows DEF Honest, MovementSample, Sample, StockTypes,
      InventoryManifests, Alias, Resolved, Operational, Audited, Legal, External, Internal,
      NoTemplate
  <1>3. Honest(AdjustmentSample)
    BY CatalogueRows, ManifestRows DEF Honest, AdjustmentSample, Sample, StockTypes,
      InventoryManifests, Alias, Resolved, Operational, Audited, Legal, External, Internal,
      NoTemplate
  <1>4. Honest(CountSample)
    BY CatalogueRows, ManifestRows DEF Honest, CountSample, Sample, CountTypes,
      InventoryManifests, Alias, Resolved, Operational, Audited, Legal, External, Internal,
      NoTemplate
  <1>5. Honest(CountDifferenceSample)
    BY CatalogueRows, ManifestRows DEF Honest, CountDifferenceSample, Sample, CountTypes,
      InventoryManifests, Alias, Resolved, Operational, Audited, Legal, External, Internal,
      NoTemplate
  <1>6. Honest(TransferSample)
    BY CatalogueRows, ManifestRows DEF Honest, TransferSample, Sample, CountTypes,
      InventoryManifests, Alias, Resolved, Operational, Audited, Legal, External, Internal,
      NoTemplate
  <1>7. Honest(TransferReceiptSample)
    BY CatalogueRows, ManifestRows DEF Honest, TransferReceiptSample, Sample, CountTypes,
      InventoryManifests, Alias, Resolved, Operational, Audited, Legal, External, Internal,
      NoTemplate
  <1>8. QED
    BY <1>1, <1>2, <1>3, <1>4, <1>5, <1>6, <1>7 DEF SamplesOf

LEMMA OutboundHonest == \A s \in SamplesOf.outbound : Honest(s)
  <1>1. Honest(OutboundRequestSample)
    BY CatalogueRows, ManifestRows DEF Honest, OutboundRequestSample, Sample, PreparationTypes,
      OutboundManifests, Alias, Resolved, Operational, Audited, Legal, External, Internal,
      NoTemplate
  <1>2. Honest(OutboundOrderSample)
    BY CatalogueRows, ManifestRows DEF Honest, OutboundOrderSample, Sample, PreparationTypes,
      OutboundManifests, Alias, Resolved, Operational, Audited, Legal, External, Internal,
      NoTemplate
  <1>3. Honest(PickingSample)
    BY CatalogueRows, ManifestRows DEF Honest, PickingSample, Sample, PickingTypes,
      OutboundManifests, Alias, Resolved, Operational, Audited, Legal, External, Internal,
      NoTemplate
  <1>4. Honest(PackingSample)
    BY CatalogueRows, ManifestRows DEF Honest, PackingSample, Sample, PreparationTypes,
      OutboundManifests, Alias, Resolved, Operational, Audited, Legal, External, Internal,
      NoTemplate
  <1>5. Honest(ManifestSample)
    BY CatalogueRows, ManifestRows DEF Honest, ManifestSample, Sample, DispatchTypes,
      OutboundManifests, Alias, Resolved, Operational, Audited, Legal, External, Internal,
      NoTemplate
  <1>6. Honest(DispatchSample)
    BY CatalogueRows, ManifestRows DEF Honest, DispatchSample, Sample, DispatchTypes,
      OutboundManifests, Alias, Resolved, Operational, Audited, Legal, External, Internal,
      NoTemplate
  <1>7. Honest(SealSample)
    BY CatalogueRows, ManifestRows DEF Honest, SealSample, Sample, DispatchTypes,
      OutboundManifests, Alias, Resolved, Operational, Audited, Legal, External, Internal,
      NoTemplate
  <1>8. QED
    BY <1>1, <1>2, <1>3, <1>4, <1>5, <1>6, <1>7 DEF SamplesOf

LEMMA SamplesHonest ==
  \A family \in DOMAIN SamplesOf : \A s \in SamplesOf[family] : Honest(s)
  BY PurchasingHonest, ReceivingHonest, InventoryHonest, OutboundHonest DEF SamplesOf

(* Only the label is called after a place.                                 *)
LEMMA Places ==
  \A family \in DOMAIN SamplesOf : \A s \in SamplesOf[family] :
    s.place # <<>> => s.place = LabelSample.place
  <1>1. \A s \in SamplesOf.purchasing : s.place = <<>>
    BY DEF SamplesOf, Sample, RequisitionSample, QuotationSample, ComparisonSample,
      OrderSample, ApprovalSample, ConfirmationSample
  <1>2. \A s \in SamplesOf.receiving : s.place = <<>>
    BY DEF SamplesOf, Sample, ArrivalSample, GateSample, ReportSample, ReceiptSample,
      DifferenceSample, NonConformitySample
  <1>3. \A s \in SamplesOf.inventory : s = LabelSample \/ s.place = <<>>
    BY DEF SamplesOf, Sample, MovementSample, AdjustmentSample, CountSample,
      CountDifferenceSample, TransferSample, TransferReceiptSample
  <1>4. \A s \in SamplesOf.outbound : s.place = <<>>
    BY DEF SamplesOf, Sample, OutboundRequestSample, OutboundOrderSample, PickingSample,
      PackingSample, ManifestSample, DispatchSample, SealSample
  <1>5. QED
    BY <1>1, <1>2, <1>3, <1>4 DEF SamplesOf

-----------------------------------------------------------------------------
(* Codes.                                                                  *)

LEMMA CapitalsParts ==
  ASSUME NEW S, NEW code \in Seq(S)
  PROVE  /\ Capitals(code) \in Seq(Parts(Capitals(code)))
         /\ Len(Capitals(code)) = Len(code)
  <1>1. \A i \in 1 .. Len(code) : Capitals(code)[i] \in Parts(Capitals(code))
    BY DEF Capitals, Parts
  <1>2. Capitals(code) = [i \in 1 .. Len(code) |-> Capitals(code)[i]]
    BY DEF Capitals
  <1>3. QED
    BY <1>1, <1>2

(* One after the other.                                                    *)
LEMMA Concatenated ==
  ASSUME NEW S, NEW s \in Seq(S), NEW T, NEW t \in Seq(T)
  PROVE  /\ s \o t \in Seq(S \cup T)
         /\ Len(s \o t) = Len(s) + Len(t)
         /\ \A i \in 1 .. Len(s) : (s \o t)[i] = s[i]
         /\ \A i \in 1 .. Len(t) : (s \o t)[Len(s) + i] = t[i]
  <1>1. s \in Seq(S \cup T) /\ t \in Seq(S \cup T)
    OBVIOUS
  <1>2. QED
    BY <1>1, Concatenated

(* A code ends with the two parts put at its end.                          *)
LEMMA Ending ==
  ASSUME NEW S, NEW s \in Seq(S), NEW x, NEW y
  PROVE  /\ Len(s \o <<x, y>>) = Len(s) + 2
         /\ (s \o <<x, y>>)[Len(s) + 1] = x
         /\ (s \o <<x, y>>)[Len(s) + 2] = y
         /\ \A i \in 1 .. Len(s) : (s \o <<x, y>>)[i] = s[i]
  OBVIOUS

(* No sample is called like a number.                                      *)
LEMMA SampleIsNoNumber ==
  ASSUME NEW family \in DOMAIN SamplesOf, NEW s \in SamplesOf[family],
         NEW S, NEW branch \in Seq(S), NEW T, NEW type \in Seq(T), NEW U, NEW code \in Seq(U),
         NEW year, NEW n
  PROVE  SampleCode(s, branch) # DisplayCode(type, code, year, n)
  <1> DEFINE head == Capitals(type) \o Capitals(code)
             H == Parts(Capitals(type)) \cup Parts(Capitals(code))
  <1>1. head \in Seq(H)
    BY CapitalsParts, Concatenated
  <1>2. DisplayCode(type, code, year, n) = head \o <<Digits(4, year), Digits(6, n)>>
    BY DEF DisplayCode
  <1> HIDE DEF head
  <1>3. /\ Len(DisplayCode(type, code, year, n)) = Len(head) + 2
        /\ DisplayCode(type, code, year, n)[Len(head) + 2] = Digits(6, n)
    BY <1>1, <1>2, Ending
  <1>4. CASE s.place = <<>>
    <2> DEFINE front == <<Text("PREVIEW"), Text(s.prefix)>> \o branch
             F == {Text("PREVIEW"), Text(s.prefix)} \cup S
    <2>1. front \in Seq(F)
      <3>1. <<Text("PREVIEW"), Text(s.prefix)>> \in Seq({Text("PREVIEW"), Text(s.prefix)})
        OBVIOUS
      <3>2. QED
        BY <3>1, Concatenated
    <2>2. SampleCode(s, branch) = front \o <<Digits(4, 2026), Digits(4, 1)>>
      BY <1>4 DEF SampleCode
    <2> HIDE DEF front
    <2>3. /\ Len(SampleCode(s, branch)) = Len(front) + 2
          /\ SampleCode(s, branch)[Len(front) + 2] = Digits(4, 1)
      BY <2>1, <2>2, Ending
    <2>4. Digits(4, 1) # Digits(6, n)
      BY DEF Digits
    <2>5. Len(front) \in Nat /\ Len(head) \in Nat
      BY <1>1, <2>1
    <2>6. QED
      BY <1>3, <2>3, <2>4, <2>5
  <1>5. CASE s.place # <<>>
    <2>1. SampleCode(s, branch) = LabelSample.place
      BY <1>5, Places DEF SampleCode
    <2>2. Len(LabelSample.place) = 6 /\ LabelSample.place[6] = Text("N03")
      BY DEF LabelSample, Sample
    <2>3. Text("N03") # Digits(6, n)
      BY DEF Text, Digits
    <2>4. Len(head) \in Nat
      BY <1>1
    <2>5. QED
      BY <1>3, <2>1, <2>2, <2>3, <2>4
  <1>6. QED
    BY <1>4, <1>5

(* A type without hyphens, a branch, the year and the correlative can all  *)
(* be told from the code of a number.                                      *)
LEMMA CodeIdentifies ==
  ASSUME NEW S, NEW t \in Seq(S), NEW T, NEW u \in Seq(T), Len(t) = 1, Len(u) = 1,
         NEW U, NEW b \in Seq(U), NEW V, NEW c \in Seq(V),
         NEW year, NEW otherYear, NEW n, NEW other,
         DisplayCode(t, b, year, n) = DisplayCode(u, c, otherYear, other)
  PROVE  /\ Capitals(t) = Capitals(u)
         /\ Capitals(b) = Capitals(c)
         /\ year = otherYear /\ n = other
  <1> DEFINE p == Capitals(t) \o Capitals(b)
             P == Parts(Capitals(t)) \cup Parts(Capitals(b))
             q == Capitals(u) \o Capitals(c)
             Q == Parts(Capitals(u)) \cup Parts(Capitals(c))
  <1>1. /\ Capitals(t) \in Seq(Parts(Capitals(t)))
        /\ Capitals(u) \in Seq(Parts(Capitals(u)))
        /\ Capitals(b) \in Seq(Parts(Capitals(b)))
        /\ Capitals(c) \in Seq(Parts(Capitals(c)))
    BY CapitalsParts
  <1>2. /\ p \in Seq(P)
        /\ Len(p) = Len(Capitals(t)) + Len(Capitals(b))
        /\ \A i \in 1 .. Len(Capitals(t)) : p[i] = Capitals(t)[i]
        /\ \A i \in 1 .. Len(Capitals(b)) : p[Len(Capitals(t)) + i] = Capitals(b)[i]
    BY <1>1, Concatenated
  <1>3. /\ q \in Seq(Q)
        /\ Len(q) = Len(Capitals(u)) + Len(Capitals(c))
        /\ \A i \in 1 .. Len(Capitals(u)) : q[i] = Capitals(u)[i]
        /\ \A i \in 1 .. Len(Capitals(c)) : q[Len(Capitals(u)) + i] = Capitals(c)[i]
    BY <1>1, Concatenated
  <1>4. p \o <<Digits(4, year), Digits(6, n)>>
          = q \o <<Digits(4, otherYear), Digits(6, other)>>
    BY DEF DisplayCode
  <1> HIDE DEF p, q, P, Q
  <1>5. Len(p) = Len(q)
    <2>1. /\ Len(p \o <<Digits(4, year), Digits(6, n)>>) = Len(p) + 2
          /\ Len(q \o <<Digits(4, otherYear), Digits(6, other)>>) = Len(q) + 2
      BY <1>2, <1>3, Ending
    <2>2. Len(p) \in Nat /\ Len(q) \in Nat
      BY <1>2, <1>3
    <2>3. QED
      BY <1>4, <2>1, <2>2
  <1>6. Digits(4, year) = Digits(4, otherYear) /\ Digits(6, n) = Digits(6, other)
    <2>1. /\ (p \o <<Digits(4, year), Digits(6, n)>>)[Len(p) + 1] = Digits(4, year)
          /\ (p \o <<Digits(4, year), Digits(6, n)>>)[Len(p) + 2] = Digits(6, n)
      BY <1>2, Ending
    <2>2. /\ (q \o <<Digits(4, otherYear), Digits(6, other)>>)[Len(q) + 1]
               = Digits(4, otherYear)
          /\ (q \o <<Digits(4, otherYear), Digits(6, other)>>)[Len(q) + 2]
               = Digits(6, other)
      BY <1>3, Ending
    <2>3. QED
      BY <1>4, <1>5, <2>1, <2>2
  <1>7. \A i \in 1 .. Len(p) : p[i] = q[i]
    <2>1. \A i \in 1 .. Len(p) : (p \o <<Digits(4, year), Digits(6, n)>>)[i] = p[i]
      BY <1>2, Ending
    <2>2. \A i \in 1 .. Len(q) : (q \o <<Digits(4, otherYear), Digits(6, other)>>)[i] = q[i]
      BY <1>3, Ending
    <2>3. QED
      BY <1>4, <1>5, <2>1, <2>2
  <1>8. /\ Len(Capitals(t)) = 1 /\ Len(Capitals(u)) = 1
        /\ Len(Capitals(b)) \in Nat /\ Len(Capitals(c)) \in Nat
    BY <1>1, CapitalsParts
  <1>9. Len(Capitals(b)) = Len(Capitals(c))
    BY <1>2, <1>3, <1>5, <1>8
  <1>10. \A i \in 1 .. Len(Capitals(t)) : Capitals(t)[i] = Capitals(u)[i]
    BY <1>2, <1>3, <1>7, <1>8
  <1>11. \A i \in 1 .. Len(Capitals(b)) : Capitals(b)[i] = Capitals(c)[i]
    BY <1>2, <1>3, <1>5, <1>7, <1>8, <1>9
  <1>12. \A d \in {t, u, b, c} :
           Capitals(d) = [i \in 1 .. Len(Capitals(d)) |-> Capitals(d)[i]]
    BY <1>1
  <1>13. Capitals(b) = Capitals(c)
    BY <1>9, <1>11, <1>12
  <1>14. Capitals(t) = Capitals(u)
    BY <1>8, <1>10, <1>12
  <1>15. QED
    BY <1>6, <1>13, <1>14 DEF Digits

-----------------------------------------------------------------------------
(* Documents.                                                              *)

IsContext(c) ==
  c = [texts |-> c.texts, template |-> c.template, display |-> c.display,
       status |-> c.status, watermark |-> c.watermark, columns |-> c.columns,
       complete |-> c.complete]

(* A document is a function of its hash, and it is marked.                 *)
DocumentOK(a) ==
  /\ a.kind \in {"refusal", "number", "document"}
  /\ a.kind = "document" =>
       /\ a.shown = [a.hash EXCEPT !.watermark = Watermark(a.hash)]
       /\ a.file = a.hash.template
       /\ Upper(a.shown.status) \in {"DRAFT", "VOID"} => a.shown.watermark # Absent

LEMMA RenderedForm ==
  ASSUME NEW c, IsContext(c), NEW key
  PROVE  \/ \E code : Render(c, key) = Refusal(code)
         \/ /\ key \in DOMAIN TemplateFile
            /\ Render(c, key) = Printed(c, key)
  BY DEF Render

LEMMA PrintedForm ==
  ASSUME NEW c, IsContext(c), NEW key \in DOMAIN TemplateFile
  PROVE  /\ Printed(c, key).kind = "document"
         /\ DOMAIN Printed(c, key) = {"kind", "hash", "file", "shown"}
         /\ Printed(c, key).file = Resolved(key)
         /\ Printed(c, key).shown.template = Resolved(key)
         /\ Printed(c, key).shown.display = c.display
         /\ Printed(c, key).shown.status = c.status
         /\ Printed(c, key).shown.columns = c.columns
         /\ Printed(c, key).shown.texts = c.texts
         /\ DocumentOK(Printed(c, key))
  <1>1. TemplateFile[key] = Resolved(key)
    BY FilesAreResolved
  <1>2. Snapshot(c, key) =
          [texts |-> c.texts, template |-> Resolved(key), display |-> c.display,
           status |-> c.status, watermark |-> c.watermark, columns |-> c.columns,
           complete |-> c.complete]
    BY DEF Snapshot, IsContext
  <1>3. Watermark(Snapshot(c, key)) = Watermark(c)
    BY <1>2 DEF Watermark
  <1>4. Printed(c, key).shown =
          [texts |-> c.texts, template |-> Resolved(key), display |-> c.display,
           status |-> c.status, watermark |-> Watermark(c), columns |-> c.columns,
           complete |-> c.complete]
    BY DEF Printed, IsContext
  <1>5. Upper(c.status) \in {"DRAFT", "VOID"} => Watermark(c) # Absent
    BY OutputAssumption DEF Watermark
  <1>6. /\ Printed(c, key).kind = "document"
        /\ DOMAIN Printed(c, key) = {"kind", "hash", "file", "shown"}
        /\ Printed(c, key).file = Resolved(key)
        /\ Printed(c, key).hash = Snapshot(c, key)
    BY <1>1 DEF Printed
  <1> HIDE DEF Printed
  <1>7. DocumentOK(Printed(c, key))
    BY <1>2, <1>3, <1>4, <1>5, <1>6 DEF DocumentOK
  <1>8. QED
    BY <1>4, <1>6, <1>7

-----------------------------------------------------------------------------
(* Answers.                                                                *)

SampleOK(a) ==
  IsSample(a) =>
    LET type == CatalogueTypes[a.type]
    IN  /\ type.template # NoTemplate => a.file = Resolved(type.template)
        /\ a.asked = Absent =>
             /\ a.shown.status \in Supported[a.shown.template]
             /\ a.type # "SEAL" => a.shown.status \in type.statuses
        /\ \A t \in Types, b \in Branches, y \in 2000..2100, n \in Correlative :
             a.shown.display # DisplayCode(t.code, b.code, y, n)
        /\ a.shown.texts[2] = "blind" => "system_qty" \notin a.shown.columns

NumberOK(a) ==
  a.kind = "number" =>
    \E t \in Types, b \in Branches, y \in 2000..2100, n \in Correlative :
      a = Numbered(t, b, y, n) /\ t.scope = "INTERNAL"

AnswerOK(a) == DocumentOK(a) /\ SampleOK(a) /\ NumberOK(a)

LEMMA RefusalOK == ASSUME NEW code PROVE AnswerOK(Refusal(code))
  BY DEF AnswerOK, DocumentOK, SampleOK, NumberOK, IsSample, Refusal

LEMMA PreviewNumberOK ==
  ASSUME NEW organization, NEW type \in Types \cup {Absent},
         NEW branch \in Branches \cup {Absent}, NEW year, NEW n \in Correlative,
         PreviewNumber(organization, type, branch, year, n)
  PROVE  AnswerOK(answer')
  <1>1. \/ \E code : answer' = Refusal(code)
        \/ /\ type # Absent /\ branch # Absent
           /\ type.scope = "INTERNAL" /\ PeriodYear(year) \in 2000..2100
           /\ answer' = Numbered(type, branch, PeriodYear(year), n)
    BY DEF PreviewNumber
  <1>2. CASE \E code : answer' = Refusal(code)
    BY <1>2, RefusalOK
  <1>3. CASE /\ type # Absent /\ branch # Absent
             /\ type.scope = "INTERNAL" /\ PeriodYear(year) \in 2000..2100
             /\ answer' = Numbered(type, branch, PeriodYear(year), n)
    <2>1. answer'.kind = "number"
      BY <1>3 DEF Numbered
    <2>2. NumberOK(answer')
      BY <1>3 DEF NumberOK
    <2>3. QED
      BY <2>1, <2>2 DEF AnswerOK, DocumentOK, SampleOK, IsSample
  <1>4. QED
    BY <1>1, <1>2, <1>3

LEMMA RenderOK ==
  ASSUME NEW c, IsContext(c), NEW key
  PROVE  AnswerOK(Render(c, key))
  <1>1. CASE \E code : Render(c, key) = Refusal(code)
    BY <1>1, RefusalOK
  <1>2. CASE key \in DOMAIN TemplateFile /\ Render(c, key) = Printed(c, key)
    BY <1>2, PrintedForm DEF AnswerOK, SampleOK, NumberOK, IsSample
  <1>3. QED
    BY <1>1, <1>2, RenderedForm

LEMMA HeadsAreCodes ==
  ASSUME NEW organization, NEW branch \in Heads(organization)
  PROVE  \E S : branch \in Seq(S)
  <1>1. CASE branch \in {b.code : b \in {c \in Branches : c.organization = organization}}
    <2>1. PICK b \in Branches : branch = b.code
      BY <1>1
    <2>2. QED
      BY <2>1, OutputAssumption
  <1>2. CASE branch = <<Text("LIM")>>
    <2>1. branch \in Seq({Text("LIM")})
      BY <1>2
    <2>2. QED
      BY <2>1
  <1>3. QED
    BY <1>1, <1>2 DEF Heads

LEMMA SampledOK ==
  ASSUME NEW family \in DOMAIN SamplesOf, NEW s \in SamplesOf[family],
         NEW scenario, NEW asked, NEW organization, NEW branch \in Heads(organization)
  PROVE  AnswerOK(Sampled(s.type, asked,
           Render(SampleContext(family, s, scenario, asked, branch), s.template)))
  <1> DEFINE c == SampleContext(family, s, scenario, asked, branch)
             output == Render(c, s.template)
             a == Sampled(s.type, asked, output)
  <1> SUFFICES AnswerOK(a)
    OBVIOUS
  <1>1. IsContext(c)
    BY DEF IsContext, SampleContext
  <1>2. /\ c.texts = <<s.type, scenario>>
        /\ c.display = SampleCode(s, branch)
        /\ c.status = SampleStatus(family, s, scenario, asked)
        /\ c.columns = SampleColumns(s, scenario)
    BY DEF SampleContext
  <1> HIDE DEF c
  <1>3. Joins(a, [type |-> s.type, asked |-> asked], output)
    BY JoinedRows DEF Sampled
  <1>4. a.type = s.type /\ a.asked = asked
    BY <1>3 DEF Joins
  <1>5. CASE \E code : output = Refusal(code)
    <2>1. a.kind = "refusal"
      BY <1>3, <1>5 DEF Joins, Refusal
    <2>2. QED
      BY <2>1 DEF AnswerOK, DocumentOK, SampleOK, NumberOK, IsSample
  <1>6. CASE s.template \in DOMAIN TemplateFile /\ output = Printed(c, s.template)
    <2>1. /\ output.kind = "document"
          /\ DOMAIN output = {"kind", "hash", "file", "shown"}
          /\ output.file = Resolved(s.template)
          /\ output.shown.template = Resolved(s.template)
          /\ output.shown.display = c.display
          /\ output.shown.status = c.status
          /\ output.shown.columns = c.columns
          /\ output.shown.texts = c.texts
          /\ DocumentOK(output)
      BY <1>1, <1>6, PrintedForm
    <2> HIDE DEF output
    <2>2. /\ a.kind = "document" /\ a.hash = output.hash
          /\ a.file = output.file /\ a.shown = output.shown
      BY <1>3, <2>1 DEF Joins
    <2> HIDE DEF a
    <2>3. DocumentOK(a) /\ NumberOK(a)
      BY <2>1, <2>2 DEF DocumentOK, NumberOK
    <2>4. Honest(s) /\ Resolved(s.template) = s.template
      BY SamplesHonest DEF Honest, Resolved
    <2>5. CatalogueTypes[s.type].template # NoTemplate =>
            a.file = Resolved(CatalogueTypes[s.type].template)
      BY <2>1, <2>2, <2>4 DEF Honest
    <2>6. a.asked = Absent =>
            /\ a.shown.status \in Supported[a.shown.template]
            /\ a.type # "SEAL" => a.shown.status \in CatalogueTypes[a.type].statuses
      BY <1>2, <1>4, <2>1, <2>2, <2>4 DEF Honest, SampleStatus
    <2>7. \A t \in Types, b \in Branches, y \in 2000..2100, n \in Correlative :
            a.shown.display # DisplayCode(t.code, b.code, y, n)
      <3> SUFFICES ASSUME NEW t \in Types, NEW b \in Branches, NEW y, NEW n
                   PROVE  SampleCode(s, branch) # DisplayCode(t.code, b.code, y, n)
        BY <1>2, <2>1, <2>2
      <3>1. t.code \in Seq(Parts(t.code)) /\ b.code \in Seq(Parts(b.code))
        BY OutputAssumption
      <3>2. PICK S : branch \in Seq(S)
        BY HeadsAreCodes
      <3>3. QED
        BY <3>1, <3>2, SampleIsNoNumber
    <2>8. a.shown.texts[2] = "blind" => "system_qty" \notin a.shown.columns
      BY <1>2, <2>1, <2>2 DEF SampleColumns
    <2>9. SampleOK(a)
      BY <1>4, <2>5, <2>6, <2>7, <2>8 DEF SampleOK
    <2>10. QED
      BY <2>3, <2>9 DEF AnswerOK
  <1>7. QED
    BY <1>1, <1>5, <1>6, RenderedForm

LEMMA NextOK ==
  ASSUME OutputNext
  PROVE  AnswerOK(answer')
  <1>1. CASE \E organization \in Organization \cup {Absent}, type \in Types \cup {Absent},
               branch \in Branches \cup {Absent}, year \in Year, n \in Correlative :
              PreviewNumber(organization, type, branch, year, n)
    BY <1>1, PreviewNumberOK
  <1>2. CASE \E context \in Contexts, key \in Keys : PreviewDocument(context, key)
    <2>1. PICK context \in Contexts, key \in Keys : PreviewDocument(context, key)
      BY <1>2
    <2>2. IsContext(context)
      BY OutputAssumption DEF IsContext
    <2>3. QED
      BY <2>1, <2>2, RenderOK DEF PreviewDocument
  <1>3. CASE \E family \in DOMAIN SamplesOf :
              \E name \in NamesOf(family), scenario \in ScenariosOf[family],
                asked \in Asked \cup {Absent}, organization \in Organization \cup {Absent} :
               RenderFamilySample(family, name, scenario, asked, organization)
    <2>1. PICK family \in DOMAIN SamplesOf :
            \E name, scenario, asked, organization :
              RenderFamilySample(family, name, scenario, asked, organization)
      BY <1>3
    <2>2. PICK name, scenario, asked, organization :
            RenderFamilySample(family, name, scenario, asked, organization)
      BY <2>1
    <2>3. \/ answer' = Refusal("HTTP_400_BAD_REQUEST")
          \/ \E s \in SamplesOf[family], branch \in Heads(organization) :
               answer' = Sampled(s.type, asked,
                 Render(SampleContext(family, s, scenario, asked, branch), s.template))
      BY <2>2 DEF RenderFamilySample
    <2>4. QED
      BY <2>3, SampledOK, RefusalOK
  <1>4. CASE \E asked \in Asked, organization \in Organization \cup {Absent} :
              RenderSample(asked, organization)
    <2>1. PICK asked \in Asked, organization \in Organization \cup {Absent} :
            RenderSample(asked, organization)
      BY <1>4
    <2>2. PICK branch \in Heads(organization) :
            answer' = Render([texts |-> <<"PO", "sample">>, template |-> "base_document_v1",
                        display |-> <<Text("PO")>> \o branch \o <<Digits(4, 2026), Digits(6, 1)>>,
                        status |-> Upper(asked), watermark |-> Absent, columns |-> {},
                        complete |-> TRUE], "base_document_v1")
      BY <2>1, Zenon DEF RenderSample
    <2>3. ASSUME NEW texts, NEW template, NEW display, NEW status, NEW watermark,
                 NEW columns, NEW complete
          PROVE  IsContext([texts |-> texts, template |-> template, display |-> display,
                   status |-> status, watermark |-> watermark, columns |-> columns,
                   complete |-> complete])
      BY DEF IsContext
    <2>4. QED
      BY <2>2, <2>3, RenderOK
  <1>5. QED
    BY <1>1, <1>2, <1>3, <1>4 DEF OutputNext

LEMMA AnswersOK == OutputSpec => []AnswerOK(answer)
  <1>1. OutputInit => AnswerOK(answer)
    BY RefusalOK DEF OutputInit
  <1>2. AnswerOK(answer) /\ [OutputNext]_answer => AnswerOK(answer)'
    BY NextOK
  <1>3. QED
    BY <1>1, <1>2, PTL DEF OutputSpec

(* Whatever is previewed or sampled, drafts and void documents are marked, *)
(* and a sample has a status and a template that the catalogue knows, is   *)
(* not called like a number and, if it is blind, hides the stock.          *)
THEOREM SamplesStayHonest == OutputSpec => []SamplesAreHonest
  <1>1. AnswerOK(answer) => SamplesAreHonest
    BY DEF AnswerOK, DocumentOK, SampleOK, SamplesAreHonest
  <1>2. QED
    BY <1>1, AnswersOK, PTL

LEMMA NumbersIdentified ==
  ASSUME NEW t \in Types, NEW b \in Branches, NEW y, NEW n,
         NEW u \in Types, NEW c \in Branches, NEW z, NEW k,
         Numbered(t, b, y, n).display = Numbered(u, c, z, k).display,
         Comparable(Numbered(t, b, y, n), Numbered(u, c, z, k))
  PROVE  Numbered(t, b, y, n) = Numbered(u, c, z, k)
  <1>1. /\ Len(t.code) = 1 /\ Len(u.code) = 1
        /\ b # c => Capitals(b.code) # Capitals(c.code)
        /\ DisplayCode(t.code, b.code, y, n) = DisplayCode(u.code, c.code, z, k)
    BY DEF Comparable, Numbered
  <1>2. /\ t.code \in Seq(Parts(t.code)) /\ b.code \in Seq(Parts(b.code))
        /\ u.code \in Seq(Parts(u.code)) /\ c.code \in Seq(Parts(c.code))
    BY OutputAssumption
  <1>3. /\ Capitals(t.code) = Capitals(u.code)
        /\ Capitals(b.code) = Capitals(c.code)
        /\ y = z /\ n = k
    BY <1>1, <1>2, CodeIdentifies
  <1>4. t = u
    BY <1>3, OutputAssumption
  <1>5. b = c
    BY <1>1, <1>3
  <1>6. QED
    BY <1>3, <1>4, <1>5

(* What is hashed decides on what is printed, and within an organization   *)
(* the display code on the number, as long as the codes of types have no   *)
(* hyphen and those of branches differ in more than case.                  *)
THEOREM OutputsIdentified == OutputSpec => OutputsAreIdentified
  <1>1. ASSUME AnswerOK(answer), AnswerOK(answer')
        PROVE  /\ answer.kind = "document" /\ answer'.kind = "document"
                     /\ answer.hash = answer'.hash =>
                    answer.file = answer'.file /\ answer.shown = answer'.shown
               /\ answer.kind = "number" /\ answer'.kind = "number"
                     /\ answer.display = answer'.display
                     /\ Comparable(answer, answer') =>
                    answer = answer'
               /\ answer'.kind = "number" =>
                    answer'.type.scope = "INTERNAL" /\ answer'.year \in 2000..2100
    <2>1. answer.kind = "document" /\ answer'.kind = "document"
            /\ answer.hash = answer'.hash =>
           answer.file = answer'.file /\ answer.shown = answer'.shown
      BY <1>1 DEF AnswerOK, DocumentOK
    <2>2. ASSUME answer.kind = "number", answer'.kind = "number",
                 answer.display = answer'.display, Comparable(answer, answer')
          PROVE  answer = answer'
      <3>1. PICK t \in Types, b \in Branches, y \in 2000..2100, n \in Correlative :
              answer = Numbered(t, b, y, n)
        BY <1>1, <2>2 DEF AnswerOK, NumberOK
      <3>2. PICK u \in Types, c \in Branches, z \in 2000..2100, k \in Correlative :
              answer' = Numbered(u, c, z, k)
        BY <1>1, <2>2 DEF AnswerOK, NumberOK
      <3>3. QED
        BY <2>2, <3>1, <3>2, NumbersIdentified
    <2>3. ASSUME answer'.kind = "number"
          PROVE  answer'.type.scope = "INTERNAL" /\ answer'.year \in 2000..2100
      <3>1. PICK u \in Types, c \in Branches, z \in 2000..2100, k \in Correlative :
              answer' = Numbered(u, c, z, k) /\ u.scope = "INTERNAL"
        BY <1>1, <2>3 DEF AnswerOK, NumberOK
      <3>2. QED
        BY <3>1 DEF Numbered
    <2>4. QED
      BY <2>1, <2>2, <2>3
  <1>2. AnswerOK(answer) /\ AnswerOK(answer)' =>
          [/\ answer.kind = "document" /\ answer'.kind = "document"
                 /\ answer.hash = answer'.hash =>
                answer.file = answer'.file /\ answer.shown = answer'.shown
           /\ answer.kind = "number" /\ answer'.kind = "number"
                 /\ answer.display = answer'.display
                 /\ Comparable(answer, answer') =>
                answer = answer'
           /\ answer'.kind = "number" =>
                answer'.type.scope = "INTERNAL" /\ answer'.year \in 2000..2100]_answer
    BY <1>1
  <1>3. QED
    BY <1>2, AnswersOK, PTL DEF OutputsAreIdentified
=============================================================================
