--------------------------- MODULE DGCPCompliance ---------------------------
(***************************************************************************)
(* The pure part of the DGCP bid package: the compliance engine, the       *)
(* status mappings and the classification of the "real" expediente.        *)
(*                                                                         *)
(* A requirement is a member of Reqs with a Kind that stands for its key:  *)
(*   "vigencia"   certificacion_tss, certificacion_dgii, ... : a document  *)
(*                with an expiry date that is checked                      *)
(*   "simple"     a corporate document without expiry check                *)
(*   "sncc"       an SNCC form                                             *)
(*   "economica"  oferta_economica                                         *)
(*   "entregable" the other deliverables (oferta_tecnica, ...)             *)
(* Documents are abstracted to what the code tests of them: an item has a  *)
(* corporate document or not (doc), points to a process document row or    *)
(* not (proc) and carries an Odoo quotation id or not (odoo).              *)
(***************************************************************************)
EXTENDS Integers, FiniteSets

CONSTANTS Reqs,       \* requirements that an analysis may extract
          Mandatory,  \* those extracted with mandatory = True
          Kind,       \* the kind of each requirement
          DocIds,     \* ids of process document rows
          NoDoc       \* process_document_id is None

Kinds == {"vigencia", "simple", "sncc", "economica", "entregable"}

ASSUME ReqsAssumption ==
  /\ IsFiniteSet(Reqs)
  /\ Mandatory \subseteq Reqs
  /\ Kind \in [Reqs -> Kinds]

ASSUME DocIdsAssumption == NoDoc \notin DocIds

-----------------------------------------------------------------------------
(* Status sets *)

CompliantStatuses == {"encontrado_vigente", "validado_manual", "no_aplica",
                      "adjuntado", "finalizado", "pdf_final_generado"}
FaltanteStatuses  == {"faltante", "pendiente"}
VencidoStatuses   == {"encontrado_vencido", "vencido"}
ReviewStatuses    == {"requiere_revision", "encontrado_sin_fecha",
                      "requiere_actualizacion", "encontrado_sin_analizar"}
CompleteStatuses  == {"requiere_completado", "plantilla_disponible",
                      "completar", "incompleto"}
ManualStatuses    == {"validado_manual", "encontrado_vencido",
                      "requiere_revision", "no_aplica"}

(* The statuses that normalize_status returns unchanged. *)
Normalized == {"encontrado_vigente", "encontrado_vencido",
  "encontrado_sin_fecha", "encontrado_sin_analizar", "faltante",
  "requiere_completado", "requiere_revision", "validado_manual", "no_aplica",
  "adjuntado", "borrador_pendiente", "cotizacion_encontrada",
  "pdf_descargado", "generado", "pendiente_firma", "pendiente_sello",
  "firmado", "sellado", "pdf_final_generado", "finalizado"}

Deliverable(r)          == Kind[r] \in {"economica", "entregable"}
RequiresFinalization(r) == Kind[r] \in {"sncc", "economica", "entregable"}
RequiresVigency(r)      == Kind[r] = "vigencia"

-----------------------------------------------------------------------------
(* Checklist items *)

Item == [status     : Normalized \cup {"absent"},
         doc        : BOOLEAN,
         proc       : DocIds \cup {NoDoc},
         odoo       : BOOLEAN,
         manual     : ManualStatuses \cup {"none"},
         evidence   : BOOLEAN,
         noAplica   : BOOLEAN]

(* A requirement that the checklist does not list; build_checklist_item    *)
(* reads the same of it as of an item without document or validation.      *)
NoItem == [status |-> "absent", doc |-> FALSE, proc |-> NoDoc,
           odoo |-> FALSE, manual |-> "none", evidence |-> FALSE,
           noAplica |-> FALSE]

Checklists        == [Reqs -> Item]
EmptyChecklist    == [r \in Reqs |-> NoItem]
Listed(checklist) == {r \in Reqs : checklist[r].status # "absent"}

HasDocumentEvidence(item) == item.doc \/ item.proc # NoDoc \/ item.odoo

(* What the matcher answers for a requirement: nothing, or a document with *)
(* the status that the validity analysis or the template rule gave it.     *)
Match == [status : Normalized, doc : BOOLEAN]

Found(r) ==
  IF RequiresFinalization(r)
  THEN {"requiere_completado"}
  ELSE {"encontrado_vigente", "encontrado_vencido", "requiere_revision",
        "encontrado_sin_analizar", "requiere_completado"}
         \cup {st \in {"encontrado_sin_fecha"} : RequiresVigency(r)}

MatchResults(r) ==
  {[status |-> "faltante", doc |-> FALSE]}
    \cup {[status |-> st, doc |-> TRUE] : st \in Found(r)}

(* vigency is the match's vigency_status, "none" when it has none. *)
NormalizeStatus(r, raw, vigency, noAplica) ==
  IF noAplica THEN "no_aplica"
  ELSE IF raw \in Normalized THEN raw
  ELSE IF raw \in FaltanteStatuses THEN "faltante"
  ELSE IF raw \in CompleteStatuses THEN "requiere_completado"
  ELSE IF raw \in VencidoStatuses THEN "encontrado_vencido"
  ELSE IF raw \in ReviewStatuses \cup {"validado"} THEN "requiere_revision"
  ELSE IF raw # "encontrado" THEN "faltante"
  ELSE IF ~RequiresVigency(r) THEN "encontrado_vigente"
  ELSE CASE vigency = "vencido" -> "encontrado_vencido"
         [] vigency = "vigente" -> "encontrado_vigente"
         [] vigency \in {"none", "sin_fecha", "sin_fecha_detectada",
                         "no_aplica_vigencia"} -> "encontrado_sin_fecha"
         [] OTHER -> "requiere_revision"

EnforceEvidence(r, status, hasDoc, evidence) ==
  CASE status = "no_aplica" -> status
    [] status = "validado_manual" ->
         IF hasDoc \/ evidence THEN status ELSE "faltante"
    [] status \notin {"no_aplica", "validado_manual"} ->
         IF status \in CompliantStatuses /\ ~hasDoc THEN "faltante"
         ELSE IF Deliverable(r) /\ status = "encontrado_vigente"
              THEN "requiere_completado"
         ELSE status

(* A regression of BuildItem: a fulfilled status is carried over as well. *)
BuildItemKeepingStatus(r, m, prev) ==
  LET raw    == IF prev.manual # "none" THEN prev.manual
                ELSE IF prev.status \in CompliantStatuses THEN prev.status
                ELSE NormalizeStatus(r, m.status, "none", prev.noAplica)
      status == EnforceEvidence(r, raw, m.doc \/ HasDocumentEvidence(prev),
                                prev.evidence)
  IN  [status |-> status, doc |-> m.doc, proc |-> NoDoc, odoo |-> FALSE,
       manual |-> prev.manual, evidence |-> prev.evidence,
       noAplica |-> prev.noAplica]

(* A regression of BuildItem: what the matcher finds clears the decision. *)
BuildItemForgettingManual(r, m, prev) ==
  [status |-> NormalizeStatus(r, m.status, "none", prev.noAplica),
   doc |-> m.doc, proc |-> NoDoc, odoo |-> FALSE,
   manual |-> IF m.doc THEN "none" ELSE prev.manual,
   evidence |-> prev.evidence, noAplica |-> prev.noAplica]

BuildItem(r, m, prev) ==
  LET raw    == IF prev.manual # "none" THEN prev.manual
                ELSE NormalizeStatus(r, m.status, "none", prev.noAplica)
      status == EnforceEvidence(r, raw, m.doc \/ HasDocumentEvidence(prev),
                                prev.evidence)
  IN  [status   |-> status,
       doc      |-> m.doc,
       proc     |-> NoDoc,
       odoo     |-> FALSE,
       manual   |-> prev.manual,
       evidence |-> prev.evidence,
       noAplica |-> prev.noAplica \/ status = "no_aplica"]

BuildChecklist(extracted, matches, existing) ==
  [r \in Reqs |-> IF r \in extracted
                  THEN BuildItem(r, matches[r], existing[r]) ELSE NoItem]

-----------------------------------------------------------------------------
(* Preparation percentage and expediente status *)

MandatoryIn(checklist) == Listed(checklist) \cap Mandatory

CountsAsCompliant(item) ==
  /\ item.status \in CompliantStatuses
  /\ item.status = "no_aplica" \/ HasDocumentEvidence(item)

Blocking(item) ==
  item.status \in {"faltante", "encontrado_vencido", "requiere_completado",
                   "requiere_revision", "encontrado_sin_fecha",
                   "encontrado_sin_analizar"}

(* round: the integer nearest to n/d, the even one of two.                 *)
RoundHalfEven(n, d) ==
  LET q     == n \div d
      twice == 2 * (n - q * d)
  IN  IF twice > d \/ (twice = d /\ q % 2 = 1) THEN q + 1 ELSE q

(* preparation_pct in tenths of a percent.  The code divides in floating   *)
(* point; from 80 mandatory items on some ties then go the other way.      *)
PreparationPct(checklist) ==
  LET mand  == MandatoryIn(checklist)
      ok    == {r \in mand : CountsAsCompliant(checklist[r])}
      total == IF mand = {} THEN 1 ELSE Cardinality(mand)
      pct   == RoundHalfEven(1000 * Cardinality(ok), total)
      block == \E r \in Listed(checklist) : Blocking(checklist[r])
  IN  IF mand # {} /\ block /\ pct > 999 THEN 999 ELSE pct

ComputeExpedienteStatus(checklist, pct) ==
  LET statuses == {checklist[r].status : r \in MandatoryIn(checklist)}
  IN  IF statuses = {} THEN "sin_preparar"
      ELSE IF statuses \subseteq CompliantStatuses /\ pct >= 999
           THEN "expediente_listo_para_revision"
      ELSE IF statuses \cap VencidoStatuses # {}
           THEN "expediente_con_documentos_vencidos"
      ELSE IF statuses \cap CompleteStatuses # {}
           THEN "expediente_en_preparacion"
      ELSE IF statuses \cap (FaltanteStatuses \cup ReviewStatuses) # {}
           THEN "expediente_incompleto"
      ELSE IF pct >= 700 THEN "expediente_incompleto"
      ELSE "expediente_en_preparacion"

CanMarkReadyForReview(checklist) ==
  /\ MandatoryIn(checklist) # {}
  /\ \A r \in MandatoryIn(checklist) :
       checklist[r].status \in CompliantStatuses

-----------------------------------------------------------------------------
(* The real expediente: statuses and classification *)

RealStatuses == {"sin_generar", "generado_incompleto",
  "generado_con_observaciones", "listo_para_revision", "listo_para_subir",
  "paquete_dgcp_preparado", "descargado", "requiere_actualizacion"}

ExpedienteForReal(real) ==
  CASE real = "sin_generar"                -> "sin_preparar"
    [] real = "generado_incompleto"        -> "expediente_incompleto"
    [] real = "generado_con_observaciones" ->
         "expediente_con_documentos_vencidos"
    [] real = "listo_para_revision" -> "expediente_listo_para_revision"
    [] real \in {"listo_para_subir", "paquete_dgcp_preparado", "descargado"} ->
         "expediente_listo_para_presentar"
    [] OTHER -> "expediente_en_preparacion"

OperationalStage(real) ==
  CASE real = "generado_incompleto" -> "PENDIENTE_DOCUMENTOS"
    [] real = "listo_para_revision" -> "EXPEDIENTE_LISTO"
    [] real = "listo_para_subir"    -> "LISTA_PARA_PRESENTAR"
    [] real \in {"paquete_dgcp_preparado", "descargado"} ->
         "PAQUETE_DGCP_PREPARADO"
    [] OTHER -> "PENDIENTE_REVISION"

(* What _resolve_file yields: nothing, a PDF, or an editable document. *)
Files == {"none", "pdf", "docx"}

IsReadyForUpload(r, status, file) ==
  /\ status \notin FaltanteStatuses \cup {"borrador_pendiente"}
  /\ status \notin VencidoStatuses \cup ReviewStatuses \cup CompleteStatuses
  /\ RequiresFinalization(r) =>
       /\ status \in {"finalizado", "pdf_final_generado", "validado_manual"}
       /\ file # "docx"
  /\ file # "none"
  /\ r \in Mandatory => status \in CompliantStatuses

Missing(checklist, files) ==
  {r \in MandatoryIn(checklist) :
     /\ files[r] = "none"
     /\ checklist[r].status \in FaltanteStatuses \cup {"borrador_pendiente"}}

Expired(checklist, files) ==
  {r \in Listed(checklist) : checklist[r].status \in VencidoStatuses}

ReadyToUpload(checklist, files) ==
  {r \in Listed(checklist) :
     IsReadyForUpload(r, checklist[r].status, files[r])}

RequiresReview(checklist, files) ==
  {r \in Listed(checklist) \ (Missing(checklist, files)
                              \cup ReadyToUpload(checklist, files)) :
     files[r] # "none" \/ r \in Mandatory}

(* The status that generate computes (it passes neither marked_* flag). *)
ComputeRealStatus(checklist, files) ==
  LET total == Cardinality(MandatoryIn(checklist))
  IN  IF total = 0 \/ Missing(checklist, files) # {}
      THEN "generado_incompleto"
      ELSE IF Expired(checklist, files) # {}
                \/ RequiresReview(checklist, files) # {}
      THEN "generado_con_observaciones"
      ELSE IF Cardinality(ReadyToUpload(checklist, files)) >= total
      THEN "listo_para_revision"
      ELSE "generado_incompleto"

(* can_prepare_package of validate_package: no critical error. *)
CanPreparePackage(checklist) ==
  /\ \A r \in MandatoryIn(checklist) :
       checklist[r].status \notin FaltanteStatuses \cup {"borrador_pendiente"}
  /\ \A r \in Listed(checklist) :
       Kind[r] = "economica" =>
         \/ checklist[r].status \in {"finalizado", "pdf_final_generado",
                                     "validado_manual", "adjuntado"}
         \/ checklist[r].proc # NoDoc
=============================================================================
