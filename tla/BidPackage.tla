----------------------------- MODULE BidPackage -----------------------------
(***************************************************************************)
(* One DGCP opportunity and its row of dgcp_bid_packages, under concurrent *)
(* HTTP requests (Sessions).  Every request has its own database session:  *)
(* it loads the opportunity and the row, computes in memory, and commits.  *)
(* No row is locked and no version is checked, so a commit writes, over    *)
(* whatever is there by then, the columns that differ from what was loaded *)
(* (Flush).  A failed request rolls back (Abort).                          *)
(*                                                                         *)
(* Tasks and drafts that some of these handlers also write are rows of     *)
(* other tables, which no handler here reads; of document_matches only the *)
(* files that they name count; notes and generated_forms are left out: see *)
(* the README.                                                             *)
(***************************************************************************)
EXTENDS DGCPCompliance, Sequences

CONSTANTS Sessions,    \* concurrent requests
          Ops,         \* the operations that requests may ask for
          Extractions, \* the requirement sets that an analysis may extract
          Targets,     \* opportunity statuses that users may set
          Outcomes     \* statuses that the matcher may answer with a document

ASSUME ExtractionsAssumption == Extractions \subseteq SUBSET Reqs

OppStatuses == {"detected", "to_review", "interested", "to_bid",
                "discarded", "won", "lost"}

ASSUME TargetsAssumption == Targets \subseteq OppStatuses

OperationalInterest == {"interested", "to_bid", "won", "lost"}
ExpedienteTracking  == {"to_bid", "won", "lost"}

ExpedienteStatuses == {"sin_preparar", "expediente_listo_para_revision",
  "expediente_con_documentos_vencidos", "expediente_en_preparacion",
  "expediente_incompleto", "expediente_listo_para_presentar"}

Stages == {"none"} \cup {OperationalStage(st) : st \in RealStatuses}

Row == [exists     : BOOLEAN,
        checklist  : Checklists,
        matched    : SUBSET Reqs,  \* document_matches names a file for them
        bid        : [pct : 0..1000, stage : Stages],
        exp        : ExpedienteStatuses,  \* expediente_status
        expPath    : BOOLEAN,             \* expediente_path is set
        real       : RealStatuses,        \* real_expediente_status
        realPath   : BOOLEAN,             \* real_expediente_path is set
        manifest   : [missing : SUBSET Reqs, status : RealStatuses]]

(* No row yet; its columns are those a new row starts with. *)
NoRow == [exists    |-> FALSE,
          checklist |-> EmptyChecklist,
          matched   |-> {},
          bid       |-> [pct |-> 0, stage |-> "none"],
          exp       |-> "sin_preparar",
          expPath   |-> FALSE,
          real      |-> "sin_generar",
          realPath  |-> FALSE,
          manifest  |-> [missing |-> {}, status |-> "sin_generar"]]

VARIABLES
  opp,       \* status of the opportunity
  row,       \* the committed bid package row
  procDocs,  \* committed process document rows that hold evidence
  finals,    \* requirements with a finalization record
  uploaded,  \* requirements for which an upload request stored a file
  sess,      \* the requests
  tracked    \* history: the opportunity has been in ExpedienteTracking

vars == <<opp, row, procDocs, finals, uploaded, sess, tracked>>

Idle == [pc |-> "idle", opp |-> "detected", row |-> NoRow]

Pcs == {"idle", "loaded", "ingested", "registered", "matched",
        "finalizing", "generated"}

Request == [pc : Pcs, opp : OppStatuses, row : Row]

TypeOK ==
  /\ opp \in OppStatuses
  /\ row \in Row
  /\ procDocs \in SUBSET DocIds
  /\ finals \in SUBSET Reqs
  /\ uploaded \in SUBSET Reqs
  /\ sess \in [Sessions -> Request]
  /\ tracked \in BOOLEAN

Init ==
  /\ opp = "detected"
  /\ row = NoRow
  /\ procDocs = {}
  /\ finals = {}
  /\ uploaded = {}
  /\ sess = [s \in Sessions |-> Idle]
  /\ tracked = FALSE

-----------------------------------------------------------------------------
(* The unit of work *)

Column(forced, new, loaded, current) ==
  IF forced \/ new # loaded THEN new ELSE current

(* What a commit leaves in the row: the columns assigned a value that      *)
(* differs from the loaded one.  fresh names the columns whose new value   *)
(* always differs, because it holds a new timestamp, uuid or list.         *)
Flush(current, loaded, new, fresh) ==
  [exists    |-> TRUE,
   checklist |-> Column("checklist" \in fresh, new.checklist,
                        loaded.checklist, current.checklist),
   matched   |-> Column("matched" \in fresh, new.matched, loaded.matched,
                        current.matched),
   bid       |-> Column("bid" \in fresh, new.bid, loaded.bid, current.bid),
   exp       |-> Column(FALSE, new.exp, loaded.exp, current.exp),
   expPath   |-> Column(FALSE, new.expPath, loaded.expPath, current.expPath),
   real      |-> Column(FALSE, new.real, loaded.real, current.real),
   realPath  |-> Column(FALSE, new.realPath, loaded.realPath,
                        current.realPath),
   manifest  |-> Column("manifest" \in fresh, new.manifest,
                        loaded.manifest, current.manifest)]

Enter(s, pc, loadedOpp, loadedRow) ==
  sess' = [sess EXCEPT ![s] = [pc |-> pc, opp |-> loadedOpp,
                               row |-> loadedRow]]

End(s) == sess' = [sess EXCEPT ![s] = Idle]

Loaded(s)   == sess[s].row
Interest(s) == sess[s].opp \in OperationalInterest

(* The request s may run op on an analyzed opportunity. *)
Serves(s, op) ==
  /\ op \in Ops
  /\ sess[s].pc = "loaded"
  /\ Loaded(s).exists

Commit(s, new, fresh) ==
  /\ row' = Flush(row, Loaded(s), new, fresh)
  /\ End(s)

TrackingActive(oppStatus, pkg) ==
  pkg.expPath \/ oppStatus \in ExpedienteTracking

(* A regression: expediente_status is computed whatever the opportunity. *)
UntrackedExpedienteStatus(oppStatus, pkg, checklist) ==
  IF pkg.expPath THEN pkg.exp
  ELSE ComputeExpedienteStatus(checklist, PreparationPct(checklist))

(* A regression: a status once computed is never computed again. *)
StickyExpedienteStatus(oppStatus, pkg, checklist) ==
  IF ~TrackingActive(oppStatus, pkg) THEN "sin_preparar"
  ELSE IF pkg.expPath \/ pkg.exp # "sin_preparar" THEN pkg.exp
  ELSE ComputeExpedienteStatus(checklist, PreparationPct(checklist))

EffectiveExpedienteStatus(oppStatus, pkg, checklist) ==
  IF ~TrackingActive(oppStatus, pkg) THEN "sin_preparar"
  ELSE IF pkg.expPath THEN pkg.exp
  ELSE ComputeExpedienteStatus(checklist, PreparationPct(checklist))

BuildBid(checklist) == [pct |-> PreparationPct(checklist), stage |-> "none"]

(* A regression of Recalculated: bid_package is left as it was. *)
RecalculatedWithoutBid(oppStatus, pkg, checklist) ==
  [pkg EXCEPT !.exists    = TRUE,
              !.checklist = checklist,
              !.exp       = EffectiveExpedienteStatus(oppStatus, pkg,
                                                      checklist)]

(* Checklist, bid_package and expediente_status after a change of items. *)
Recalculated(oppStatus, pkg, checklist) ==
  [pkg EXCEPT !.exists    = TRUE,
              !.checklist = checklist,
              !.bid       = BuildBid(checklist),
              !.exp       = EffectiveExpedienteStatus(oppStatus, pkg,
                                                      checklist)]

(* A regression of SyncOperationalState: the manifest keeps its status. *)
SyncStatusOnly(pkg, real) ==
  [pkg EXCEPT !.real = real, !.exp = ExpedienteForReal(real),
              !.bid.stage = OperationalStage(real)]

(* _sync_operational_state: every copy of the real status in the row. *)
SyncOperationalState(pkg, real) ==
  [pkg EXCEPT !.real            = real,
              !.exp             = ExpedienteForReal(real),
              !.bid.stage       = OperationalStage(real),
              !.manifest.status = real]

(* document_matches names files for found. *)
Matching(pkg, found) == [pkg EXCEPT !.matched = found]
AlsoMatching(pkg, found) == Matching(pkg, pkg.matched \cup found)

MarkStaleIfGenerated(pkg) ==
  IF pkg.realPath /\ pkg.real \notin {"sin_generar", "requiere_actualizacion"}
  THEN SyncOperationalState(pkg, "requiere_actualizacion")
  ELSE pkg

FreshDocs == {d \in DocIds : /\ d \notin procDocs
                             /\ \A r \in Listed(row.checklist) :
                                  row.checklist[r].proc # d
                             /\ \A s \in Sessions :
                                  \A r \in Listed(Loaded(s).checklist) :
                                    Loaded(s).checklist[r].proc # d}

-----------------------------------------------------------------------------
(* Requests *)

Load(s) ==
  /\ sess[s].pc = "idle"
  /\ Enter(s, "loaded", opp, row)
  /\ UNCHANGED <<opp, row, procDocs, finals, uploaded, tracked>>

(* A precondition fails, an exception is raised, the process dies, or a    *)
(* batch of finalizations ends.                                            *)
Abort(s) ==
  /\ sess[s].pc # "idle"
  /\ End(s)
  /\ UNCHANGED <<opp, row, procDocs, finals, uploaded, tracked>>

(* Only a status that differs from the loaded one is written. *)
WriteStatus(s, to) ==
  /\ opp' = Column(FALSE, to, sess[s].opp, opp)
  /\ tracked' = (tracked \/ opp' \in ExpedienteTracking)

(* PATCH of the status, and every action of the user but licitar. *)
SetStatus(s, to) ==
  /\ "status" \in Ops /\ sess[s].pc = "loaded"
  /\ WriteStatus(s, to)
  /\ End(s)
  /\ UNCHANGED <<row, procDocs, finals, uploaded>>

(* licitar: the status, and activate_expediente_tracking when analyzed. *)
Licitar(s) ==
  /\ "status" \in Ops /\ sess[s].pc = "loaded"
  /\ WriteStatus(s, "to_bid")
  /\ IF Loaded(s).exists
     THEN Commit(s, [Loaded(s) EXCEPT !.exp = ComputeExpedienteStatus(
                       Loaded(s).checklist, Loaded(s).bid.pct)], {})
     ELSE End(s) /\ UNCHANGED row
  /\ UNCHANGED <<procDocs, finals, uploaded>>

-----------------------------------------------------------------------------
(* analyze: two commits of the ingestion, the second of references that    *)
(* hold no evidence, then the row                                          *)

AnalyzeIngest(s) ==
  /\ "analyze" \in Ops /\ sess[s].pc = "loaded" /\ Interest(s)
  /\ procDocs' = {}
  /\ Enter(s, "ingested", sess[s].opp, NoRow)
  /\ UNCHANGED <<opp, row, finals, uploaded, tracked>>

AnalyzeRegister(s) ==
  /\ sess[s].pc = "ingested"
  /\ Enter(s, "registered", sess[s].opp, NoRow)
  /\ UNCHANGED <<opp, row, procDocs, finals, uploaded, tracked>>

AnalyzeMatch(s) ==
  /\ sess[s].pc = "registered"
  /\ Enter(s, "matched", sess[s].opp, row)
  /\ UNCHANGED <<opp, row, procDocs, finals, uploaded, tracked>>

(* _persist_analysis.  When the row has appeared since it was looked for,  *)
(* the insert fails on the unique index and the winner is overwritten.     *)
PersistAnalysis(current, loaded, new) ==
  IF ~current.exists THEN new
  ELSE IF loaded.exists THEN Flush(current, loaded, new, {"bid"})
  ELSE [current EXCEPT !.checklist = new.checklist,
                       !.matched   = new.matched,
                       !.bid       = new.bid,
                       !.exp       = new.exp]

AnalyzePersist(s) ==
  /\ sess[s].pc = "matched"
  /\ \E extracted \in Extractions :
     \E matches \in [extracted -> UNION {MatchResults(r) : r \in Reqs}] :
       /\ \A r \in extracted :
            /\ matches[r] \in MatchResults(r)
            /\ matches[r].doc => matches[r].status \in Outcomes
       /\ LET checklist == BuildChecklist(extracted, matches,
                                          Loaded(s).checklist)
              found == {r \in extracted : matches[r].doc}
          IN  row' = PersistAnalysis(row, Loaded(s),
                       Recalculated(sess[s].opp, Matching(Loaded(s), found),
                                    checklist))
  /\ End(s)
  /\ UNCHANGED <<opp, procDocs, finals, uploaded, tracked>>

-----------------------------------------------------------------------------
(* Handlers that change one item of the checklist *)

(* apply_manual_validation; evidence: a text is given. *)
Validate(s, r, status, evidence) ==
  /\ Serves(s, "validate") /\ Interest(s)
  /\ r \in Listed(Loaded(s).checklist)
  /\ status = "validado_manual" =>
       HasDocumentEvidence(Loaded(s).checklist[r]) \/ evidence
  /\ Commit(s, Recalculated(sess[s].opp, Loaded(s),
                 [Loaded(s).checklist EXCEPT ![r] =
                    [@ EXCEPT !.status = status, !.manual = status,
                              !.evidence = evidence]]),
            {"checklist", "matched"})
  /\ UNCHANGED <<opp, procDocs, finals, uploaded, tracked>>

(* add_checklist_note, which also notes it in document_matches, or the     *)
(* task_id that create_checklist_task stores.                              *)
RewriteChecklist(s, columns) ==
  /\ Serves(s, "note") /\ Interest(s)
  /\ Commit(s, Loaded(s), columns)
  /\ UNCHANGED <<opp, procDocs, finals, uploaded, tracked>>

(* A regression: the status of a template as the matcher names it. *)
AssociatedTemplateStatus(r, template, proc) ==
  IF Kind[r] = "economica" /\ proc # NoDoc THEN "adjuntado"
  ELSE IF template THEN "plantilla_disponible"
  ELSE IF Kind[r] = "sncc" THEN "requiere_completado"
  ELSE "encontrado_vigente"

AssociatedStatus(r, template, proc) ==
  IF Kind[r] = "economica" /\ proc # NoDoc THEN "adjuntado"
  ELSE IF Kind[r] = "sncc" \/ template THEN "requiere_completado"
  ELSE "encontrado_vigente"

(* associate_checklist_document with a corporate document, one of folder   *)
(* 02_ when template, and perhaps a live process document too.             *)
Associate(s, r, template, proc) ==
  /\ Serves(s, "associate") /\ Interest(s)
  /\ r \in Listed(Loaded(s).checklist)
  /\ proc \in procDocs \cup {NoDoc}
  /\ Commit(s, MarkStaleIfGenerated(
                 Recalculated(sess[s].opp, AlsoMatching(Loaded(s), {r}),
                   [Loaded(s).checklist EXCEPT ![r] =
                      [@ EXCEPT !.status   = AssociatedStatus(r, template, proc),
                                !.doc      = TRUE,
                                !.proc     = proc,
                                !.manual   = "none",
                                !.evidence = FALSE]])),
            {})
  /\ UNCHANGED <<opp, procDocs, finals, uploaded, tracked>>

(* upload_checklist_document: the file is stored and a row is added, but   *)
(* the association is then asked for with a process document only, which   *)
(* it refuses: the row is rolled back and the file stays.                  *)
Upload(s, r) ==
  /\ Serves(s, "upload") /\ Interest(s)
  /\ r \in Listed(Loaded(s).checklist)
  /\ uploaded' = uploaded \cup {r}
  /\ End(s)
  /\ UNCHANGED <<opp, row, procDocs, finals, tracked>>

(* attach_odoo_quotation: d is the row of the downloaded PDF; the item may *)
(* be any one that the request names, the match is that of the offer.      *)
AttachQuotation(s, r, d) ==
  /\ Serves(s, "attach") /\ Interest(s)
  /\ r \in Listed(Loaded(s).checklist)
  /\ d \in FreshDocs
  /\ procDocs' = procDocs \cup {d}
  /\ Commit(s, Recalculated(sess[s].opp,
                 AlsoMatching(Loaded(s), {q \in Reqs : Kind[q] = "economica"}),
                 [Loaded(s).checklist EXCEPT ![r] =
                    [@ EXCEPT !.status = "adjuntado", !.proc = d,
                              !.odoo = TRUE]]),
            {"checklist", "matched"})
  /\ UNCHANGED <<opp, finals, uploaded, tracked>>

(* The package part of create_draft_task; expediente_status is not touched. *)
CreateDraftTask(s, r) ==
  /\ Serves(s, "draft") /\ Interest(s)
  /\ r \in Listed(Loaded(s).checklist)
  /\ LET item == Loaded(s).checklist[r]
         checklist ==
           [Loaded(s).checklist EXCEPT ![r].status =
              IF item.status = "faltante" THEN "borrador_pendiente" ELSE @]
     IN  Commit(s, [Loaded(s) EXCEPT !.checklist = checklist,
                                     !.bid = BuildBid(checklist)],
                {"checklist"})
  /\ UNCHANGED <<opp, procDocs, finals, uploaded, tracked>>

HasSource(item) == item.doc \/ item.proc # NoDoc

(* generate_final for the requirement k, on its own or for each item of    *)
(* generate_all_ready; the batch goes on with the objects of its session,  *)
(* which are not reloaded.  A request that names an item finalizes that    *)
(* one, whatever its requirement.                                          *)
Finalize(s, k, r, d, batch) ==
  /\ "finalize" \in Ops /\ Loaded(s).exists /\ Interest(s)
  /\ sess[s].pc = "finalizing" => batch
  /\ sess[s].pc \in {"loaded", "finalizing"}
  /\ r \in Listed(Loaded(s).checklist)
  /\ RequiresFinalization(k)
  /\ batch => /\ k = r
              /\ HasSource(Loaded(s).checklist[r])
              /\ Loaded(s).checklist[r].status \notin
                   {"finalizado", "pdf_final_generado", "no_aplica"}
  /\ d \in FreshDocs
  /\ procDocs' = procDocs \cup {d}
  /\ finals' = finals \cup {k}
  /\ LET new == Recalculated(sess[s].opp, AlsoMatching(Loaded(s), {k}),
                  [Loaded(s).checklist EXCEPT ![r] =
                     [@ EXCEPT !.status = "finalizado", !.proc = d]])
     IN  /\ row' = Flush(row, Loaded(s), new, {"checklist", "matched"})
         /\ IF batch THEN Enter(s, "finalizing", sess[s].opp, new) ELSE End(s)
  /\ UNCHANGED <<opp, uploaded, tracked>>

(* apply_user_input: covered are the forms that the merged input covers. *)
UserInput(s, covered) ==
  /\ Serves(s, "input")
  /\ Commit(s, Recalculated(sess[s].opp, Loaded(s),
                 [r \in Reqs |->
                    LET item == Loaded(s).checklist[r]
                    IN  IF r \in covered /\ item.status = "requiere_completado"
                        THEN [item EXCEPT !.status = "requiere_revision"]
                        ELSE item]),
            {})
  /\ UNCHANGED <<opp, procDocs, finals, uploaded, tracked>>

-----------------------------------------------------------------------------
(* The prepared expediente *)

(* prepare_expediente: "ready" is left to an explicit mark. *)
PrepareExpediente(s) ==
  /\ Serves(s, "prepare")
  /\ sess[s].opp \in ExpedienteTracking
  /\ LET st == ComputeExpedienteStatus(Loaded(s).checklist, Loaded(s).bid.pct)
     IN  Commit(s, [Loaded(s) EXCEPT
                      !.expPath = TRUE,
                      !.exp = IF st = "expediente_listo_para_revision"
                              THEN "expediente_incompleto" ELSE st], {})
  /\ UNCHANGED <<opp, procDocs, finals, uploaded, tracked>>

MarkReadyForReview(s) ==
  /\ Serves(s, "ready")
  /\ Loaded(s).expPath
  /\ CanMarkReadyForReview(Loaded(s).checklist)
  /\ Commit(s, [Loaded(s) EXCEPT !.exp = "expediente_listo_para_revision"], {})
  /\ UNCHANGED <<opp, procDocs, finals, uploaded, tracked>>

-----------------------------------------------------------------------------
(* The real expediente *)

(* Files that _resolve_file may find: the PDF of a finalization, the file  *)
(* of the process document, the one that document_matches names.  Any of   *)
(* them may be gone.                                                       *)
ResolvedFiles(pkg) ==
  {f \in [Reqs -> Files] :
     \A r \in Reqs :
       LET named == pkg.checklist[r].proc # NoDoc \/ r \in pkg.matched
       IN  /\ f[r] = "docx" => named
           /\ f[r] = "pdf"  => named \/ r \in finals}

Generated(pkg, files) ==
  SyncOperationalState(
    [pkg EXCEPT !.realPath = TRUE,
                !.manifest.missing = Missing(pkg.checklist, files)],
    ComputeRealStatus(pkg.checklist, files))

(* generate *)
Generate(s) ==
  /\ Serves(s, "generate") /\ Interest(s)
  /\ \E files \in ResolvedFiles(Loaded(s)) :
       row' = Flush(row, Loaded(s), Generated(Loaded(s), files), {"manifest"})
  /\ End(s)
  /\ UNCHANGED <<opp, procDocs, finals, uploaded, tracked>>

(* prepare_submission_package: validate, generate and commit ... *)
PrepareSubmission(s) ==
  /\ Serves(s, "submission") /\ Interest(s)
  /\ CanPreparePackage(Loaded(s).checklist)
  /\ \E files \in ResolvedFiles(Loaded(s)) :
       LET new == Generated(Loaded(s), files)
       IN  /\ row' = Flush(row, Loaded(s), new, {"manifest"})
           /\ Enter(s, "generated", sess[s].opp, new)
  /\ UNCHANGED <<opp, procDocs, finals, uploaded, tracked>>

(* ... then copy the package and commit again. *)
FinishSubmission(s) ==
  /\ sess[s].pc = "generated"
  /\ Commit(s, SyncOperationalState(Loaded(s), "paquete_dgcp_preparado"),
            {"manifest"})
  /\ UNCHANGED <<opp, procDocs, finals, uploaded, tracked>>

MarkReadyReview(s) ==
  /\ Serves(s, "real_review") /\ Interest(s)
  /\ Loaded(s).realPath
  /\ Commit(s, SyncOperationalState(Loaded(s), "listo_para_revision"), {})
  /\ UNCHANGED <<opp, procDocs, finals, uploaded, tracked>>

MarkReadyUpload(s) ==
  /\ Serves(s, "real_upload") /\ Interest(s)
  /\ Loaded(s).realPath
  /\ Loaded(s).manifest.missing = {}
  /\ Commit(s, SyncOperationalState(Loaded(s), "listo_para_subir"), {})
  /\ UNCHANGED <<opp, procDocs, finals, uploaded, tracked>>

(* log_download of the zip or of the report (which is built even when no   *)
(* expediente was generated); the manifest gets the time.                  *)
LogDownload(s) ==
  /\ Serves(s, "download") /\ Interest(s)
  /\ Commit(s, IF Loaded(s).real = "paquete_dgcp_preparado"
               THEN SyncOperationalState(Loaded(s), "descargado")
               ELSE Loaded(s), {"manifest"})
  /\ UNCHANGED <<opp, procDocs, finals, uploaded, tracked>>

-----------------------------------------------------------------------------

ItemStep(s, r) ==
  \/ \E status \in ManualStatuses, evidence \in BOOLEAN :
       Validate(s, r, status, evidence)
  \/ \E template \in BOOLEAN, proc \in procDocs \cup {NoDoc} :
       Associate(s, r, template, proc)
  \/ Upload(s, r)
  \/ \E d \in DocIds : AttachQuotation(s, r, d)
  \/ CreateDraftTask(s, r)
  \/ \E k \in Reqs, d \in DocIds, batch \in BOOLEAN :
       Finalize(s, k, r, d, batch)

AnalyzeStep(s) ==
  AnalyzeIngest(s) \/ AnalyzeRegister(s) \/ AnalyzeMatch(s)
    \/ AnalyzePersist(s)

PreparedStep(s) == PrepareExpediente(s) \/ MarkReadyForReview(s)

RealStep(s) ==
  \/ Generate(s) \/ PrepareSubmission(s) \/ FinishSubmission(s)
  \/ MarkReadyReview(s) \/ MarkReadyUpload(s) \/ LogDownload(s)

Next ==
  \E s \in Sessions :
    \/ Load(s) \/ Abort(s)
    \/ \E to \in Targets : SetStatus(s, to)
    \/ Licitar(s)
    \/ AnalyzeStep(s)
    \/ \E r \in Reqs : ItemStep(s, r)
    \/ \E columns \in {{"checklist"}, {"checklist", "matched"}} :
         RewriteChecklist(s, columns)
    \/ \E covered \in SUBSET {r \in Reqs : Kind[r] = "sncc"} :
         UserInput(s, covered)
    \/ PreparedStep(s)
    \/ RealStep(s)

Spec == Init /\ [][Next]_vars

-----------------------------------------------------------------------------
(* Properties *)

(* No item counts as fulfilled by a document that it does not have: only   *)
(* no_aplica and a manual validation may stand without one.  It binds the  *)
(* matcher, the carry-over of enforce_evidence_rules on re-analysis, and   *)
(* every handler that rewrites an item.                                    *)
DocumentBacked(item) ==
  item.status \in CompliantStatuses \ {"no_aplica", "validado_manual"} =>
    HasDocumentEvidence(item)

CompliantNeedsDocument ==
  \A r \in Listed(row.checklist) : DocumentBacked(row.checklist[r])

(* The row tells the truth about its checklist, whatever order of handlers *)
(* produced it: preparation_pct is that of the checklist, and without an   *)
(* explicit mark (no prepared folder, no real expediente) it is ready for  *)
(* review only while every mandatory item is compliant.                    *)
SummaryIsTrue ==
  /\ row.exists => row.bid.pct = PreparationPct(row.checklist)
  /\ row.exp = "expediente_listo_para_revision" /\ ~row.expPath /\ ~row.realPath
       => CanMarkReadyForReview(row.checklist)

(* The row tells the truth about the real expediente: the manifest has its *)
(* status, it is shown as ready to present only if it is, and nothing is   *)
(* ready to upload while the manifest lists a missing requirement          *)
(* (mark_ready_upload), whatever is regenerated or downloaded in between.  *)
RealStatusIsTrue ==
  /\ row.realPath => row.manifest.status = row.real
  /\ row.exp = "expediente_listo_para_presentar" =>
       row.real \in {"listo_para_subir", "paquete_dgcp_preparado", "descargado"}
  /\ row.real = "listo_para_subir" => row.manifest.missing = {}

(* Until somebody chose Licitar or generated the real expediente, analyses *)
(* and validations leave expediente_status at sin_preparar.                *)
SinPrepararUntilTracked ==
  ~tracked /\ ~row.realPath => row.exp = "sin_preparar"

(* A new analysis keeps every manual validation of a requirement that it   *)
(* extracts again.                                                         *)
ManualSurvivesAnalysis ==
  [][\A s \in Sessions : sess[s].pc = "matched" /\ sess'[s].pc = "idle" =>
       \A r \in Listed(row.checklist) \cap Listed(row'.checklist) :
         row'.checklist[r].manual = row.checklist[r].manual]_vars

Atomic == INSTANCE Expediente WITH
  analyzed <- row.exists, checklist <- row.checklist, shown <- row.exp,
  prepared <- row.expPath, real <- row.real, missing <- row.manifest.missing

(* One request at a time, every handler acts at once on the bid of the     *)
(* abstract specification Expediente: nothing depends on the copies of     *)
(* percentage and status that the row keeps, nor on commits in between.    *)
HandlersAreAtomic == Atomic!Spec

-----------------------------------------------------------------------------
(* What the docs, comments and tests say and the code does not do *)

(* A fulfilled item has a document or an evidence text
   (dgcp_compliance_engine.py, enforce_evidence_rules). *)
CompliantNeedsEvidence ==
  \A r \in Listed(row.checklist) :
    LET item == row.checklist[r]
    IN  item.status \in CompliantStatuses \ {"no_aplica"} =>
          HasDocumentEvidence(item) \/ item.evidence

(* The process documents that the checklist points to exist. *)
LinkedDocumentsExist ==
  \A r \in Listed(row.checklist) :
    row.checklist[r].proc \in procDocs \cup {NoDoc}

(* A manual validation changes the item that it validates and no other. *)
ValidateTouchesOnlyItsItem ==
  [][\A s \in Sessions, r \in Reqs, st \in ManualStatuses, ev \in BOOLEAN :
       Validate(s, r, st, ev) =>
         \A q \in Listed(row.checklist) \ {r} :
           row'.checklist[q] = row.checklist[q]]_vars

(* When documents change after an expediente was generated it is marked as *)
(* stale.                                                                  *)
StaleIsMarked ==
  [][row.realPath /\ (\E r \in Reqs :
         \/ row'.checklist[r].doc  # row.checklist[r].doc
         \/ row'.checklist[r].proc # row.checklist[r].proc)
       => row'.real = "requiere_actualizacion"]_vars

(* The document of an upload request becomes evidence of its requirement. *)
UploadsAreLinked ==
  \A r \in uploaded \cap Listed(row.checklist) :
    HasDocumentEvidence(row.checklist[r])
=============================================================================
