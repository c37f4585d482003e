------------------------------ MODULE Expediente ------------------------------
(***************************************************************************)
(* What a bid promises to its user: every request acts at once, on a bid   *)
(* that is as the last request left it.  There is one checklist and one    *)
(* status of the real expediente; percentages, stages and the copy of the  *)
(* status in the manifest are functions of them and have no place here.    *)
(***************************************************************************)
EXTENDS DGCPCompliance

VARIABLES
  opp,        \* status of the opportunity
  analyzed,   \* there is a bid
  checklist,
  shown,      \* expediente_status
  prepared,   \* a folder was prepared by hand
  real,       \* status of the real expediente
  missing     \* what the last generation found missing

bid == <<opp, analyzed, checklist, shown, prepared, real, missing>>

Init ==
  /\ opp = "detected" /\ ~analyzed
  /\ checklist = EmptyChecklist /\ shown = "sin_preparar"
  /\ ~prepared /\ real = "sin_generar" /\ missing = {}

Tracked   == opp \in {"to_bid", "won", "lost"}
Wanted    == opp = "interested" \/ Tracked
Generated == real # "sin_generar"

Current(c) == ComputeExpedienteStatus(c, PreparationPct(c))

(* What is shown once the checklist is c. *)
Revised(c) ==
  IF prepared THEN shown ELSE IF Tracked THEN Current(c) ELSE "sin_preparar"

-----------------------------------------------------------------------------
(* Decisions about the opportunity *)

Decide(to) ==
  opp' = to /\ UNCHANGED <<analyzed, checklist, shown, prepared, real, missing>>

(* Whoever chooses to bid sees the status that the checklist earns. *)
Licitar ==
  /\ opp' = "to_bid"
  /\ shown' = IF analyzed THEN Current(checklist) ELSE shown
  /\ UNCHANGED <<analyzed, checklist, prepared, real, missing>>

-----------------------------------------------------------------------------
(* The checklist *)

(* No item is fulfilled without a document, except by decision. *)
Supported(item) ==
  item.status \in CompliantStatuses \ {"no_aplica", "validado_manual"} =>
    HasDocumentEvidence(item)

(* A new list of requirements, under the decisions made so far. *)
Analyze ==
  /\ Wanted
  /\ checklist' \in Checklists
  /\ \A r \in Listed(checklist') :
       LET old == checklist[r]
           new == checklist'[r]
       IN  /\ Supported(new) /\ new.proc = NoDoc /\ ~new.odoo
           /\ new.manual = old.manual /\ new.evidence = old.evidence
           /\ old.noAplica => new.noAplica
  /\ analyzed' = TRUE /\ shown' = Revised(checklist')
  /\ UNCHANGED <<opp, prepared, real, missing>>

(* One item changes.  Its evidence stays, and a decision about it is made, *)
(* kept, or withdrawn in favour of a document.                             *)
ItemChanges(r) ==
  LET old == checklist[r]
      new == checklist'[r]
  IN  /\ Wanted /\ analyzed /\ r \in Listed(checklist)
      /\ checklist' \in Checklists /\ r \in Listed(checklist')
      /\ \A q \in Reqs \ {r} : checklist'[q] = checklist[q]
      /\ HasDocumentEvidence(old) => HasDocumentEvidence(new)
      /\ \/ new.manual \in {old.manual, new.status}
         \/ new.manual = "none" /\ new.doc
      /\ new.noAplica = old.noAplica
      /\ Supported(old) => Supported(new)
      /\ UNCHANGED <<opp, analyzed, prepared, missing>>

Reach(status) == real' = status /\ shown' = ExpedienteForReal(status)

Edit(r) ==
  ItemChanges(r) /\ shown' = Revised(checklist') /\ UNCHANGED real

(* The files of an expediente that was generated are not its documents     *)
(* any more.                                                               *)
Associate(r) ==
  /\ ItemChanges(r) /\ checklist'[r].doc
  /\ Generated /\ real # "requiere_actualizacion"
  /\ Reach("requiere_actualizacion")

(* The draft of what is missing changes nothing that is shown. *)
Draft(r) ==
  /\ ItemChanges(r)
  /\ checklist[r].status = "faltante"
  /\ checklist'[r] = [checklist[r] EXCEPT !.status = "borrador_pendiente"]
  /\ UNCHANGED <<shown, real>>

(* Forms that are filled in wait to be reviewed. *)
FillIn ==
  /\ analyzed /\ checklist' \in Checklists
  /\ \A r \in Reqs :
       \/ checklist'[r] = checklist[r]
       \/ /\ checklist[r].status = "requiere_completado"
          /\ checklist'[r] = [checklist[r] EXCEPT !.status = "requiere_revision"]
  /\ shown' = Revised(checklist')
  /\ UNCHANGED <<opp, analyzed, prepared, real, missing>>

-----------------------------------------------------------------------------
(* The expediente *)

(* "Ready" is left to an explicit mark. *)
Prepare ==
  /\ analyzed /\ Tracked /\ prepared' = TRUE
  /\ shown' = IF Current(checklist) = "expediente_listo_para_revision"
                THEN "expediente_incompleto" ELSE Current(checklist)
  /\ UNCHANGED <<opp, analyzed, checklist, real, missing>>

MarkReady ==
  /\ prepared /\ CanMarkReadyForReview(checklist)
  /\ shown' = "expediente_listo_para_revision"
  /\ UNCHANGED <<opp, analyzed, checklist, prepared, real, missing>>

(* Whatever files are found by then. *)
Generate ==
  /\ Wanted /\ analyzed
  /\ \E files \in [Reqs -> Files] :
       /\ missing' = Missing(checklist, files)
       /\ Reach(ComputeRealStatus(checklist, files))
  /\ UNCHANGED <<opp, analyzed, checklist, prepared>>

(* The user moves the expediente on: ready to upload with nothing missing, *)
(* packed without critical errors, downloaded when packed.                 *)
MoveOn ==
  /\ Wanted /\ Generated
  /\ \/ Reach("listo_para_revision")
     \/ missing = {} /\ Reach("listo_para_subir")
     \/ CanPreparePackage(checklist) /\ Reach("paquete_dgcp_preparado")
     \/ real = "paquete_dgcp_preparado" /\ Reach("descargado")
  /\ UNCHANGED <<opp, analyzed, checklist, prepared, missing>>

-----------------------------------------------------------------------------

Next ==
  \/ \E to \in {"detected", "to_review", "interested", "to_bid", "discarded",
                "won", "lost"} : Decide(to)
  \/ Licitar \/ Analyze \/ FillIn
  \/ \E r \in Reqs : Edit(r) \/ Associate(r) \/ Draft(r)
  \/ Prepare \/ MarkReady \/ Generate \/ MoveOn

Spec == Init /\ [][Next]_bid
=============================================================================
