-------------------------- MODULE BidPackageProofs --------------------------
(***************************************************************************)
(* Proofs about BidPackage, for any requirements, documents, requests,     *)
(* operations and matcher answers: what holds under any overlap, what holds*)
(* one request at a time, that the bid package then implements Expediente, *)
(* and what the rules say of a checklist, whoever made it.                 *)
(***************************************************************************)
EXTENDS BidPackage, FiniteSetTheorems, TLAPS

-----------------------------------------------------------------------------
(* The pure operators return values of the right type *)

(* Whatever the matcher answers has a status that needs no translation. *)
LEMMA BuildItemMatch ==
  ASSUME NEW r \in Reqs, NEW m \in MatchResults(r)
  PROVE  m.status \in Normalized /\ m.doc \in BOOLEAN
<1>1. Found(r) \subseteq Normalized
  BY DEF Found, Normalized
<1>2. CASE m = [status |-> "faltante", doc |-> FALSE]
  BY <1>2 DEF Normalized
<1>3. CASE \E st0 \in Found(r) : m = [status |-> st0, doc |-> TRUE]
  BY <1>1, <1>3
<1>4. QED  BY <1>2, <1>3 DEF MatchResults

(* A rebuilt item is an item, whatever was there before. *)
LEMMA BuildItemType ==
  ASSUME NEW r \in Reqs, NEW m \in MatchResults(r), NEW prev \in Item
  PROVE  BuildItem(r, m, prev) \in Item /\ BuildItem(r, m, prev).proc = NoDoc
<1> DEFINE raw == IF prev.manual # "none" THEN prev.manual
                  ELSE NormalizeStatus(r, m.status, "none", prev.noAplica)
           st == EnforceEvidence(r, raw, m.doc \/ HasDocumentEvidence(prev),
                                 prev.evidence)
<1>1. m.status \in Normalized /\ m.doc \in BOOLEAN
  BY BuildItemMatch
<1>2. prev.manual \in ManualStatuses \cup {"none"} /\ prev.evidence \in BOOLEAN
        /\ prev.noAplica \in BOOLEAN
  BY DEF Item
<1>3. raw \in Normalized
  BY <1>1, <1>2 DEF NormalizeStatus, ManualStatuses, Normalized
<1>4. st \in Normalized
  <2> HIDE DEF raw
  <2>1. QED  BY <1>3 DEF EnforceEvidence, Normalized
<1> HIDE DEF st
<1>5. BuildItem(r, m, prev) =
        [status |-> st, doc |-> m.doc, proc |-> NoDoc, odoo |-> FALSE,
         manual |-> prev.manual, evidence |-> prev.evidence,
         noAplica |-> prev.noAplica \/ st = "no_aplica"]
  BY DEF BuildItem, st
<1>6. QED  BY <1>1, <1>2, <1>4, <1>5 DEF Item

(* Rounding moves a ratio by at most a half. *)
LEMMA HalfEven ==
  ASSUME NEW n \in Nat, NEW d \in Nat, d > 0
  PROVE  /\ RoundHalfEven(n, d) \in Nat
         /\ 2 * (d * RoundHalfEven(n, d)) <= 2 * n + d
         /\ 2 * n - d <= 2 * (d * RoundHalfEven(n, d))
<1> DEFINE q == n \div d
           rest == n - q * d
<1>1. q \in Nat /\ d * q <= n /\ n < d * q + d
  OBVIOUS
<1>2. d * q \in Nat /\ q * d = d * q  BY <1>1
<1>3. d * (q + 1) = d * q + d  BY <1>1
<1>4. rest = n - d * q  BY <1>2
<1>5. RoundHalfEven(n, d) = IF 2 * rest > d \/ (2 * rest = d /\ q % 2 = 1)
                            THEN q + 1 ELSE q
  BY DEF RoundHalfEven
<1>6. CASE 2 * rest > d \/ (2 * rest = d /\ q % 2 = 1)
  <2>1. RoundHalfEven(n, d) = q + 1  BY <1>5, <1>6
  <2>2. rest \in Int /\ 2 * rest >= d  BY <1>6, <1>1, <1>2, <1>4
  <2> HIDE DEF rest, q
  <2>3. QED  BY <1>1, <1>2, <1>3, <1>4, <2>1, <2>2
<1>7. CASE ~(2 * rest > d \/ (2 * rest = d /\ q % 2 = 1))
  <2>1. RoundHalfEven(n, d) = q  BY <1>5, <1>7
  <2>2. rest \in Int /\ 2 * rest <= d  BY <1>7, <1>1, <1>2, <1>4
  <2> HIDE DEF rest, q
  <2>3. QED  BY <1>1, <1>2, <1>4, <2>1, <2>2
<1>8. QED  BY <1>6, <1>7

(* A ratio not above one, in tenths of a percent. *)
LEMMA RatioType ==
  ASSUME NEW k \in Nat, NEW t \in Nat, t > 0, k <= t
  PROVE  RoundHalfEven(1000 * k, t) \in 0..1000
<1> DEFINE R == RoundHalfEven(1000 * k, t)
<1>1. R \in Nat /\ 2 * (t * R) <= 2001 * t
  <2>1. R \in Nat /\ 2 * (t * R) <= 2 * (1000 * k) + t  BY HalfEven
  <2> HIDE DEF R
  <2>2. QED  BY <2>1
<1> HIDE DEF R
<1>2. ASSUME R >= 1001 PROVE FALSE
  <2>1. t * R >= t * 1001  BY <1>1, <1>2
  <2>2. QED  BY <1>1, <2>1
<1>3. QED  BY <1>1, <1>2 DEF R

(* The percentage, in tenths, lies between 0 and 1000. *)
LEMMA PctType ==
  ASSUME NEW c \in Checklists
  PROVE  PreparationPct(c) \in 0..1000
<1> DEFINE mand == MandatoryIn(c)
           ok   == {r \in mand : CountsAsCompliant(c[r])}
           k    == Cardinality(ok)
           t    == IF mand = {} THEN 1 ELSE Cardinality(mand)
<1>1. IsFiniteSet(mand)
  BY ReqsAssumption, FS_Subset DEF MandatoryIn, Listed
<1>2. ok \subseteq mand
  OBVIOUS
<1>3. IsFiniteSet(ok) /\ k \in Nat /\ Cardinality(mand) \in Nat
      /\ k <= Cardinality(mand)
  BY <1>1, <1>2, FS_Subset, FS_CardinalityType
<1>4. t \in Nat /\ t > 0 /\ k <= t
  <2>1. CASE mand = {}
    <3>1. ok = {}  BY <2>1
    <3>2. QED  BY <3>1, <2>1, FS_EmptySet
  <2>2. CASE mand # {}
    <3>1. Cardinality(mand) # 0  BY <1>1, <2>2, FS_EmptySet
    <3>2. QED  BY <3>1, <2>2, <1>3
  <2>3. QED  BY <2>1, <2>2
<1> HIDE DEF k, t
<1>5. RoundHalfEven(1000 * k, t) \in 0..1000
  <2>1. k \in Nat  BY <1>3 DEF k
  <2>2. QED  BY <1>4, <2>1, RatioType
<1>6. PreparationPct(c) \in {RoundHalfEven(1000 * k, t), 999}
  BY DEF PreparationPct, k, t
<1>7. QED  BY <1>5, <1>6

LEMMA ExpedienteStatusType ==
  ASSUME NEW c, NEW pct
  PROVE  ComputeExpedienteStatus(c, pct) \in ExpedienteStatuses
  BY DEF ComputeExpedienteStatus, ExpedienteStatuses

LEMMA RowTypes ==
  /\ NoRow \in Row
  /\ \A real \in RealStatuses : /\ OperationalStage(real) \in Stages
                               /\ ExpedienteForReal(real) \in ExpedienteStatuses
<1>1. NoItem \in Item  BY DEF NoItem, Item
<1>2. EmptyChecklist \in Checklists
  BY <1>1 DEF EmptyChecklist, Checklists
<1>3. NoRow \in Row
  BY <1>2 DEF NoRow, Row, ExpedienteStatuses, Stages, RealStatuses
<1>4. \A real \in RealStatuses : ExpedienteForReal(real) \in ExpedienteStatuses
  BY DEF ExpedienteForReal, ExpedienteStatuses
<1>5. QED  BY <1>3, <1>4 DEF Stages

(* A commit writes each column as loaded, computed or found. *)
LEMMA FlushType ==
  ASSUME NEW current \in Row, NEW loaded \in Row, NEW new \in Row, NEW fresh
  PROVE  Flush(current, loaded, new, fresh) \in Row
  BY DEF Flush, Column, Row

LEMMA EffectiveType ==
  ASSUME NEW o, NEW pkg \in Row, NEW c
  PROVE  EffectiveExpedienteStatus(o, pkg, c) \in ExpedienteStatuses
<1>1. pkg.exp \in ExpedienteStatuses  BY DEF Row
<1>2. QED
  BY <1>1, ExpedienteStatusType DEF EffectiveExpedienteStatus, ExpedienteStatuses

LEMMA RecalculatedType ==
  ASSUME NEW o, NEW pkg \in Row, NEW c \in Checklists
  PROVE  Recalculated(o, pkg, c) \in Row
<1>1. BuildBid(c) \in [pct : 0..1000, stage : Stages]
  BY PctType DEF BuildBid, Stages
<1>2. EffectiveExpedienteStatus(o, pkg, c) \in ExpedienteStatuses
  BY EffectiveType
<1>3. QED  BY <1>1, <1>2, ZenonT(60) DEF Recalculated, Row

(* The files of document_matches, which only a generation reads. *)
SameButFiles(x, y) ==
  /\ x.exists = y.exists /\ x.checklist = y.checklist /\ x.bid = y.bid
  /\ x.exp = y.exp /\ x.expPath = y.expPath
  /\ x.real = y.real /\ x.realPath = y.realPath /\ x.manifest = y.manifest

LEMMA SameSelf == \A x : SameButFiles(x, x)
  BY DEF SameButFiles

LEMMA MatchingSame ==
  ASSUME NEW pkg \in Row, NEW found \in SUBSET Reqs
  PROVE  /\ Matching(pkg, found) \in Row
         /\ SameButFiles(Matching(pkg, found), pkg)
<1>1. Matching(pkg, found) \in Row  BY ZenonT(60) DEF Matching, Row
<1>2. SameButFiles(Matching(pkg, found), pkg)
  BY DEF Matching, SameButFiles, Row
<1>3. QED  BY <1>1, <1>2

LEMMA AlsoMatchingSame ==
  ASSUME NEW pkg \in Row, NEW found \in SUBSET Reqs
  PROVE  /\ AlsoMatching(pkg, found) \in Row
         /\ SameButFiles(AlsoMatching(pkg, found), pkg)
<1>1. pkg.matched \cup found \in SUBSET Reqs  BY DEF Row
<1>2. QED  BY <1>1, MatchingSame DEF AlsoMatching

(* The matches of the economic offers. *)
Offers == {q \in Reqs : Kind[q] = "economica"}

LEMMA SyncType ==
  ASSUME NEW pkg \in Row, NEW real \in RealStatuses
  PROVE  SyncOperationalState(pkg, real) \in Row
<1>1. OperationalStage(real) \in Stages
      /\ ExpedienteForReal(real) \in ExpedienteStatuses
  BY RowTypes
<1>2. QED  BY <1>1, ZenonT(60) DEF SyncOperationalState, Row

LEMMA StaleType ==
  ASSUME NEW pkg \in Row
  PROVE  MarkStaleIfGenerated(pkg) \in Row
  BY SyncType DEF MarkStaleIfGenerated, RealStatuses

LEMMA GeneratedType ==
  ASSUME NEW pkg \in Row, NEW files
  PROVE  Generated(pkg, files) \in Row
<1>1. Missing(pkg.checklist, files) \in SUBSET Reqs
  BY DEF Missing, MandatoryIn, Listed
<1>2. ComputeRealStatus(pkg.checklist, files) \in RealStatuses
  BY DEF ComputeRealStatus, RealStatuses
<1> DEFINE with == [pkg EXCEPT !.realPath = TRUE,
                               !.manifest.missing = Missing(pkg.checklist, files)]
<1>3. with \in Row  BY <1>1, ZenonT(60) DEF Row
<1>4. QED  BY <1>2, <1>3, SyncType DEF Generated

LEMMA BuildChecklistType ==
  ASSUME NEW extracted \in SUBSET Reqs, NEW matches,
         \A r \in extracted : matches[r] \in MatchResults(r),
         NEW existing \in Checklists
  PROVE  BuildChecklist(extracted, matches, existing) \in Checklists
<1>1. NoItem \in Item  BY DEF NoItem, Item
<1>2. \A r \in extracted : BuildItem(r, matches[r], existing[r]) \in Item
  BY BuildItemType DEF Checklists
<1>3. QED  BY <1>1, <1>2 DEF BuildChecklist, Checklists

LEMMA PersistType ==
  ASSUME NEW current \in Row, NEW loaded \in Row, NEW new \in Row
  PROVE  PersistAnalysis(current, loaded, new) \in Row
<1>0. current.exists \in BOOLEAN /\ loaded.exists \in BOOLEAN  BY DEF Row
<1>1. CASE ~current.exists  BY <1>1 DEF PersistAnalysis
<1>2. CASE current.exists /\ loaded.exists
  BY <1>2, FlushType DEF PersistAnalysis
<1>3. CASE current.exists /\ ~loaded.exists
  <2> DEFINE won == [current EXCEPT !.checklist = new.checklist,
                                    !.matched = new.matched,
                                    !.bid = new.bid, !.exp = new.exp]
  <2>1. new.checklist \in Checklists /\ new.bid \in [pct : 0..1000, stage : Stages]
        /\ new.exp \in ExpedienteStatuses /\ new.matched \in SUBSET Reqs
    BY DEF Row
  <2>2. won \in Row  BY <2>1, ZenonT(60) DEF Row
  <2>3. QED  BY <1>3, <2>2 DEF PersistAnalysis
<1>4. QED  BY <1>0, <1>1, <1>2, <1>3

-----------------------------------------------------------------------------
(* The inductive invariant: every checklist, stored or held by a request,  *)
(* is backed by documents.  The snapshots are needed because a request     *)
(* writes back the checklist that it loaded, however old.                  *)

BackedChecklists == {c \in Checklists : \A r \in Reqs : DocumentBacked(c[r])}
BackedRow        == {x \in Row : x.checklist \in BackedChecklists}

Backed ==
  /\ TypeOK
  /\ row \in BackedRow
  /\ \A s \in Sessions : sess[s].row \in BackedRow

(* enforce_evidence_rules keeps a fulfilled status only for a document that *)
(* the rebuilt item still has, or for a manual decision.                    *)
LEMMA BuildItemBacked ==
  ASSUME NEW r \in Reqs, NEW m \in MatchResults(r), NEW prev \in Item
  PROVE  DocumentBacked(BuildItem(r, m, prev))
<1> DEFINE raw == IF prev.manual # "none" THEN prev.manual
                  ELSE NormalizeStatus(r, m.status, "none", prev.noAplica)
           st == EnforceEvidence(r, raw, m.doc \/ HasDocumentEvidence(prev),
                                 prev.evidence)
           exempt == {"no_aplica", "validado_manual"}
<1>1. m.status \in CompliantStatuses => m.doc
  <2>1. CASE m = [status |-> "faltante", doc |-> FALSE]
    BY <2>1 DEF CompliantStatuses
  <2>2. CASE \E st0 \in Found(r) : m = [status |-> st0, doc |-> TRUE]
    BY <2>2
  <2>3. QED  BY <2>1, <2>2 DEF MatchResults
<1>2. m.status \in Normalized
  BY BuildItemMatch
<1>3. raw \in CompliantStatuses \ exempt => m.doc
  <2>1. prev.manual \in ManualStatuses \cup {"none"}  BY DEF Item
  <2>2. CASE prev.manual # "none"
    BY <2>1, <2>2 DEF ManualStatuses, CompliantStatuses
  <2>3. CASE prev.manual = "none" /\ prev.noAplica
    BY <2>3 DEF NormalizeStatus
  <2>4. CASE prev.manual = "none" /\ ~prev.noAplica
    BY <2>4, <1>1, <1>2 DEF NormalizeStatus
  <2>5. QED  BY <2>2, <2>3, <2>4
<1>4. st \in CompliantStatuses \ exempt => st = raw
  <2> HIDE DEF raw
  <2>1. QED  BY DEF EnforceEvidence, CompliantStatuses
<1> HIDE DEF raw, st
<1>5. BuildItem(r, m, prev).status = st /\ BuildItem(r, m, prev).doc = m.doc
  BY DEF BuildItem, raw, st
<1>6. QED  BY <1>3, <1>4, <1>5 DEF DocumentBacked, HasDocumentEvidence

LEMMA BuildChecklistBacked ==
  ASSUME NEW extracted \in SUBSET Reqs, NEW matches,
         \A r \in extracted : matches[r] \in MatchResults(r),
         NEW existing \in Checklists
  PROVE  BuildChecklist(extracted, matches, existing) \in BackedChecklists
<1> DEFINE c == BuildChecklist(extracted, matches, existing)
<1>1. c \in Checklists  BY BuildChecklistType
<1>2. ASSUME NEW r \in Reqs PROVE DocumentBacked(c[r])
  <2>1. CASE r \in extracted
    <3>1. c[r] = BuildItem(r, matches[r], existing[r])
      BY <2>1 DEF BuildChecklist
    <3>2. existing[r] \in Item  BY DEF Checklists
    <3>3. QED  BY <2>1, <3>1, <3>2, BuildItemBacked
  <2>2. CASE r \notin extracted
    BY <2>2 DEF BuildChecklist, NoItem, DocumentBacked, CompliantStatuses
  <2>3. QED  BY <2>1, <2>2
<1>3. QED  BY <1>1, <1>2 DEF BackedChecklists

LEMMA FlushBacked ==
  ASSUME NEW current \in BackedRow, NEW loaded \in Row, NEW new \in BackedRow,
         NEW fresh
  PROVE  Flush(current, loaded, new, fresh) \in BackedRow
<1>1. Flush(current, loaded, new, fresh) \in Row
  BY FlushType DEF BackedRow
<1>2. Flush(current, loaded, new, fresh).checklist
        \in {current.checklist, new.checklist}
  BY DEF Flush, Column
<1>3. QED  BY <1>1, <1>2 DEF BackedRow

LEMMA RecalculatedBacked ==
  ASSUME NEW o, NEW pkg \in Row, NEW c \in BackedChecklists
  PROVE  Recalculated(o, pkg, c) \in BackedRow
<1>1. Recalculated(o, pkg, c) \in Row
  BY RecalculatedType DEF BackedChecklists
<1>2. Recalculated(o, pkg, c).checklist = c
  BY DEF Recalculated, Row
<1>3. QED  BY <1>1, <1>2 DEF BackedRow

LEMMA SyncBacked ==
  ASSUME NEW pkg \in BackedRow, NEW real \in RealStatuses
  PROVE  SyncOperationalState(pkg, real) \in BackedRow
<1>1. SyncOperationalState(pkg, real) \in Row
  BY SyncType DEF BackedRow
<1>2. SyncOperationalState(pkg, real).checklist = pkg.checklist
  BY DEF SyncOperationalState, BackedRow, Row
<1>3. QED  BY <1>1, <1>2 DEF BackedRow

LEMMA StaleBacked ==
  ASSUME NEW pkg \in BackedRow
  PROVE  MarkStaleIfGenerated(pkg) \in BackedRow
  BY SyncBacked DEF MarkStaleIfGenerated, RealStatuses

LEMMA GeneratedBacked ==
  ASSUME NEW pkg \in BackedRow, NEW files
  PROVE  Generated(pkg, files) \in BackedRow
<1>1. Generated(pkg, files) \in Row
  BY GeneratedType DEF BackedRow
<1>2. Generated(pkg, files).checklist = pkg.checklist
  BY DEF Generated, SyncOperationalState, BackedRow, Row
<1>3. QED  BY <1>1, <1>2 DEF BackedRow

LEMMA PersistBacked ==
  ASSUME NEW current \in BackedRow, NEW loaded \in Row, NEW new \in BackedRow
  PROVE  PersistAnalysis(current, loaded, new) \in BackedRow
<1>0. current.exists \in BOOLEAN /\ loaded.exists \in BOOLEAN
  BY DEF BackedRow, Row
<1>1. CASE ~current.exists  BY <1>1 DEF PersistAnalysis
<1>2. CASE current.exists /\ loaded.exists
  BY <1>2, FlushBacked DEF PersistAnalysis
<1>3. CASE current.exists /\ ~loaded.exists
  <2>1. PersistAnalysis(current, loaded, new) \in Row
    BY PersistType DEF BackedRow
  <2>2. PersistAnalysis(current, loaded, new).checklist = new.checklist
    BY <1>3 DEF PersistAnalysis, BackedRow, Row
  <2>3. QED  BY <2>1, <2>2 DEF BackedRow
<1>4. QED  BY <1>0, <1>1, <1>2, <1>3

-----------------------------------------------------------------------------
(* Every step keeps the invariant *)

LEMMA NoRowBacked == NoRow \in BackedRow /\ Idle \in Request
<1>1. NoRow \in Row /\ NoRow.checklist = EmptyChecklist
  BY RowTypes DEF NoRow
<1>2. EmptyChecklist \in BackedChecklists
  <2>1. NoItem \in Item /\ DocumentBacked(NoItem)
    BY DEF NoItem, Item, DocumentBacked, CompliantStatuses
  <2>2. QED  BY <2>1 DEF EmptyChecklist, BackedChecklists, Checklists
<1>3. QED  BY <1>1, <1>2 DEF BackedRow, Idle, Request, Pcs, OppStatuses

LEMMA SessionMoves ==
  ASSUME TypeOK, \A q \in Sessions : sess[q].row \in BackedRow,
         NEW s \in Sessions, NEW pc \in Pcs, NEW o \in OppStatuses,
         NEW x \in BackedRow, Enter(s, pc, o, x)
  PROVE  /\ sess' \in [Sessions -> Request]
         /\ \A q \in Sessions : sess'[q].row \in BackedRow
<1>1. x \in Row  BY DEF BackedRow
<1>2. [pc |-> pc, opp |-> o, row |-> x] \in Request
  BY <1>1 DEF Request
<1>3. sess \in [Sessions -> Request]  BY DEF TypeOK
<1>4. QED  BY <1>2, <1>3 DEF Enter

LEMMA SessionEnds ==
  ASSUME TypeOK, \A q \in Sessions : sess[q].row \in BackedRow,
         NEW s \in Sessions, End(s)
  PROVE  /\ sess' \in [Sessions -> Request]
         /\ \A q \in Sessions : sess'[q].row \in BackedRow
<1>2. Idle \in Request /\ Idle.row \in BackedRow
  BY NoRowBacked DEF Idle
<1>3. sess \in [Sessions -> Request]  BY DEF TypeOK
<1>4. QED  BY <1>2, <1>3 DEF End

LEMMA CommitBacked ==
  ASSUME Backed, NEW s \in Sessions, NEW new \in BackedRow, NEW fresh,
         Commit(s, new, fresh)
  PROVE  /\ row' \in BackedRow
         /\ sess' \in [Sessions -> Request]
         /\ \A q \in Sessions : sess'[q].row \in BackedRow
<1>1. Loaded(s) \in Row  BY DEF Backed, TypeOK, Request, Loaded
<1>2. Flush(row, Loaded(s), new, fresh) \in BackedRow
  BY <1>1, FlushBacked DEF Backed
<1>3. row' \in BackedRow
  BY <1>2 DEF Commit
<1>4. QED  BY <1>3, SessionEnds DEF Commit, Backed

LEMMA ChangedItem ==
  ASSUME NEW c \in BackedChecklists, NEW r \in Reqs, NEW item \in Item,
         DocumentBacked(item)
  PROVE  [c EXCEPT ![r] = item] \in BackedChecklists
  BY DEF BackedChecklists, Checklists

LEMMA BackedInit == Init => Backed
<1> SUFFICES ASSUME Init PROVE Backed
  OBVIOUS
<1>1. NoRow \in BackedRow
  BY RowTypes, ZenonT(60) DEF BackedRow, BackedChecklists, NoRow, EmptyChecklist, NoItem,
     DocumentBacked, CompliantStatuses, Row
<1>2. Idle \in Request
  BY RowTypes DEF Idle, Request, Pcs, OppStatuses
<1>3. TypeOK
  BY <1>2, RowTypes DEF Init, TypeOK, OppStatuses
<1>4. QED  BY <1>1, <1>3 DEF Init, Backed, Idle

(* The session of the request s, and the row that it loaded. *)
LEMMA LoadedType ==
  ASSUME Backed, NEW s \in Sessions
  PROVE  /\ Loaded(s) \in BackedRow
         /\ Loaded(s) \in Row
         /\ Loaded(s).checklist \in BackedChecklists
         /\ \A r \in Reqs : /\ Loaded(s).checklist[r] \in Item
                            /\ DocumentBacked(Loaded(s).checklist[r])
         /\ sess[s].opp \in OppStatuses
  BY DEF Backed, TypeOK, Request, Loaded, BackedRow, BackedChecklists, Checklists

LEMMA BackedSession ==
  ASSUME Backed, NEW s \in Sessions,
         Load(s) \/ Abort(s) \/ (\E to \in Targets : SetStatus(s, to)) \/ Licitar(s)
  PROVE  Backed'
<1> USE LoadedType
<1>1. CASE Load(s)
  <2>1. "loaded" \in Pcs /\ opp \in OppStatuses /\ row \in BackedRow
    BY DEF Backed, TypeOK, Pcs
  <2>2. sess' \in [Sessions -> Request]
        /\ \A q \in Sessions : sess'[q].row \in BackedRow
    BY <1>1, <2>1, SessionMoves DEF Load, Backed
  <2>3. QED  BY <1>1, <2>2 DEF Load, Backed, TypeOK
<1>2. CASE Abort(s)
  BY <1>2, SessionEnds DEF Abort, Backed, TypeOK
<1>3. ASSUME NEW to \in OppStatuses, WriteStatus(s, to)
      PROVE  opp' \in OppStatuses /\ tracked' \in BOOLEAN
  BY <1>3 DEF WriteStatus, Column, Backed, TypeOK
<1>4. CASE \E to \in Targets : SetStatus(s, to)
  BY <1>4, <1>3, SessionEnds, TargetsAssumption DEF SetStatus, Backed, TypeOK
<1>5. CASE Licitar(s)
  <2>1. opp' \in OppStatuses /\ tracked' \in BOOLEAN
    BY <1>5, <1>3 DEF Licitar, OppStatuses
  <2>2. CASE Loaded(s).exists
    <3> DEFINE st  == ComputeExpedienteStatus(Loaded(s).checklist,
                                              Loaded(s).bid.pct)
               new == [Loaded(s) EXCEPT !.exp = st]
    <3>1. st \in ExpedienteStatuses  BY ExpedienteStatusType
    <3>2. new \in BackedRow  BY <3>1 DEF BackedRow, Row
    <3>3. Commit(s, new, {})  BY <1>5, <2>2 DEF Licitar
    <3> HIDE DEF new
    <3>4. QED
      BY <1>5, <2>1, <3>2, <3>3, CommitBacked DEF Licitar, Backed, TypeOK,
         BackedRow
  <2>3. CASE ~Loaded(s).exists
    BY <1>5, <2>1, <2>3, SessionEnds DEF Licitar, Backed, TypeOK
  <2>4. QED  BY <2>2, <2>3
<1>6. QED  BY <1>1, <1>2, <1>4, <1>5

LEMMA BackedAnalyze ==
  ASSUME Backed, NEW s \in Sessions, AnalyzeStep(s)
  PROVE  Backed'
<1> USE LoadedType
<1>1. CASE AnalyzeIngest(s)
  <2>1. sess' \in [Sessions -> Request]
        /\ \A q \in Sessions : sess'[q].row \in BackedRow
    BY <1>1, SessionMoves, NoRowBacked DEF AnalyzeIngest, Backed, Pcs
  <2>2. QED  BY <1>1, <2>1 DEF AnalyzeIngest, Backed, TypeOK
<1>2. CASE AnalyzeRegister(s)
  <2>1. sess' \in [Sessions -> Request]
        /\ \A q \in Sessions : sess'[q].row \in BackedRow
    BY <1>2, SessionMoves, NoRowBacked DEF AnalyzeRegister, Backed, Pcs
  <2>2. QED  BY <1>2, <2>1 DEF AnalyzeRegister, Backed, TypeOK
<1>3. CASE AnalyzeMatch(s)
  <2>1. sess' \in [Sessions -> Request]
        /\ \A q \in Sessions : sess'[q].row \in BackedRow
    BY <1>3, SessionMoves DEF AnalyzeMatch, Backed, Pcs
  <2>2. QED  BY <1>3, <2>1 DEF AnalyzeMatch, Backed, TypeOK
<1>4. CASE AnalyzePersist(s)
  <2>0. PICK extracted \in Extractions : \E matches :
          /\ \A r \in extracted : matches[r] \in MatchResults(r)
          /\ row' = PersistAnalysis(row, Loaded(s),
               Recalculated(sess[s].opp,
                 Matching(Loaded(s), {r \in extracted : matches[r].doc}),
                 BuildChecklist(extracted, matches, Loaded(s).checklist)))
    BY <1>4 DEF AnalyzePersist
  <2>1. PICK matches :
          /\ \A r \in extracted : matches[r] \in MatchResults(r)
          /\ row' = PersistAnalysis(row, Loaded(s),
               Recalculated(sess[s].opp,
                 Matching(Loaded(s), {r \in extracted : matches[r].doc}),
                 BuildChecklist(extracted, matches, Loaded(s).checklist)))
    BY <2>0
  <2> DEFINE c   == BuildChecklist(extracted, matches, Loaded(s).checklist)
             pkg == Matching(Loaded(s), {r \in extracted : matches[r].doc})
             new == Recalculated(sess[s].opp, pkg, c)
  <2>a. pkg \in Row /\ SameButFiles(pkg, Loaded(s))
    BY ExtractionsAssumption, MatchingSame
  <2> HIDE DEF pkg
  <2>2. c \in BackedChecklists
    BY <2>1, BuildChecklistBacked, ExtractionsAssumption DEF BackedChecklists
  <2>3. new \in BackedRow  BY <2>a, <2>2, RecalculatedBacked
  <2> HIDE DEF new
  <2>4. PersistAnalysis(row, Loaded(s), new) \in BackedRow
    BY <2>3, PersistBacked DEF Backed
  <2>5. row' \in BackedRow
    BY <2>1, <2>4 DEF new, pkg
  <2>6. sess' \in [Sessions -> Request]
        /\ \A q \in Sessions : sess'[q].row \in BackedRow
    BY <1>4, SessionEnds DEF AnalyzePersist, Backed
  <2>7. QED
    BY <1>4, <2>5, <2>6 DEF AnalyzePersist, Backed, TypeOK, BackedRow
<1>5. QED  BY <1>1, <1>2, <1>3, <1>4 DEF AnalyzeStep

(* The step of a handler that rewrites one item of the loaded checklist. *)
LEMMA ItemRecalculated ==
  ASSUME Backed, NEW s \in Sessions, NEW pkg \in Row, NEW r \in Reqs,
         NEW item \in Item, DocumentBacked(item)
  PROVE  Recalculated(sess[s].opp, pkg,
           [Loaded(s).checklist EXCEPT ![r] = item]) \in BackedRow
  BY LoadedType, ChangedItem, RecalculatedBacked

LEMMA BackedItem ==
  ASSUME Backed, NEW s \in Sessions, NEW r \in Reqs, ItemStep(s, r)
  PROVE  Backed'
<1> DEFINE old == Loaded(s).checklist[r]
<1>0. /\ Loaded(s).checklist \in [Reqs -> Item]
      /\ old \in Item /\ DocumentBacked(old) /\ Loaded(s) \in Row
  BY LoadedType DEF BackedChecklists, Checklists
<1>1. ASSUME NEW status \in ManualStatuses, NEW evidence \in BOOLEAN,
             Validate(s, r, status, evidence)
      PROVE  Backed'
  <2> DEFINE item == [old EXCEPT !.status = status, !.manual = status,
                                 !.evidence = evidence]
             new  == Recalculated(sess[s].opp, Loaded(s),
                       [Loaded(s).checklist EXCEPT ![r] = item])
  <2>1. item \in Item
    BY <1>0 DEF Item, ManualStatuses, Normalized
  <2>2. DocumentBacked(item)
    BY <1>0 DEF DocumentBacked, ManualStatuses, CompliantStatuses, Item
  <2>3. new \in BackedRow  BY <1>0, <2>1, <2>2, ItemRecalculated
  <2>4. Commit(s, new, {"checklist", "matched"})  BY <1>1 DEF Validate
  <2> HIDE DEF new
  <2>5. QED
    BY <1>1, <2>3, <2>4, CommitBacked DEF Validate, Backed, TypeOK, BackedRow
<1>2. ASSUME NEW template \in BOOLEAN, NEW proc \in procDocs \cup {NoDoc},
             Associate(s, r, template, proc)
      PROVE  Backed'
  <2> DEFINE item == [old EXCEPT !.status = AssociatedStatus(r, template, proc),
                                 !.doc = TRUE, !.proc = proc,
                                 !.manual = "none", !.evidence = FALSE]
             pkg  == AlsoMatching(Loaded(s), {r})
             new  == MarkStaleIfGenerated(
                       Recalculated(sess[s].opp, pkg,
                         [Loaded(s).checklist EXCEPT ![r] = item]))
  <2>0. pkg \in Row  BY <1>0, AlsoMatchingSame
  <2>1. proc \in DocIds \cup {NoDoc}  BY DEF Backed, TypeOK
  <2>2. item \in Item
    BY <1>0, <2>1, ZenonT(60) DEF Item, AssociatedStatus, Normalized
  <2>3. DocumentBacked(item)
    BY <1>0 DEF DocumentBacked, HasDocumentEvidence, Item
  <2>4. new \in BackedRow
    <3> HIDE DEF item, pkg
    <3>1. QED  BY <2>0, <2>2, <2>3, ItemRecalculated, StaleBacked
  <2>5. Commit(s, new, {})  BY <1>2 DEF Associate
  <2> HIDE DEF new
  <2>6. QED
    BY <1>2, <2>4, <2>5, CommitBacked DEF Associate, Backed, TypeOK, BackedRow
<1>3. CASE Upload(s, r)
  BY <1>3, SessionEnds DEF Upload, Backed, TypeOK
<1>4. ASSUME NEW d \in DocIds, AttachQuotation(s, r, d)
      PROVE  Backed'
  <2> DEFINE item == [old EXCEPT !.status = "adjuntado", !.proc = d,
                                 !.odoo = TRUE]
             pkg  == AlsoMatching(Loaded(s), Offers)
             new  == Recalculated(sess[s].opp, pkg,
                       [Loaded(s).checklist EXCEPT ![r] = item])
  <2>0. pkg \in Row  BY <1>0, AlsoMatchingSame DEF Offers
  <2>1. item \in Item  BY <1>0 DEF Item, Normalized
  <2>2. DocumentBacked(item)
    BY <1>0 DEF DocumentBacked, HasDocumentEvidence, Item
  <2>3. new \in BackedRow
    <3> HIDE DEF item, pkg
    <3>1. QED  BY <2>0, <2>1, <2>2, ItemRecalculated
  <2>4. Commit(s, new, {"checklist", "matched"})
    BY <1>4 DEF AttachQuotation, Offers
  <2> HIDE DEF new
  <2>5. QED
    BY <1>4, <2>3, <2>4, CommitBacked DEF AttachQuotation, Backed, TypeOK,
       BackedRow
<1>5. CASE CreateDraftTask(s, r)
  <2> DEFINE item == [old EXCEPT !.status = IF old.status = "faltante"
                                            THEN "borrador_pendiente" ELSE @]
             c    == [Loaded(s).checklist EXCEPT ![r].status =
                        IF old.status = "faltante"
                        THEN "borrador_pendiente" ELSE @]
             new  == [Loaded(s) EXCEPT !.checklist = c, !.bid = BuildBid(c)]
  <2>1. c = [Loaded(s).checklist EXCEPT ![r] = item]
    BY <1>0
  <2>2. item \in Item  BY <1>0 DEF Item, Normalized
  <2>3. DocumentBacked(item)
    BY <1>0 DEF DocumentBacked, HasDocumentEvidence, CompliantStatuses, Item
  <2>4. c \in BackedChecklists
    BY <2>1, <2>2, <2>3, LoadedType, ChangedItem
  <2> HIDE DEF c
  <2>5. BuildBid(c) \in [pct : 0..1000, stage : Stages]
    BY <2>4, PctType DEF BuildBid, Stages, BackedChecklists
  <2>6. new \in BackedRow
    BY <1>0, <2>4, <2>5, ZenonT(60) DEF BackedRow, Row, BackedChecklists
  <2>7. Commit(s, new, {"checklist"})  BY <1>5 DEF CreateDraftTask, c
  <2> HIDE DEF new
  <2>8. QED
    BY <1>5, <2>6, <2>7, CommitBacked DEF CreateDraftTask, Backed, TypeOK,
       BackedRow
<1>6. ASSUME NEW k \in Reqs, NEW d \in DocIds, NEW batch \in BOOLEAN,
             Finalize(s, k, r, d, batch)
      PROVE  Backed'
  <2> DEFINE item == [old EXCEPT !.status = "finalizado", !.proc = d]
             pkg  == AlsoMatching(Loaded(s), {k})
             new  == Recalculated(sess[s].opp, pkg,
                       [Loaded(s).checklist EXCEPT ![r] = item])
  <2>0. pkg \in Row  BY <1>0, AlsoMatchingSame
  <2>1. item \in Item  BY <1>0 DEF Item, Normalized
  <2>2. DocumentBacked(item)
    BY <1>0, DocIdsAssumption DEF DocumentBacked, HasDocumentEvidence, Item
  <2>3. new \in BackedRow
    <3> HIDE DEF item, pkg
    <3>1. QED  BY <2>0, <2>1, <2>2, ItemRecalculated
  <2>4. /\ row' = Flush(row, Loaded(s), new, {"checklist", "matched"})
        /\ IF batch THEN Enter(s, "finalizing", sess[s].opp, new) ELSE End(s)
    BY <1>6 DEF Finalize
  <2> HIDE DEF new
  <2>5. row' \in BackedRow
    BY <1>0, <2>3, <2>4, FlushBacked DEF Backed
  <2>6. sess' \in [Sessions -> Request]
        /\ \A q \in Sessions : sess'[q].row \in BackedRow
    <3>1. "finalizing" \in Pcs  BY DEF Pcs
    <3>2. CASE batch
      BY <2>3, <2>4, <3>1, <3>2, SessionMoves, LoadedType DEF Backed
    <3>3. CASE ~batch
      BY <2>4, <3>3, SessionEnds DEF Backed
    <3>4. QED  BY <3>2, <3>3
  <2>7. QED
    BY <1>6, <2>5, <2>6 DEF Finalize, Backed, TypeOK, BackedRow
<1>7. QED  BY <1>1, <1>2, <1>3, <1>4, <1>5, <1>6 DEF ItemStep

LEMMA BackedWhole ==
  ASSUME Backed, NEW s \in Sessions,
         (\E columns : RewriteChecklist(s, columns))
           \/ (\E covered : UserInput(s, covered))
  PROVE  Backed'
<1>1. CASE \E columns : RewriteChecklist(s, columns)
  BY <1>1, LoadedType, CommitBacked DEF RewriteChecklist, Backed, TypeOK,
     BackedRow
<1>2. ASSUME NEW covered, UserInput(s, covered) PROVE Backed'
  <2> DEFINE old == Loaded(s).checklist
             c   == [r \in Reqs |->
                       LET item == old[r]
                       IN  IF r \in covered /\ item.status = "requiere_completado"
                           THEN [item EXCEPT !.status = "requiere_revision"]
                           ELSE item]
             new == Recalculated(sess[s].opp, Loaded(s), c)
  <2>1. ASSUME NEW r \in Reqs
        PROVE  c[r] \in Item /\ DocumentBacked(c[r])
    <3>1. old[r] \in Item /\ DocumentBacked(old[r])  BY LoadedType
    <3>2. QED  BY <3>1 DEF Item, Normalized, DocumentBacked, CompliantStatuses
  <2>2. c \in BackedChecklists  BY <2>1 DEF BackedChecklists, Checklists
  <2>3. new \in BackedRow  BY <2>2, RecalculatedBacked, LoadedType
  <2>4. Commit(s, new, {})  BY <1>2 DEF UserInput
  <2> HIDE DEF new
  <2>5. QED
    BY <1>2, <2>3, <2>4, CommitBacked DEF UserInput, Backed, TypeOK, BackedRow
<1>3. QED  BY <1>1, <1>2

LEMMA BackedPrepared ==
  ASSUME Backed, NEW s \in Sessions, PreparedStep(s)
  PROVE  Backed'
<1>1. CASE PrepareExpediente(s)
  <2> DEFINE st  == ComputeExpedienteStatus(Loaded(s).checklist,
                                            Loaded(s).bid.pct)
             exp == IF st = "expediente_listo_para_revision"
                    THEN "expediente_incompleto" ELSE st
             new == [Loaded(s) EXCEPT !.expPath = TRUE, !.exp = exp]
  <2>1. exp \in ExpedienteStatuses
    BY ExpedienteStatusType DEF ExpedienteStatuses
  <2>2. Commit(s, new, {})  BY <1>1 DEF PrepareExpediente
  <2> HIDE DEF exp
  <2>3. new \in BackedRow
    <3>1. Loaded(s) \in Row /\ Loaded(s).checklist \in BackedChecklists
      BY LoadedType
    <3>2. new \in Row  BY <2>1, <3>1, ZenonT(60) DEF Row
    <3>3. new.checklist = Loaded(s).checklist  BY <3>1 DEF Row
    <3>4. QED  BY <3>1, <3>2, <3>3 DEF BackedRow
  <2> HIDE DEF new
  <2>4. QED
    BY <1>1, <2>2, <2>3, CommitBacked DEF PrepareExpediente, Backed, TypeOK,
       BackedRow
<1>2. CASE MarkReadyForReview(s)
  <2> DEFINE new == [Loaded(s) EXCEPT !.exp = "expediente_listo_para_revision"]
  <2>1. new \in BackedRow
    BY LoadedType DEF BackedRow, Row, ExpedienteStatuses
  <2>2. Commit(s, new, {})  BY <1>2 DEF MarkReadyForReview
  <2> HIDE DEF new
  <2>3. QED
    BY <1>2, <2>1, <2>2, CommitBacked DEF MarkReadyForReview, Backed, TypeOK,
       BackedRow
<1>3. QED  BY <1>1, <1>2 DEF PreparedStep

LEMMA BackedReal ==
  ASSUME Backed, NEW s \in Sessions, RealStep(s)
  PROVE  Backed'
<1>0. Loaded(s) \in BackedRow /\ Loaded(s) \in Row  BY LoadedType
<1>1. CASE Generate(s)
  <2>1. PICK files : row' = Flush(row, Loaded(s), Generated(Loaded(s), files),
                                  {"manifest"})
    BY <1>1 DEF Generate
  <2>2. row' \in BackedRow
    BY <1>0, <2>1, FlushBacked, GeneratedBacked DEF Backed
  <2>3. sess' \in [Sessions -> Request]
        /\ \A q \in Sessions : sess'[q].row \in BackedRow
    BY <1>1, SessionEnds DEF Generate, Backed
  <2>4. QED  BY <1>1, <2>2, <2>3 DEF Generate, Backed, TypeOK, BackedRow
<1>2. CASE PrepareSubmission(s)
  <2>1. PICK files :
          LET new == Generated(Loaded(s), files)
          IN  /\ row' = Flush(row, Loaded(s), new, {"manifest"})
              /\ Enter(s, "generated", sess[s].opp, new)
    BY <1>2 DEF PrepareSubmission
  <2>2. Generated(Loaded(s), files) \in BackedRow
    BY <1>0, GeneratedBacked
  <2>3. row' \in BackedRow
    BY <1>0, <2>1, <2>2, FlushBacked DEF Backed
  <2>4. sess' \in [Sessions -> Request]
        /\ \A q \in Sessions : sess'[q].row \in BackedRow
    <3>1. "generated" \in Pcs  BY DEF Pcs
    <3>2. QED  BY <2>1, <2>2, <3>1, SessionMoves, LoadedType DEF Backed
  <2>5. QED
    BY <1>2, <2>3, <2>4 DEF PrepareSubmission, Backed, TypeOK, BackedRow
<1>3. ASSUME NEW real \in RealStatuses
      PROVE  SyncOperationalState(Loaded(s), real) \in BackedRow
  BY <1>0, SyncBacked
<1>4. CASE FinishSubmission(s)
  BY <1>3, <1>4, CommitBacked DEF FinishSubmission, Backed, TypeOK, BackedRow,
     RealStatuses
<1>5. CASE MarkReadyReview(s)
  BY <1>3, <1>5, CommitBacked DEF MarkReadyReview, Backed, TypeOK, BackedRow,
     RealStatuses
<1>6. CASE MarkReadyUpload(s)
  BY <1>3, <1>6, CommitBacked DEF MarkReadyUpload, Backed, TypeOK, BackedRow,
     RealStatuses
<1>7. CASE LogDownload(s)
  <2> DEFINE new == IF Loaded(s).real = "paquete_dgcp_preparado"
                    THEN SyncOperationalState(Loaded(s), "descargado")
                    ELSE Loaded(s)
  <2>1. new \in BackedRow  BY <1>0, <1>3 DEF RealStatuses
  <2>2. Commit(s, new, {"manifest"})  BY <1>7 DEF LogDownload
  <2> HIDE DEF new
  <2>3. QED
    BY <1>7, <2>1, <2>2, CommitBacked DEF LogDownload, Backed, TypeOK, BackedRow
<1>8. QED  BY <1>1, <1>2, <1>4, <1>5, <1>6, <1>7 DEF RealStep

(* The invariant is inductive: one lemma per group of handlers. *)
LEMMA BackedStep == Backed /\ [Next]_vars => Backed'
<1> SUFFICES ASSUME Backed, [Next]_vars PROVE Backed'
  OBVIOUS
<1>1. ASSUME NEW s \in Sessions, NEW r \in Reqs, ItemStep(s, r) PROVE Backed'
  BY <1>1, BackedItem
<1>2. CASE Next
  BY <1>1, <1>2, BackedSession, BackedAnalyze, BackedWhole, BackedPrepared,
     BackedReal DEF Next
<1>3. CASE UNCHANGED vars
  BY <1>3 DEF vars, Backed, TypeOK
<1>4. QED  BY <1>2, <1>3

(* The variables keep their types under every interleaving of requests. *)
THEOREM TypeCorrect == Spec => []TypeOK
<1>1. Backed => TypeOK  BY DEF Backed
<1>2. QED  BY <1>1, BackedInit, BackedStep, PTL DEF Spec

(* No item of the stored checklist is fulfilled by a document that it does *)
(* not have, whatever requests overlap and whatever they overwrite.        *)
THEOREM CompliantBacked == Spec => []CompliantNeedsDocument
<1>1. Backed => CompliantNeedsDocument
  BY DEF Backed, BackedRow, BackedChecklists, CompliantNeedsDocument, Listed
<1>2. QED  BY <1>1, BackedInit, BackedStep, PTL DEF Spec

-----------------------------------------------------------------------------
(* The expediente stays at sin_preparar until it is tracked.  A request    *)
(* may write columns that it loaded long ago, so the invariant speaks of   *)
(* its snapshot too, and of the path of the real expediente, which no      *)
(* commit ever clears.                                                     *)

Dormant(x) ==
  /\ ~x.expPath
  /\ ~x.realPath => x.exp = "sin_preparar" /\ x.real = "sin_generar"

Untracked(o, x) == o \notin ExpedienteTracking /\ Dormant(x)

Tracking ==
  /\ Backed
  /\ ~tracked => /\ Untracked(opp, row)
                 /\ \A s \in Sessions : Untracked(sess[s].opp, sess[s].row)
  /\ \A s \in Sessions :
       /\ sess[s].row.realPath => row.realPath
       /\ sess[s].pc = "generated" => sess[s].row.realPath
  /\ ~row.exists => ~row.realPath

LEMMA TrackingInit == Init => Tracking
<1>1. Init => Backed  BY BackedInit
<1>2. QED
  BY <1>1 DEF Init, Tracking, Untracked, Dormant, Idle, NoRow,
     ExpedienteTracking

(* A commit of a row that keeps what the invariant asks of it. *)
LEMMA FlushDormant ==
  ASSUME NEW current \in Row, NEW loaded \in Row, NEW new \in Row, NEW fresh,
         loaded.realPath => current.realPath, loaded.realPath => new.realPath
  PROVE  LET out == Flush(current, loaded, new, fresh)
         IN  /\ current.realPath => out.realPath
             /\ new.realPath => out.realPath
             /\ out.exists
             /\ Dormant(current) /\ Dormant(loaded) /\ Dormant(new) =>
                  Dormant(out)
<1>1. /\ current.realPath \in BOOLEAN /\ loaded.realPath \in BOOLEAN
      /\ new.realPath \in BOOLEAN
  BY DEF Row
<1>2. QED  BY <1>1 DEF Flush, Column, Dormant

(* One request moves on and the row becomes row'. *)
LEMMA TrackingMoves ==
  ASSUME Tracking, Backed', NEW s \in Sessions, NEW y \in Request,
         sess' = [sess EXCEPT ![s] = y],
         tracked => tracked',
         ~tracked' => Untracked(opp', row') /\ Untracked(y.opp, y.row),
         row.realPath => row'.realPath,
         y.row.realPath => row'.realPath,
         y.pc = "generated" => y.row.realPath,
         ~row'.exists => ~row'.realPath
  PROVE  Tracking'
<1>1. sess \in [Sessions -> Request]
  BY DEF Tracking, Backed, TypeOK
<1>2. \A q \in Sessions : sess'[q] = IF q = s THEN y ELSE sess[q]
  BY <1>1
<1>3. QED  BY <1>2 DEF Tracking

(* One request ends. *)
LEMMA TrackingEnds ==
  ASSUME Tracking, Backed', NEW s \in Sessions, End(s),
         tracked => tracked',
         ~tracked' => Untracked(opp', row'),
         row.realPath => row'.realPath,
         ~row'.exists => ~row'.realPath
  PROVE  Tracking'
<1>1. Idle \in Request  BY NoRowBacked
<1>2. Untracked(Idle.opp, Idle.row) /\ ~Idle.row.realPath
        /\ Idle.pc # "generated"
  BY DEF Untracked, Dormant, Idle, NoRow, ExpedienteTracking
<1>3. QED  BY <1>1, <1>2, TrackingMoves DEF End

LEMMA TrackingCommits ==
  ASSUME Tracking, Backed', NEW s \in Sessions, NEW new \in Row, NEW fresh,
         Commit(s, new, fresh), tracked' = tracked, opp' = opp,
         Loaded(s).realPath => new.realPath,
         ~tracked => Dormant(new)
  PROVE  Tracking'
<1>1. Loaded(s) \in Row /\ row \in Row
  BY LoadedType DEF Tracking, Backed, TypeOK
<1>2. row' = Flush(row, Loaded(s), new, fresh)
  BY DEF Commit
<1>3. Loaded(s).realPath => row.realPath
  BY DEF Tracking, Loaded
<1>4. /\ row.realPath => row'.realPath
      /\ row'.exists
      /\ Dormant(row) /\ Dormant(Loaded(s)) /\ Dormant(new) => Dormant(row')
  BY <1>1, <1>2, <1>3, FlushDormant
<1>5. ~tracked' => Untracked(opp', row')
  BY <1>4 DEF Tracking, Untracked, Loaded
<1>6. QED  BY <1>4, <1>5, TrackingEnds DEF Commit

LEMMA RecalculatedDormant ==
  ASSUME NEW o, NEW pkg \in Row, NEW c
  PROVE  /\ Recalculated(o, pkg, c).realPath = pkg.realPath
         /\ Recalculated(o, pkg, c).exists
         /\ Untracked(o, pkg) => Dormant(Recalculated(o, pkg, c))
  BY DEF Recalculated, Untracked, Dormant, EffectiveExpedienteStatus,
     TrackingActive, Row

LEMMA SyncDormant ==
  ASSUME NEW pkg \in Row, NEW real
  PROVE  /\ SyncOperationalState(pkg, real).realPath = pkg.realPath
         /\ SyncOperationalState(pkg, real).expPath = pkg.expPath
  BY DEF SyncOperationalState, Row

LEMMA StaleDormant ==
  ASSUME NEW pkg \in Row, Dormant(pkg)
  PROVE  /\ MarkStaleIfGenerated(pkg).realPath = pkg.realPath
         /\ Dormant(MarkStaleIfGenerated(pkg))
  BY SyncDormant DEF MarkStaleIfGenerated, Dormant

LEMMA SameDormant ==
  ASSUME NEW x, NEW y, SameButFiles(x, y)
  PROVE  /\ x.realPath = y.realPath
         /\ Dormant(x) <=> Dormant(y)
         /\ \A o : Untracked(o, x) <=> Untracked(o, y)
  BY DEF SameButFiles, Dormant, Untracked

LEMMA RecalculatedAlike ==
  ASSUME NEW o, NEW pkg \in Row, NEW x, SameButFiles(pkg, x),
         NEW c \in Checklists
  PROVE  LET new == Recalculated(o, pkg, c)
         IN  /\ new \in Row
             /\ new.realPath = x.realPath
             /\ new.exists
             /\ Untracked(o, x) => Dormant(new)
<1>1. pkg.realPath = x.realPath /\ (Untracked(o, pkg) <=> Untracked(o, x))
  BY SameDormant
<1>2. QED  BY <1>1, RecalculatedType, RecalculatedDormant

LEMMA StalePath ==
  ASSUME NEW pkg \in Row
  PROVE  MarkStaleIfGenerated(pkg).realPath = pkg.realPath
  BY SyncDormant DEF MarkStaleIfGenerated

(* Assigning columns of the right type leaves a row. *)
LEMMA DraftColumns ==
  ASSUME NEW pkg \in Row, NEW c \in Checklists,
         NEW bid \in [pct : 0..1000, stage : Stages]
  PROVE  [pkg EXCEPT !.checklist = c, !.bid = bid] \in Row
  BY ZenonT(60) DEF Row

LEMMA PreparedColumns ==
  ASSUME NEW pkg \in Row, NEW exp \in ExpedienteStatuses
  PROVE  /\ [pkg EXCEPT !.expPath = TRUE, !.exp = exp] \in Row
         /\ [pkg EXCEPT !.expPath = TRUE, !.exp = exp].realPath = pkg.realPath
  BY ZenonT(60) DEF Row

(* What the invariant says of the request s. *)
LEMMA LoadedTracking ==
  ASSUME Tracking, NEW s \in Sessions
  PROVE  /\ Backed
         /\ row \in Row /\ Loaded(s) \in Row
         /\ Loaded(s).realPath => row.realPath
         /\ sess[s].pc = "generated" => Loaded(s).realPath
         /\ ~tracked => /\ Untracked(sess[s].opp, Loaded(s))
                        /\ sess[s].opp \notin ExpedienteTracking
                        /\ Dormant(Loaded(s))
                        /\ Untracked(opp, row)
                        /\ Dormant(row)
  BY LoadedType DEF Tracking, Backed, TypeOK, Loaded, Untracked

(* The commit of a recalculated checklist. *)
LEMMA TrackingRecalculates ==
  ASSUME Tracking, Backed', NEW s \in Sessions, NEW c \in Checklists, NEW fresh,
         NEW pkg \in Row, SameButFiles(pkg, Loaded(s)),
         Commit(s, Recalculated(sess[s].opp, pkg, c), fresh),
         tracked' = tracked, opp' = opp
  PROVE  Tracking'
<1> DEFINE new == Recalculated(sess[s].opp, pkg, c)
<1>1. /\ new \in Row
      /\ new.realPath = Loaded(s).realPath
      /\ ~tracked => Dormant(new)
  BY LoadedTracking, RecalculatedAlike
<1> HIDE DEF new
<1>2. Commit(s, new, fresh)  BY DEF new
<1>3. QED  BY <1>1, <1>2, TrackingCommits

LEMMA TrackingSession ==
  ASSUME Tracking, Backed', NEW s \in Sessions,
         Load(s) \/ Abort(s) \/ (\E to \in Targets : SetStatus(s, to)) \/ Licitar(s)
  PROVE  Tracking'
<1> USE LoadedTracking
<1>1. CASE Load(s)
  <2> DEFINE y == [pc |-> "loaded", opp |-> opp, row |-> row]
  <2>1. y \in Request  BY DEF Request, Pcs, Backed, TypeOK
  <2>2. sess' = [sess EXCEPT ![s] = y]  BY <1>1 DEF Load, Enter
  <2>3. y.opp = opp /\ y.row = row /\ y.pc # "generated"
    OBVIOUS
  <2>4. UNCHANGED <<opp, row, tracked>>  BY <1>1 DEF Load
  <2>5. ~row.exists => ~row.realPath  BY DEF Tracking
  <2> HIDE DEF y
  <2>6. QED  BY <2>1, <2>2, <2>3, <2>4, <2>5, TrackingMoves
<1>2. CASE Abort(s)
  <2>1. End(s) /\ UNCHANGED <<opp, row, tracked>>  BY <1>2 DEF Abort
  <2>2. ~row.exists => ~row.realPath  BY DEF Tracking
  <2>3. QED  BY <2>1, <2>2, TrackingEnds
<1>3. ASSUME NEW to, WriteStatus(s, to)
      PROVE  /\ tracked => tracked'
             /\ ~tracked' => opp' \notin ExpedienteTracking
  BY <1>3 DEF WriteStatus, Tracking, Backed, TypeOK
<1>4. ASSUME NEW to, SetStatus(s, to) PROVE Tracking'
  <2>1. End(s) /\ row' = row /\ WriteStatus(s, to)  BY <1>4 DEF SetStatus
  <2>2. ~row.exists => ~row.realPath  BY DEF Tracking
  <2>3. ~tracked' => Untracked(opp', row')
    BY <1>3, <2>1 DEF Untracked, Tracking, Backed, TypeOK
  <2>4. QED  BY <1>3, <2>1, <2>2, <2>3, TrackingEnds
<1>5. CASE Licitar(s)
  <2>1. WriteStatus(s, "to_bid") /\ End(s)
    BY <1>5 DEF Licitar, Commit
  <2>2. tracked'
    BY <2>1 DEF WriteStatus, Column, ExpedienteTracking, Tracking, Untracked
  <2>3. /\ row.realPath => row'.realPath
        /\ ~row'.exists => ~row'.realPath
    <3>1. CASE Loaded(s).exists
      <4> DEFINE st  == ComputeExpedienteStatus(Loaded(s).checklist,
                                                Loaded(s).bid.pct)
                 new == [Loaded(s) EXCEPT !.exp = st]
      <4>1. row' = Flush(row, Loaded(s), new, {})
        BY <1>5, <3>1 DEF Licitar, Commit
      <4>2. new \in Row /\ new.realPath = Loaded(s).realPath
        BY ExpedienteStatusType DEF Row
      <4> HIDE DEF new
      <4>3. QED  BY <4>1, <4>2, FlushDormant
    <3>2. CASE ~Loaded(s).exists
      BY <1>5, <3>2 DEF Licitar, Tracking
    <3>3. QED  BY <3>1, <3>2
  <2>4. QED  BY <2>1, <2>2, <2>3, TrackingEnds
<1>6. QED  BY <1>1, <1>2, <1>4, <1>5

(* A request that only takes a new snapshot, of nothing or of the row. *)
LEMMA TrackingEnters ==
  ASSUME Tracking, Backed', NEW s \in Sessions, NEW pc \in Pcs, NEW x \in {NoRow, row},
         Enter(s, pc, sess[s].opp, x), pc # "generated",
         UNCHANGED <<opp, row, tracked>>
  PROVE  Tracking'
<1> DEFINE y == [pc |-> pc, opp |-> sess[s].opp, row |-> x]
<1>1. x \in Row /\ (x.realPath => row.realPath)
      /\ (~tracked => Dormant(x))
  <2>1. NoRow \in Row  BY RowTypes
  <2>2. ~NoRow.realPath /\ Dormant(NoRow)  BY DEF NoRow, Dormant
  <2>3. CASE x = NoRow  BY <2>1, <2>2, <2>3
  <2>4. CASE x = row    BY <2>4, LoadedTracking
  <2>5. QED  BY <2>3, <2>4
<1>2. y \in Request
  BY <1>1, LoadedTracking, LoadedType DEF Request
<1>3. sess' = [sess EXCEPT ![s] = y]  BY DEF Enter
<1>4. y.opp = sess[s].opp /\ y.row = x /\ y.pc = pc
  OBVIOUS
<1>5. ~row.exists => ~row.realPath  BY DEF Tracking
<1> HIDE DEF y
<1>6. ~tracked' => Untracked(opp', row') /\ Untracked(y.opp, y.row)
  BY <1>1, <1>4, LoadedTracking DEF Untracked
<1>7. QED  BY <1>1, <1>2, <1>3, <1>4, <1>5, <1>6, TrackingMoves

LEMMA TrackingAnalyze ==
  ASSUME Tracking, Backed', NEW s \in Sessions, AnalyzeStep(s)
  PROVE  Tracking'
<1>1. CASE AnalyzeIngest(s)
  BY <1>1, TrackingEnters DEF AnalyzeIngest, Pcs
<1>2. CASE AnalyzeRegister(s)
  BY <1>2, TrackingEnters DEF AnalyzeRegister, Pcs
<1>3. CASE AnalyzeMatch(s)
  BY <1>3, TrackingEnters DEF AnalyzeMatch, Pcs
<1>4. CASE AnalyzePersist(s)
  <2> USE LoadedTracking
  <2>0. PICK extracted \in Extractions : \E matches :
          /\ \A r \in extracted : matches[r] \in MatchResults(r)
          /\ row' = PersistAnalysis(row, Loaded(s),
               Recalculated(sess[s].opp,
                 Matching(Loaded(s), {r \in extracted : matches[r].doc}),
                 BuildChecklist(extracted, matches, Loaded(s).checklist)))
    BY <1>4 DEF AnalyzePersist
  <2>1. PICK matches :
          /\ \A r \in extracted : matches[r] \in MatchResults(r)
          /\ row' = PersistAnalysis(row, Loaded(s),
               Recalculated(sess[s].opp,
                 Matching(Loaded(s), {r \in extracted : matches[r].doc}),
                 BuildChecklist(extracted, matches, Loaded(s).checklist)))
    BY <2>0
  <2> DEFINE c   == BuildChecklist(extracted, matches, Loaded(s).checklist)
             pkg == Matching(Loaded(s), {r \in extracted : matches[r].doc})
             new == Recalculated(sess[s].opp, pkg, c)
  <2>a. pkg \in Row /\ SameButFiles(pkg, Loaded(s))
    BY ExtractionsAssumption, MatchingSame
  <2> HIDE DEF pkg
  <2>2. c \in Checklists
    BY <2>1, BuildChecklistType, ExtractionsAssumption DEF Row
  <2> HIDE DEF c
  <2>3. /\ new \in Row
        /\ new.realPath = Loaded(s).realPath
        /\ new.exists
        /\ ~tracked => Dormant(new)
    BY <2>a, <2>2, RecalculatedAlike
  <2>4. row' = PersistAnalysis(row, Loaded(s), new)
    BY <2>1 DEF c, pkg
  <2> HIDE DEF new
  <2>5. /\ row.realPath => row'.realPath
        /\ row'.exists
        /\ ~tracked => Dormant(row')
    <3>0. row.exists \in BOOLEAN /\ Loaded(s).exists \in BOOLEAN  BY DEF Row
    <3>1. CASE ~row.exists
      BY <2>3, <2>4, <3>1 DEF PersistAnalysis, Tracking
    <3>2. CASE row.exists /\ Loaded(s).exists
      BY <2>3, <2>4, <3>2, FlushDormant DEF PersistAnalysis
    <3>3. CASE row.exists /\ ~Loaded(s).exists
      <4>1. row' = [row EXCEPT !.checklist = new.checklist,
                               !.matched = new.matched,
                               !.bid = new.bid, !.exp = new.exp]
        BY <2>4, <3>3 DEF PersistAnalysis
      <4>2. /\ row'.realPath = row.realPath /\ row'.expPath = row.expPath
            /\ row'.real = row.real /\ row'.exists = row.exists
            /\ row'.exp = new.exp
        BY <4>1 DEF Row
      <4>3. ~tracked /\ ~row.realPath => new.exp = "sin_preparar"
        BY <2>3 DEF Dormant
      <4>4. QED  BY <3>3, <4>2, <4>3 DEF Dormant
    <3>4. QED  BY <3>0, <3>1, <3>2, <3>3
  <2>6. End(s) /\ opp' = opp /\ tracked' = tracked
    BY <1>4 DEF AnalyzePersist
  <2>7. ~tracked' => Untracked(opp', row')
    BY <2>5, <2>6 DEF Untracked
  <2>8. QED  BY <2>5, <2>6, <2>7, TrackingEnds
<1>5. QED  BY <1>1, <1>2, <1>3, <1>4 DEF AnalyzeStep

(* Rewriting one item of the loaded checklist leaves a checklist. *)
LEMMA ItemChecklist ==
  ASSUME Backed, NEW s \in Sessions, NEW r \in Reqs, NEW item \in Item
  PROVE  [Loaded(s).checklist EXCEPT ![r] = item] \in Checklists
  BY LoadedType DEF BackedChecklists, Checklists

LEMMA TrackingItem ==
  ASSUME Tracking, Backed', NEW s \in Sessions, NEW r \in Reqs, ItemStep(s, r)
  PROVE  Tracking'
<1> USE LoadedTracking
<1> DEFINE old == Loaded(s).checklist[r]
<1>0. old \in Item /\ Loaded(s).checklist \in Checklists
  BY LoadedType DEF Row
<1>1. ASSUME NEW status \in ManualStatuses, NEW evidence \in BOOLEAN,
             Validate(s, r, status, evidence)
      PROVE  Tracking'
  <2> DEFINE item == [old EXCEPT !.status = status, !.manual = status,
                                 !.evidence = evidence]
             c    == [Loaded(s).checklist EXCEPT ![r] = item]
  <2>1. item \in Item  BY <1>0 DEF Item, ManualStatuses, Normalized
  <2>2. c \in Checklists  BY <2>1, ItemChecklist
  <2>3. Commit(s, Recalculated(sess[s].opp, Loaded(s), c),
               {"checklist", "matched"})
        /\ opp' = opp /\ tracked' = tracked
    BY <1>1 DEF Validate
  <2> HIDE DEF c
  <2>4. QED  BY <2>2, <2>3, SameSelf, TrackingRecalculates
<1>2. ASSUME NEW template \in BOOLEAN, NEW proc \in procDocs \cup {NoDoc},
             Associate(s, r, template, proc)
      PROVE  Tracking'
  <2> DEFINE item == [old EXCEPT !.status = AssociatedStatus(r, template, proc),
                                 !.doc = TRUE, !.proc = proc,
                                 !.manual = "none", !.evidence = FALSE]
             c    == [Loaded(s).checklist EXCEPT ![r] = item]
             pkg  == AlsoMatching(Loaded(s), {r})
             rec  == Recalculated(sess[s].opp, pkg, c)
             new  == MarkStaleIfGenerated(rec)
  <2>0. pkg \in Row /\ SameButFiles(pkg, Loaded(s))  BY AlsoMatchingSame
  <2> HIDE DEF pkg
  <2>1. proc \in DocIds \cup {NoDoc}  BY DEF Backed, TypeOK
  <2>2. item \in Item
    BY <1>0, <2>1, ZenonT(60) DEF Item, AssociatedStatus, Normalized
  <2>3. c \in Checklists  BY <2>2, ItemChecklist
  <2> HIDE DEF c
  <2>4. /\ rec \in Row
        /\ rec.realPath = Loaded(s).realPath
        /\ ~tracked => Dormant(rec)
    BY <2>0, <2>3, RecalculatedAlike
  <2> HIDE DEF rec
  <2>5. /\ new \in Row
        /\ new.realPath = Loaded(s).realPath
        /\ ~tracked => Dormant(new)
    BY <2>4, StaleType, StaleDormant, StalePath
  <2>6. Commit(s, new, {}) /\ opp' = opp /\ tracked' = tracked
    BY <1>2 DEF Associate, c, rec, pkg
  <2> HIDE DEF new
  <2>7. QED  BY <2>5, <2>6, TrackingCommits
<1>3. CASE Upload(s, r)
  <2>1. End(s) /\ UNCHANGED <<opp, row, tracked>>  BY <1>3 DEF Upload
  <2>2. ~row.exists => ~row.realPath  BY DEF Tracking
  <2>3. QED  BY <2>1, <2>2, TrackingEnds
<1>4. ASSUME NEW d \in DocIds, AttachQuotation(s, r, d)
      PROVE  Tracking'
  <2> DEFINE item == [old EXCEPT !.status = "adjuntado", !.proc = d,
                                 !.odoo = TRUE]
             c    == [Loaded(s).checklist EXCEPT ![r] = item]
             pkg  == AlsoMatching(Loaded(s), Offers)
  <2>0. pkg \in Row /\ SameButFiles(pkg, Loaded(s))
    BY AlsoMatchingSame DEF Offers
  <2>1. item \in Item  BY <1>0 DEF Item, Normalized
  <2>2. c \in Checklists  BY <2>1, ItemChecklist
  <2>3. Commit(s, Recalculated(sess[s].opp, pkg, c), {"checklist", "matched"})
        /\ opp' = opp /\ tracked' = tracked
    BY <1>4 DEF AttachQuotation, Offers
  <2> HIDE DEF c, pkg
  <2>4. QED  BY <2>0, <2>2, <2>3, TrackingRecalculates
<1>5. CASE CreateDraftTask(s, r)
  <2> DEFINE c   == [Loaded(s).checklist EXCEPT ![r].status =
                       IF old.status = "faltante"
                       THEN "borrador_pendiente" ELSE @]
             new == [Loaded(s) EXCEPT !.checklist = c, !.bid = BuildBid(c)]
  <2>1. c \in Checklists
    BY <1>0 DEF Checklists, Item, Normalized
  <2> HIDE DEF c
  <2>2. BuildBid(c) \in [pct : 0..1000, stage : Stages]
    BY <2>1, PctType DEF BuildBid, Stages
  <2>3. /\ new \in Row
        /\ new.realPath = Loaded(s).realPath
        /\ ~tracked => Dormant(new)
    <3>1. Loaded(s) \in Row /\ (~tracked => Dormant(Loaded(s)))
      OBVIOUS
    <3>2. new \in Row  BY <2>1, <2>2, <3>1, DraftColumns, ZenonT(60)
    <3>3. /\ new.realPath = Loaded(s).realPath
          /\ new.expPath = Loaded(s).expPath
          /\ new.exp = Loaded(s).exp /\ new.real = Loaded(s).real
      BY <3>1 DEF Row
    <3> HIDE DEF new
    <3>4. QED  BY <3>1, <3>2, <3>3 DEF Dormant
  <2>4. Commit(s, new, {"checklist"}) /\ opp' = opp /\ tracked' = tracked
    BY <1>5 DEF CreateDraftTask, c
  <2> HIDE DEF new
  <2>5. QED  BY <2>3, <2>4, TrackingCommits
<1>6. ASSUME NEW k \in Reqs, NEW d \in DocIds, NEW batch \in BOOLEAN,
             Finalize(s, k, r, d, batch)
      PROVE  Tracking'
  <2> DEFINE item == [old EXCEPT !.status = "finalizado", !.proc = d]
             c    == [Loaded(s).checklist EXCEPT ![r] = item]
             pkg  == AlsoMatching(Loaded(s), {k})
             new  == Recalculated(sess[s].opp, pkg, c)
             y    == IF batch THEN [pc |-> "finalizing", opp |-> sess[s].opp,
                                    row |-> new]
                     ELSE Idle
  <2>0. pkg \in Row /\ SameButFiles(pkg, Loaded(s))  BY AlsoMatchingSame
  <2>1. item \in Item  BY <1>0 DEF Item, Normalized
  <2>2. c \in Checklists  BY <2>1, ItemChecklist
  <2> HIDE DEF c, pkg
  <2>3. /\ new \in Row
        /\ new.realPath = Loaded(s).realPath
        /\ ~tracked => Dormant(new)
    BY <2>0, <2>2, RecalculatedAlike
  <2>4. /\ row' = Flush(row, Loaded(s), new, {"checklist", "matched"})
        /\ sess' = [sess EXCEPT ![s] = y]
        /\ opp' = opp /\ tracked' = tracked
    BY <1>6 DEF Finalize, Enter, End, c, pkg
  <2> HIDE DEF new
  <2>5. /\ row.realPath => row'.realPath
        /\ row'.exists
        /\ Dormant(row) /\ Dormant(Loaded(s)) /\ Dormant(new) => Dormant(row')
    BY <2>3, <2>4, FlushDormant
  <2>6. /\ y \in Request
        /\ y.row.realPath => row.realPath
        /\ y.pc # "generated"
        /\ ~tracked => Untracked(y.opp, y.row)
    <3>1. CASE batch
      BY <2>3, <3>1, LoadedType DEF Request, Pcs, Untracked
    <3>2. CASE ~batch
      <4>1. y = Idle  BY <3>2
      <4> HIDE DEF y
      <4>2. QED
        BY <4>1, NoRowBacked DEF Untracked, Dormant, Idle, NoRow,
           ExpedienteTracking
    <3>3. QED  BY <3>1, <3>2
  <2> HIDE DEF y
  <2>7. ~tracked' => Untracked(opp', row') /\ Untracked(y.opp, y.row)
    BY <2>3, <2>4, <2>5, <2>6 DEF Untracked
  <2>8. QED  BY <2>4, <2>5, <2>6, <2>7, TrackingMoves
<1>7. QED  BY <1>1, <1>2, <1>3, <1>4, <1>5, <1>6 DEF ItemStep

LEMMA TrackingWhole ==
  ASSUME Tracking, Backed', NEW s \in Sessions,
         (\E columns : RewriteChecklist(s, columns))
           \/ (\E covered : UserInput(s, covered))
  PROVE  Tracking'
<1> USE LoadedTracking
<1>1. ASSUME NEW columns, RewriteChecklist(s, columns) PROVE Tracking'
  <2>1. Commit(s, Loaded(s), columns) /\ opp' = opp /\ tracked' = tracked
    BY <1>1 DEF RewriteChecklist
  <2>2. QED  BY <2>1, TrackingCommits
<1>2. ASSUME NEW covered, UserInput(s, covered) PROVE Tracking'
  <2> DEFINE old == Loaded(s).checklist
             c   == [r \in Reqs |->
                       LET item == old[r]
                       IN  IF r \in covered /\ item.status = "requiere_completado"
                           THEN [item EXCEPT !.status = "requiere_revision"]
                           ELSE item]
  <2>1. ASSUME NEW r \in Reqs PROVE c[r] \in Item
    <3>1. old[r] \in Item  BY LoadedType
    <3>2. QED  BY <3>1 DEF Item, Normalized
  <2>2. c \in Checklists  BY <2>1 DEF Checklists
  <2>3. Commit(s, Recalculated(sess[s].opp, Loaded(s), c), {})
        /\ opp' = opp /\ tracked' = tracked
    BY <1>2 DEF UserInput
  <2> HIDE DEF c
  <2>4. QED  BY <2>2, <2>3, SameSelf, TrackingRecalculates
<1>3. QED  BY <1>1, <1>2

(* Preparing needs a tracked opportunity; marking needs a prepared folder. *)
LEMMA TrackingPrepared ==
  ASSUME Tracking, Backed', NEW s \in Sessions, PreparedStep(s)
  PROVE  Tracking'
<1> USE LoadedTracking
<1>1. CASE PrepareExpediente(s)
  <2> DEFINE st  == ComputeExpedienteStatus(Loaded(s).checklist,
                                            Loaded(s).bid.pct)
             exp == IF st = "expediente_listo_para_revision"
                    THEN "expediente_incompleto" ELSE st
             new == [Loaded(s) EXCEPT !.expPath = TRUE, !.exp = exp]
  <2>1. exp \in ExpedienteStatuses
    BY ExpedienteStatusType DEF ExpedienteStatuses
  <2>2. tracked  BY <1>1 DEF PrepareExpediente
  <2>3. Commit(s, new, {}) /\ opp' = opp /\ tracked' = tracked
    BY <1>1 DEF PrepareExpediente
  <2> HIDE DEF exp
  <2>4. new \in Row /\ new.realPath = Loaded(s).realPath
    BY <2>1, PreparedColumns
  <2> HIDE DEF new
  <2>5. QED  BY <2>2, <2>3, <2>4, TrackingCommits
<1>2. CASE MarkReadyForReview(s)
  <2> DEFINE new == [Loaded(s) EXCEPT !.exp = "expediente_listo_para_revision"]
  <2>1. tracked  BY <1>2 DEF MarkReadyForReview, Dormant
  <2>2. Commit(s, new, {}) /\ opp' = opp /\ tracked' = tracked
    BY <1>2 DEF MarkReadyForReview
  <2>3. new \in Row /\ new.realPath = Loaded(s).realPath
    BY DEF Row, ExpedienteStatuses
  <2> HIDE DEF new
  <2>4. QED  BY <2>1, <2>2, <2>3, TrackingCommits
<1>3. QED  BY <1>1, <1>2 DEF PreparedStep

LEMMA GeneratedDormant ==
  ASSUME NEW pkg \in Row, NEW files
  PROVE  /\ Generated(pkg, files).realPath
         /\ Dormant(pkg) => Dormant(Generated(pkg, files))
<1>1. /\ Generated(pkg, files).realPath
      /\ Generated(pkg, files).expPath = pkg.expPath
  BY DEF Generated, SyncOperationalState, Row
<1>2. QED  BY <1>1 DEF Dormant

(* The status of a real expediente is only copied into a row that has one. *)
LEMMA TrackingSyncs ==
  ASSUME Tracking, Backed', NEW s \in Sessions, NEW real \in RealStatuses, NEW fresh,
         Commit(s, SyncOperationalState(Loaded(s), real), fresh),
         Loaded(s).realPath, tracked' = tracked, opp' = opp
  PROVE  Tracking'
<1> DEFINE new == SyncOperationalState(Loaded(s), real)
<1>1. /\ new \in Row
      /\ new.realPath = Loaded(s).realPath
      /\ new.expPath = Loaded(s).expPath
  BY LoadedTracking, SyncType, SyncDormant
<1> HIDE DEF new
<1>2. Commit(s, new, fresh)  BY DEF new
<1>3. ~tracked => Dormant(new)  BY <1>1, LoadedTracking DEF Dormant
<1>4. QED  BY <1>1, <1>2, <1>3, TrackingCommits

LEMMA TrackingReal ==
  ASSUME Tracking, Backed', NEW s \in Sessions, RealStep(s)
  PROVE  Tracking'
<1> USE LoadedTracking
<1>1. CASE Generate(s)
  <2>1. PICK files : row' = Flush(row, Loaded(s), Generated(Loaded(s), files),
                                  {"manifest"})
    BY <1>1 DEF Generate
  <2> DEFINE new == Generated(Loaded(s), files)
  <2>2. /\ new \in Row /\ new.realPath
        /\ ~tracked => Dormant(new)
    BY GeneratedType, GeneratedDormant
  <2>3. row' = Flush(row, Loaded(s), new, {"manifest"})  BY <2>1
  <2> HIDE DEF new
  <2>4. /\ row'.realPath /\ row'.exists
        /\ ~tracked => Dormant(row')
    BY <2>2, <2>3, FlushDormant
  <2>5. End(s) /\ opp' = opp /\ tracked' = tracked  BY <1>1 DEF Generate
  <2>6. ~tracked' => Untracked(opp', row')
    BY <2>4, <2>5 DEF Untracked
  <2>7. QED  BY <2>4, <2>5, <2>6, TrackingEnds
<1>2. CASE PrepareSubmission(s)
  <2>1. PICK files :
          LET new == Generated(Loaded(s), files)
          IN  /\ row' = Flush(row, Loaded(s), new, {"manifest"})
              /\ Enter(s, "generated", sess[s].opp, new)
    BY <1>2 DEF PrepareSubmission
  <2> DEFINE new == Generated(Loaded(s), files)
             y   == [pc |-> "generated", opp |-> sess[s].opp, row |-> new]
  <2>2. /\ new \in Row /\ new.realPath
        /\ ~tracked => Dormant(new)
    BY GeneratedType, GeneratedDormant
  <2>3. row' = Flush(row, Loaded(s), new, {"manifest"})  BY <2>1
  <2>4. sess' = [sess EXCEPT ![s] = y]  BY <2>1 DEF Enter
  <2> HIDE DEF new
  <2>5. /\ row'.realPath /\ row'.exists
        /\ ~tracked => Dormant(row')
    BY <2>2, <2>3, FlushDormant
  <2>6. y \in Request
    BY <2>2, LoadedType DEF Request, Pcs
  <2>7. y.opp = sess[s].opp /\ y.row = new
    OBVIOUS
  <2>8. opp' = opp /\ tracked' = tracked  BY <1>2 DEF PrepareSubmission
  <2> HIDE DEF y
  <2>9. ~tracked' => Untracked(opp', row') /\ Untracked(y.opp, y.row)
    BY <2>2, <2>5, <2>7, <2>8 DEF Untracked
  <2>10. QED  BY <2>2, <2>4, <2>5, <2>6, <2>7, <2>8, <2>9, TrackingMoves
<1>3. CASE FinishSubmission(s)
  BY <1>3, TrackingSyncs DEF FinishSubmission, RealStatuses
<1>4. CASE MarkReadyReview(s)
  BY <1>4, TrackingSyncs DEF MarkReadyReview, RealStatuses
<1>5. CASE MarkReadyUpload(s)
  BY <1>5, TrackingSyncs DEF MarkReadyUpload, RealStatuses
<1>6. CASE LogDownload(s)
  <2> DEFINE new == IF Loaded(s).real = "paquete_dgcp_preparado"
                    THEN SyncOperationalState(Loaded(s), "descargado")
                    ELSE Loaded(s)
  <2>1. /\ new \in Row
        /\ new.realPath = Loaded(s).realPath
        /\ ~tracked => Dormant(new)
    BY SyncType, SyncDormant DEF RealStatuses, Dormant
  <2>2. Commit(s, new, {"manifest"}) /\ opp' = opp /\ tracked' = tracked
    BY <1>6 DEF LogDownload
  <2> HIDE DEF new
  <2>3. QED  BY <2>1, <2>2, TrackingCommits
<1>7. QED  BY <1>1, <1>2, <1>3, <1>4, <1>5, <1>6 DEF RealStep

(* The invariant is inductive: one lemma per group of handlers. *)
LEMMA TrackingStep == Tracking /\ [Next]_vars => Tracking'
<1> SUFFICES ASSUME Tracking, [Next]_vars PROVE Tracking'
  OBVIOUS
<1>1. Backed'  BY BackedStep DEF Tracking
<1>2. ASSUME NEW s \in Sessions, NEW r \in Reqs, ItemStep(s, r) PROVE Tracking'
  BY <1>1, <1>2, TrackingItem
<1>3. CASE Next
  BY <1>1, <1>2, <1>3, TrackingSession, TrackingAnalyze, TrackingWhole,
     TrackingPrepared, TrackingReal DEF Next
<1>4. CASE UNCHANGED vars
  BY <1>1, <1>4 DEF vars, Tracking
<1>5. QED  BY <1>3, <1>4

(* While nobody chose Licitar and nobody generated a real expediente, the  *)
(* stored expediente_status is sin_preparar, whatever analyses,            *)
(* validations and old snapshots are committed.                            *)
THEOREM UntrackedUnprepared == Spec => []SinPrepararUntilTracked
<1>1. Tracking => SinPrepararUntilTracked
  BY DEF Tracking, Untracked, Dormant, SinPrepararUntilTracked
<1>2. QED  BY <1>1, TrackingInit, TrackingStep, PTL DEF Spec

-----------------------------------------------------------------------------
(* One request at a time.  What a request has loaded is then what is       *)
(* stored, so that a commit writes exactly what the handler has computed,  *)
(* and each handler leaves a sound row if it has loaded one.               *)

OneSession == \A s, r \in Sessions : s = r

(* A sound row: the percentage is that of the checklist, the copies of the *)
(* real status agree and belong to an expediente that was generated, and   *)
(* what is shown as ready is.                                              *)
SoundRow(x) ==
  /\ x.exists => x.bid.pct = PreparationPct(x.checklist)
  /\ x.real # "sin_generar" => x.realPath
  /\ x.realPath => x.manifest.status = x.real
  /\ x.real = "listo_para_subir" => x.manifest.missing = {}
  /\ x.exp = "expediente_listo_para_presentar" =>
       x.real \in {"listo_para_subir", "paquete_dgcp_preparado", "descargado"}
  /\ x.exp = "expediente_listo_para_revision" /\ ~x.expPath /\ ~x.realPath =>
       CanMarkReadyForReview(x.checklist)

Knows(s) == sess[s].pc \in {"loaded", "matched", "finalizing", "generated"}

Serial ==
  /\ Tracking
  /\ SoundRow(row)
  /\ \A s \in Sessions : Knows(s) => Loaded(s) = row

LEMMA FlushSame ==
  ASSUME NEW x \in Row, NEW new \in Row, new.exists, NEW fresh
  PROVE  Flush(x, x, new, fresh) = new
<1>1. new = [exists |-> TRUE, checklist |-> new.checklist,
             matched |-> new.matched, bid |-> new.bid,
             exp |-> new.exp, expPath |-> new.expPath, real |-> new.real,
             realPath |-> new.realPath, manifest |-> new.manifest]
  BY DEF Row
<1>2. \A f, a, b : Column(f, a, b, b) = a
  BY DEF Column
<1>3. QED  BY <1>1, <1>2 DEF Flush

(* "Ready for review" is computed only for what may be marked so.          *)
LEMMA ComputedStatus ==
  ASSUME NEW c, NEW pct
  PROVE  /\ ComputeExpedienteStatus(c, pct) # "expediente_listo_para_presentar"
         /\ ComputeExpedienteStatus(c, pct) = "expediente_listo_para_revision" =>
              CanMarkReadyForReview(c)
<1> DEFINE mand == MandatoryIn(c)
           statuses == {c[r].status : r \in mand}
<1>1. ComputeExpedienteStatus(c, pct) = "expediente_listo_para_revision" =>
        statuses # {} /\ statuses \subseteq CompliantStatuses
  <2> HIDE DEF mand
  <2>1. QED  BY DEF ComputeExpedienteStatus, mand
<1>2. statuses # {} /\ statuses \subseteq CompliantStatuses =>
        CanMarkReadyForReview(c)
  BY DEF CanMarkReadyForReview
<1>3. ComputeExpedienteStatus(c, pct) # "expediente_listo_para_presentar"
  BY DEF ComputeExpedienteStatus
<1>4. QED  BY <1>1, <1>2, <1>3

LEMMA RecalculatedSound ==
  ASSUME NEW o, NEW pkg \in Row, SoundRow(pkg), NEW c \in Checklists
  PROVE  /\ SoundRow(Recalculated(o, pkg, c))
         /\ Recalculated(o, pkg, c).exists
         /\ Recalculated(o, pkg, c).checklist = c
<1> DEFINE x == Recalculated(o, pkg, c)
           e == EffectiveExpedienteStatus(o, pkg, c)
<1>1. /\ x.exists /\ x.checklist = c /\ x.bid.pct = PreparationPct(c)
      /\ x.exp = e /\ x.expPath = pkg.expPath /\ x.real = pkg.real
      /\ x.realPath = pkg.realPath /\ x.manifest = pkg.manifest
  BY DEF Recalculated, BuildBid, Row
<1>2. /\ pkg.expPath => e = pkg.exp
      /\ ~pkg.expPath => /\ e # "expediente_listo_para_presentar"
                         /\ e = "expediente_listo_para_revision" =>
                              CanMarkReadyForReview(c)
  BY ComputedStatus DEF EffectiveExpedienteStatus, TrackingActive
<1> HIDE DEF x, e
<1>3. QED  BY <1>1, <1>2 DEF SoundRow, x

LEMMA SameSound ==
  ASSUME NEW x, NEW y, SameButFiles(x, y), SoundRow(y)
  PROVE  SoundRow(x)
  BY DEF SameButFiles, SoundRow

LEMMA SyncSound ==
  ASSUME NEW pkg \in Row, NEW real \in RealStatuses,
         pkg.realPath, pkg.exists, pkg.bid.pct = PreparationPct(pkg.checklist),
         real = "listo_para_subir" => pkg.manifest.missing = {}
  PROVE  /\ SoundRow(SyncOperationalState(pkg, real))
         /\ SyncOperationalState(pkg, real).exists
<1> DEFINE x == SyncOperationalState(pkg, real)
<1>1. /\ x.exists /\ x.checklist = pkg.checklist /\ x.bid.pct = pkg.bid.pct
      /\ x.exp = ExpedienteForReal(real) /\ x.real = real /\ x.realPath
      /\ x.manifest.status = real /\ x.manifest.missing = pkg.manifest.missing
  BY DEF SyncOperationalState, Row
<1>2. ExpedienteForReal(real) = "expediente_listo_para_presentar" =>
        real \in {"listo_para_subir", "paquete_dgcp_preparado", "descargado"}
  BY DEF ExpedienteForReal, RealStatuses
<1> HIDE DEF x
<1>3. QED  BY <1>1, <1>2 DEF SoundRow, x

LEMMA StaleSound ==
  ASSUME NEW pkg \in Row, SoundRow(pkg), pkg.exists
  PROVE  SoundRow(MarkStaleIfGenerated(pkg)) /\ MarkStaleIfGenerated(pkg).exists
  BY SyncSound DEF MarkStaleIfGenerated, RealStatuses, SoundRow

LEMMA GeneratedSound ==
  ASSUME NEW pkg \in Row, SoundRow(pkg), pkg.exists, NEW files
  PROVE  SoundRow(Generated(pkg, files)) /\ Generated(pkg, files).exists
<1> DEFINE real == ComputeRealStatus(pkg.checklist, files)
           miss == Missing(pkg.checklist, files)
           with == [pkg EXCEPT !.realPath = TRUE, !.manifest.missing = miss]
<1>1. real \in RealStatuses /\ real # "listo_para_subir"
  BY DEF ComputeRealStatus, RealStatuses
<1>2. miss \in SUBSET Reqs
  BY DEF Missing, MandatoryIn, Listed
<1>3. Generated(pkg, files) = SyncOperationalState(with, real)
  BY DEF Generated
<1> HIDE DEF real, miss
<1>4. with \in Row  BY <1>2, ZenonT(60) DEF Row
<1>5. /\ with.realPath /\ with.exists
      /\ with.bid.pct = PreparationPct(with.checklist)
  BY DEF Row, SoundRow
<1> HIDE DEF with
<1>6. QED  BY <1>1, <1>3, <1>4, <1>5, SyncSound

(* A status that is not one of the two of an expediente that is ready, or  *)
(* is earned.                                                              *)
LEMMA StatusSound ==
  ASSUME NEW x, SoundRow(x), NEW new,
         new.exists = x.exists, new.checklist = x.checklist, new.bid = x.bid,
         new.real = x.real, new.realPath = x.realPath,
         new.manifest = x.manifest,
         new.exp # "expediente_listo_para_presentar",
         new.exp = "expediente_listo_para_revision" =>
           new.expPath \/ CanMarkReadyForReview(x.checklist)
  PROVE  SoundRow(new)
  BY DEF SoundRow

(* A draft changes the status of what is missing, and so nothing that is   *)
(* fulfilled.                                                              *)
LEMMA DraftSound ==
  ASSUME NEW x \in Row, SoundRow(x), x.exists, NEW r \in Listed(x.checklist),
         NEW c \in Checklists,
         c = [x.checklist EXCEPT ![r].status =
                IF x.checklist[r].status = "faltante"
                THEN "borrador_pendiente" ELSE @]
  PROVE  LET new == [x EXCEPT !.checklist = c, !.bid = BuildBid(c)]
         IN  SoundRow(new) /\ new \in Row /\ new.exists
<1> DEFINE old == x.checklist
           new == [x EXCEPT !.checklist = c, !.bid = BuildBid(c)]
<1>1. old \in [Reqs -> Item] /\ r \in Reqs  BY DEF Row, Checklists, Listed
<1>2. /\ \A q \in Reqs \ {r} : c[q] = old[q]
      /\ c[r].status = IF old[r].status = "faltante" THEN "borrador_pendiente"
                                                     ELSE old[r].status
  BY <1>1 DEF Item
<1>3. Listed(c) = Listed(old)
  BY <1>1, <1>2 DEF Listed
<1>4. CanMarkReadyForReview(old) => CanMarkReadyForReview(c)
  BY <1>1, <1>2, <1>3
     DEF CanMarkReadyForReview, MandatoryIn, CompliantStatuses, Listed
<1>5. BuildBid(c) \in [pct : 0..1000, stage : Stages]
      /\ BuildBid(c).pct = PreparationPct(c)
  BY PctType DEF BuildBid, Stages
<1>6. new \in Row  BY <1>5, DraftColumns
<1>7. /\ new.exists /\ new.checklist = c /\ new.bid.pct = PreparationPct(c)
      /\ new.exp = x.exp /\ new.expPath = x.expPath /\ new.real = x.real
      /\ new.realPath = x.realPath /\ new.manifest = x.manifest
  BY <1>5 DEF Row
<1> HIDE DEF new
<1>8. SoundRow(new)  BY <1>4, <1>7 DEF SoundRow
<1>9. QED  BY <1>6, <1>7, <1>8 DEF new

(* One request moves on and leaves a sound row, which it knows.            *)
LEMMA SerialMoves ==
  ASSUME OneSession, Serial, Tracking', NEW s \in Sessions, NEW y \in Request,
         sess' = [sess EXCEPT ![s] = y], SoundRow(row'),
         y.pc \in {"loaded", "matched", "finalizing", "generated"} => y.row = row'
  PROVE  Serial'
<1>1. sess \in [Sessions -> Request]
  BY DEF Serial, Tracking, Backed, TypeOK
<1>2. sess'[s] = y /\ \A q \in Sessions : q = s
  BY <1>1 DEF OneSession
<1>3. QED  BY <1>2 DEF Serial, Knows, Loaded

LEMMA SerialEnds ==
  ASSUME OneSession, Serial, Tracking', NEW s \in Sessions, End(s), SoundRow(row')
  PROVE  Serial'
<1>1. Idle \in Request /\ Idle.pc = "idle"  BY NoRowBacked DEF Idle
<1>2. QED  BY <1>1, SerialMoves DEF End

(* What the invariant says of a request that has loaded the row.           *)
LEMMA LoadedSound ==
  ASSUME Serial, NEW s \in Sessions, Knows(s)
  PROVE  /\ Loaded(s) = row /\ row \in Row /\ SoundRow(row)
         /\ row.checklist \in [Reqs -> Item]
  BY DEF Serial, Tracking, Backed, TypeOK, Row, Checklists

LEMMA SerialCommits ==
  ASSUME OneSession, Serial, Tracking', NEW s \in Sessions, Knows(s),
         NEW new \in Row, new.exists, SoundRow(new), NEW fresh,
         Commit(s, new, fresh)
  PROVE  Serial' /\ row' = new
<1>1. row' = new
  BY LoadedSound, FlushSame DEF Commit
<1>2. QED  BY <1>1, SerialEnds DEF Commit

LEMMA SerialSession ==
  ASSUME OneSession, Serial, Tracking', NEW s \in Sessions,
         Load(s) \/ Abort(s) \/ (\E to \in Targets : SetStatus(s, to)) \/ Licitar(s)
  PROVE  Serial'
<1>1. CASE Load(s)
  <2> DEFINE y == [pc |-> "loaded", opp |-> opp, row |-> row]
  <2>1. y \in Request
    BY DEF Request, Pcs, Serial, Tracking, Backed, TypeOK
  <2>2. sess' = [sess EXCEPT ![s] = y] /\ y.row = row /\ row' = row
    BY <1>1 DEF Load, Enter
  <2>3. SoundRow(row')  BY <2>2 DEF Serial
  <2> HIDE DEF y
  <2>4. QED  BY <2>1, <2>2, <2>3, SerialMoves
<1>2. CASE Abort(s) \/ (\E to \in Targets : SetStatus(s, to))
  <2>1. End(s) /\ row' = row  BY <1>2 DEF Abort, SetStatus
  <2>2. SoundRow(row')  BY <2>1 DEF Serial
  <2>3. QED  BY <2>1, <2>2, SerialEnds
<1>3. CASE Licitar(s)
  <2>1. CASE Loaded(s).exists
    <3> DEFINE st  == ComputeExpedienteStatus(row.checklist, row.bid.pct)
               new == [row EXCEPT !.exp = st]
    <3>1. Knows(s)  BY <1>3 DEF Licitar, Knows
    <3>2. Loaded(s) = row /\ row \in Row /\ SoundRow(row)
      BY <3>1, LoadedSound
    <3>3. st \in ExpedienteStatuses  BY ExpedienteStatusType
    <3>4. new \in Row  BY <3>2, <3>3 DEF Row
    <3>5. /\ new.exists = row.exists /\ new.checklist = row.checklist
          /\ new.bid = row.bid /\ new.exp = st
          /\ new.real = row.real /\ new.realPath = row.realPath
          /\ new.manifest = row.manifest
      BY <3>2 DEF Row
    <3>6. Commit(s, new, {})  BY <1>3, <2>1, <3>2 DEF Licitar
    <3> HIDE DEF new
    <3>7. SoundRow(new)  BY <3>2, <3>5, ComputedStatus, StatusSound
    <3>8. QED  BY <2>1, <3>1, <3>2, <3>4, <3>5, <3>6, <3>7, SerialCommits
  <2>2. CASE ~Loaded(s).exists
    <3>1. End(s) /\ row' = row  BY <1>3, <2>2 DEF Licitar
    <3>2. SoundRow(row')  BY <3>1 DEF Serial
    <3>3. QED  BY <3>1, <3>2, SerialEnds
  <2>3. QED  BY <2>1, <2>2
<1>4. QED  BY <1>1, <1>2, <1>3

(* The row that an analysis stores, when it is alone, is the one that it   *)
(* has computed.                                                           *)
LEMMA PersistedSame ==
  ASSUME NEW x \in Row, NEW new \in Row, new.exists
  PROVE  PersistAnalysis(x, x, new) = new
  BY FlushSame DEF PersistAnalysis

LEMMA SerialPersist ==
  ASSUME OneSession, Serial, NEW s \in Sessions, AnalyzePersist(s)
  PROVE  /\ SoundRow(row')
         /\ \E extracted \in SUBSET Reqs : \E matches :
              /\ \A r \in extracted : matches[r] \in MatchResults(r)
              /\ row'.checklist = BuildChecklist(extracted, matches, row.checklist)
<1>0. Knows(s)  BY DEF AnalyzePersist, Knows
<1>1. Loaded(s) = row /\ row \in Row /\ SoundRow(row)
  BY <1>0, LoadedSound
<1>2. PICK extracted \in Extractions : \E matches :
        /\ \A r \in extracted : matches[r] \in MatchResults(r)
        /\ row' = PersistAnalysis(row, row, Recalculated(sess[s].opp,
                     Matching(row, {r \in extracted : matches[r].doc}),
                     BuildChecklist(extracted, matches, row.checklist)))
  BY <1>1 DEF AnalyzePersist
<1>3. PICK matches :
        /\ \A r \in extracted : matches[r] \in MatchResults(r)
        /\ row' = PersistAnalysis(row, row, Recalculated(sess[s].opp,
                     Matching(row, {r \in extracted : matches[r].doc}),
                     BuildChecklist(extracted, matches, row.checklist)))
  BY <1>2
<1> DEFINE c   == BuildChecklist(extracted, matches, row.checklist)
           pkg == Matching(row, {r \in extracted : matches[r].doc})
           new == Recalculated(sess[s].opp, pkg, c)
<1>4. extracted \in SUBSET Reqs  BY ExtractionsAssumption
<1>a. pkg \in Row /\ SoundRow(pkg)
  BY <1>1, <1>4, MatchingSame, SameSound
<1> HIDE DEF pkg
<1>5. c \in Checklists
  <2>1. row.checklist \in Checklists  BY <1>1 DEF Row
  <2>2. QED  BY <1>3, <1>4, <2>1, BuildChecklistType
<1> HIDE DEF c
<1>6. new \in Row /\ new.exists /\ SoundRow(new) /\ new.checklist = c
  BY <1>a, <1>5, RecalculatedType, RecalculatedSound
<1>7. row' = PersistAnalysis(row, row, new)
  BY <1>3 DEF c, pkg
<1> HIDE DEF new
<1>8. row' = new  BY <1>1, <1>6, <1>7, PersistedSame
<1>9. QED  BY <1>3, <1>4, <1>6, <1>8 DEF c

LEMMA SerialAnalyze ==
  ASSUME OneSession, Serial, Tracking', NEW s \in Sessions, AnalyzeStep(s)
  PROVE  Serial'
<1>1. ASSUME NEW pc \in Pcs, NEW x \in Row, Enter(s, pc, sess[s].opp, x),
             row' = row,
             pc \in {"loaded", "matched", "finalizing", "generated"} => x = row
      PROVE  Serial'
  <2> DEFINE y == [pc |-> pc, opp |-> sess[s].opp, row |-> x]
  <2>1. sess[s].opp \in OppStatuses
    BY LoadedType DEF Serial, Tracking
  <2>2. y \in Request  BY <2>1 DEF Request
  <2>3. sess' = [sess EXCEPT ![s] = y] /\ y.pc = pc /\ y.row = x
    BY <1>1 DEF Enter
  <2>4. SoundRow(row')  BY <1>1 DEF Serial
  <2> HIDE DEF y
  <2>5. QED  BY <1>1, <2>2, <2>3, <2>4, SerialMoves
<1>2. CASE AnalyzeIngest(s)
  BY <1>1, <1>2, RowTypes DEF AnalyzeIngest, Pcs
<1>3. CASE AnalyzeRegister(s)
  BY <1>1, <1>3, RowTypes DEF AnalyzeRegister, Pcs
<1>4. CASE AnalyzeMatch(s)
  <2>1. row \in Row  BY DEF Serial, Tracking, Backed, TypeOK
  <2>2. QED  BY <1>1, <1>4, <2>1 DEF AnalyzeMatch, Pcs
<1>5. CASE AnalyzePersist(s)
  <2>1. End(s)  BY <1>5 DEF AnalyzePersist
  <2>2. QED  BY <1>5, <2>1, SerialPersist, SerialEnds
<1>6. QED  BY <1>2, <1>3, <1>4, <1>5 DEF AnalyzeStep

(* A handler that stores a recalculated checklist.                         *)
LEMMA SerialRecalculates ==
  ASSUME OneSession, Serial, Tracking', NEW s \in Sessions, Knows(s),
         NEW c \in Checklists, NEW fresh,
         NEW pkg \in Row, SameButFiles(pkg, Loaded(s)),
         Commit(s, Recalculated(sess[s].opp, pkg, c), fresh)
  PROVE  Serial'
<1> DEFINE new == Recalculated(sess[s].opp, pkg, c)
<1>1. new \in Row /\ new.exists /\ SoundRow(new)
  BY LoadedSound, SameSound, RecalculatedType, RecalculatedSound
<1> HIDE DEF new
<1>2. Commit(s, new, fresh)  BY DEF new
<1>3. QED  BY <1>1, <1>2, SerialCommits

LEMMA SerialItem ==
  ASSUME OneSession, Serial, Tracking', NEW s \in Sessions, NEW r \in Reqs,
         ItemStep(s, r)
  PROVE  Serial'
<1> DEFINE old == Loaded(s).checklist
<1>0. /\ old \in [Reqs -> Item] /\ Loaded(s) \in Row
      /\ sess[s].pc = "loaded" => Knows(s)
  BY LoadedType DEF Serial, Tracking, BackedChecklists, Checklists, Knows
<1>1. ASSUME NEW item \in Item PROVE [old EXCEPT ![r] = item] \in Checklists
  BY <1>0 DEF Checklists
<1>2. ASSUME NEW status \in ManualStatuses, NEW evidence \in BOOLEAN,
             Validate(s, r, status, evidence)
      PROVE  Serial'
  <2> DEFINE item == [old[r] EXCEPT !.status = status, !.manual = status,
                                    !.evidence = evidence]
             c == [old EXCEPT ![r] = item]
  <2>1. item \in Item  BY <1>0 DEF Item, ManualStatuses, Normalized
  <2>2. c \in Checklists  BY <1>1, <2>1
  <2>3. /\ Knows(s)
        /\ Commit(s, Recalculated(sess[s].opp, Loaded(s), c),
                  {"checklist", "matched"})
    BY <1>0, <1>2 DEF Validate, Serves
  <2> HIDE DEF c
  <2>4. QED  BY <1>0, <2>2, <2>3, SameSelf, SerialRecalculates
<1>3. ASSUME NEW template \in BOOLEAN, NEW proc \in procDocs \cup {NoDoc},
             Associate(s, r, template, proc)
      PROVE  Serial'
  <2> DEFINE item == [old[r] EXCEPT
                        !.status = AssociatedStatus(r, template, proc),
                        !.doc = TRUE, !.proc = proc,
                        !.manual = "none", !.evidence = FALSE]
             c   == [old EXCEPT ![r] = item]
             pkg == AlsoMatching(Loaded(s), {r})
             mid == Recalculated(sess[s].opp, pkg, c)
             new == MarkStaleIfGenerated(mid)
  <2>0. pkg \in Row /\ SameButFiles(pkg, Loaded(s))
    BY <1>0, AlsoMatchingSame
  <2>1. proc \in DocIds \cup {NoDoc}
    BY DEF Serial, Tracking, Backed, TypeOK
  <2>2. item \in Item
    BY <1>0, <2>1, ZenonT(60) DEF Item, AssociatedStatus, Normalized
  <2>3. c \in Checklists  BY <1>1, <2>2
  <2>4. Knows(s) /\ Commit(s, new, {})
    BY <1>0, <1>3 DEF Associate, Serves
  <2> HIDE DEF c, pkg
  <2>5. mid \in Row /\ SoundRow(mid) /\ mid.exists
    BY <2>0, <2>3, <2>4, LoadedSound, SameSound, RecalculatedType,
       RecalculatedSound
  <2> HIDE DEF mid
  <2>6. new \in Row /\ SoundRow(new) /\ new.exists
    BY <2>5, StaleType, StaleSound
  <2> HIDE DEF new
  <2>7. QED  BY <2>4, <2>6, SerialCommits
<1>4. CASE Upload(s, r)
  <2>1. End(s) /\ row' = row  BY <1>4 DEF Upload
  <2>2. SoundRow(row')  BY <2>1 DEF Serial
  <2>3. QED  BY <2>1, <2>2, SerialEnds
<1>5. ASSUME NEW d \in DocIds, AttachQuotation(s, r, d) PROVE Serial'
  <2> DEFINE item == [old[r] EXCEPT !.status = "adjuntado", !.proc = d,
                                    !.odoo = TRUE]
             c    == [old EXCEPT ![r] = item]
             pkg  == AlsoMatching(Loaded(s), Offers)
  <2>0. pkg \in Row /\ SameButFiles(pkg, Loaded(s))
    BY <1>0, AlsoMatchingSame DEF Offers
  <2>1. item \in Item  BY <1>0 DEF Item, Normalized
  <2>2. c \in Checklists  BY <1>1, <2>1
  <2>3. /\ Knows(s)
        /\ Commit(s, Recalculated(sess[s].opp, pkg, c), {"checklist", "matched"})
    BY <1>0, <1>5 DEF AttachQuotation, Serves, Offers
  <2> HIDE DEF c, pkg
  <2>4. QED  BY <2>0, <2>2, <2>3, SerialRecalculates
<1>6. CASE CreateDraftTask(s, r)
  <2> DEFINE item == [old[r] EXCEPT !.status = IF old[r].status = "faltante"
                                               THEN "borrador_pendiente" ELSE @]
             c    == [old EXCEPT ![r].status =
                        IF old[r].status = "faltante"
                        THEN "borrador_pendiente" ELSE @]
             new  == [Loaded(s) EXCEPT !.checklist = c, !.bid = BuildBid(c)]
  <2>1. item \in Item  BY <1>0 DEF Item, Normalized
  <2>2. c = [old EXCEPT ![r] = item]  BY <1>0
  <2>3. c \in Checklists  BY <1>1, <2>1, <2>2
  <2>4. /\ Knows(s) /\ Loaded(s).exists /\ r \in Listed(old)
        /\ Commit(s, new, {"checklist"})
    BY <1>0, <1>6 DEF CreateDraftTask, Serves
  <2>5. SoundRow(Loaded(s))  BY <2>4, LoadedSound
  <2>6. SoundRow(new) /\ new \in Row /\ new.exists
    BY <1>0, <2>3, <2>4, <2>5, DraftSound
  <2> HIDE DEF new
  <2>7. QED  BY <2>4, <2>6, SerialCommits
<1>7. ASSUME NEW k \in Reqs, NEW d \in DocIds, NEW batch \in BOOLEAN,
             Finalize(s, k, r, d, batch)
      PROVE  Serial'
  <2> DEFINE item == [old[r] EXCEPT !.status = "finalizado", !.proc = d]
             c    == [old EXCEPT ![r] = item]
             pkg  == AlsoMatching(Loaded(s), {k})
             new  == Recalculated(sess[s].opp, pkg, c)
             y    == [pc |-> "finalizing", opp |-> sess[s].opp, row |-> new]
  <2>0. pkg \in Row /\ SameButFiles(pkg, Loaded(s))
    BY <1>0, AlsoMatchingSame
  <2>1. item \in Item  BY <1>0 DEF Item, Normalized
  <2>2. c \in Checklists  BY <1>1, <2>1
  <2>3. /\ Knows(s)
        /\ row' = Flush(row, Loaded(s), new, {"checklist", "matched"})
        /\ IF batch THEN Enter(s, "finalizing", sess[s].opp, new) ELSE End(s)
    BY <1>7 DEF Finalize, Knows
  <2> HIDE DEF c, pkg
  <2>4. new \in Row /\ SoundRow(new) /\ new.exists
    BY <2>0, <2>2, <2>3, LoadedSound, SameSound, RecalculatedType,
       RecalculatedSound
  <2> HIDE DEF new
  <2>5. row' = new
    BY <2>3, <2>4, LoadedSound, FlushSame
  <2>6. CASE batch
    <3>1. sess[s].opp \in OppStatuses  BY LoadedType DEF Serial, Tracking
    <3>2. y \in Request  BY <2>4, <3>1 DEF Request, Pcs
    <3>3. sess' = [sess EXCEPT ![s] = y] /\ y.row = new
      BY <2>3, <2>6 DEF Enter
    <3> HIDE DEF y
    <3>4. QED  BY <2>4, <2>5, <3>2, <3>3, SerialMoves
  <2>7. CASE ~batch
    BY <2>3, <2>4, <2>5, <2>7, SerialEnds
  <2>8. QED  BY <2>6, <2>7
<1>8. QED  BY <1>2, <1>3, <1>4, <1>5, <1>6, <1>7 DEF ItemStep

LEMMA SerialWhole ==
  ASSUME OneSession, Serial, Tracking', NEW s \in Sessions,
         (\E columns : RewriteChecklist(s, columns))
           \/ (\E covered : UserInput(s, covered))
  PROVE  Serial'
<1>1. ASSUME NEW columns, RewriteChecklist(s, columns) PROVE Serial'
  <2>1. /\ Knows(s) /\ Loaded(s).exists
        /\ Commit(s, Loaded(s), columns)
    BY <1>1 DEF RewriteChecklist, Serves, Knows
  <2>2. QED  BY <2>1, LoadedSound, SerialCommits
<1>2. ASSUME NEW covered, UserInput(s, covered) PROVE Serial'
  <2> DEFINE old == Loaded(s).checklist
             c   == [r \in Reqs |->
                       LET item == old[r]
                       IN  IF r \in covered /\ item.status = "requiere_completado"
                           THEN [item EXCEPT !.status = "requiere_revision"]
                           ELSE item]
  <2>1. ASSUME NEW r \in Reqs PROVE c[r] \in Item
    <3>1. old[r] \in Item  BY LoadedType DEF Serial, Tracking
    <3>2. QED  BY <3>1 DEF Item, Normalized
  <2>2. c \in Checklists  BY <2>1 DEF Checklists
  <2>3. Knows(s) /\ Commit(s, Recalculated(sess[s].opp, Loaded(s), c), {})
    BY <1>2 DEF UserInput, Serves, Knows
  <2>4. Loaded(s) \in Row  BY LoadedType DEF Serial, Tracking
  <2> HIDE DEF c
  <2>5. QED  BY <2>2, <2>3, <2>4, SameSelf, SerialRecalculates
<1>3. QED  BY <1>1, <1>2

LEMMA SerialPrepared ==
  ASSUME OneSession, Serial, Tracking', NEW s \in Sessions, PreparedStep(s)
  PROVE  Serial'
<1>0. Knows(s) /\ Loaded(s).exists
  BY DEF PreparedStep, PrepareExpediente, MarkReadyForReview, Serves, Knows
<1>1. Loaded(s) = row /\ row \in Row /\ SoundRow(row)
  BY <1>0, LoadedSound
<1>2. CASE PrepareExpediente(s)
  <2> DEFINE st  == ComputeExpedienteStatus(row.checklist, row.bid.pct)
             exp == IF st = "expediente_listo_para_revision"
                    THEN "expediente_incompleto" ELSE st
             new == [row EXCEPT !.expPath = TRUE, !.exp = exp]
  <2>1. exp \in ExpedienteStatuses
    BY ExpedienteStatusType DEF ExpedienteStatuses
  <2>2. exp # "expediente_listo_para_presentar"  BY ComputedStatus
  <2>3. Commit(s, new, {})  BY <1>1, <1>2 DEF PrepareExpediente
  <2> HIDE DEF exp
  <2>4. new \in Row  BY <1>1, <2>1, PreparedColumns
  <2>5. /\ new.exists = row.exists /\ new.checklist = row.checklist
        /\ new.bid = row.bid /\ new.exp = exp /\ new.expPath
        /\ new.real = row.real /\ new.realPath = row.realPath
        /\ new.manifest = row.manifest
    BY <1>1 DEF Row
  <2> HIDE DEF new
  <2>6. SoundRow(new)  BY <1>1, <2>2, <2>5, StatusSound
  <2>7. QED  BY <1>0, <1>1, <2>3, <2>4, <2>5, <2>6, SerialCommits
<1>3. CASE MarkReadyForReview(s)
  <2> DEFINE new == [row EXCEPT !.exp = "expediente_listo_para_revision"]
  <2>1. row.expPath /\ Commit(s, new, {})
    BY <1>1, <1>3 DEF MarkReadyForReview
  <2>2. new \in Row  BY <1>1 DEF Row, ExpedienteStatuses
  <2>3. /\ new.exists = row.exists /\ new.checklist = row.checklist
        /\ new.bid = row.bid /\ new.exp = "expediente_listo_para_revision"
        /\ new.expPath = row.expPath
        /\ new.real = row.real /\ new.realPath = row.realPath
        /\ new.manifest = row.manifest
    BY <1>1 DEF Row
  <2> HIDE DEF new
  <2>4. SoundRow(new)  BY <1>1, <2>1, <2>3, StatusSound
  <2>5. QED  BY <1>0, <1>1, <2>1, <2>2, <2>3, <2>4, SerialCommits
<1>4. QED  BY <1>2, <1>3 DEF PreparedStep

LEMMA SerialReal ==
  ASSUME OneSession, Serial, Tracking', NEW s \in Sessions, RealStep(s)
  PROVE  Serial'
<1>0. Knows(s)
  BY DEF RealStep, Generate, PrepareSubmission, FinishSubmission,
         MarkReadyReview, MarkReadyUpload, LogDownload, Serves, Knows
<1>1. Loaded(s) = row /\ row \in Row /\ SoundRow(row)
  BY <1>0, LoadedSound
<1>2. ASSUME row.exists, NEW files, NEW new, new = Generated(row, files)
      PROVE  /\ new \in Row /\ SoundRow(new) /\ new.exists
             /\ Flush(row, Loaded(s), new, {"manifest"}) = new
  BY <1>1, <1>2, GeneratedType, GeneratedSound, FlushSame
<1>3. CASE Generate(s)
  <2>1. PICK files : row' = Flush(row, Loaded(s), Generated(row, files),
                                  {"manifest"})
    BY <1>1, <1>3 DEF Generate
  <2>2. row.exists /\ End(s)  BY <1>1, <1>3 DEF Generate, Serves
  <2>3. SoundRow(row')  BY <1>2, <2>1, <2>2
  <2>4. QED  BY <2>2, <2>3, SerialEnds
<1>4. CASE PrepareSubmission(s)
  <2>1. PICK files :
          LET new == Generated(row, files)
          IN  /\ row' = Flush(row, Loaded(s), new, {"manifest"})
              /\ Enter(s, "generated", sess[s].opp, new)
    BY <1>1, <1>4 DEF PrepareSubmission
  <2> DEFINE new == Generated(row, files)
             y   == [pc |-> "generated", opp |-> sess[s].opp, row |-> new]
  <2>2. row.exists  BY <1>1, <1>4 DEF PrepareSubmission, Serves
  <2>3. new \in Row /\ SoundRow(new) /\ row' = new
    BY <1>2, <2>1, <2>2
  <2>4. sess' = [sess EXCEPT ![s] = y]  BY <2>1 DEF Enter
  <2> HIDE DEF new
  <2>5. sess[s].opp \in OppStatuses  BY LoadedType DEF Serial, Tracking
  <2>6. y \in Request /\ y.row = new  BY <2>3, <2>5 DEF Request, Pcs
  <2> HIDE DEF y
  <2>7. QED  BY <2>3, <2>4, <2>6, SerialMoves
<1>5. ASSUME row.exists, row.realPath, NEW real \in RealStatuses,
             real = "listo_para_subir" => row.manifest.missing = {}, NEW fresh,
             Commit(s, SyncOperationalState(row, real), fresh)
      PROVE  Serial'
  <2> DEFINE new == SyncOperationalState(row, real)
  <2>1. new \in Row  BY <1>1, SyncType
  <2>2. SoundRow(new) /\ new.exists
    <3>1. row.bid.pct = PreparationPct(row.checklist)
      BY <1>1, <1>5 DEF SoundRow
    <3>2. QED  BY <1>1, <1>5, <3>1, SyncSound
  <2>3. Commit(s, new, fresh)  BY <1>5
  <2> HIDE DEF new
  <2>4. QED  BY <1>0, <2>1, <2>2, <2>3, SerialCommits
<1>6. CASE FinishSubmission(s)
  <2>1. row.realPath /\ row.exists
    BY <1>1, <1>6 DEF FinishSubmission, Serial, Tracking, Loaded
  <2>2. Commit(s, SyncOperationalState(row, "paquete_dgcp_preparado"),
               {"manifest"})
    BY <1>1, <1>6 DEF FinishSubmission
  <2>3. QED  BY <1>5, <2>1, <2>2 DEF RealStatuses
<1>7. CASE MarkReadyReview(s)
  BY <1>1, <1>5, <1>7 DEF MarkReadyReview, Serves, RealStatuses
<1>8. CASE MarkReadyUpload(s)
  BY <1>1, <1>5, <1>8 DEF MarkReadyUpload, Serves, RealStatuses
<1>9. CASE LogDownload(s)
  <2>1. row.exists  BY <1>1, <1>9 DEF LogDownload, Serves
  <2>2. CASE row.real = "paquete_dgcp_preparado"
    <3>1. row.realPath  BY <1>1, <2>2 DEF SoundRow
    <3>2. Commit(s, SyncOperationalState(row, "descargado"), {"manifest"})
      BY <1>1, <1>9, <2>2 DEF LogDownload
    <3>3. QED  BY <1>5, <2>1, <3>1, <3>2 DEF RealStatuses
  <2>3. CASE row.real # "paquete_dgcp_preparado"
    <3>1. Commit(s, row, {"manifest"})
      BY <1>1, <1>9, <2>3 DEF LogDownload
    <3>2. QED  BY <1>0, <1>1, <2>1, <3>1, SerialCommits
  <2>4. QED  BY <2>2, <2>3
<1>10. QED  BY <1>3, <1>4, <1>6, <1>7, <1>8, <1>9 DEF RealStep

LEMMA SerialInit == Init => Serial
<1> SUFFICES ASSUME Init PROVE Serial
  OBVIOUS
<1>1. SoundRow(NoRow)  BY DEF SoundRow, NoRow
<1>2. \A s \in Sessions : ~Knows(s)  BY DEF Init, Knows, Idle
<1>3. QED  BY <1>1, <1>2, TrackingInit DEF Init, Serial

LEMMA SerialStep ==
  ASSUME OneSession PROVE Serial /\ [Next]_vars => Serial'
<1> SUFFICES ASSUME Serial, [Next]_vars PROVE Serial'
  OBVIOUS
<1>1. Tracking'  BY TrackingStep DEF Serial
<1>2. ASSUME NEW s \in Sessions, NEW r \in Reqs, ItemStep(s, r) PROVE Serial'
  BY <1>1, <1>2, SerialItem
<1>3. CASE Next
  BY <1>1, <1>2, <1>3, SerialSession, SerialAnalyze, SerialWhole,
     SerialPrepared, SerialReal DEF Next
<1>4. CASE UNCHANGED vars
  BY <1>1, <1>4 DEF vars, Serial, Knows, Loaded
<1>5. QED  BY <1>3, <1>4

LEMMA SerialAlways == ASSUME OneSession PROVE Spec => []Serial
<1>1. Serial /\ [Next]_vars => Serial'  BY SerialStep
<1>2. QED  BY <1>1, SerialInit, PTL DEF Spec

(* The copies of the real status agree with it and nothing that is ready to *)
(* upload lists a missing requirement, whatever handlers a user calls one   *)
(* after another.                                                           *)
THEOREM RealStatusAgrees ==
  ASSUME OneSession PROVE Spec => []RealStatusIsTrue
<1>1. Serial => RealStatusIsTrue
  BY DEF Serial, SoundRow, RealStatusIsTrue
<1>2. QED  BY <1>1, SerialAlways, PTL

(* The stored percentage is that of the stored checklist after any handler, *)
(* and ready for review is shown for compliant checklists only, unless      *)
(* somebody prepared a folder and marked it.                                *)
THEOREM SummaryAgrees ==
  ASSUME OneSession PROVE Spec => []SummaryIsTrue
<1>1. Serial => SummaryIsTrue
  BY DEF Serial, SoundRow, SummaryIsTrue
<1>2. QED  BY <1>1, SerialAlways, PTL

(* A new analysis carries over the manual validation of every requirement   *)
(* that it extracts again.                                                  *)
THEOREM ManualValidationsSurvive ==
  ASSUME OneSession PROVE Spec => ManualSurvivesAnalysis
<1> DEFINE Kept ==
      \A s \in Sessions : sess[s].pc = "matched" /\ sess'[s].pc = "idle" =>
        \A r \in Listed(row.checklist) \cap Listed(row'.checklist) :
          row'.checklist[r].manual = row.checklist[r].manual
<1>1. Serial /\ [Next]_vars => [Kept]_vars
  <2> SUFFICES ASSUME Serial, Next, NEW s \in Sessions,
                      sess[s].pc = "matched", sess'[s].pc = "idle",
                      NEW r \in Listed(row.checklist) \cap Listed(row'.checklist)
               PROVE  row'.checklist[r].manual = row.checklist[r].manual
    OBVIOUS
  <2>1. sess \in [Sessions -> Request] /\ row \in Row
    BY DEF Serial, Tracking, Backed, TypeOK
  <2>2. \A q \in Sessions : q = s  BY DEF OneSession
  <2>3. Abort(s) \/ AnalyzePersist(s)
    <3>1. ~Load(s) /\ ~Licitar(s) /\ \A to \in Targets : ~SetStatus(s, to)
      BY DEF Load, SetStatus, Licitar, Serves
    <3>2. ~AnalyzeIngest(s) /\ ~AnalyzeRegister(s) /\ ~AnalyzeMatch(s)
      BY DEF AnalyzeIngest, AnalyzeRegister, AnalyzeMatch, Serves
    <3>3. \A q, x, y : ~Validate(s, q, x, y) /\ ~Associate(s, q, x, y)
      BY DEF Validate, Associate, Serves
    <3>4. \A q, x, y : ~Upload(s, q) /\ ~AttachQuotation(s, q, x)
                        /\ ~CreateDraftTask(s, q)
                        /\ \A k : ~Finalize(s, k, q, x, y)
      BY DEF Upload, AttachQuotation, CreateDraftTask, Finalize, Serves
    <3>5. \A columns : ~RewriteChecklist(s, columns)
      BY DEF RewriteChecklist, Serves
    <3>6. \A covered \in SUBSET Reqs : ~UserInput(s, covered)
      BY DEF UserInput, Serves
    <3>7. ~PreparedStep(s)
      BY DEF PreparedStep, PrepareExpediente, MarkReadyForReview, Serves
    <3>8. ~RealStep(s)
      BY DEF RealStep, Generate, PrepareSubmission, FinishSubmission,
             MarkReadyReview, MarkReadyUpload, LogDownload, Serves
    <3>9. \A q \in Reqs : ~ItemStep(s, q)
      BY <3>3, <3>4 DEF ItemStep
    <3>10. AnalyzeStep(s) => AnalyzePersist(s)
      BY <3>2 DEF AnalyzeStep
    <3>11. \A covered \in SUBSET {q \in Reqs : Kind[q] = "sncc"} :
             ~UserInput(s, covered)
      BY <3>6
    <3>12. QED
      BY <2>2, <3>1, <3>5, <3>7, <3>8, <3>9, <3>10, <3>11 DEF Next
  <2>4. CASE Abort(s)  BY <2>4 DEF Abort
  <2>5. CASE AnalyzePersist(s)
    <3>1. PICK extracted \in SUBSET Reqs :
            \E matches :
              row'.checklist = BuildChecklist(extracted, matches, row.checklist)
      <4>1. \E extracted \in SUBSET Reqs : \E matches :
              /\ \A q \in extracted : matches[q] \in MatchResults(q)
              /\ row'.checklist = BuildChecklist(extracted, matches, row.checklist)
        BY <2>5, SerialPersist
      <4>2. QED  BY <4>1
    <3>2. PICK matches :
             row'.checklist = BuildChecklist(extracted, matches, row.checklist)
      BY <3>1
    <3>3. r \in Reqs /\ row'.checklist[r].status # "absent"  BY DEF Listed
    <3>4. r \in extracted
      BY <3>2, <3>3 DEF BuildChecklist, NoItem
    <3>5. row'.checklist[r] = BuildItem(r, matches[r], row.checklist[r])
      BY <3>2, <3>3, <3>4 DEF BuildChecklist
    <3>6. QED  BY <3>5 DEF BuildItem
  <2>6. QED  BY <2>3, <2>4, <2>5
<1>2. ManualSurvivesAnalysis <=> [][Kept]_vars  BY DEF ManualSurvivesAnalysis
<1>3. QED  BY <1>1, <1>2, SerialAlways, PTL DEF Spec

-----------------------------------------------------------------------------
(* One request at a time every handler acts at once: the bid package       *)
(* implements Expediente.  The rules of the two are the same.              *)

LEMMA SameRules ==
  /\ Atomic!Checklists = Checklists /\ Atomic!EmptyChecklist = EmptyChecklist
  /\ \A c : Atomic!Listed(c) = Listed(c)
  /\ \A c : Atomic!CanMarkReadyForReview(c) <=> CanMarkReadyForReview(c)
  /\ \A c : Atomic!CanPreparePackage(c) <=> CanPreparePackage(c)
  /\ \A c : Atomic!Current(c) = ComputeExpedienteStatus(c, PreparationPct(c))
  /\ \A c, f : /\ Atomic!Missing(c, f) = Missing(c, f)
               /\ Atomic!ComputeRealStatus(c, f) = ComputeRealStatus(c, f)
  /\ \A status : Atomic!ExpedienteForReal(status) = ExpedienteForReal(status)
  /\ \A item : /\ Atomic!HasDocumentEvidence(item) <=> HasDocumentEvidence(item)
               /\ Atomic!Supported(item) <=> DocumentBacked(item)
  /\ Atomic!Files = Files
<1>1. Atomic!Checklists = Checklists /\ Atomic!EmptyChecklist = EmptyChecklist
  BY DEF Atomic!Checklists, Checklists, Atomic!EmptyChecklist, EmptyChecklist,
         Atomic!NoItem, NoItem, Atomic!Item, Item, Atomic!Normalized, Normalized,
         Atomic!ManualStatuses, ManualStatuses
<1>2. \A c : Atomic!Listed(c) = Listed(c)
  BY DEF Atomic!Listed, Listed
<1>3. \A c : Atomic!MandatoryIn(c) = MandatoryIn(c)
  BY <1>2 DEF Atomic!MandatoryIn, MandatoryIn
<1>4. /\ Atomic!CompliantStatuses = CompliantStatuses
      /\ Atomic!FaltanteStatuses = FaltanteStatuses
      /\ Atomic!VencidoStatuses = VencidoStatuses
      /\ Atomic!ReviewStatuses = ReviewStatuses
      /\ Atomic!CompleteStatuses = CompleteStatuses
      /\ Atomic!Files = Files
  BY DEF Atomic!CompliantStatuses, CompliantStatuses, Atomic!FaltanteStatuses,
         FaltanteStatuses, Atomic!VencidoStatuses, VencidoStatuses,
         Atomic!ReviewStatuses, ReviewStatuses, Atomic!CompleteStatuses,
         CompleteStatuses, Atomic!Files, Files
<1>5. \A item : /\ Atomic!HasDocumentEvidence(item) <=> HasDocumentEvidence(item)
                /\ Atomic!Supported(item) <=> DocumentBacked(item)
                /\ Atomic!CountsAsCompliant(item) <=> CountsAsCompliant(item)
                /\ Atomic!Blocking(item) <=> Blocking(item)
  BY <1>4 DEF Atomic!HasDocumentEvidence, HasDocumentEvidence, Atomic!Supported,
         DocumentBacked, Atomic!CountsAsCompliant, CountsAsCompliant,
         Atomic!Blocking, Blocking
<1>6. \A c : /\ Atomic!CanMarkReadyForReview(c) <=> CanMarkReadyForReview(c)
             /\ Atomic!CanPreparePackage(c) <=> CanPreparePackage(c)
  BY <1>2, <1>3, <1>4 DEF Atomic!CanMarkReadyForReview, CanMarkReadyForReview,
         Atomic!CanPreparePackage, CanPreparePackage
<1>0. \A S : Atomic!Cardinality(S) = Cardinality(S)
  BY DEF Atomic!Cardinality, Cardinality
<1>a. \A n, d : Atomic!RoundHalfEven(n, d) = RoundHalfEven(n, d)
  BY DEF Atomic!RoundHalfEven, RoundHalfEven
<1>7. \A c : Atomic!PreparationPct(c) = PreparationPct(c)
  BY <1>0, <1>a, <1>2, <1>3, <1>5 DEF Atomic!PreparationPct, PreparationPct
<1>8. \A c, pct : Atomic!ComputeExpedienteStatus(c, pct)
                    = ComputeExpedienteStatus(c, pct)
  <2> TAKE c, pct
  <2> DEFINE S == {c[r].status : r \in MandatoryIn(c)}
  <2>1. {c[r].status : r \in Atomic!MandatoryIn(c)} = S  BY <1>3
  <2>2. ComputeExpedienteStatus(c, pct) =
          IF S = {} THEN "sin_preparar"
          ELSE IF S \subseteq CompliantStatuses /\ pct >= 999
               THEN "expediente_listo_para_revision"
          ELSE IF S \cap VencidoStatuses # {}
               THEN "expediente_con_documentos_vencidos"
          ELSE IF S \cap CompleteStatuses # {}
               THEN "expediente_en_preparacion"
          ELSE IF S \cap (FaltanteStatuses \cup ReviewStatuses) # {}
               THEN "expediente_incompleto"
          ELSE IF pct >= 700 THEN "expediente_incompleto"
          ELSE "expediente_en_preparacion"
    BY DEF ComputeExpedienteStatus
  <2> HIDE DEF S
  <2> QED  BY <1>4, <2>1, <2>2 DEF Atomic!ComputeExpedienteStatus
<1>9. \A c, f : /\ Atomic!Missing(c, f) = Missing(c, f)
                /\ Atomic!Expired(c, f) = Expired(c, f)
  BY <1>2, <1>3, <1>4 DEF Atomic!Missing, Missing, Atomic!Expired, Expired
<1>10. \A r, st, f : Atomic!IsReadyForUpload(r, st, f) <=> IsReadyForUpload(r, st, f)
  BY <1>4 DEF Atomic!IsReadyForUpload, IsReadyForUpload,
         Atomic!RequiresFinalization, RequiresFinalization
<1>11. \A c, f : Atomic!ReadyToUpload(c, f) = ReadyToUpload(c, f)
  BY <1>2, <1>10 DEF Atomic!ReadyToUpload, ReadyToUpload
<1>12. \A c, f : Atomic!RequiresReview(c, f) = RequiresReview(c, f)
  BY <1>2, <1>9, <1>11 DEF Atomic!RequiresReview, RequiresReview
<1>13. \A c, f : Atomic!ComputeRealStatus(c, f) = ComputeRealStatus(c, f)
  BY <1>0, <1>3, <1>9, <1>11, <1>12 DEF Atomic!ComputeRealStatus, ComputeRealStatus
<1>14. \A status : Atomic!ExpedienteForReal(status) = ExpedienteForReal(status)
  BY DEF Atomic!ExpedienteForReal, ExpedienteForReal
<1>15. \A c : Atomic!Current(c) = ComputeExpedienteStatus(c, PreparationPct(c))
  BY <1>7, <1>8 DEF Atomic!Current
<1>16. QED
  BY <1>1, <1>2, <1>4, <1>5, <1>6, <1>9, <1>13, <1>14, <1>15

(* A request knows the opportunity as it is, and what it has checked of it *)
(* before its first commit still holds.                                    *)
Knowing(s) ==
  /\ sess[s].pc # "idle" => sess[s].opp = opp
  /\ sess[s].pc \notin {"idle", "loaded"} => opp \in OperationalInterest
  /\ sess[s].pc = "generated" =>
       row.exists /\ row.realPath /\ CanPreparePackage(row.checklist)

Agreed ==
  /\ Serial
  /\ row.realPath => row.real # "sin_generar"
  /\ \A s \in Sessions : Knowing(s)

LEMMA AgreedMoves ==
  ASSUME OneSession, Agreed, Serial', NEW s \in Sessions, NEW y,
         sess' = [sess EXCEPT ![s] = y],
         y.pc # "idle" => y.opp = opp',
         y.pc \notin {"idle", "loaded"} => opp' \in OperationalInterest,
         y.pc = "generated" =>
           row'.exists /\ row'.realPath /\ CanPreparePackage(row'.checklist),
         row'.realPath => row'.real # "sin_generar"
  PROVE  Agreed'
<1>1. sess \in [Sessions -> Request]
  BY DEF Agreed, Serial, Tracking, Backed, TypeOK
<1>2. sess'[s] = y /\ \A q \in Sessions : q = s
  BY <1>1 DEF OneSession
<1>3. CanPreparePackage(row.checklist)' = CanPreparePackage(row'.checklist)
  BY DEF CanPreparePackage, MandatoryIn, Listed
<1>4. QED  BY <1>2, <1>3 DEF Agreed, Knowing

LEMMA AgreedEnds ==
  ASSUME OneSession, Agreed, Serial', NEW s \in Sessions, End(s),
         row'.realPath => row'.real # "sin_generar"
  PROVE  Agreed'
<1>1. Idle.pc = "idle"  BY DEF Idle
<1>2. QED  BY <1>1, AgreedMoves DEF End

(* What a handler that commits knows.                                      *)
LEMMA LoadedAgreed ==
  ASSUME Agreed, NEW s \in Sessions, Knows(s)
  PROVE  /\ Loaded(s) = row /\ row \in Row /\ SoundRow(row)
         /\ row.checklist \in Checklists /\ row.checklist \in [Reqs -> Item]
         /\ \A r \in Reqs : DocumentBacked(row.checklist[r])
         /\ sess[s].opp = opp
         /\ row.realPath <=> row.real # "sin_generar"
         /\ row.exists => row.bid.pct = PreparationPct(row.checklist)
         /\ sess[s].pc \notin {"idle", "loaded"} => opp \in OperationalInterest
<1>1. Loaded(s) = row /\ row \in Row /\ SoundRow(row)
      /\ row.checklist \in [Reqs -> Item]
  BY LoadedSound DEF Agreed
<1>2. row.checklist \in BackedChecklists
  BY DEF Agreed, Serial, Tracking, Backed, BackedRow
<1>3. Knowing(s) /\ sess[s].pc # "idle"  BY DEF Agreed, Knows
<1>4. QED
  BY <1>1, <1>2, <1>3 DEF BackedChecklists, SoundRow, Agreed, Knowing

(* Nothing that a user sees changes.                                       *)
LEMMA Unseen ==
  ASSUME opp' = opp, row' = row PROVE UNCHANGED Atomic!bid
  BY DEF Atomic!bid

(* The columns that are written, one handler or another.                   *)
LEMMA RecalculatedColumns ==
  ASSUME NEW o, NEW x \in Row, NEW c
  PROVE  LET y == Recalculated(o, x, c)
         IN  /\ y.exists /\ y.checklist = c /\ y.expPath = x.expPath
             /\ y.exp = EffectiveExpedienteStatus(o, x, c)
             /\ y.real = x.real /\ y.realPath = x.realPath
             /\ y.manifest = x.manifest
  BY DEF Recalculated, Row

LEMMA RecalculatedAgain ==
  ASSUME NEW o, NEW pkg \in Row, NEW x, SameButFiles(pkg, x), NEW c
  PROVE  LET y == Recalculated(o, pkg, c)
         IN  /\ y.exists /\ y.checklist = c /\ y.expPath = x.expPath
             /\ y.exp = EffectiveExpedienteStatus(o, x, c)
             /\ y.real = x.real /\ y.realPath = x.realPath
             /\ y.manifest = x.manifest
<1>1. EffectiveExpedienteStatus(o, pkg, c) = EffectiveExpedienteStatus(o, x, c)
  BY DEF SameButFiles, EffectiveExpedienteStatus, TrackingActive
<1>2. QED  BY <1>1, RecalculatedColumns DEF SameButFiles

LEMMA SyncColumns ==
  ASSUME NEW x \in Row, NEW real \in RealStatuses
  PROVE  LET y == SyncOperationalState(x, real)
         IN  /\ y.exists = x.exists /\ y.checklist = x.checklist
             /\ y.expPath = x.expPath /\ y.exp = ExpedienteForReal(real)
             /\ y.real = real /\ y.realPath = x.realPath
             /\ y.manifest.missing = x.manifest.missing
  BY DEF SyncOperationalState, Row

LEMMA GeneratedColumns ==
  ASSUME NEW x \in Row, NEW files
  PROVE  LET y    == Generated(x, files)
             real == ComputeRealStatus(x.checklist, files)
         IN  /\ y.exists = x.exists /\ y.checklist = x.checklist
             /\ y.expPath = x.expPath /\ y.exp = ExpedienteForReal(real)
             /\ y.real = real /\ y.realPath /\ y.real # "sin_generar"
             /\ y.manifest.missing = Missing(x.checklist, files)
<1> DEFINE real == ComputeRealStatus(x.checklist, files)
           miss == Missing(x.checklist, files)
           with == [x EXCEPT !.realPath = TRUE, !.manifest.missing = miss]
<1>1. real \in RealStatuses /\ real # "sin_generar"
  BY DEF ComputeRealStatus, RealStatuses
<1>2. miss \in SUBSET Reqs  BY DEF Missing, MandatoryIn, Listed
<1>3. Generated(x, files) = SyncOperationalState(with, real)  BY DEF Generated
<1> HIDE DEF real, miss
<1>4. with \in Row  BY <1>2, ZenonT(60) DEF Row
<1>5. /\ with.exists = x.exists /\ with.checklist = x.checklist
      /\ with.expPath = x.expPath /\ with.realPath
      /\ with.manifest.missing = miss
  BY DEF Row
<1> HIDE DEF with
<1>6. QED  BY <1>1, <1>3, <1>4, <1>5, SyncColumns DEF real, miss

(* A status computed by a handler is the one that Expediente shows.        *)
LEMMA RevisedSame ==
  ASSUME NEW c, row.expPath \in BOOLEAN
  PROVE  EffectiveExpedienteStatus(opp, row, c) = Atomic!Revised(c)
  BY SameRules
     DEF EffectiveExpedienteStatus, TrackingActive, ExpedienteTracking,
         Atomic!Revised, Atomic!Tracked

LEMMA CommitStores ==
  ASSUME Agreed, NEW s \in Sessions, Knows(s), NEW new \in Row, new.exists,
         NEW fresh, Commit(s, new, fresh)
  PROVE  row' = new /\ End(s)
  BY LoadedAgreed, FlushSame DEF Commit

(* A step of the bid as its user sees it, or none.                         *)
Acts == Atomic!Next \/ UNCHANGED Atomic!bid

LEMMA SessionActs ==
  ASSUME OneSession, Agreed, Serial', NEW s \in Sessions,
         Load(s) \/ Abort(s) \/ (\E to \in Targets : SetStatus(s, to)) \/ Licitar(s)
  PROVE  Agreed' /\ Acts
<1>1. CASE Load(s)
  <2> DEFINE y == [pc |-> "loaded", opp |-> opp, row |-> row]
  <2>1. sess' = [sess EXCEPT ![s] = y] /\ y.pc = "loaded" /\ y.opp = opp
    BY <1>1 DEF Load, Enter
  <2>2. opp' = opp /\ row' = row  BY <1>1 DEF Load
  <2> HIDE DEF y
  <2>3. QED  BY <2>1, <2>2, AgreedMoves, Unseen DEF Acts, Agreed
<1>2. CASE Abort(s)
  <2>1. End(s) /\ opp' = opp /\ row' = row  BY <1>2 DEF Abort
  <2>2. QED  BY <2>1, AgreedEnds, Unseen DEF Acts, Agreed
<1>3. ASSUME NEW to, WriteStatus(s, to), sess[s].pc = "loaded" PROVE opp' = to
  <2>1. sess[s].opp = opp  BY <1>3 DEF Agreed, Knowing
  <2>2. QED  BY <1>3, <2>1 DEF WriteStatus, Column
<1>4. ASSUME NEW to \in Targets, SetStatus(s, to) PROVE Agreed' /\ Acts
  <2>1. End(s) /\ row' = row  BY <1>4 DEF SetStatus
  <2>2. opp' = to  BY <1>3, <1>4 DEF SetStatus
  <2>3. Atomic!Decide(to)  BY <2>1, <2>2 DEF Atomic!Decide
  <2>4. to \in {"detected", "to_review", "interested", "to_bid", "discarded",
                "won", "lost"}
    BY TargetsAssumption DEF OppStatuses
  <2>5. Acts  BY <2>3, <2>4 DEF Acts, Atomic!Next
  <2>6. QED  BY <2>1, <2>5, AgreedEnds DEF Agreed
<1>5. CASE Licitar(s)
  <2>1. opp' = "to_bid"  BY <1>3, <1>5 DEF Licitar
  <2>2. Knows(s)  BY <1>5 DEF Licitar, Knows
  <2>3. CASE row.exists
    <3> DEFINE st  == ComputeExpedienteStatus(row.checklist, row.bid.pct)
               new == [row EXCEPT !.exp = st]
    <3>1. row \in Row /\ Loaded(s) = row /\ st = Atomic!Current(row.checklist)
      BY <2>2, <2>3, LoadedAgreed, SameRules
    <3>2. st \in ExpedienteStatuses  BY ExpedienteStatusType
    <3>3. Commit(s, new, {})  BY <1>5, <2>3, <3>1 DEF Licitar
    <3> HIDE DEF st
    <3>4. /\ new \in Row /\ new.exists = row.exists /\ new.exp = st
          /\ new.checklist = row.checklist /\ new.expPath = row.expPath
          /\ new.real = row.real /\ new.realPath = row.realPath
          /\ new.manifest = row.manifest
      BY <3>1, <3>2 DEF Row
    <3> HIDE DEF new
    <3>5. row' = new /\ End(s)  BY <2>2, <2>3, <3>3, <3>4, CommitStores
    <3>6. Atomic!Licitar
      BY <2>1, <2>3, <3>1, <3>4, <3>5 DEF Atomic!Licitar
    <3>7. Agreed'  BY <3>4, <3>5, AgreedEnds DEF Agreed
    <3>8. QED  BY <3>6, <3>7 DEF Acts, Atomic!Next
  <2>4. CASE ~row.exists
    <3>1. Loaded(s) = row  BY <2>2, LoadedAgreed
    <3>2. End(s) /\ row' = row  BY <1>5, <2>4, <3>1 DEF Licitar
    <3>3. Atomic!Licitar  BY <2>1, <2>4, <3>2 DEF Atomic!Licitar
    <3>4. QED  BY <3>2, <3>3, AgreedEnds DEF Acts, Atomic!Next, Agreed
  <2>5. QED  BY <2>3, <2>4
<1>6. QED  BY <1>1, <1>2, <1>4, <1>5

(* What a rebuilt item keeps of the one before.                            *)
LEMMA BuildItemKeeps ==
  ASSUME NEW r, NEW m, NEW prev
  PROVE  /\ BuildItem(r, m, prev).proc = NoDoc
         /\ ~BuildItem(r, m, prev).odoo
         /\ BuildItem(r, m, prev).manual = prev.manual
         /\ BuildItem(r, m, prev).evidence = prev.evidence
         /\ prev.noAplica => BuildItem(r, m, prev).noAplica
<1> DEFINE raw == IF prev.manual # "none" THEN prev.manual
                  ELSE NormalizeStatus(r, m.status, "none", prev.noAplica)
           st == EnforceEvidence(r, raw, m.doc \/ HasDocumentEvidence(prev),
                                 prev.evidence)
<1>1. BuildItem(r, m, prev) =
        [status |-> st, doc |-> m.doc, proc |-> NoDoc, odoo |-> FALSE,
         manual |-> prev.manual, evidence |-> prev.evidence,
         noAplica |-> prev.noAplica \/ st = "no_aplica"]
  BY DEF BuildItem
<1> HIDE DEF st
<1>2. BuildItem(r, m, prev).noAplica = (prev.noAplica \/ st = "no_aplica")
  BY <1>1
<1>3. /\ BuildItem(r, m, prev).proc = NoDoc /\ ~BuildItem(r, m, prev).odoo
      /\ BuildItem(r, m, prev).manual = prev.manual
      /\ BuildItem(r, m, prev).evidence = prev.evidence
  BY <1>1
<1>4. QED  BY <1>2, <1>3, Zenon

(* An analysis takes three steps that nobody sees and one that is Analyze. *)
LEMMA AnalyzeActs ==
  ASSUME OneSession, Agreed, Serial', NEW s \in Sessions, AnalyzeStep(s)
  PROVE  Agreed' /\ Acts
<1>1. ASSUME NEW pc \in {"ingested", "registered", "matched"}, NEW x,
             Enter(s, pc, sess[s].opp, x), opp' = opp, row' = row,
             sess[s].opp = opp, opp \in OperationalInterest
      PROVE  Agreed' /\ Acts
  <2> DEFINE y == [pc |-> pc, opp |-> sess[s].opp, row |-> x]
  <2>1. sess' = [sess EXCEPT ![s] = y] /\ y.pc = pc /\ y.opp = opp
    BY <1>1 DEF Enter
  <2> HIDE DEF y
  <2>2. QED  BY <1>1, <2>1, AgreedMoves, Unseen DEF Acts, Agreed
<1>2. CASE AnalyzeIngest(s)
  <2>1. sess[s].opp = opp  BY <1>2 DEF AnalyzeIngest, Agreed, Knowing
  <2>2. QED  BY <1>1, <1>2, <2>1 DEF AnalyzeIngest, Interest
<1>3. CASE AnalyzeRegister(s)
  BY <1>1, <1>3 DEF AnalyzeRegister, Agreed, Knowing
<1>4. CASE AnalyzeMatch(s)
  BY <1>1, <1>4 DEF AnalyzeMatch, Agreed, Knowing
<1>5. CASE AnalyzePersist(s)
  <2>1. Knows(s) /\ sess[s].pc = "matched" /\ opp' = opp /\ End(s)
    BY <1>5 DEF AnalyzePersist, Knows
  <2>2. /\ Loaded(s) = row /\ row \in Row /\ row.checklist \in Checklists
        /\ sess[s].opp = opp /\ opp \in OperationalInterest
    BY <2>1, LoadedAgreed
  <2>3. PICK extracted \in Extractions : \E matches :
          /\ \A r \in extracted : matches[r] \in MatchResults(r)
          /\ row' = PersistAnalysis(row, row, Recalculated(opp,
                       Matching(row, {r \in extracted : matches[r].doc}),
                       BuildChecklist(extracted, matches, row.checklist)))
    BY <1>5, <2>2 DEF AnalyzePersist
  <2>4. PICK matches :
          /\ \A r \in extracted : matches[r] \in MatchResults(r)
          /\ row' = PersistAnalysis(row, row, Recalculated(opp,
                       Matching(row, {r \in extracted : matches[r].doc}),
                       BuildChecklist(extracted, matches, row.checklist)))
    BY <2>3
  <2> DEFINE c   == BuildChecklist(extracted, matches, row.checklist)
             pkg == Matching(row, {r \in extracted : matches[r].doc})
             new == Recalculated(opp, pkg, c)
  <2>5. extracted \in SUBSET Reqs  BY ExtractionsAssumption
  <2>a. pkg \in Row /\ SameButFiles(pkg, row)
    BY <2>2, <2>5, MatchingSame
  <2> HIDE DEF pkg
  <2>6. c \in BackedChecklists
    BY <2>2, <2>4, <2>5, BuildChecklistBacked
  <2>7. ASSUME NEW r \in Listed(c)
        PROVE  /\ DocumentBacked(c[r]) /\ c[r].proc = NoDoc /\ ~c[r].odoo
               /\ c[r].manual = row.checklist[r].manual
               /\ c[r].evidence = row.checklist[r].evidence
               /\ row.checklist[r].noAplica => c[r].noAplica
    <3>1. r \in Reqs /\ c[r].status # "absent"  BY DEF Listed
    <3>2. r \in extracted  BY <3>1 DEF BuildChecklist, NoItem
    <3>3. c[r] = BuildItem(r, matches[r], row.checklist[r])
      BY <3>1, <3>2 DEF BuildChecklist
    <3>4. DocumentBacked(c[r])  BY <2>6, <3>1 DEF BackedChecklists
    <3> DEFINE item == BuildItem(r, matches[r], row.checklist[r])
    <3>5. /\ item.proc = NoDoc /\ ~item.odoo
          /\ item.manual = row.checklist[r].manual
          /\ item.evidence = row.checklist[r].evidence
      BY BuildItemKeeps
    <3>6. row.checklist[r].noAplica => item.noAplica
      <4>1. ASSUME NEW m, NEW prev, prev.noAplica PROVE BuildItem(r, m, prev).noAplica
        BY <4>1, BuildItemKeeps
      <4>2. QED  BY <4>1
    <3>7. c[r] = item  BY <3>3
    <3> HIDE DEF c, item
    <3>8. QED  BY <3>4, <3>5, <3>6, <3>7, Zenon
  <2> HIDE DEF c
  <2>8. c \in Checklists  BY <2>6 DEF BackedChecklists
  <2>9. /\ new \in Row /\ new.exists /\ new.checklist = c
        /\ new.expPath = row.expPath /\ new.real = row.real
        /\ new.realPath = row.realPath /\ new.manifest = row.manifest
        /\ new.exp = EffectiveExpedienteStatus(opp, row, c)
    BY <2>a, <2>8, RecalculatedType, RecalculatedAgain
  <2>10. row' = PersistAnalysis(row, row, new)  BY <2>4 DEF c, pkg
  <2> HIDE DEF new
  <2>11. row' = new  BY <2>2, <2>9, <2>10, PersistedSame
  <2>12. row.expPath \in BOOLEAN  BY <2>2 DEF Row
  <2>13. row'.exp = Atomic!Revised(row'.checklist)
    BY <2>9, <2>11, <2>12, RevisedSame
  <2>14. Atomic!Analyze
    <3>1. Atomic!Wanted
      BY <2>2 DEF OperationalInterest, Atomic!Wanted, Atomic!Tracked
    <3>2. row'.checklist \in Atomic!Checklists
          /\ Atomic!Listed(row'.checklist) = Listed(c)
      BY <2>8, <2>9, <2>11, SameRules
    <3>3. \A r \in Listed(c) : Atomic!Supported(c[r])
      BY <2>7, SameRules
    <3>4. row'.exists = TRUE  BY <2>9, <2>11 DEF Row
    <3>5. QED
      BY <2>1, <2>7, <2>9, <2>11, <2>13, <3>1, <3>2, <3>3, <3>4, Zenon DEF Atomic!Analyze
  <2>15. Agreed'
    BY <2>1, <2>9, <2>11, AgreedEnds DEF Agreed
  <2>16. QED  BY <2>14, <2>15 DEF Acts, Atomic!Next
<1>6. QED  BY <1>2, <1>3, <1>4, <1>5 DEF AnalyzeStep

(* A handler that commits a recalculated checklist.                        *)
LEMMA RecalculatedActs ==
  ASSUME OneSession, Agreed, Serial', NEW s \in Sessions, Knows(s),
         NEW c \in Checklists, NEW fresh, opp' = opp,
         NEW pkg \in Row, SameButFiles(pkg, Loaded(s)),
         Commit(s, Recalculated(sess[s].opp, pkg, c), fresh)
  PROVE  /\ Agreed'
         /\ row'.exists /\ row'.checklist = c /\ row'.expPath = row.expPath
         /\ row'.exp = Atomic!Revised(c) /\ row'.real = row.real
         /\ row'.manifest.missing = row.manifest.missing
<1> DEFINE new == Recalculated(opp, pkg, c)
<1>1. row \in Row /\ Loaded(s) = row /\ sess[s].opp = opp  BY LoadedAgreed
<1>2. /\ new \in Row /\ new.exists /\ new.checklist = c
      /\ new.expPath = row.expPath /\ new.real = row.real
      /\ new.realPath = row.realPath /\ new.manifest = row.manifest
      /\ new.exp = EffectiveExpedienteStatus(opp, row, c)
  BY <1>1, RecalculatedType, RecalculatedAgain
<1>3. Commit(s, new, fresh)  BY <1>1
<1> HIDE DEF new
<1>4. row' = new /\ End(s)  BY <1>2, <1>3, CommitStores
<1>5. Agreed'  BY <1>2, <1>4, AgreedEnds DEF Agreed
<1>6. row.expPath \in BOOLEAN  BY <1>1 DEF Row
<1>7. QED  BY <1>2, <1>4, <1>5, <1>6, RevisedSame

LEMMA ItemChange ==
  ASSUME Agreed, NEW s \in Sessions, Knows(s), row.exists, Interest(s),
         NEW r \in Listed(row.checklist), NEW item \in Item,
         item.status # "absent",
         HasDocumentEvidence(row.checklist[r]) => HasDocumentEvidence(item),
         \/ item.manual = row.checklist[r].manual
         \/ item.manual = item.status
         \/ item.manual = "none" /\ item.doc,
         item.noAplica = row.checklist[r].noAplica,
         DocumentBacked(row.checklist[r]) => DocumentBacked(item),
         opp' = opp, row'.exists,
         row'.checklist = [row.checklist EXCEPT ![r] = item],
         row'.expPath = row.expPath,
         row'.manifest.missing = row.manifest.missing
  PROVE  Atomic!ItemChanges(r)
<1>1. /\ row.checklist \in [Reqs -> Item] /\ row.exists = TRUE
      /\ sess[s].opp = opp
  BY LoadedAgreed DEF Row
<1>2. r \in Reqs  BY DEF Listed
<1>3. /\ row'.checklist \in Checklists /\ row'.checklist[r] = item
      /\ \A q \in Reqs \ {r} : row'.checklist[q] = row.checklist[q]
  BY <1>1, <1>2 DEF Checklists
<1>4. Atomic!Wanted
  BY <1>1 DEF Interest, OperationalInterest, Atomic!Wanted, Atomic!Tracked
<1>5. r \in Listed(row'.checklist)  BY <1>2, <1>3 DEF Listed
<1>6. row'.exists = row.exists
  BY <1>1 DEF Agreed, Serial, Tracking, Backed, TypeOK, Row
<1>7. QED
  BY <1>1, <1>2, <1>3, <1>4, <1>5, <1>6, SameRules DEF Atomic!ItemChanges

(* Whatever handler changes an item, it is an Edit, an Associate or a      *)
(* Draft.                                                                  *)
LEMMA EditActs ==
  ASSUME OneSession, Agreed, Serial', NEW s \in Sessions, Knows(s), row.exists,
         Interest(s), NEW r \in Listed(row.checklist), NEW item \in Item,
         item.status # "absent",
         HasDocumentEvidence(row.checklist[r]) => HasDocumentEvidence(item),
         \/ item.manual = row.checklist[r].manual
         \/ item.manual = item.status
         \/ item.manual = "none" /\ item.doc,
         item.noAplica = row.checklist[r].noAplica,
         DocumentBacked(row.checklist[r]) => DocumentBacked(item),
         opp' = opp, NEW fresh, NEW pkg \in Row, SameButFiles(pkg, Loaded(s)),
         Commit(s, Recalculated(sess[s].opp, pkg,
                     [Loaded(s).checklist EXCEPT ![r] = item]), fresh)
  PROVE  Agreed' /\ Acts
<1> DEFINE c == [row.checklist EXCEPT ![r] = item]
<1>1. Loaded(s) = row /\ row.checklist \in [Reqs -> Item] /\ r \in Reqs
  BY LoadedAgreed DEF Listed
<1>2. c \in Checklists  BY <1>1 DEF Checklists
<1>3. Commit(s, Recalculated(sess[s].opp, pkg, c), fresh)  BY <1>1
<1>4. /\ Agreed' /\ row'.exists
      /\ row'.checklist = c /\ row'.expPath = row.expPath
      /\ row'.exp = Atomic!Revised(c) /\ row'.real = row.real
      /\ row'.manifest.missing = row.manifest.missing
  <2> HIDE DEF c
  <2>1. QED  BY <1>2, <1>3, RecalculatedActs
<1>5. Atomic!ItemChanges(r)  BY <1>4, ItemChange
<1> HIDE DEF c
<1>6. Atomic!Edit(r)  BY <1>4, <1>5 DEF Atomic!Edit
<1>7. QED  BY <1>1, <1>4, <1>6 DEF Acts, Atomic!Next

LEMMA ValidateActs ==
  ASSUME OneSession, Agreed, Serial', NEW s \in Sessions, NEW r \in Reqs,
         NEW status \in ManualStatuses, NEW evidence \in BOOLEAN,
         Validate(s, r, status, evidence)
  PROVE  Agreed' /\ Acts
<1> DEFINE old  == row.checklist[r]
           item == [old EXCEPT !.status = status, !.manual = status,
                               !.evidence = evidence]
<1>1. Knows(s) /\ opp' = opp  BY DEF Validate, Serves, Knows
<1>2. Loaded(s) = row /\ old \in Item /\ row \in Row  BY <1>1, LoadedAgreed
<1>3. /\ row.exists /\ Interest(s) /\ r \in Listed(row.checklist)
      /\ Commit(s, Recalculated(sess[s].opp, Loaded(s),
                    [Loaded(s).checklist EXCEPT ![r] = item]),
                {"checklist", "matched"})
  BY <1>2 DEF Validate, Serves
<1>4. /\ item \in Item /\ item.status = status /\ item.manual = status
      /\ item.doc = old.doc /\ item.proc = old.proc /\ item.odoo = old.odoo
      /\ item.noAplica = old.noAplica
  BY <1>2 DEF Item, ManualStatuses, Normalized
<1> HIDE DEF item
<1>5. item.status # "absent" /\ DocumentBacked(item)
  BY <1>4 DEF ManualStatuses, DocumentBacked, CompliantStatuses
<1>6. HasDocumentEvidence(old) => HasDocumentEvidence(item)
  BY <1>4 DEF HasDocumentEvidence
<1>7. QED  BY <1>1, <1>2, <1>3, <1>4, <1>5, <1>6, SameSelf, EditActs

LEMMA AttachActs ==
  ASSUME OneSession, Agreed, Serial', NEW s \in Sessions, NEW r \in Reqs,
         NEW d \in DocIds, AttachQuotation(s, r, d)
  PROVE  Agreed' /\ Acts
<1> DEFINE old  == row.checklist[r]
           item == [old EXCEPT !.status = "adjuntado", !.proc = d, !.odoo = TRUE]
           pkg  == AlsoMatching(Loaded(s), Offers)
<1>1. Knows(s) /\ opp' = opp  BY DEF AttachQuotation, Serves, Knows
<1>2. Loaded(s) = row /\ old \in Item /\ row \in Row  BY <1>1, LoadedAgreed
<1>0. pkg \in Row /\ SameButFiles(pkg, Loaded(s))
  BY <1>2, AlsoMatchingSame DEF Offers
<1>3. /\ row.exists /\ Interest(s) /\ r \in Listed(row.checklist)
      /\ Commit(s, Recalculated(sess[s].opp, pkg,
                    [Loaded(s).checklist EXCEPT ![r] = item]),
                {"checklist", "matched"})
  BY <1>2 DEF AttachQuotation, Serves, Offers
<1>4. /\ item \in Item /\ item.status = "adjuntado"
      /\ item.manual = old.manual /\ item.odoo
      /\ item.noAplica = old.noAplica
  BY <1>2 DEF Item, Normalized
<1> HIDE DEF item, pkg
<1>5. HasDocumentEvidence(item) /\ DocumentBacked(item)
  BY <1>4 DEF HasDocumentEvidence, DocumentBacked
<1>6. QED  BY <1>0, <1>1, <1>3, <1>4, <1>5, EditActs

LEMMA DraftActs ==
  ASSUME OneSession, Agreed, Serial', NEW s \in Sessions, NEW r \in Reqs,
         CreateDraftTask(s, r)
  PROVE  Agreed' /\ Acts
<1> DEFINE old  == row.checklist[r]
           item == [old EXCEPT !.status = IF old.status = "faltante"
                                          THEN "borrador_pendiente" ELSE @]
           c    == [row.checklist EXCEPT ![r] = item]
           new  == [row EXCEPT !.checklist = c, !.bid = BuildBid(c)]
<1>1. Knows(s) /\ opp' = opp  BY DEF CreateDraftTask, Serves, Knows
<1>2. /\ Loaded(s) = row /\ row \in Row /\ old \in Item
      /\ row.checklist \in [Reqs -> Item]
  BY <1>1, LoadedAgreed
<1>3. c = [row.checklist EXCEPT ![r].status =
             IF old.status = "faltante" THEN "borrador_pendiente" ELSE @]
  BY <1>2
<1>4. /\ row.exists /\ Interest(s) /\ r \in Listed(row.checklist)
      /\ Commit(s, new, {"checklist"})
  BY <1>2, <1>3 DEF CreateDraftTask, Serves
<1>5. /\ item \in Item /\ item.manual = old.manual
      /\ item.doc = old.doc /\ item.proc = old.proc /\ item.odoo = old.odoo
      /\ item.noAplica = old.noAplica
      /\ item.status = IF old.status = "faltante" THEN "borrador_pendiente"
                                                  ELSE old.status
  BY <1>2 DEF Item, Normalized
<1>6. old.status # "absent"  BY <1>4 DEF Listed
<1>7. old.status # "faltante" => c = row.checklist
  BY <1>2 DEF Item
<1>8. old.status = "faltante" => item = [old EXCEPT !.status = "borrador_pendiente"]
  OBVIOUS
<1>9. c \in Checklists /\ c[r] = item  BY <1>2, <1>5 DEF Checklists
<1> HIDE DEF item
<1>10. /\ HasDocumentEvidence(old) => HasDocumentEvidence(item)
       /\ DocumentBacked(old) => DocumentBacked(item)
       /\ item.status # "absent"
  BY <1>5, <1>6 DEF HasDocumentEvidence, DocumentBacked, CompliantStatuses
<1>11. BuildBid(c) \in [pct : 0..1000, stage : Stages]
  BY <1>9, PctType DEF BuildBid, Stages
<1>12. new \in Row  BY <1>2, <1>9, <1>11, DraftColumns
<1>13. /\ new.exists = row.exists /\ new.checklist = c /\ new.exp = row.exp
      /\ new.expPath = row.expPath /\ new.real = row.real
      /\ new.realPath = row.realPath /\ new.manifest = row.manifest
  BY <1>2 DEF Row
<1> HIDE DEF new
<1>14. row' = new /\ End(s)  BY <1>1, <1>4, <1>12, <1>13, CommitStores
<1>15. Agreed'  BY <1>13, <1>14, AgreedEnds DEF Agreed
<1>16. CASE old.status = "faltante"
  <2>1. Atomic!ItemChanges(r)
    BY <1>1, <1>4, <1>5, <1>10, <1>13, <1>14, ItemChange
  <2>2. Atomic!Draft(r)
    BY <1>8, <1>9, <1>13, <1>14, <1>16, <2>1 DEF Atomic!Draft, item
  <2>3. QED  BY <1>15, <2>2 DEF Acts, Atomic!Next
<1>17. CASE old.status # "faltante"
  <2>1. UNCHANGED Atomic!bid
    BY <1>1, <1>7, <1>13, <1>14, <1>17 DEF Atomic!bid
  <2>2. QED  BY <1>15, <2>1 DEF Acts
<1>18. QED  BY <1>16, <1>17

(* A document is associated: the item changes, and a generated expediente  *)
(* is out of date.                                                         *)
LEMMA AssociateActs ==
  ASSUME OneSession, Agreed, Serial', NEW s \in Sessions, NEW r \in Reqs,
         NEW template \in BOOLEAN, NEW proc \in procDocs \cup {NoDoc},
         Associate(s, r, template, proc)
  PROVE  Agreed' /\ Acts
<1> DEFINE old  == row.checklist[r]
           st   == AssociatedStatus(r, template, proc)
           item == [old EXCEPT !.status = st, !.doc = TRUE, !.proc = proc,
                               !.manual = "none", !.evidence = FALSE]
           c    == [row.checklist EXCEPT ![r] = item]
           pkg  == AlsoMatching(row, {r})
           mid  == Recalculated(opp, pkg, c)
           new  == MarkStaleIfGenerated(mid)
<1>1. Knows(s) /\ opp' = opp  BY DEF Associate, Serves, Knows
<1>2. /\ Loaded(s) = row /\ row \in Row /\ old \in Item /\ sess[s].opp = opp
      /\ row.checklist \in [Reqs -> Item]
      /\ row.realPath <=> row.real # "sin_generar"
  BY <1>1, LoadedAgreed
<1>3. /\ row.exists /\ Interest(s) /\ r \in Listed(row.checklist)
      /\ Commit(s, new, {})
  BY <1>2 DEF Associate, Serves
<1>a. pkg \in Row /\ SameButFiles(pkg, row)  BY <1>2, AlsoMatchingSame
<1> HIDE DEF pkg
<1>4. /\ proc \in DocIds \cup {NoDoc}
      /\ st \in {"adjuntado", "requiere_completado", "encontrado_vigente"}
  BY DEF AssociatedStatus, Agreed, Serial, Tracking, Backed, TypeOK
<1> HIDE DEF st
<1>5. /\ item \in Item /\ item.status = st /\ item.manual = "none" /\ item.doc
      /\ item.noAplica = old.noAplica
  <2>1. st \in Normalized \cup {"absent"}  BY <1>4 DEF Normalized
  <2>2. QED  BY <1>2, <1>4, <2>1 DEF Item
<1>6. c \in Checklists /\ c[r] = item  BY <1>2, <1>5 DEF Checklists
<1> HIDE DEF item
<1>7. item.status # "absent" /\ HasDocumentEvidence(item) /\ DocumentBacked(item)
  BY <1>4, <1>5 DEF HasDocumentEvidence, DocumentBacked
<1>8. /\ mid \in Row /\ mid.exists /\ mid.checklist = c
      /\ mid.expPath = row.expPath /\ mid.real = row.real
      /\ mid.realPath = row.realPath /\ mid.manifest = row.manifest
      /\ mid.exp = EffectiveExpedienteStatus(opp, row, c)
  <2> HIDE DEF c
  <2>1. QED  BY <1>a, <1>6, RecalculatedType, RecalculatedAgain
<1> HIDE DEF mid
<1>9. mid.exp = Atomic!Revised(c)
  <2>1. row.expPath \in BOOLEAN  BY <1>2 DEF Row
  <2>2. QED  BY <1>8, <2>1, RevisedSame
<1>10. CASE row.real \in {"sin_generar", "requiere_actualizacion"}
  <2>1. new = mid
    BY <1>8, <1>10 DEF MarkStaleIfGenerated
  <2> HIDE DEF new
  <2>2. row' = mid /\ End(s)  BY <1>1, <1>3, <1>8, <2>1, CommitStores
  <2>3. Agreed'  BY <1>2, <1>8, <2>2, AgreedEnds DEF Agreed
  <2>4. Atomic!ItemChanges(r)
    BY <1>1, <1>3, <1>5, <1>7, <1>8, <2>2, ItemChange
  <2>5. Atomic!Edit(r)
    BY <1>8, <1>9, <2>2, <2>4 DEF Atomic!Edit
  <2>6. QED  BY <2>3, <2>5 DEF Acts, Atomic!Next
<1>11. CASE row.real \notin {"sin_generar", "requiere_actualizacion"}
  <2> DEFINE stale == "requiere_actualizacion"
  <2>1. stale \in RealStatuses  BY DEF RealStatuses
  <2>2. mid.realPath  BY <1>2, <1>8, <1>11
  <2>3. new = SyncOperationalState(mid, stale)
    BY <1>8, <1>11, <2>2 DEF MarkStaleIfGenerated
  <2> HIDE DEF new
  <2>4. /\ new \in Row /\ new.exists /\ new.checklist = c
        /\ new.expPath = row.expPath /\ new.real = stale
        /\ new.manifest.missing = row.manifest.missing
        /\ new.exp = ExpedienteForReal(stale)
    BY <1>8, <2>1, <2>3, SyncType, SyncColumns
  <2>5. row' = new /\ End(s)  BY <1>1, <1>3, <2>4, CommitStores
  <2>6. Agreed'  BY <2>4, <2>5, AgreedEnds
  <2>7. Atomic!ItemChanges(r)
    BY <1>1, <1>3, <1>5, <1>7, <2>4, <2>5, ItemChange
  <2>8. Atomic!Reach(stale)  BY <2>4, <2>5, SameRules DEF Atomic!Reach
  <2>9. row'.checklist[r].doc  BY <1>5, <1>6, <2>4, <2>5
  <2>10. Atomic!Associate(r)
    BY <1>11, <2>7, <2>8, <2>9 DEF Atomic!Associate, Atomic!Generated
  <2>11. QED  BY <2>6, <2>10 DEF Acts, Atomic!Next
<1>12. QED  BY <1>10, <1>11

LEMMA FinalizeActs ==
  ASSUME OneSession, Agreed, Serial', NEW s \in Sessions, NEW r \in Reqs,
         NEW k \in Reqs, NEW d \in DocIds, NEW batch \in BOOLEAN,
         Finalize(s, k, r, d, batch)
  PROVE  Agreed' /\ Acts
<1> DEFINE old  == row.checklist[r]
           item == [old EXCEPT !.status = "finalizado", !.proc = d]
           c    == [row.checklist EXCEPT ![r] = item]
           pkg  == AlsoMatching(row, {k})
           new  == Recalculated(opp, pkg, c)
           y    == [pc |-> "finalizing", opp |-> opp, row |-> new]
<1>1. Knows(s) /\ opp' = opp  BY DEF Finalize, Knows
<1>2. /\ Loaded(s) = row /\ row \in Row /\ old \in Item /\ sess[s].opp = opp
      /\ row.checklist \in [Reqs -> Item]
      /\ row.realPath <=> row.real # "sin_generar"
  BY <1>1, LoadedAgreed
<1>3. /\ row.exists /\ Interest(s) /\ r \in Listed(row.checklist)
      /\ row' = Flush(row, row, new, {"checklist", "matched"})
      /\ IF batch THEN sess' = [sess EXCEPT ![s] = y] ELSE End(s)
  BY <1>2 DEF Finalize, Enter
<1>a. pkg \in Row /\ SameButFiles(pkg, row)  BY <1>2, AlsoMatchingSame
<1> HIDE DEF pkg
<1>4. /\ item \in Item /\ item.status = "finalizado" /\ item.proc = d
      /\ item.manual = old.manual /\ item.noAplica = old.noAplica
  BY <1>2 DEF Item, Normalized
<1>5. c \in Checklists  BY <1>2, <1>4 DEF Checklists
<1> HIDE DEF item
<1>6. HasDocumentEvidence(item) /\ DocumentBacked(item)
  BY <1>4, DocIdsAssumption DEF HasDocumentEvidence, DocumentBacked
<1>7. /\ new \in Row /\ new.exists /\ new.checklist = c
      /\ new.expPath = row.expPath /\ new.real = row.real
      /\ new.realPath = row.realPath /\ new.manifest = row.manifest
      /\ new.exp = EffectiveExpedienteStatus(opp, row, c)
  <2> HIDE DEF c
  <2>1. QED  BY <1>a, <1>5, RecalculatedType, RecalculatedAgain
<1>8. y.pc = "finalizing" /\ y.opp = opp  OBVIOUS
<1> HIDE DEF new, y
<1>9. row' = new  BY <1>2, <1>3, <1>7, FlushSame
<1>10. opp \in OperationalInterest  BY <1>2, <1>3 DEF Interest
<1>11. Agreed'
  <2>1. CASE batch
    BY <1>1, <1>3, <1>7, <1>8, <1>9, <1>10, <2>1, AgreedMoves DEF Agreed
  <2>2. CASE ~batch
    BY <1>3, <1>7, <1>9, <2>2, AgreedEnds DEF Agreed
  <2>3. QED  BY <2>1, <2>2
<1>12. row'.exp = Atomic!Revised(c)
  <2>1. row.expPath \in BOOLEAN  BY <1>2 DEF Row
  <2>2. QED  BY <1>7, <1>9, <2>1, RevisedSame
<1>13. Atomic!ItemChanges(r)
  BY <1>1, <1>3, <1>4, <1>6, <1>7, <1>9, ItemChange
<1>14. Atomic!Edit(r)
  BY <1>7, <1>9, <1>12, <1>13 DEF Atomic!Edit
<1>15. QED  BY <1>11, <1>14 DEF Acts, Atomic!Next

LEMMA ItemActs ==
  ASSUME OneSession, Agreed, Serial', NEW s \in Sessions, NEW r \in Reqs,
         ItemStep(s, r)
  PROVE  Agreed' /\ Acts
<1>1. CASE Upload(s, r)
  <2>1. End(s) /\ opp' = opp /\ row' = row  BY <1>1 DEF Upload
  <2>2. QED  BY <2>1, AgreedEnds, Unseen DEF Acts, Agreed
<1>2. QED
  BY <1>1, ValidateActs, AssociateActs, AttachActs, DraftActs, FinalizeActs
     DEF ItemStep

(* The forms that the input covers wait to be reviewed.                    *)
LEMMA WholeActs ==
  ASSUME OneSession, Agreed, Serial', NEW s \in Sessions,
         \/ \E columns : RewriteChecklist(s, columns)
         \/ \E covered \in SUBSET {r \in Reqs : Kind[r] = "sncc"} :
              UserInput(s, covered)
  PROVE  Agreed' /\ Acts
<1>1. ASSUME NEW columns, RewriteChecklist(s, columns) PROVE Agreed' /\ Acts
  <2>1. Knows(s) /\ opp' = opp  BY <1>1 DEF RewriteChecklist, Serves, Knows
  <2>2. /\ Loaded(s) = row /\ row \in Row /\ row.exists
        /\ Commit(s, row, columns)
    BY <1>1, <2>1, LoadedAgreed DEF RewriteChecklist, Serves
  <2>3. row' = row /\ End(s)  BY <2>1, <2>2, CommitStores
  <2>4. QED  BY <2>1, <2>3, AgreedEnds, Unseen DEF Acts, Agreed
<1>2. ASSUME NEW covered, UserInput(s, covered) PROVE Agreed' /\ Acts
  <2> DEFINE fill(item) == [item EXCEPT !.status = "requiere_revision"]
             c == [r \in Reqs |->
                     IF r \in covered
                        /\ row.checklist[r].status = "requiere_completado"
                     THEN fill(row.checklist[r]) ELSE row.checklist[r]]
  <2>1. Knows(s) /\ opp' = opp  BY <1>2 DEF UserInput, Serves, Knows
  <2>2. /\ Loaded(s) = row /\ row \in Row
        /\ row.checklist \in [Reqs -> Item]
    BY <2>1, LoadedAgreed
  <2>3. row.exists /\ Commit(s, Recalculated(sess[s].opp, Loaded(s), c), {})
    BY <1>2, <2>2 DEF UserInput, Serves
  <2>4. \A item \in Item : fill(item) \in Item
    BY DEF Item, Normalized
  <2>5. \A r \in Reqs :
          \/ c[r] = row.checklist[r]
          \/ /\ row.checklist[r].status = "requiere_completado"
             /\ c[r] = fill(row.checklist[r])
    OBVIOUS
  <2>6. \A r \in Reqs : c[r] \in Item  BY <2>2, <2>4, <2>5
  <2>7. c \in Checklists  BY <2>6 DEF Checklists
  <2> HIDE DEF c
  <2>8. /\ Agreed' /\ row'.exists
        /\ row'.checklist = c /\ row'.expPath = row.expPath
        /\ row'.exp = Atomic!Revised(c) /\ row'.real = row.real
        /\ row'.manifest.missing = row.manifest.missing
    BY <2>1, <2>2, <2>3, <2>7, SameSelf, RecalculatedActs
  <2>9. row'.exists = row.exists
    BY <2>2, <2>3, <2>8 DEF Agreed, Serial, Tracking, Backed, TypeOK, Row
  <2>10. Atomic!FillIn
    BY <2>1, <2>3, <2>5, <2>7, <2>8, <2>9, SameRules DEF Atomic!FillIn
  <2>11. QED  BY <2>8, <2>10 DEF Acts, Atomic!Next
<1>3. QED  BY <1>1, <1>2

LEMMA ShownColumns ==
  ASSUME NEW x \in Row, NEW exp \in ExpedienteStatuses
  PROVE  LET y == [x EXCEPT !.exp = exp]
             z == [x EXCEPT !.expPath = TRUE, !.exp = exp]
         IN  /\ y.exists = x.exists /\ y.checklist = x.checklist
             /\ y.expPath = x.expPath /\ y.exp = exp /\ y.real = x.real
             /\ y.realPath = x.realPath /\ y.manifest = x.manifest
             /\ z.exists = x.exists /\ z.checklist = x.checklist
             /\ z.expPath = TRUE /\ z.exp = exp /\ z.real = x.real
             /\ z.realPath = x.realPath /\ z.manifest = x.manifest
  BY DEF Row

LEMMA ShownType ==
  ASSUME NEW x \in Row, NEW exp \in ExpedienteStatuses
  PROVE  [x EXCEPT !.exp = exp] \in Row
  BY ZenonT(60) DEF Row

LEMMA PreparedActs ==
  ASSUME OneSession, Agreed, Serial', NEW s \in Sessions, PreparedStep(s)
  PROVE  Agreed' /\ Acts
<1>1. CASE PrepareExpediente(s)
  <2> DEFINE st  == ComputeExpedienteStatus(row.checklist, row.bid.pct)
             exp == IF st = "expediente_listo_para_revision"
                    THEN "expediente_incompleto" ELSE st
             new == [row EXCEPT !.expPath = TRUE, !.exp = exp]
  <2>1. Knows(s) /\ opp' = opp  BY <1>1 DEF PrepareExpediente, Serves, Knows
  <2>2. /\ Loaded(s) = row /\ row \in Row /\ row.exists
        /\ opp \in ExpedienteTracking /\ Commit(s, new, {})
    BY <1>1, <2>1, LoadedAgreed DEF PrepareExpediente, Serves
  <2>3. st = Atomic!Current(row.checklist)
    BY <2>1, <2>2, LoadedAgreed, SameRules
  <2>4. exp \in ExpedienteStatuses
    BY ExpedienteStatusType DEF ExpedienteStatuses
  <2> HIDE DEF exp
  <2>5. new \in Row  BY <2>2, <2>4, PreparedColumns
  <2>6. /\ new.exists = row.exists /\ new.checklist = row.checklist
        /\ new.expPath = TRUE /\ new.exp = exp /\ new.real = row.real
        /\ new.realPath = row.realPath /\ new.manifest = row.manifest
    BY <2>2, <2>4, ShownColumns
  <2> HIDE DEF new
  <2>7. row' = new /\ End(s)  BY <2>1, <2>2, <2>5, <2>6, CommitStores
  <2>8. Atomic!Prepare
    BY <2>1, <2>2, <2>3, <2>6, <2>7
       DEF Atomic!Prepare, Atomic!Tracked, ExpedienteTracking, exp
  <2>9. Agreed'  BY <2>6, <2>7, AgreedEnds DEF Agreed
  <2>10. QED  BY <2>8, <2>9 DEF Acts, Atomic!Next
<1>2. CASE MarkReadyForReview(s)
  <2> DEFINE ready == "expediente_listo_para_revision"
             new   == [row EXCEPT !.exp = ready]
  <2>1. Knows(s) /\ opp' = opp  BY <1>2 DEF MarkReadyForReview, Serves, Knows
  <2>2. /\ Loaded(s) = row /\ row \in Row /\ row.exists /\ row.expPath
        /\ CanMarkReadyForReview(row.checklist) /\ Commit(s, new, {})
    BY <1>2, <2>1, LoadedAgreed DEF MarkReadyForReview, Serves
  <2>3. ready \in ExpedienteStatuses  BY DEF ExpedienteStatuses
  <2>4. /\ new \in Row /\ new.exists = row.exists /\ new.exp = ready
        /\ new.checklist = row.checklist /\ new.expPath = row.expPath
        /\ new.real = row.real /\ new.realPath = row.realPath
        /\ new.manifest = row.manifest
    BY <2>2, <2>3, ShownColumns, ShownType
  <2> HIDE DEF new
  <2>5. row' = new /\ End(s)  BY <2>1, <2>2, <2>4, CommitStores
  <2>6. Atomic!MarkReady
    BY <2>1, <2>2, <2>4, <2>5, SameRules DEF Atomic!MarkReady
  <2>7. Agreed'  BY <2>4, <2>5, AgreedEnds DEF Agreed
  <2>8. QED  BY <2>6, <2>7 DEF Acts, Atomic!Next
<1>3. QED  BY <1>1, <1>2 DEF PreparedStep

(* A status that the real expediente reaches by a mark or a download.      *)
LEMMA MovesOn ==
  ASSUME OneSession, Agreed, Serial', NEW s \in Sessions, Knows(s),
         row.exists, row.realPath, sess[s].opp \in OperationalInterest,
         opp' = opp, NEW real \in RealStatuses, NEW fresh,
         Commit(s, SyncOperationalState(Loaded(s), real), fresh),
         \/ real = "listo_para_revision"
         \/ real = "listo_para_subir" /\ row.manifest.missing = {}
         \/ real = "paquete_dgcp_preparado" /\ CanPreparePackage(row.checklist)
         \/ real = "descargado" /\ row.real = "paquete_dgcp_preparado"
  PROVE  Agreed' /\ Acts
<1> DEFINE new == SyncOperationalState(row, real)
<1>1. /\ Loaded(s) = row /\ row \in Row /\ sess[s].opp = opp
      /\ row.real # "sin_generar"
  BY LoadedAgreed
<1>2. /\ new \in Row /\ new.exists = row.exists /\ new.checklist = row.checklist
      /\ new.expPath = row.expPath /\ new.exp = ExpedienteForReal(real)
      /\ new.real = real /\ new.realPath = row.realPath
      /\ new.manifest.missing = row.manifest.missing
  BY <1>1, SyncType, SyncColumns
<1>3. Commit(s, new, fresh)  BY <1>1
<1> HIDE DEF new
<1>4. row' = new /\ End(s)  BY <1>2, <1>3, CommitStores
<1>5. Atomic!Reach(real)  BY <1>2, <1>4, SameRules DEF Atomic!Reach
<1>6. Atomic!Wanted /\ Atomic!Generated
  BY <1>1 DEF OperationalInterest, Atomic!Wanted, Atomic!Tracked, Atomic!Generated
<1>7. Atomic!MoveOn
  BY <1>2, <1>4, <1>5, <1>6, SameRules DEF Atomic!MoveOn
<1>8. real # "sin_generar"  OBVIOUS
<1>9. Agreed'  BY <1>2, <1>4, <1>8, AgreedEnds
<1>10. QED  BY <1>7, <1>9 DEF Acts, Atomic!Next

(* A generation, which stores what it resolved.                            *)
LEMMA Generates ==
  ASSUME Agreed, NEW s \in Sessions, Knows(s), row.exists,
         sess[s].opp \in OperationalInterest, opp' = opp,
         NEW files \in ResolvedFiles(row), NEW fresh,
         row' = Flush(row, row, Generated(row, files), fresh)
  PROVE  /\ Atomic!Generate
         /\ row' = Generated(row, files)
         /\ row'.exists /\ row'.checklist = row.checklist
         /\ row'.realPath /\ row'.real # "sin_generar"
<1> DEFINE new  == Generated(row, files)
           real == ComputeRealStatus(row.checklist, files)
<1>1. row \in Row /\ sess[s].opp = opp  BY LoadedAgreed
<1>2. /\ new \in Row /\ new.exists = row.exists /\ new.checklist = row.checklist
      /\ new.expPath = row.expPath /\ new.exp = ExpedienteForReal(real)
      /\ new.real = real /\ new.realPath /\ new.real # "sin_generar"
      /\ new.manifest.missing = Missing(row.checklist, files)
  BY <1>1, GeneratedType, GeneratedColumns
<1>3. row' = Flush(row, row, new, fresh)  OBVIOUS
<1>4. files \in [Reqs -> Atomic!Files]
  BY SameRules DEF ResolvedFiles
<1> HIDE DEF new, real
<1>5. row' = new  BY <1>1, <1>2, <1>3, FlushSame
<1>6. Atomic!Reach(real)  BY <1>2, <1>5, SameRules DEF Atomic!Reach
<1>7. Atomic!Wanted
  BY <1>1 DEF OperationalInterest, Atomic!Wanted, Atomic!Tracked
<1>8. row'.manifest.missing = Atomic!Missing(row.checklist, files)
      /\ Atomic!Reach(Atomic!ComputeRealStatus(row.checklist, files))
  BY <1>2, <1>5, <1>6, SameRules DEF real
<1>9. Atomic!Generate
  BY <1>2, <1>4, <1>5, <1>7, <1>8 DEF Atomic!Generate
<1>10. QED  BY <1>2, <1>5, <1>9 DEF new

LEMMA RealActs ==
  ASSUME OneSession, Agreed, Serial', NEW s \in Sessions, RealStep(s)
  PROVE  Agreed' /\ Acts
<1>1. CASE Generate(s)
  <2>1. Knows(s) /\ opp' = opp /\ End(s)  BY <1>1 DEF Generate, Serves, Knows
  <2>2. Loaded(s) = row  BY <2>1, LoadedAgreed
  <2>3. PICK files \in ResolvedFiles(row) :
          row' = Flush(row, row, Generated(row, files), {"manifest"})
    BY <1>1, <2>2 DEF Generate
  <2>4. row.exists /\ sess[s].opp \in OperationalInterest
    BY <1>1, <2>2 DEF Generate, Serves, Interest
  <2>5. Atomic!Generate /\ row'.real # "sin_generar"
    BY <2>1, <2>3, <2>4, Generates
  <2>6. QED  BY <2>1, <2>5, AgreedEnds DEF Acts, Atomic!Next
<1>2. CASE PrepareSubmission(s)
  <2>1. Knows(s) /\ opp' = opp  BY <1>2 DEF PrepareSubmission, Serves, Knows
  <2>2. Loaded(s) = row /\ sess[s].opp = opp  BY <2>1, LoadedAgreed
  <2>3. PICK files \in ResolvedFiles(row) :
          /\ row' = Flush(row, row, Generated(row, files), {"manifest"})
          /\ Enter(s, "generated", opp, Generated(row, files))
    BY <1>2, <2>2 DEF PrepareSubmission
  <2>4. /\ row.exists /\ opp \in OperationalInterest
        /\ CanPreparePackage(row.checklist)
    BY <1>2, <2>2 DEF PrepareSubmission, Serves, Interest
  <2>5. /\ Atomic!Generate /\ row' = Generated(row, files) /\ row'.exists
        /\ row'.checklist = row.checklist
        /\ row'.realPath /\ row'.real # "sin_generar"
    BY <2>1, <2>2, <2>3, <2>4, Generates
  <2> DEFINE y == [pc |-> "generated", opp |-> opp, row |-> row']
  <2>6. sess' = [sess EXCEPT ![s] = y] /\ y.opp = opp
    BY <2>3, <2>5 DEF Enter
  <2>7. CanPreparePackage(row'.checklist)
    BY <2>4, <2>5 DEF CanPreparePackage, MandatoryIn, Listed
  <2> HIDE DEF y
  <2>8. Agreed'
    BY <2>1, <2>4, <2>5, <2>6, <2>7, AgreedMoves
  <2>9. QED  BY <2>5, <2>8 DEF Acts, Atomic!Next
<1>3. CASE FinishSubmission(s)
  <2>1. /\ Knows(s) /\ opp' = opp /\ sess[s].pc = "generated"
        /\ Commit(s, SyncOperationalState(Loaded(s), "paquete_dgcp_preparado"),
                  {"manifest"})
    BY <1>3 DEF FinishSubmission, Knows
  <2>2. /\ row.exists /\ row.realPath /\ CanPreparePackage(row.checklist)
        /\ sess[s].opp \in OperationalInterest
    BY <2>1 DEF Agreed, Knowing
  <2>3. "paquete_dgcp_preparado" \in RealStatuses  BY DEF RealStatuses
  <2>4. QED  BY <2>1, <2>2, <2>3, MovesOn
<1>4. CASE MarkReadyReview(s)
  <2>1. Knows(s) /\ opp' = opp  BY <1>4 DEF MarkReadyReview, Serves, Knows
  <2>2. Loaded(s) = row  BY <2>1, LoadedAgreed
  <2>3. /\ row.exists /\ row.realPath /\ sess[s].opp \in OperationalInterest
        /\ Commit(s, SyncOperationalState(Loaded(s), "listo_para_revision"), {})
    BY <1>4, <2>2 DEF MarkReadyReview, Serves, Interest
  <2>4. "listo_para_revision" \in RealStatuses  BY DEF RealStatuses
  <2>5. QED  BY <2>1, <2>3, <2>4, MovesOn
<1>5. CASE MarkReadyUpload(s)
  <2>1. Knows(s) /\ opp' = opp  BY <1>5 DEF MarkReadyUpload, Serves, Knows
  <2>2. Loaded(s) = row  BY <2>1, LoadedAgreed
  <2>3. /\ row.exists /\ row.realPath /\ sess[s].opp \in OperationalInterest
        /\ row.manifest.missing = {}
        /\ Commit(s, SyncOperationalState(Loaded(s), "listo_para_subir"), {})
    BY <1>5, <2>2 DEF MarkReadyUpload, Serves, Interest
  <2>4. "listo_para_subir" \in RealStatuses  BY DEF RealStatuses
  <2>5. QED  BY <2>1, <2>3, <2>4, MovesOn
<1>6. CASE LogDownload(s)
  <2>1. Knows(s) /\ opp' = opp  BY <1>6 DEF LogDownload, Serves, Knows
  <2>2. /\ Loaded(s) = row /\ row \in Row
        /\ row.realPath <=> row.real # "sin_generar"
    BY <2>1, LoadedAgreed
  <2>3. row.exists /\ sess[s].opp \in OperationalInterest
    BY <1>6, <2>2 DEF LogDownload, Serves, Interest
  <2>4. CASE row.real = "paquete_dgcp_preparado"
    <3>1. Commit(s, SyncOperationalState(Loaded(s), "descargado"), {"manifest"})
      BY <1>6, <2>2, <2>4 DEF LogDownload
    <3>2. "descargado" \in RealStatuses /\ row.realPath
      BY <2>2, <2>4 DEF RealStatuses
    <3>3. QED  BY <2>1, <2>3, <2>4, <3>1, <3>2, MovesOn
  <2>5. CASE row.real # "paquete_dgcp_preparado"
    <3>1. Commit(s, row, {"manifest"})
      BY <1>6, <2>2, <2>5 DEF LogDownload
    <3>2. row' = row /\ End(s)  BY <2>1, <2>2, <2>3, <3>1, CommitStores
    <3>3. QED  BY <2>1, <3>2, AgreedEnds, Unseen DEF Acts, Agreed
  <2>6. QED  BY <2>4, <2>5
<1>7. QED
  BY <1>1, <1>2, <1>3, <1>4, <1>5, <1>6 DEF RealStep

LEMMA AgreedInit == Init => Agreed /\ Atomic!Init
<1> SUFFICES ASSUME Init PROVE Agreed /\ Atomic!Init
  OBVIOUS
<1>1. /\ row.exists = FALSE /\ row.checklist = EmptyChecklist
      /\ row.exp = "sin_preparar" /\ row.expPath = FALSE
      /\ row.real = "sin_generar" /\ row.realPath = FALSE
      /\ row.manifest.missing = {}
  BY DEF Init, NoRow
<1>2. \A s \in Sessions : Knowing(s)  BY DEF Init, Knowing, Idle
<1>3. Agreed  BY <1>1, <1>2, SerialInit DEF Agreed
<1>4. Atomic!Init  BY <1>1, SameRules DEF Init, Atomic!Init
<1>5. QED  BY <1>3, <1>4

LEMMA AgreedStep ==
  ASSUME OneSession PROVE Agreed /\ [Next]_vars => Agreed' /\ Acts
<1> SUFFICES ASSUME Agreed, [Next]_vars PROVE Agreed' /\ Acts
  OBVIOUS
<1>1. Serial'  BY SerialStep DEF Agreed
<1>2. ASSUME NEW s \in Sessions, NEW r \in Reqs, ItemStep(s, r)
      PROVE  Agreed' /\ Acts
  BY <1>1, <1>2, ItemActs
<1>3. CASE Next
  BY <1>1, <1>2, <1>3, SessionActs, AnalyzeActs, WholeActs, PreparedActs,
     RealActs DEF Next
<1>4. CASE UNCHANGED vars
  <2>1. opp' = opp /\ row' = row /\ sess' = sess  BY <1>4 DEF vars
  <2>2. CanPreparePackage(row.checklist)' = CanPreparePackage(row.checklist)
    BY <2>1 DEF CanPreparePackage, MandatoryIn, Listed
  <2>3. Agreed'  BY <1>1, <2>1, <2>2 DEF Agreed, Knowing
  <2>4. QED  BY <2>1, <2>3, Unseen DEF Acts
<1>5. QED  BY <1>3, <1>4

(* One request at a time, every handler acts at once on the bid: analyses, *)
(* associations, generations, packages and marks read and write what the   *)
(* last request left, whatever copies of percentage and status the row     *)
(* keeps.  It implements the abstract specification Expediente.            *)
THEOREM BidIsAtomic == ASSUME OneSession PROVE Spec => HandlersAreAtomic
<1>1. Init => Agreed /\ Atomic!Init  BY AgreedInit
<1>2. Agreed /\ [Next]_vars => Agreed' /\ [Atomic!Next]_(Atomic!bid)
  BY AgreedStep DEF Acts
<1>3. QED  BY <1>1, <1>2, PTL DEF Spec, HandlersAreAtomic, Atomic!Spec

-----------------------------------------------------------------------------
(* What the rules say of a checklist, whatever handlers produced it         *)

(* The rounded ratio of preparation_pct.                                   *)
Tenths(k, n) == RoundHalfEven(1000 * k, n)

(* A percentage of fewer than 667 items that rounds to 99.9 or more is one *)
(* of all of them.                                                         *)
LEMMA PctOfAll ==
  ASSUME NEW k \in Nat, NEW n \in 1..666, k <= n
  PROVE  Tenths(k, n) \in Int /\ (Tenths(k, n) >= 999 <=> k = n)
<1> DEFINE a == 1000 * k
           q == Tenths(k, n)
<1>0. a \in Nat /\ n \in Nat /\ n > 0  OBVIOUS
<1>1. /\ q \in Nat
      /\ 2 * (n * q) <= 2 * a + n
      /\ 2 * a - n <= 2 * (n * q)
  <2>1. q = RoundHalfEven(a, n)  BY DEF Tenths
  <2> HIDE DEF a, q
  <2>2. QED  BY <1>0, <2>1, HalfEven
<1> HIDE DEF q
<1>2. ASSUME k = n, q < 999 PROVE FALSE
  <2>1. n * q <= n * 998  BY <1>1, <1>2
  <2>2. QED  BY <1>1, <1>2, <2>1
<1>3. ASSUME k # n, q >= 999 PROVE FALSE
  <2>1. n * q >= n * 999  BY <1>1, <1>3
  <2>2. QED  BY <1>1, <1>3, <2>1
<1>4. QED  BY <1>1, <1>2, <1>3 DEF q

(* Of a checklist with fewer than 667 mandatory items the computed status  *)
(* is "ready for review" exactly when every mandatory item is fulfilled by *)
(* a document or does not apply (compute_expediente_status on the          *)
(* preparation_pct of build_bid_package): a validation by hand without     *)
(* document is not enough, although can_mark_ready_for_review takes it,    *)
(* and the cap for blocking optional items does not matter.  From 667 items*)
(* on the rounded percentage hides one such validation.                    *)
THEOREM ReadyIsDocumented ==
  ASSUME NEW c \in Checklists, Cardinality(MandatoryIn(c)) < 667
  PROVE  ComputeExpedienteStatus(c, PreparationPct(c))
           = "expediente_listo_para_revision"
         <=> /\ MandatoryIn(c) # {}
             /\ \A r \in MandatoryIn(c) : CountsAsCompliant(c[r])
<1> DEFINE mand == MandatoryIn(c)
           ok   == {r \in mand : CountsAsCompliant(c[r])}
           n    == Cardinality(mand)
           k    == Cardinality(ok)
           q    == Tenths(k, n)
           statuses == {c[r].status : r \in mand}
<1>1. CASE mand = {}
  BY <1>1 DEF ComputeExpedienteStatus
<1>2. CASE mand # {}
  <2>1. IsFiniteSet(mand) /\ ok \subseteq mand
    BY ReqsAssumption, FS_Subset DEF MandatoryIn, Listed
  <2>2. n \in 1..666 /\ k \in Nat /\ k <= n
    <3>1. n \in Nat /\ k \in Nat /\ k <= n
      BY <2>1, FS_Subset, FS_CardinalityType
    <3>2. n # 0 /\ n < 667  BY <1>2, <2>1, FS_EmptySet
    <3> HIDE DEF n, k
    <3> QED  BY <3>1, <3>2
  <2>3. k = n <=> ok = mand
    BY <2>1, FS_Subset
  <2>4. q \in Int /\ (q >= 999 <=> k = n)
    <3> HIDE DEF n, k
    <3> QED  BY <2>2, PctOfAll
  <2>5. PreparationPct(c) >= 999 <=> ok = mand
    <3>1. /\ PreparationPct(c) \in {q, 999}
          /\ PreparationPct(c) # q => q > 999
      BY <1>2 DEF PreparationPct, Tenths
    <3> HIDE DEF q, ok, mand
    <3> QED  BY <3>1, <2>3, <2>4
  <2>6. statuses # {}  BY <1>2
  <2>7. ComputeExpedienteStatus(c, PreparationPct(c))
          = "expediente_listo_para_revision"
        <=> statuses \subseteq CompliantStatuses /\ PreparationPct(c) >= 999
    <3> DEFINE p == PreparationPct(c)
    <3> HIDE DEF p
    <3> QED  BY <2>6 DEF ComputeExpedienteStatus
  <2>8. ok = mand => statuses \subseteq CompliantStatuses
    BY DEF CountsAsCompliant
  <2>9. ok = mand <=> \A r \in mand : CountsAsCompliant(c[r])  OBVIOUS
  <2> QED  BY <1>2, <2>5, <2>7, <2>8, <2>9
<1>3. QED  BY <1>1, <1>2

(* A generation that finds the expediente ready has a compliant item and a *)
(* file for every mandatory requirement, final where one must be finalized,*)
(* and nothing expired (compute_real_expediente_status over                *)
(* classify_expediente); if the economic offers are mandatory,             *)
(* validate_package finds no critical error in it.                         *)
THEOREM GeneratedIsComplete ==
  ASSUME NEW c \in Checklists, NEW files \in [Reqs -> Files],
         ComputeRealStatus(c, files) = "listo_para_revision"
  PROVE  /\ CanMarkReadyForReview(c)
         /\ \A r \in MandatoryIn(c) :
              /\ files[r] # "none"
              /\ RequiresFinalization(r) =>
                   /\ c[r].status \in {"finalizado", "pdf_final_generado",
                                       "validado_manual"}
                   /\ files[r] # "docx"
         /\ \A r \in Listed(c) : c[r].status \notin VencidoStatuses
         /\ (\A r \in Listed(c) : Kind[r] = "economica" => r \in Mandatory)
              => CanPreparePackage(c)
<1>1. IsFiniteSet(MandatoryIn(c))
  BY ReqsAssumption, FS_Subset DEF MandatoryIn, Listed
<1>2. /\ Cardinality(MandatoryIn(c)) # 0 /\ Missing(c, files) = {}
      /\ Expired(c, files) = {} /\ RequiresReview(c, files) = {}
  BY Zenon DEF ComputeRealStatus
<1>3. MandatoryIn(c) # {}  BY <1>2, FS_EmptySet
<1>4. \A r \in MandatoryIn(c) :
        r \in Listed(c) /\ r \in Mandatory /\ IsReadyForUpload(r, c[r].status, files[r])
  BY <1>2 DEF RequiresReview, ReadyToUpload, MandatoryIn
<1>5. \A r \in MandatoryIn(c) : c[r].status \in CompliantStatuses
  BY <1>4 DEF IsReadyForUpload
<1>6. CanMarkReadyForReview(c)  BY <1>3, <1>5 DEF CanMarkReadyForReview
<1>7. \A r \in Listed(c) : c[r].status \notin VencidoStatuses
  BY <1>2 DEF Expired
<1>8. ASSUME \A r \in Listed(c) : Kind[r] = "economica" => r \in Mandatory
      PROVE  CanPreparePackage(c)
  BY <1>4, <1>8 DEF CanPreparePackage, IsReadyForUpload, RequiresFinalization,
       MandatoryIn
<1>9. QED  BY <1>4, <1>6, <1>7, <1>8 DEF IsReadyForUpload
=============================================================================
