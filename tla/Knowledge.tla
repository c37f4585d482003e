------------------------------ MODULE Knowledge ------------------------------
(***************************************************************************)
(* The corporate knowledge repository: synchronizations read the folders   *)
(* of the documents, keep an asset and alerts for every file and build the *)
(* graph of companies and their documents anew.                            *)
(*                                                                         *)
(* A synchronization commits after each file, after each alert and after   *)
(* each of its later stages, while users change the files, days pass and   *)
(* other synchronizations run.  What documents are about is left out, and  *)
(* so is all that is only read from the assets.                            *)
(***************************************************************************)
EXTENDS Integers

CONSTANTS Sessions,
          Paths,
          Corporate,      \* paths that name one of the companies
          Versions,       \* contents of files
          Naming,         \* contents that name one
          UntilOf,        \* the last day on which a content is valid
          MaxDay,
          Warning,        \* knowledge_vigency_warning_days
          MaxEdits, MaxSyncs,     \* bounds on what happens at all
          Absent,         \* no file, or nothing that could be read
          Undated

ASSUME KnowledgeAssumption ==
  /\ Paths # {} /\ Corporate \subseteq Paths /\ Naming \subseteq Versions
  /\ MaxDay \in Nat /\ Warning \in Nat
  /\ MaxEdits \in Nat /\ MaxSyncs \in Nat
  /\ UntilOf \in [Versions -> (0..MaxDay) \cup {Undated}]
  /\ Absent \notin Versions /\ Undated \notin Int

Days == 0..MaxDay
Files == Versions \cup {Absent}
Statuses == {"vigente", "proximo_a_vencer", "vencido", "sin_fecha"}
AlertTypes == {"vencido", "proximo_vencimiento"}

VARIABLES
  disk,        \* the folders
  today,
  edits, syncs,    \* how many there have been
  asset,       \* rows, by path
  alert,       \* open alerts of an asset, by type, counted up to two
  entities,    \* the graph has its entities
  links,       \* relationships of a document, counted up to two
  run,         \* what each synchronization is doing
  interrupted, \* auxiliary: documents whose row was written by one that
               \* then failed before it had raised the alert
  overlapped   \* auxiliary: two synchronizations have overlapped

vars == <<disk, today, edits, syncs, asset, alert, entities, links, run,
          interrupted, overlapped>>

Asset == [exists : BOOLEAN,
          active : BOOLEAN,
          hash   : Files,       \* of the file as it was listed
          text   : Files,       \* what was read from it
          company : BOOLEAN,    \* company_key is set
          until  : Days \cup {Undated},
          status : Statuses]

NoAsset == [exists |-> FALSE, active |-> FALSE, hash |-> Absent,
            text |-> Absent, company |-> FALSE, until |-> Undated,
            status |-> "sin_fecha"]

Pcs == {"none", "files", "write", "refresh", "alert", "raise", "clear",
        "look", "insert", "link", "save", "broken"}

Sync == [pc     : Pcs,
         listed : [Paths -> Files],
         todo   : SUBSET Paths,
         path   : Paths,              \* the file in hand
         loaded : Asset,              \* its row as it was read
         new    : Asset,              \* and as it is to be
         seen   : {"none", "entities", "deleted"},
         quiet  : BOOLEAN]            \* auxiliary: no file has changed and
                                      \* no day has passed, every file
                                      \* was read and none was skipped
AnyPath == CHOOSE p \in Paths : TRUE
Idle == [pc |-> "none", listed |-> [p \in Paths |-> Absent], todo |-> {},
         path |-> AnyPath, loaded |-> NoAsset, new |-> NoAsset,
         seen |-> "none", quiet |-> FALSE]

TypeOK ==
  /\ disk \in [Paths -> Files]
  /\ today \in Days
  /\ edits \in 0..MaxEdits /\ syncs \in 0..MaxSyncs
  /\ asset \in [Paths -> Asset]
  /\ alert \in [Paths -> [AlertTypes -> 0..2]]
  /\ entities \in BOOLEAN
  /\ links \in [Paths -> 0..2]
  /\ run \in [Sessions -> Sync]
  /\ interrupted \subseteq Paths
  /\ overlapped \in BOOLEAN

Init ==
  /\ disk \in [Paths -> Files]
  /\ today = 0
  /\ edits = 0 /\ syncs = 0
  /\ asset = [p \in Paths |-> NoAsset]
  /\ alert = [p \in Paths |-> [k \in AlertTypes |-> 0]]
  /\ entities = FALSE
  /\ links = [p \in Paths |-> 0]
  /\ run = [s \in Sessions |-> Idle]
  /\ interrupted = {}
  /\ overlapped = FALSE

-----------------------------------------------------------------------------
(* The world: files come, change and go; days pass. *)

Disturbed == run' = [s \in Sessions |-> [run[s] EXCEPT !.quiet = FALSE]]

Edit(p, v) ==
  /\ disk[p] # v
  /\ edits < MaxEdits /\ edits' = edits + 1
  /\ disk' = [disk EXCEPT ![p] = v]
  /\ Disturbed
  /\ UNCHANGED <<today, syncs, asset, alert, entities, links, interrupted,
                 overlapped>>

NextDay ==
  /\ today < MaxDay
  /\ today' = today + 1
  /\ Disturbed
  /\ UNCHANGED <<disk, edits, syncs, asset, alert, entities, links,
                 interrupted, overlapped>>

-----------------------------------------------------------------------------
(* The files *)

world == <<disk, today, edits, syncs>>

Step(s, r) ==
  /\ run' = [run EXCEPT ![s] = r]
  /\ UNCHANGED <<world, interrupted, overlapped>>

graph == <<entities, links>>

(* sync: nothing is done while the source is not available. *)
Begin(s) ==
  /\ run[s].pc = "none"
  /\ syncs < MaxSyncs /\ syncs' = syncs + 1
  /\ run' = [run EXCEPT ![s] =
       [Idle EXCEPT !.pc = "files", !.quiet = TRUE, !.listed = disk,
                    !.todo = {p \in Paths : disk[p] # Absent}]]
  /\ overlapped' = (overlapped \/ \E r \in Sessions : run[r].pc # "none")
  /\ UNCHANGED <<disk, today, edits, asset, alert, graph, interrupted>>

(* VigencyEngine.classify *)
VigencyRenamed(until, day) ==
  CASE until = Undated         -> "sin_fecha"
    [] until < day             -> "expirado"
    [] until <= day + Warning  -> "proximo_a_vencer"
    [] OTHER                   -> "vigente"

Vigency(until, day) ==
  CASE until = Undated         -> "sin_fecha"
    [] until < day             -> "vencido"
    [] until <= day + Warning  -> "proximo_a_vencer"
    [] OTHER                   -> "vigente"

Validity(text) == IF text = Absent THEN Undated ELSE UntilOf[text]

(* _detect_company *)
NamesCompany(p, text) == p \in Corporate \/ text \in Naming

(* A file of a known hash is read again, but only what follows from its    *)
(* dates is updated: its text and its company are those of the first time. *)
KeptUnchanged(old, hash, p, text) ==
  IF old.exists /\ old.hash = hash
    THEN [old EXCEPT !.active = TRUE]
    ELSE [exists |-> TRUE, active |-> TRUE, hash |-> hash, text |-> text,
          company |-> NamesCompany(p, text), until |-> Validity(text),
          status |-> Vigency(Validity(text), today)]

Known(old, hash) == old.exists /\ old.hash = hash

Upserted(old, hash, p, text) ==
  LET until == Validity(text)
      known == Known(old, hash)
  IN  [exists  |-> TRUE, active |-> TRUE, hash |-> hash,
       text    |-> IF known THEN old.text ELSE text,
       company |-> IF known THEN old.company ELSE NamesCompany(p, text),
       until   |-> until, status |-> Vigency(until, today)]

(* The row is looked up and the file is read, as it is by now, if it can   *)
(* be read.                                                                *)
ReadFile(s, p, text) ==
  LET r == run[s] IN
  /\ r.pc = "files" /\ p \in r.todo
  /\ text \in {disk[p], Absent}
  /\ Step(s, [r EXCEPT !.pc = "write", !.path = p, !.loaded = asset[p],
                       !.new = Upserted(asset[p], r.listed[p], p, text),
                       !.quiet = @ /\ text # Absent])
  /\ UNCHANGED <<asset, alert, graph>>

(* An error in what a file is taken for is noted, and the next one is read. *)
SkipFile(s, p) ==
  LET r == run[s] IN
  /\ r.pc = "files" /\ p \in r.todo
  /\ Step(s, [r EXCEPT !.todo = @ \ {p}, !.quiet = FALSE])
  /\ UNCHANGED <<asset, alert, graph>>

(* Columns that were not set to another value keep what others wrote. *)
Merged(row, old, new) ==
  [c \in DOMAIN row |-> IF new[c] # old[c] THEN new[c] ELSE row[c]]

(* uq_knowledge_assets_tenant_path: a row that another one has inserted    *)
(* meanwhile leaves the session unusable.                                  *)
WriteAsset(s) ==
  LET r == run[s]
      taken == ~r.loaded.exists /\ asset[r.path].exists
  IN  /\ r.pc = "write"
      /\ Step(s, [r EXCEPT !.pc = IF taken THEN "broken"
                                 ELSE IF Known(r.loaded, r.new.hash) THEN "alert"
                                 ELSE "refresh",
                           !.loaded = NoAsset])
      /\ asset' = IF taken THEN asset
                           ELSE [asset EXCEPT ![r.path] =
                                   Merged(@, r.loaded, r.new)]
      /\ UNCHANGED <<alert, graph>>

(* A row that is new, or of a new hash, is read again after the commit: as *)
(* another synchronization may have left it by then.                       *)
Refresh(s) ==
  /\ run[s].pc = "refresh"
  /\ Step(s, [run[s] EXCEPT !.pc = "alert", !.new = asset[run[s].path]])
  /\ UNCHANGED <<asset, alert, graph>>

(* VigencyEngine.alert_for_status *)
AlertFor(status) ==
  CASE status = "vencido"          -> {"vencido"}
    [] status = "proximo_a_vencer" -> {"proximo_vencimiento"}
    [] OTHER                       -> {}

NextFile(r) == [r EXCEPT !.pc = "files", !.todo = @ \ {r.path}]

(* _sync_alerts: an alert of the type that is open already is enough; two  *)
(* are an error that ends the work on this file.                           *)
CheckAlertLoosely(s) ==
  LET r == run[s]
      open == {k \in AlertTypes : alert[r.path][k] > 0}
  IN  /\ r.pc = "alert"
      /\ Step(s, IF AlertFor(r.new.status) # {} /\ open = {}
                   THEN [r EXCEPT !.pc = "raise"] ELSE NextFile(r))
      /\ UNCHANGED <<asset, alert, graph>>

RaiseAlways(s) ==
  LET r == run[s] IN
  /\ r.pc = "alert"
  /\ Step(s, IF AlertFor(r.new.status) # {} THEN [r EXCEPT !.pc = "raise"]
                                            ELSE NextFile(r))
  /\ UNCHANGED <<asset, alert, graph>>

CheckAlert(s) ==
  LET r == run[s]
      missing == \E k \in AlertFor(r.new.status) : alert[r.path][k] = 0
  IN  /\ r.pc = "alert"
      /\ Step(s, IF missing THEN [r EXCEPT !.pc = "raise"] ELSE NextFile(r))
      /\ UNCHANGED <<asset, alert, graph>>

RaiseAlert(s) ==
  LET r == run[s] IN
  /\ r.pc = "raise"
  /\ alert' = [alert EXCEPT ![r.path] =
                 [k \in AlertTypes |->
                    IF k \in AlertFor(r.new.status) /\ @[k] < 2
                      THEN @[k] + 1 ELSE @[k]]]
  /\ Step(s, NextFile(r))
  /\ UNCHANGED <<asset, graph>>

(* _deactivate_missing *)
Deactivate(s) ==
  LET r == run[s] IN
  /\ r.pc = "files" /\ r.todo = {}
  /\ asset' = [p \in Paths |->
                 [asset[p] EXCEPT !.active = @ /\ r.listed[p] # Absent]]
  /\ Step(s, [Idle EXCEPT !.pc = "clear", !.quiet = r.quiet])
  /\ UNCHANGED <<alert, graph>>

-----------------------------------------------------------------------------
(* rebuild_graph *)

(* The deletion commits: until the end of the next build there is no graph *)
(* to be seen, and entities that others have found are gone.               *)
Clear(s) ==
  /\ run[s].pc = "clear"
  /\ entities' = FALSE
  /\ links' = [p \in Paths |-> 0]
  /\ run' = [r \in Sessions |->
       IF r = s THEN [run[s] EXCEPT !.pc = "look"]
       ELSE [run[r] EXCEPT !.seen = IF @ = "entities" THEN "deleted" ELSE @]]
  /\ UNCHANGED <<world, asset, alert, interrupted, overlapped>>

(* _ensure_entity *)
LookForEntities(s) ==
  /\ run[s].pc = "look"
  /\ Step(s, [run[s] EXCEPT !.pc   = IF entities THEN "link" ELSE "insert",
                            !.seen = IF entities THEN "entities" ELSE "none"])
  /\ UNCHANGED <<asset, alert, graph>>

Inserted(s) == run[s].pc = "link" /\ run[s].seen = "none"

(* uq_knowledge_entities_tenant_slug: the insertion waits for another one, *)
(* and fails if that one commits.                                          *)
InsertEntities(s) ==
  /\ run[s].pc = "insert"
  /\ \A r \in Sessions : ~Inserted(r)
  /\ Step(s, [run[s] EXCEPT !.pc = IF entities THEN "broken" ELSE "link"])
  /\ UNCHANGED <<asset, alert, graph>>

(* A link to an entity that was deleted is an error. *)
Link(s) ==
  LET linked == {p \in Paths : asset[p].company /\ asset[p].active} IN
  /\ run[s].pc = "link" /\ run[s].seen # "deleted"
  /\ entities' = TRUE
  /\ links' = [p \in Paths |-> IF p \in linked /\ links[p] < 2
                                 THEN links[p] + 1 ELSE links[p]]
  /\ Step(s, [run[s] EXCEPT !.pc = "save"])
  /\ UNCHANGED <<asset, alert>>

(* _save_sync_state, and the answer to the user. *)
Save(s) ==
  /\ run[s].pc = "save"
  /\ Step(s, Idle)
  /\ UNCHANGED <<asset, alert, graph>>

(* An error, a session that cannot be used or a server that stops: what    *)
(* was committed stays.                                                    *)
Fail(s) ==
  /\ run[s].pc # "none"
  /\ run' = [run EXCEPT ![s] = Idle]
  /\ interrupted' = IF run[s].pc \in {"refresh", "alert", "raise"}
                      THEN interrupted \cup {run[s].path} ELSE interrupted
  /\ UNCHANGED <<world, asset, alert, graph, overlapped>>

-----------------------------------------------------------------------------

Synchronize(s) ==
  \/ Begin(s)
  \/ \E p \in Paths, text \in Files : ReadFile(s, p, text)
  \/ \E p \in Paths : SkipFile(s, p)
  \/ WriteAsset(s) \/ Refresh(s) \/ CheckAlert(s) \/ RaiseAlert(s)
  \/ Deactivate(s)
  \/ Clear(s) \/ LookForEntities(s) \/ InsertEntities(s) \/ Link(s)
  \/ Save(s) \/ Fail(s)

Next ==
  \/ NextDay
  \/ \E p \in Paths, v \in Files : Edit(p, v)
  \/ \E s \in Sessions : Synchronize(s)

Spec == Init /\ [][Next]_vars

-----------------------------------------------------------------------------
(* Properties *)

Matches(p) ==
  LET a == asset[p] IN
  IF disk[p] = Absent
    THEN ~a.active
    ELSE /\ a.active /\ a.hash = disk[p]
         /\ a.until = UntilOf[disk[p]] /\ a.status = Vigency(a.until, today)

Raised(p) == \A k \in AlertFor(asset[p].status) : alert[p][k] > 0

(* A synchronization that overlaps with no other, while the folders rest   *)
(* and every file can be read, leaves the assets with the hashes and dates *)
(* of the files on this day, the alerts that follow from them, and one     *)
(* link for every document that names a company in its path or in the text *)
(* that is stored with its hash, whatever earlier synchronizations read    *)
(* wrong or left half done.                                                *)
SyncRepairs ==
  \A s \in Sessions :
    run[s].pc = "save" /\ run[s].quiet /\ ~overlapped =>
      \A p \in Paths :
        /\ Matches(p)
        /\ disk[p] # Absent => Raised(p)
        /\ links[p] = IF disk[p] # Absent /\ NamesCompany(p, asset[p].text)
                        THEN 1 ELSE 0

(* A document that is stored as expired, or close to it, has an open alert *)
(* that says so, or a synchronization is about to raise it, or one has     *)
(* failed between the two commits: also where synchronizations overlap     *)
(* whose days, texts and hashes differ, each writes the columns that it    *)
(* has changed, and some raise alerts for what the row has become.         *)
AboutToRaise(s, p, k) ==
  LET r == run[s] IN
  /\ r.path = p
  /\ \/ r.pc = "refresh"
     \/ r.pc \in {"alert", "raise"} /\ k \in AlertFor(r.new.status)

AlertsAreRaised ==
  \A p \in Paths \ interrupted : \A k \in AlertFor(asset[p].status) :
    alert[p][k] > 0 \/ \E s \in Sessions : AboutToRaise(s, p, k)

(* However often a document is synchronized, it has one open alert of a    *)
(* type, as long as no two synchronizations overlap.                       *)
OneAlertOfAType ==
  ~overlapped => \A p \in Paths, k \in AlertTypes : alert[p][k] <= 1
=============================================================================
