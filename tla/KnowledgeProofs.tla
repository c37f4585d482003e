--------------------------- MODULE KnowledgeProofs ---------------------------
(***************************************************************************)
(* Proofs about Knowledge, for any number of sessions, files and days: the *)
(* variables keep their types, alerts are raised under any overlap, and    *)
(* without overlap no alert is raised twice and a synchronization leaves   *)
(* the repository with what is in the folders.                             *)
(***************************************************************************)
EXTENDS Knowledge, TLAPS

-----------------------------------------------------------------------------
(* The inductive invariant, in parts.                                      *)

\* Without overlap one synchronization is under way.
AloneOK ==
  ~overlapped =>
    \A s, r \in Sessions : run[s].pc # "none" /\ run[r].pc # "none" => s = r

\* Without overlap the alert that is about to be raised is not open.
RaiseOK ==
  ~overlapped =>
    \A s \in Sessions :
      run[s].pc = "raise" =>
        \A k \in AlertFor(run[s].new.status) : alert[run[s].path][k] = 0

\* The company of a row follows from its path and the text stored with it.
CompanyOf(a, p) == a.exists => (a.company <=> NamesCompany(p, a.text))

CompanyOK == ~overlapped => \A p \in Paths : CompanyOf(asset[p], p)

\* Without overlap a row is written over the one that was read.
WriteOK ==
  ~overlapped =>
    \A s \in Sessions :
      LET r == run[s] IN
      r.pc = "write" => r.loaded = asset[r.path] /\ CompanyOf(r.new, r.path)

\* A row says what is in the file, and the dates of today.
Fits(a, p) ==
  /\ disk[p] # Absent
  /\ a.exists /\ a.active /\ a.hash = disk[p]
  /\ a.until = UntilOf[disk[p]] /\ a.status = Vigency(a.until, today)

Done(p) == disk[p] # Absent => Fits(asset[p], p) /\ Raised(p)

\* The files are done.
AllDone == \A p \in Paths : Matches(p) /\ Done(p)

\* How far a synchronization has come that nothing has disturbed.
ProgressOK(s) ==
  LET r == run[s] IN
  /\ r.pc \in {"files", "write", "refresh", "alert", "raise"} =>
       r.listed = disk /\ \A p \in Paths \ r.todo : Done(p)
  /\ r.pc \in {"write", "refresh", "alert", "raise"} => r.path \in r.todo
  /\ r.pc = "write" => Fits(r.new, r.path)
  /\ r.pc \in {"refresh", "alert", "raise"} => Fits(asset[r.path], r.path)
  /\ r.pc \in {"alert", "raise"} => r.new.status = asset[r.path].status
  /\ r.pc \in {"clear", "look", "insert", "link", "save"} => AllDone
  /\ r.pc \in {"look", "insert", "link"} => \A p \in Paths : links[p] = 0
  /\ r.pc = "save" =>
       \A p \in Paths :
         links[p] = IF disk[p] # Absent /\ NamesCompany(p, asset[p].text)
                      THEN 1 ELSE 0

QuietOK ==
  ~overlapped => \A s \in Sessions : run[s].quiet => ProgressOK(s)

IInv == /\ TypeOK /\ AlertsAreRaised /\ AloneOK /\ RaiseOK
        /\ OneAlertOfAType /\ CompanyOK /\ WriteOK /\ QuietOK

-----------------------------------------------------------------------------
(* Records                                                                 *)

LEMMA AssetFields ==
  ASSUME NEW a \in Asset
  PROVE  /\ a.exists \in BOOLEAN /\ a.active \in BOOLEAN
         /\ a.hash \in Files /\ a.text \in Files /\ a.company \in BOOLEAN
         /\ a.until \in Days \cup {Undated} /\ a.status \in Statuses
  BY DEF Asset

LEMMA SyncFields ==
  ASSUME NEW r \in Sync
  PROVE  /\ r.pc \in Pcs /\ r.listed \in [Paths -> Files]
         /\ r.todo \subseteq Paths /\ r.path \in Paths
         /\ r.loaded \in Asset /\ r.new \in Asset
         /\ r.seen \in {"none", "entities", "deleted"} /\ r.quiet \in BOOLEAN
  BY DEF Sync

LEMMA NoAssetIsAsset == NoAsset \in Asset
  BY DEF NoAsset, Asset, Files, Statuses

LEMMA IdleIsSync ==
  /\ Idle \in Sync
  /\ Idle.pc = "none" /\ ~Idle.quiet
  <1>1. AnyPath \in Paths  BY KnowledgeAssumption DEF AnyPath
  <1> QED  BY <1>1, NoAssetIsAsset DEF Idle, Sync, Pcs, Files

LEMMA VigencyIsStatus ==
  ASSUME NEW until, NEW day PROVE Vigency(until, day) \in Statuses
  BY DEF Vigency, Statuses

\* A status calls for one alert at most.
LEMMA OneAlertForStatus ==
  ASSUME NEW st PROVE /\ AlertFor(st) \subseteq AlertTypes
                      /\ \A k, l \in AlertFor(st) : k = l
  BY DEF AlertFor, AlertTypes

LEMMA UpsertedIsAsset ==
  ASSUME TypeOK, NEW old \in Asset, NEW hash \in Files, NEW p \in Paths,
         NEW text \in Files
  PROVE  LET new == Upserted(old, hash, p, text) IN
         /\ new \in Asset /\ new.exists /\ new.active /\ new.hash = hash
         /\ new.until = Validity(text) /\ new.status = Vigency(Validity(text), today)
         /\ CompanyOf(old, p) => CompanyOf(new, p)
  <1>1. Validity(text) \in Days \cup {Undated}
    BY KnowledgeAssumption DEF Validity, Files, Days
  <1>2. Vigency(Validity(text), today) \in Statuses  BY VigencyIsStatus
  <1>3. NamesCompany(p, text) \in BOOLEAN  BY DEF NamesCompany
  <1>4. Upserted(old, hash, p, text) \in Asset
    BY <1>1, <1>2, <1>3 DEF Upserted, Asset
  <1>5. CompanyOf(old, p) => CompanyOf(Upserted(old, hash, p, text), p)
    <2>1. CASE Known(old, hash)
      BY <2>1 DEF Upserted, Known, CompanyOf
    <2>2. CASE ~Known(old, hash)
      BY <2>2 DEF Upserted, CompanyOf
    <2> QED  BY <2>1, <2>2
  <1> QED  BY <1>4, <1>5 DEF Upserted

LEMMA MergedIsAsset ==
  ASSUME NEW row \in Asset, NEW old \in Asset, NEW new \in Asset
  PROVE  /\ Merged(row, old, new) \in Asset /\ Merged(row, row, new) = new
         /\ Merged(row, old, new).status \in {row.status, new.status}
  BY DEF Merged, Asset

-----------------------------------------------------------------------------
(* Steps of one session                                                    *)

\* A session comes to X, and at most leaves a document without its alert.
Moves(s, X) ==
  /\ run' = [run EXCEPT ![s] = X]
  /\ UNCHANGED <<world, overlapped>>
  /\ interrupted \subseteq interrupted' /\ interrupted' \subseteq Paths

LEMMA RunAfter ==
  ASSUME TypeOK, NEW s \in Sessions, NEW X \in Sync, Step(s, X) \/ Moves(s, X)
  PROVE  /\ run'[s] = X /\ \A r \in Sessions \ {s} : run'[r] = run[r]
         /\ run' \in [Sessions -> Sync] /\ Moves(s, X)
         /\ UNCHANGED <<disk, today, edits, syncs, overlapped>>
  BY DEF TypeOK, Step, Moves, world

\* Whoever moves without overlap is alone.
LEMMA Alone ==
  ASSUME IInv, NEW s \in Sessions, run[s].pc # "none",
         overlapped' = overlapped,
         \A r \in Sessions \ {s} : run'[r].pc = run[r].pc
  PROVE  /\ AloneOK'
         /\ ~overlapped' => \A r \in Sessions \ {s} : run'[r].pc = "none"
  BY DEF IInv, AloneOK

\* A step of one session leaves IInv true if it leaves the parts true that
\* are about this session and about what all of them share.
LEMMA StepKeeps ==
  ASSUME IInv, NEW s \in Sessions, run[s].pc # "none",
         NEW X \in Sync, Moves(s, X),
         asset' \in [Paths -> Asset], links' \in [Paths -> 0..2],
         entities' \in BOOLEAN, alert' \in [Paths -> [AlertTypes -> 0..2]],
         \A p \in Paths, k \in AlertTypes : alert[p][k] > 0 => alert'[p][k] > 0,
         \A p \in Paths : \A k \in AlertFor(asset'[p].status) :
           \/ k \in AlertFor(asset[p].status) /\ ~AboutToRaise(s, p, k)
           \/ alert'[p][k] > 0 \/ AboutToRaise(s, p, k)' \/ p \in interrupted',
         ~overlapped =>
           /\ \A p \in Paths, k \in AlertTypes : alert'[p][k] <= 1
           /\ \A p \in Paths : CompanyOf(asset'[p], p)
           /\ X.pc = "raise" =>
                \A k \in AlertFor(X.new.status) : alert'[X.path][k] = 0
           /\ X.pc = "write" =>
                X.loaded = asset'[X.path] /\ CompanyOf(X.new, X.path)
           /\ X.quiet => ProgressOK(s)'
  PROVE  IInv'
  <1>1. /\ run'[s] = X /\ \A r \in Sessions \ {s} : run'[r] = run[r]
        /\ run' \in [Sessions -> Sync]
        /\ UNCHANGED <<disk, today, edits, syncs, overlapped>>
        /\ interrupted \subseteq interrupted' /\ interrupted' \subseteq Paths
    BY RunAfter DEF IInv, Moves
  <1>2. TypeOK'  BY <1>1 DEF IInv, TypeOK
  <1>3. AlertsAreRaised'
    <2> SUFFICES ASSUME NEW p \in Paths, p \notin interrupted',
                        NEW k \in AlertFor(asset'[p].status)
                 PROVE  \/ alert'[p][k] > 0
                        \/ \E r \in Sessions : AboutToRaise(r, p, k)'
      BY DEF AlertsAreRaised
    <2>1. \A r \in Sessions \ {s} : AboutToRaise(r, p, k) => AboutToRaise(r, p, k)'
      BY <1>1 DEF AboutToRaise
    <2>2. CASE k \in AlertFor(asset[p].status) /\ ~AboutToRaise(s, p, k)
      <3>1. \/ alert[p][k] > 0
            \/ \E r \in Sessions \ {s} : AboutToRaise(r, p, k)
        BY <1>1, <2>2 DEF IInv, AlertsAreRaised
      <3>2. k \in AlertTypes  BY OneAlertForStatus
      <3> QED  BY <2>1, <3>1, <3>2
    <2>3. CASE \/ alert'[p][k] > 0 \/ AboutToRaise(s, p, k)'
      BY <2>3
    <2> QED  BY <2>2, <2>3
  <1>4. /\ AloneOK'
        /\ ~overlapped' => \A r \in Sessions \ {s} : run'[r].pc = "none"
    BY <1>1, Alone
  <1>5. OneAlertOfAType' /\ CompanyOK'
    BY <1>1 DEF OneAlertOfAType, CompanyOK
  <1>6. RaiseOK'
    <2> SUFFICES ASSUME ~overlapped', NEW r \in Sessions, run'[r].pc = "raise"
                 PROVE  \A k \in AlertFor(run'[r].new.status) :
                          alert'[run'[r].path][k] = 0
      BY DEF RaiseOK
    <2>1. r = s  BY <1>4
    <2> QED  BY <1>1, <2>1
  <1>7. WriteOK'
    <2> SUFFICES ASSUME ~overlapped', NEW r \in Sessions, run'[r].pc = "write"
                 PROVE  /\ run'[r].loaded = asset'[run'[r].path]
                        /\ CompanyOf(run'[r].new, run'[r].path)
      BY DEF WriteOK
    <2>1. r = s  BY <1>4
    <2> QED  BY <1>1, <2>1
  <1>8. QuietOK'
    <2> SUFFICES ASSUME ~overlapped', NEW r \in Sessions, run'[r].quiet
                 PROVE  ProgressOK(r)'
      BY DEF QuietOK
    <2>1. CASE r = s  BY <1>1, <2>1
    <2>2. CASE r # s  BY <1>4, <2>2 DEF ProgressOK
    <2> QED  BY <2>1, <2>2
  <1> QED  BY <1>2, <1>3, <1>4, <1>5, <1>6, <1>7, <1>8 DEF IInv

\* A step that leaves what is stored as it is, of a session that is not
\* about to raise an alert.
LEMMA LookKeeps ==
  ASSUME IInv, NEW s \in Sessions, run[s].pc # "none",
         NEW X \in Sync, Step(s, X),
         UNCHANGED <<asset, alert>>, links' \in [Paths -> 0..2],
         entities' \in BOOLEAN,
         run[s].pc \notin {"refresh", "alert", "raise"}, X.pc # "raise",
         ~overlapped =>
           /\ X.pc = "write" =>
                X.loaded = asset'[X.path] /\ CompanyOf(X.new, X.path)
           /\ X.quiet => ProgressOK(s)'
  PROVE  IInv'
  <1>1. Moves(s, X)  BY RunAfter DEF IInv
  <1>2. \A p, k : ~AboutToRaise(s, p, k)  BY DEF AboutToRaise
  <1>3. /\ asset' \in [Paths -> Asset] /\ alert' \in [Paths -> [AlertTypes -> 0..2]]
        /\ ~overlapped =>
             /\ \A p \in Paths, k \in AlertTypes : alert'[p][k] <= 1
             /\ \A p \in Paths : CompanyOf(asset'[p], p)
    BY DEF IInv, TypeOK, OneAlertOfAType, CompanyOK
  <1> QED  BY <1>1, <1>2, <1>3, StepKeeps

-----------------------------------------------------------------------------
(* Files                                                                   *)

LEMMA ReadFileStep ==
  ASSUME IInv, NEW s \in Sessions, NEW p \in Paths, NEW text \in Files,
         ReadFile(s, p, text)
  PROVE  IInv'
  <1> DEFINE r == run[s]
             new == Upserted(asset[p], r.listed[p], p, text)
             X == [r EXCEPT !.pc = "write", !.path = p, !.loaded = asset[p],
                            !.new = new, !.quiet = @ /\ text # Absent]
  <1>1. r \in Sync /\ asset[p] \in Asset  BY DEF IInv, TypeOK
  <1>2. r.listed[p] \in Files  BY <1>1, SyncFields
  <1>3. /\ new \in Asset /\ new.exists /\ new.active /\ new.hash = r.listed[p]
        /\ new.until = Validity(text) /\ new.status = Vigency(new.until, today)
        /\ CompanyOf(asset[p], p) => CompanyOf(new, p)
    BY <1>1, <1>2, UpsertedIsAsset DEF IInv
  <1>4. /\ Step(s, X) /\ r.pc = "files" /\ text \in {disk[p], Absent}
        /\ p \in r.todo /\ UNCHANGED <<asset, alert, entities, links>>
    BY DEF ReadFile, graph
  <1> HIDE DEF new
  <1>5. /\ X \in Sync /\ X.pc = "write" /\ X.path = p /\ X.loaded = asset[p]
        /\ X.new = new /\ X.listed = r.listed /\ X.todo = r.todo
        /\ X.quiet => r.quiet /\ text # Absent
    BY <1>1, <1>3 DEF Sync, Pcs
  <1> HIDE DEF X
  <1>6. run'[s] = X /\ UNCHANGED <<disk, today>>
    BY <1>4, <1>5, RunAfter DEF IInv
  <1>7. ASSUME ~overlapped, X.quiet PROVE ProgressOK(s)'
    <2>1. /\ r.listed = disk /\ text = disk[p] /\ disk[p] # Absent
          /\ \A q \in Paths \ r.todo : Done(q)
      BY <1>4, <1>5, <1>7 DEF IInv, QuietOK, ProgressOK
    <2>2. Fits(new, p)
      BY <1>3, <2>1 DEF Fits, Validity
    <2> QED
      BY <1>4, <1>5, <1>6, <2>1, <2>2 DEF ProgressOK, Done, Fits, Raised
  <1>8. ~overlapped => CompanyOf(new, p)
    BY <1>3 DEF IInv, CompanyOK
  <1>9. links' \in [Paths -> 0..2] /\ entities' \in BOOLEAN
    BY <1>4 DEF IInv, TypeOK
  <1> QED  BY <1>4, <1>5, <1>7, <1>8, <1>9, LookKeeps

LEMMA SkipFileStep ==
  ASSUME IInv, NEW s \in Sessions, NEW p \in Paths, SkipFile(s, p)
  PROVE  IInv'
  <1> DEFINE X == [run[s] EXCEPT !.todo = @ \ {p}, !.quiet = FALSE]
  <1>1. /\ Step(s, X) /\ run[s].pc = "files"
        /\ UNCHANGED <<asset, alert, entities, links>>
    BY DEF SkipFile, graph
  <1>2. X \in Sync /\ X.pc = "files" /\ ~X.quiet
    BY <1>1, SyncFields DEF IInv, TypeOK, Sync
  <1> HIDE DEF X
  <1>3. links' \in [Paths -> 0..2] /\ entities' \in BOOLEAN
    BY <1>1 DEF IInv, TypeOK
  <1> QED  BY <1>1, <1>2, <1>3, LookKeeps

\* A status that was not in the row is the one that was written, and its
\* alert comes next.
LEMMA WriteAssetStep ==
  ASSUME IInv, NEW s \in Sessions, WriteAsset(s) PROVE IInv'
  <1> DEFINE r == run[s]
             taken == ~r.loaded.exists /\ asset[r.path].exists
             pc == IF taken THEN "broken"
                   ELSE IF Known(r.loaded, r.new.hash) THEN "alert" ELSE "refresh"
             X == [r EXCEPT !.pc = pc, !.loaded = NoAsset]
             row == Merged(asset[r.path], r.loaded, r.new)
  <1>1. /\ r \in Sync /\ r.path \in Paths /\ r.loaded \in Asset
        /\ r.new \in Asset /\ asset[r.path] \in Asset
    BY SyncFields DEF IInv, TypeOK
  <1>2. /\ row \in Asset /\ row.status \in {asset[r.path].status, r.new.status}
        /\ r.loaded = asset[r.path] => row = r.new
    <2> HIDE DEF r
    <2>1. row \in Asset /\ row.status \in {asset[r.path].status, r.new.status}
      BY <1>1, MergedIsAsset
    <2>2. Merged(asset[r.path], asset[r.path], r.new) = r.new
      BY <1>1, MergedIsAsset
    <2> QED  BY <2>1, <2>2
  <1>3. /\ Step(s, X) /\ r.pc = "write"
        /\ asset' = IF taken THEN asset ELSE [asset EXCEPT ![r.path] = row]
        /\ UNCHANGED <<alert, entities, links>>
    BY DEF WriteAsset, graph
  <1>4. /\ X \in Sync /\ X.pc \in {"broken", "alert", "refresh"}
        /\ X.pc = "broken" <=> taken
        /\ X.path = r.path /\ X.listed = r.listed /\ X.todo = r.todo
        /\ X.new = r.new /\ X.quiet = r.quiet
    BY <1>1, NoAssetIsAsset DEF Sync, Pcs
  <1> HIDE DEF X, row
  <1>5. run'[s] = X /\ UNCHANGED <<disk, today>> /\ Moves(s, X)
    BY <1>3, <1>4, RunAfter DEF IInv
  <1>6. /\ asset' \in [Paths -> Asset]
        /\ ~taken => asset'[r.path] = row
        /\ \A q \in Paths : q # r.path \/ taken => asset'[q] = asset[q]
    BY <1>1, <1>2, <1>3 DEF IInv, TypeOK
  <1>7. ~overlapped => r.loaded = asset[r.path] /\ CompanyOf(r.new, r.path)
    BY <1>3 DEF IInv, WriteOK
  <1>8. ASSUME ~overlapped, X.quiet PROVE ProgressOK(s)'
    <2>1. CASE taken  BY <1>4, <1>5, <2>1 DEF ProgressOK
    <2>2. CASE ~taken
      <3>1. /\ r.listed = disk /\ Fits(r.new, r.path) /\ r.path \in r.todo
            /\ \A q \in Paths \ r.todo : Done(q)
        BY <1>3, <1>4, <1>8 DEF IInv, QuietOK, ProgressOK
      <3>2. asset'[r.path] = r.new
        BY <1>2, <1>6, <1>7, <1>8, <2>2
      <3>3. \A q \in Paths \ r.todo : Done(q)'
        BY <1>3, <1>5, <1>6, <3>1 DEF Done, Fits, Raised
      <3>4. ASSUME NEW p \in Paths, p = r.path PROVE Fits(asset[p], p)'
        BY <1>5, <3>1, <3>2, <3>4 DEF Fits
      <3> QED  BY <1>4, <1>1, <1>5, <2>2, <3>1, <3>2, <3>3, <3>4 DEF ProgressOK
    <2> QED  BY <2>1, <2>2
  <1>9. \A p \in Paths : \A k \in AlertFor(asset'[p].status) :
          \/ k \in AlertFor(asset[p].status) /\ ~AboutToRaise(s, p, k)
          \/ AboutToRaise(s, p, k)'
    <2> SUFFICES ASSUME NEW p \in Paths, NEW k \in AlertFor(asset'[p].status),
                        k \notin AlertFor(asset[p].status)
                 PROVE  AboutToRaise(s, p, k)'
      BY <1>3 DEF AboutToRaise
    <2>1. p = r.path /\ ~taken /\ row.status = r.new.status
      BY <1>2, <1>6
    <2> QED  BY <1>4, <1>5, <1>6, <2>1 DEF AboutToRaise
  <1>10. ~overlapped => \A p \in Paths : CompanyOf(asset'[p], p)
    BY <1>2, <1>6, <1>7 DEF IInv, CompanyOK
  <1>11. /\ links' \in [Paths -> 0..2]
         /\ entities' \in BOOLEAN /\ alert' \in [Paths -> [AlertTypes -> 0..2]]
         /\ ~overlapped => \A q \in Paths, k \in AlertTypes : alert'[q][k] <= 1
    BY <1>3 DEF IInv, TypeOK, OneAlertOfAType
  <1> HIDE DEF taken
  <1> QED
    BY <1>3, <1>4, <1>5, <1>6, <1>8, <1>9, <1>10, <1>11, StepKeeps

LEMMA RefreshStep ==
  ASSUME IInv, NEW s \in Sessions, Refresh(s) PROVE IInv'
  <1> DEFINE r == run[s]
             X == [r EXCEPT !.pc = "alert", !.new = asset[r.path]]
  <1>1. r \in Sync /\ r.path \in Paths /\ asset[r.path] \in Asset
    BY SyncFields DEF IInv, TypeOK
  <1>2. /\ Step(s, X) /\ r.pc = "refresh"
        /\ UNCHANGED <<asset, alert, entities, links>>
    BY DEF Refresh, graph
  <1>3. /\ X \in Sync /\ X.pc = "alert" /\ X.path = r.path
        /\ X.new = asset[r.path] /\ X.listed = r.listed /\ X.todo = r.todo
        /\ X.quiet = r.quiet
    BY <1>1 DEF Sync, Pcs
  <1> HIDE DEF X
  <1>4. run'[s] = X /\ UNCHANGED <<disk, today>> /\ Moves(s, X)
    BY <1>2, <1>3, RunAfter DEF IInv
  <1>5. ASSUME ~overlapped, X.quiet PROVE ProgressOK(s)'
    <2>1. /\ r.listed = disk /\ r.path \in r.todo /\ Fits(asset[r.path], r.path)
          /\ \A q \in Paths \ r.todo : Done(q)
      BY <1>2, <1>3, <1>5 DEF IInv, QuietOK, ProgressOK
    <2> QED  BY <1>2, <1>3, <1>4, <2>1 DEF ProgressOK, Done, Fits, Raised
  <1>6. \A p \in Paths : \A k \in AlertFor(asset'[p].status) :
          \/ k \in AlertFor(asset[p].status) /\ ~AboutToRaise(s, p, k)
          \/ AboutToRaise(s, p, k)'
    BY <1>2, <1>3, <1>4 DEF AboutToRaise
  <1>7. /\ asset' \in [Paths -> Asset] /\ links' \in [Paths -> 0..2]
        /\ entities' \in BOOLEAN /\ alert' \in [Paths -> [AlertTypes -> 0..2]]
        /\ \A p \in Paths, k \in AlertTypes : alert[p][k] > 0 => alert'[p][k] > 0
        /\ ~overlapped =>
             /\ \A q \in Paths, k \in AlertTypes : alert'[q][k] <= 1
             /\ \A p \in Paths : CompanyOf(asset'[p], p)
    BY <1>2 DEF IInv, TypeOK, OneAlertOfAType, CompanyOK
  <1> QED  BY <1>2, <1>3, <1>4, <1>5, <1>6, <1>7, StepKeeps

LEMMA NextFileFields ==
  ASSUME NEW r \in Sync
  PROVE  /\ NextFile(r) \in Sync /\ NextFile(r).pc = "files"
         /\ NextFile(r).todo = r.todo \ {r.path} /\ NextFile(r).path = r.path
         /\ NextFile(r).listed = r.listed /\ NextFile(r).new = r.new
         /\ NextFile(r).quiet = r.quiet
  BY DEF NextFile, Sync, Pcs

\* The file in hand is done.
LEMMA NextFileProgress ==
  ASSUME IInv, NEW s \in Sessions, Step(s, NextFile(run[s])),
         run[s].pc \in {"alert", "raise"}, asset' = asset,
         \A p \in Paths, k \in AlertTypes : alert[p][k] > 0 => alert'[p][k] > 0,
         \A k \in AlertFor(run[s].new.status) : alert'[run[s].path][k] > 0,
         ~overlapped, run[s].quiet
  PROVE  ProgressOK(s)'
  <1> DEFINE r == run[s]
  <1>1. r \in Sync  BY DEF IInv, TypeOK
  <1>2. run'[s] = NextFile(r) /\ UNCHANGED <<disk, today>>
    BY <1>1, NextFileFields, RunAfter DEF IInv
  <1>3. /\ r.listed = disk /\ Fits(asset[r.path], r.path)
        /\ r.new.status = asset[r.path].status
        /\ \A q \in Paths \ r.todo : Done(q)
    BY DEF IInv, QuietOK, ProgressOK
  <1>4. ASSUME NEW q \in Paths, q = r.path PROVE Done(q)'
    <2>1. Raised(q)'  BY <1>3, <1>4 DEF Raised
    <2>2. Fits(asset[q], q)'  BY <1>2, <1>3, <1>4 DEF Fits
    <2> QED  BY <2>1, <2>2 DEF Done
  <1>5. ASSUME NEW q \in Paths, q \notin r.todo \ {r.path} PROVE Done(q)'
    <2>1. CASE q = r.path  BY <1>4, <2>1
    <2>2. CASE q # r.path
      <3>1. Done(q)  BY <1>3, <1>5, <2>2
      <3>2. Raised(q) => Raised(q)'
        BY <1>5, OneAlertForStatus DEF Raised
      <3>3. Fits(asset[q], q) => Fits(asset[q], q)'  BY <1>2 DEF Fits
      <3> QED  BY <1>2, <3>1, <3>2, <3>3 DEF Done
    <2> QED  BY <2>1, <2>2
  <1>6. \A q \in Paths \ (r.todo \ {r.path}) : Done(q)'
    BY <1>5
  <1> QED  BY <1>1, <1>2, <1>3, <1>6, NextFileFields DEF ProgressOK

LEMMA CheckAlertStep ==
  ASSUME IInv, NEW s \in Sessions, CheckAlert(s) PROVE IInv'
  <1> DEFINE r == run[s]
             missing == \E k \in AlertFor(r.new.status) : alert[r.path][k] = 0
             X == IF missing THEN [r EXCEPT !.pc = "raise"] ELSE NextFile(r)
  <1>1. /\ r \in Sync /\ r.path \in Paths
        /\ \A k \in AlertTypes : alert[r.path][k] \in 0..2
    BY SyncFields DEF IInv, TypeOK
  <1>2. /\ Step(s, X) /\ r.pc = "alert"
        /\ UNCHANGED <<asset, alert, entities, links>>
    BY DEF CheckAlert, graph
  <1>3. /\ X \in Sync /\ X.path = r.path /\ X.listed = r.listed
        /\ X.new = r.new /\ X.quiet = r.quiet
        /\ missing => X.pc = "raise" /\ X.todo = r.todo
        /\ ~missing => X = NextFile(r) /\ X.pc = "files"
    BY <1>1, NextFileFields DEF Sync, Pcs
  <1>4. ~missing => \A k \in AlertFor(r.new.status) : alert'[r.path][k] > 0
    BY <1>1, <1>2, OneAlertForStatus
  <1>5. X.pc = "raise" => \A k \in AlertFor(X.new.status) : alert'[X.path][k] = 0
    BY <1>2, <1>3, OneAlertForStatus
  <1> HIDE DEF X, missing
  <1>6. run'[s] = X /\ UNCHANGED <<disk, today>> /\ Moves(s, X)
    BY <1>2, <1>3, RunAfter DEF IInv
  <1>7. ASSUME ~overlapped, X.quiet PROVE ProgressOK(s)'
    <2>1. CASE ~missing
      BY <1>2, <1>3, <1>4, <1>7, <2>1, NextFileProgress
    <2>2. CASE missing
      <3>1. /\ r.listed = disk /\ Fits(asset[r.path], r.path)
            /\ r.path \in r.todo /\ r.new.status = asset[r.path].status
            /\ \A q \in Paths \ r.todo : Done(q)
        BY <1>2, <1>3, <1>7 DEF IInv, QuietOK, ProgressOK
      <3> QED
        BY <1>2, <1>3, <1>6, <2>2, <3>1 DEF ProgressOK, Done, Fits, Raised
    <2> QED  BY <2>1, <2>2
  <1>8. \A p \in Paths : \A k \in AlertFor(asset'[p].status) :
          \/ k \in AlertFor(asset[p].status) /\ ~AboutToRaise(s, p, k)
          \/ alert'[p][k] > 0 \/ AboutToRaise(s, p, k)'
    BY <1>2, <1>3, <1>4, <1>6 DEF AboutToRaise
  <1>9. /\ asset' \in [Paths -> Asset] /\ links' \in [Paths -> 0..2]
        /\ entities' \in BOOLEAN /\ alert' \in [Paths -> [AlertTypes -> 0..2]]
        /\ \A p \in Paths, k \in AlertTypes : alert[p][k] > 0 => alert'[p][k] > 0
        /\ ~overlapped =>
             /\ \A q \in Paths, k \in AlertTypes : alert'[q][k] <= 1
             /\ \A p \in Paths : CompanyOf(asset'[p], p)
    BY <1>2 DEF IInv, TypeOK, OneAlertOfAType, CompanyOK
  <1>10. X.pc # "write"  BY <1>3
  <1> QED  BY <1>2, <1>3, <1>5, <1>6, <1>7, <1>8, <1>9, <1>10, StepKeeps

LEMMA RaiseAlertStep ==
  ASSUME IInv, NEW s \in Sessions, RaiseAlert(s) PROVE IInv'
  <1> DEFINE r == run[s]
             X == NextFile(r)
             raised == [k \in AlertTypes |->
                          IF k \in AlertFor(r.new.status) /\ alert[r.path][k] < 2
                            THEN alert[r.path][k] + 1 ELSE alert[r.path][k]]
  <1>1. r \in Sync /\ r.path \in Paths /\ alert \in [Paths -> [AlertTypes -> 0..2]]
    BY SyncFields DEF IInv, TypeOK
  <1>2. /\ Step(s, X) /\ r.pc = "raise"
        /\ alert' = [alert EXCEPT ![r.path] = raised]
        /\ UNCHANGED <<asset, entities, links>>
    BY DEF RaiseAlert, graph
  <1>3. /\ X \in Sync /\ X.path = r.path /\ X.new = r.new
        /\ X.quiet = r.quiet /\ X.pc = "files"
    BY <1>1, NextFileFields
  <1>4. /\ raised \in [AlertTypes -> 0..2]
        /\ \A k \in AlertTypes : alert[r.path][k] > 0 => raised[k] > 0
        /\ \A k \in AlertFor(r.new.status) : raised[k] > 0
    BY <1>1, OneAlertForStatus
  <1>5. ~overlapped => \A k \in AlertTypes : raised[k] <= 1
    BY <1>1, <1>2 DEF IInv, RaiseOK, OneAlertOfAType
  <1> HIDE DEF raised
  <1>6. /\ alert'[r.path] = raised
        /\ \A q \in Paths \ {r.path} : alert'[q] = alert[q]
        /\ alert' \in [Paths -> [AlertTypes -> 0..2]]
    BY <1>1, <1>2, <1>4
  <1>7. /\ \A q \in Paths, k \in AlertTypes : alert[q][k] > 0 => alert'[q][k] > 0
        /\ \A k \in AlertFor(r.new.status) : alert'[r.path][k] > 0
    BY <1>4, <1>6
  <1>8. ~overlapped => \A q \in Paths, k \in AlertTypes : alert'[q][k] <= 1
    BY <1>5, <1>6 DEF IInv, OneAlertOfAType
  <1>9. ~overlapped /\ X.quiet => ProgressOK(s)'
    BY <1>2, <1>3, <1>7, NextFileProgress
  <1>10. /\ asset' \in [Paths -> Asset] /\ links' \in [Paths -> 0..2]
         /\ entities' \in BOOLEAN
         /\ ~overlapped => \A p \in Paths : CompanyOf(asset'[p], p)
    BY <1>2 DEF IInv, TypeOK, CompanyOK
  <1> HIDE DEF X
  <1>11. Moves(s, X)  BY <1>2, <1>3, RunAfter DEF IInv
  <1>12. \A p \in Paths : \A k \in AlertFor(asset'[p].status) :
           \/ k \in AlertFor(asset[p].status) /\ ~AboutToRaise(s, p, k)
           \/ alert'[p][k] > 0
    BY <1>2, <1>7 DEF AboutToRaise
  <1> QED
    BY <1>2, <1>3, <1>6, <1>7, <1>8, <1>9, <1>10, <1>11, <1>12, StepKeeps

LEMMA DeactivateStep ==
  ASSUME IInv, NEW s \in Sessions, Deactivate(s) PROVE IInv'
  <1> DEFINE r == run[s]
             X == [Idle EXCEPT !.pc = "clear", !.quiet = r.quiet]
  <1>1. r \in Sync /\ asset \in [Paths -> Asset]  BY DEF IInv, TypeOK
  <1>2. /\ Step(s, X) /\ r.pc = "files" /\ r.todo = {}
        /\ asset' = [p \in Paths |->
                       [asset[p] EXCEPT !.active = @ /\ r.listed[p] # Absent]]
        /\ UNCHANGED <<alert, entities, links>>
    BY DEF Deactivate, graph
  <1>3. X \in Sync /\ X.pc = "clear" /\ X.quiet = r.quiet
    BY <1>1, SyncFields, IdleIsSync DEF Sync, Pcs
  <1> HIDE DEF X
  <1>4. run'[s] = X /\ UNCHANGED <<disk, today>> /\ Moves(s, X)
    BY <1>2, <1>3, RunAfter DEF IInv
  <1>5. \A p \in Paths :
          /\ asset'[p] \in Asset
          /\ asset'[p].active = (asset[p].active /\ r.listed[p] # Absent)
          /\ asset'[p].exists = asset[p].exists
          /\ asset'[p].hash = asset[p].hash
          /\ asset'[p].until = asset[p].until
          /\ asset'[p].status = asset[p].status
          /\ asset'[p].text = asset[p].text
          /\ asset'[p].company = asset[p].company
    BY <1>1, <1>2 DEF Asset
  <1>6. asset' \in [Paths -> Asset]  BY <1>2, <1>5
  <1>7. ASSUME ~overlapped, X.quiet PROVE ProgressOK(s)'
    <2>1. r.listed = disk /\ \A p \in Paths : Done(p)
      BY <1>2, <1>3, <1>7 DEF IInv, QuietOK, ProgressOK
    <2>2. \A p \in Paths : Matches(p)' /\ Done(p)'
      <3> SUFFICES ASSUME NEW p \in Paths PROVE Matches(p)' /\ Done(p)'  OBVIOUS
      <3>1. CASE disk[p] = Absent
        BY <1>4, <1>5, <2>1, <3>1 DEF Matches, Done
      <3>2. CASE disk[p] # Absent
        <4>1. Fits(asset[p], p) /\ Raised(p)  BY <2>1, <3>2 DEF Done
        <4>2. Raised(p)'  BY <1>2, <1>5, <4>1 DEF Raised
        <4>3. r.listed[p] # Absent  BY <2>1, <3>2
        <4>4. Fits(asset[p], p)'  BY <1>4, <1>5, <4>1, <4>3 DEF Fits
        <4> QED  BY <1>4, <3>2, <4>2, <4>4 DEF Matches, Done, Fits
      <3> QED  BY <3>1, <3>2
    <2> QED  BY <1>3, <1>4, <2>2 DEF ProgressOK, AllDone
  <1>8. \A p \in Paths : \A k \in AlertFor(asset'[p].status) :
          k \in AlertFor(asset[p].status) /\ ~AboutToRaise(s, p, k)
    BY <1>2, <1>5 DEF AboutToRaise
  <1>9. ~overlapped => \A p \in Paths : CompanyOf(asset'[p], p)
    BY <1>5 DEF IInv, CompanyOK, CompanyOf
  <1>10. /\ links' \in [Paths -> 0..2]
         /\ entities' \in BOOLEAN /\ alert' \in [Paths -> [AlertTypes -> 0..2]]
         /\ \A p \in Paths, k \in AlertTypes : alert[p][k] > 0 => alert'[p][k] > 0
         /\ ~overlapped => \A q \in Paths, k \in AlertTypes : alert'[q][k] <= 1
    BY <1>2 DEF IInv, TypeOK, OneAlertOfAType
  <1> QED
    BY <1>2, <1>3, <1>4, <1>6, <1>7, <1>8, <1>9, <1>10, StepKeeps

-----------------------------------------------------------------------------
(* The graph                                                               *)

\* What others have found of the graph is gone, and that is all that they
\* notice of it.
LEMMA ClearStep == ASSUME IInv, NEW s \in Sessions, Clear(s) PROVE IInv'
  <1> DEFINE X == [run[s] EXCEPT !.pc = "look"]
             Y(r) == [run[r] EXCEPT !.seen = IF @ = "entities" THEN "deleted"
                                                               ELSE @]
  <1>1. \A r \in Sessions : run[r] \in Sync  BY DEF IInv, TypeOK
  <1>2. /\ run[s].pc = "clear" /\ entities' = FALSE
        /\ links' = [p \in Paths |-> 0]
        /\ run' = [r \in Sessions |-> IF r = s THEN X ELSE Y(r)]
        /\ UNCHANGED <<disk, today, edits, syncs, asset, alert, interrupted,
                       overlapped>>
    BY DEF Clear, world
  <1>3. /\ X \in Sync /\ X.pc = "look" /\ X.quiet = run[s].quiet
    BY <1>1 DEF Sync, Pcs
  <1>4. \A r \in Sessions :
          /\ Y(r) \in Sync /\ Y(r).pc = run[r].pc /\ Y(r).path = run[r].path
          /\ Y(r).new = run[r].new /\ Y(r).quiet = run[r].quiet
          /\ Y(r).loaded = run[r].loaded
    BY <1>1, SyncFields DEF Sync
  <1> HIDE DEF X, Y
  <1>5. run'[s] = X /\ \A r \in Sessions \ {s} : run'[r] = Y(r)
    BY <1>2
  <1>6. TypeOK'
    <2>1. run' \in [Sessions -> Sync]  BY <1>2, <1>3, <1>4
    <2>2. links' \in [Paths -> 0..2]  BY <1>2
    <2> QED  BY <1>2, <2>1, <2>2 DEF IInv, TypeOK
  <1>7. AlertsAreRaised'
    <2>1. \A r \in Sessions, p \in Paths, k \in AlertTypes :
            AboutToRaise(r, p, k) => AboutToRaise(r, p, k)'
      BY <1>2, <1>4, <1>5 DEF AboutToRaise
    <2> QED  BY <1>2, <2>1, OneAlertForStatus DEF IInv, AlertsAreRaised
  <1>8. /\ AloneOK'
        /\ ~overlapped' => \A r \in Sessions \ {s} : run'[r].pc = "none"
    BY <1>2, <1>4, <1>5, Alone
  <1>9. OneAlertOfAType' /\ CompanyOK'
    BY <1>2 DEF IInv, OneAlertOfAType, CompanyOK
  <1>10. RaiseOK' /\ WriteOK'
    BY <1>3, <1>5, <1>8 DEF RaiseOK, WriteOK
  <1>11. QuietOK'
    <2> SUFFICES ASSUME ~overlapped', NEW r \in Sessions, run'[r].quiet
                 PROVE  ProgressOK(r)'
      BY DEF QuietOK
    <2>1. CASE r = s
      <3>1. AllDone
        BY <1>2, <1>3, <1>5, <2>1 DEF IInv, QuietOK, ProgressOK
      <3>2. AllDone'
        BY <1>2, <3>1 DEF AllDone, Matches, Done, Fits, Raised
      <3> QED  BY <1>2, <1>3, <1>5, <2>1, <3>2 DEF ProgressOK
    <2>2. CASE r # s  BY <1>8, <2>2 DEF ProgressOK
    <2> QED  BY <2>1, <2>2
  <1> QED  BY <1>6, <1>7, <1>8, <1>9, <1>10, <1>11 DEF IInv

\* A step that looks at the graph and does not change it.
LEMMA LookStep ==
  ASSUME IInv, NEW s \in Sessions, NEW X \in Sync, Step(s, X),
         UNCHANGED <<asset, alert, entities, links>>,
         X.quiet => run[s].quiet,
         \/ run[s].pc \in {"look", "insert"} /\ X.pc \in {"insert", "link", "broken"}
         \/ run[s].pc = "save" /\ X.pc = "none"
  PROVE  IInv'
  <1>1. run'[s] = X /\ UNCHANGED <<disk, today>>
    BY RunAfter DEF IInv
  <1>2. ASSUME ~overlapped, X.quiet PROVE ProgressOK(s)'
    <2>1. CASE X.pc \in {"insert", "link"}
      <3>1. AllDone /\ \A p \in Paths : links[p] = 0
        BY <1>2, <2>1 DEF IInv, QuietOK, ProgressOK
      <3>2. AllDone'
        BY <1>1, <3>1 DEF AllDone, Matches, Done, Fits, Raised
      <3> QED  BY <1>1, <2>1, <3>1, <3>2 DEF ProgressOK
    <2>2. CASE X.pc \in {"broken", "none"}
      BY <1>1, <2>2 DEF ProgressOK
    <2> QED  BY <2>1, <2>2
  <1>3. links' \in [Paths -> 0..2] /\ entities' \in BOOLEAN
    BY DEF IInv, TypeOK
  <1>4. /\ run[s].pc # "none" /\ run[s].pc \notin {"refresh", "alert", "raise"}
        /\ X.pc # "raise" /\ X.pc # "write"
    OBVIOUS
  <1> QED  BY <1>2, <1>3, <1>4, LookKeeps

LEMMA GraphLookSteps ==
  ASSUME IInv, NEW s \in Sessions,
         LookForEntities(s) \/ InsertEntities(s) \/ Save(s)
  PROVE  IInv'
  <1>1. run[s] \in Sync  BY DEF IInv, TypeOK
  <1>2. CASE LookForEntities(s)
    <2> DEFINE X == [run[s] EXCEPT
                       !.pc   = IF entities THEN "link" ELSE "insert",
                       !.seen = IF entities THEN "entities" ELSE "none"]
    <2>1. X \in Sync /\ X.pc \in {"link", "insert"} /\ X.quiet = run[s].quiet
      BY <1>1 DEF Sync, Pcs
    <2>2. /\ run[s].pc = "look" /\ Step(s, X)
          /\ UNCHANGED <<asset, alert, entities, links>>
      BY <1>2 DEF LookForEntities, graph
    <2> HIDE DEF X
    <2> QED  BY <2>1, <2>2, LookStep
  <1>3. CASE InsertEntities(s)
    <2> DEFINE X == [run[s] EXCEPT !.pc = IF entities THEN "broken" ELSE "link"]
    <2>1. X \in Sync /\ X.pc \in {"link", "broken"} /\ X.quiet = run[s].quiet
      BY <1>1 DEF Sync, Pcs
    <2>2. /\ run[s].pc = "insert" /\ Step(s, X)
          /\ UNCHANGED <<asset, alert, entities, links>>
      BY <1>3 DEF InsertEntities, graph
    <2> HIDE DEF X
    <2> QED  BY <2>1, <2>2, LookStep
  <1>4. CASE Save(s)
    <2>1. /\ run[s].pc = "save" /\ Step(s, Idle)
          /\ UNCHANGED <<asset, alert, entities, links>>
      BY <1>4 DEF Save, graph
    <2> QED  BY <2>1, IdleIsSync, LookStep
  <1> QED  BY <1>2, <1>3, <1>4

LEMMA FailStep == ASSUME IInv, NEW s \in Sessions, Fail(s) PROVE IInv'
  <1>1. /\ run[s].pc # "none" /\ UNCHANGED <<asset, alert, entities, links>>
        /\ run' = [run EXCEPT ![s] = Idle] /\ UNCHANGED <<world, overlapped>>
        /\ interrupted' = IF run[s].pc \in {"refresh", "alert", "raise"}
                            THEN interrupted \cup {run[s].path} ELSE interrupted
    BY DEF Fail, graph
  <1>2. run[s].path \in Paths  BY SyncFields DEF IInv, TypeOK
  <1>3. Moves(s, Idle) /\ run'[s] = Idle
    BY <1>1, <1>2, IdleIsSync DEF Moves, IInv, TypeOK
  <1>4. ProgressOK(s)'
    BY <1>3, IdleIsSync DEF ProgressOK
  <1>5. \A p \in Paths : \A k \in AlertFor(asset'[p].status) :
          \/ k \in AlertFor(asset[p].status) /\ ~AboutToRaise(s, p, k)
          \/ p \in interrupted'
    BY <1>1 DEF AboutToRaise
  <1>6. /\ asset' \in [Paths -> Asset] /\ links' \in [Paths -> 0..2]
        /\ entities' \in BOOLEAN /\ alert' \in [Paths -> [AlertTypes -> 0..2]]
        /\ \A p \in Paths, k \in AlertTypes : alert[p][k] > 0 => alert'[p][k] > 0
        /\ ~overlapped =>
             /\ \A q \in Paths, k \in AlertTypes : alert'[q][k] <= 1
             /\ \A p \in Paths : CompanyOf(asset'[p], p)
    BY <1>1 DEF IInv, TypeOK, OneAlertOfAType, CompanyOK
  <1> QED  BY <1>1, <1>3, <1>4, <1>5, <1>6, IdleIsSync, StepKeeps

LEMMA LinkStep == ASSUME IInv, NEW s \in Sessions, Link(s) PROVE IInv'
  <1> DEFINE r == run[s]
             linked == {p \in Paths : asset[p].company /\ asset[p].active}
             X == [r EXCEPT !.pc = "save"]
  <1>1. r \in Sync  BY DEF IInv, TypeOK
  <1>2. /\ Step(s, X) /\ r.pc = "link" /\ entities' = TRUE
        /\ links' = [p \in Paths |-> IF p \in linked /\ links[p] < 2
                                       THEN links[p] + 1 ELSE links[p]]
        /\ UNCHANGED <<asset, alert>>
    BY DEF Link
  <1>3. X \in Sync /\ X.pc = "save" /\ X.quiet = r.quiet
    BY <1>1 DEF Sync, Pcs
  <1> HIDE DEF X
  <1>4. run'[s] = X /\ UNCHANGED <<disk, today>>
    BY <1>2, <1>3, RunAfter DEF IInv
  <1>5. links' \in [Paths -> 0..2]
    BY <1>2 DEF IInv, TypeOK
  <1>6. ASSUME ~overlapped, X.quiet PROVE ProgressOK(s)'
    <2>1. AllDone /\ \A p \in Paths : links[p] = 0
      BY <1>2, <1>3, <1>6 DEF IInv, QuietOK, ProgressOK
    <2>2. \A p \in Paths : asset[p].active <=> disk[p] # Absent
      BY <2>1 DEF AllDone, Matches
    <2>3. \A p \in Paths : disk[p] # Absent =>
            (asset[p].company <=> NamesCompany(p, asset[p].text))
      BY <1>6, <2>1 DEF AllDone, Done, Fits, IInv, CompanyOK, CompanyOf
    <2>4. \A p \in Paths :
            links'[p] = IF disk[p] # Absent /\ NamesCompany(p, asset[p].text)
                          THEN 1 ELSE 0
      BY <1>2, <2>1, <2>2, <2>3
    <2>5. AllDone'
      BY <1>2, <1>4, <2>1 DEF AllDone, Matches, Done, Fits, Raised
    <2> QED  BY <1>2, <1>3, <1>4, <2>4, <2>5 DEF ProgressOK
  <1>7. entities' \in BOOLEAN  BY <1>2
  <1> QED  BY <1>2, <1>3, <1>5, <1>6, <1>7, LookKeeps

-----------------------------------------------------------------------------
(* The beginning, and the world                                            *)

LEMMA BeginStep == ASSUME IInv, NEW s \in Sessions, Begin(s) PROVE IInv'
  <1> DEFINE X == [Idle EXCEPT !.pc = "files", !.quiet = TRUE, !.listed = disk,
                               !.todo = {p \in Paths : disk[p] # Absent}]
  <1>1. /\ X \in Sync /\ X.pc = "files" /\ X.listed = disk
        /\ X.todo = {p \in Paths : disk[p] # Absent}
    BY IdleIsSync DEF IInv, TypeOK, Sync, Pcs
  <1>2. /\ run[s].pc = "none" /\ syncs < MaxSyncs /\ syncs' = syncs + 1
        /\ run' = [run EXCEPT ![s] = X]
        /\ overlapped' = (overlapped \/ \E r \in Sessions : run[r].pc # "none")
        /\ UNCHANGED <<disk, today, edits, asset, alert, entities, links,
                       interrupted>>
    BY DEF Begin, graph
  <1> HIDE DEF X
  <1>3. /\ run' \in [Sessions -> Sync] /\ run'[s] = X
        /\ \A r \in Sessions \ {s} : run'[r] = run[r]
    BY <1>1, <1>2 DEF IInv, TypeOK
  <1>4. ~overlapped' => ~overlapped /\ \A r \in Sessions : run[r].pc = "none"
    BY <1>2
  <1>5. TypeOK'
    <2>1. syncs' \in 0..MaxSyncs /\ overlapped' \in BOOLEAN
      BY <1>2, KnowledgeAssumption DEF IInv, TypeOK
    <2> QED  BY <1>2, <1>3, <2>1 DEF IInv, TypeOK
  <1>6. AlertsAreRaised'
    <2>1. \A r \in Sessions : \A p, k : AboutToRaise(r, p, k) => AboutToRaise(r, p, k)'
      BY <1>2, <1>3 DEF AboutToRaise
    <2> QED  BY <1>2, <2>1 DEF IInv, AlertsAreRaised
  <1>7. AloneOK' /\ RaiseOK' /\ WriteOK'
    BY <1>1, <1>3, <1>4 DEF AloneOK, RaiseOK, WriteOK
  <1>8. OneAlertOfAType' /\ CompanyOK'
    BY <1>2, <1>4 DEF IInv, OneAlertOfAType, CompanyOK
  <1>9. QuietOK'
    <2>1. \A p \in Paths \ X.todo : Done(p)'
      BY <1>1, <1>2 DEF Done
    <2> QED  BY <1>1, <1>2, <1>3, <1>4, <2>1 DEF QuietOK, ProgressOK
  <1> QED  BY <1>5, <1>6, <1>7, <1>8, <1>9 DEF IInv

LEMMA WorldStep ==
  ASSUME IInv, NextDay \/ \E p \in Paths, v \in Files : Edit(p, v)
  PROVE  IInv'
  <1> DEFINE Changed ==
        /\ Disturbed
        /\ UNCHANGED <<syncs, asset, alert, entities, links, interrupted,
                       overlapped>>
        /\ disk' \in [Paths -> Files] /\ today' \in Days /\ edits' \in 0..MaxEdits
  <1>1. Changed
    <2>1. CASE NextDay
      BY <2>1, KnowledgeAssumption DEF NextDay, IInv, TypeOK, Days
    <2>2. ASSUME NEW p \in Paths, NEW v \in Files, Edit(p, v) PROVE Changed
      BY <2>2, KnowledgeAssumption DEF Edit, IInv, TypeOK
    <2> HIDE DEF Changed
    <2> QED  BY <2>1, <2>2
  <1>2. \A s \in Sessions : run[s] \in Sync  BY DEF IInv, TypeOK
  <1>3. /\ run' \in [Sessions -> Sync]
        /\ \A s \in Sessions :
             /\ run'[s].pc = run[s].pc /\ run'[s].path = run[s].path
             /\ run'[s].new = run[s].new /\ ~run'[s].quiet
             /\ run'[s].loaded = run[s].loaded
    BY <1>1, <1>2 DEF Disturbed, Sync
  <1>4. TypeOK'  BY <1>1, <1>3 DEF IInv, TypeOK
  <1>5. AlertsAreRaised'
    <2>1. \A r \in Sessions : \A p, k : AboutToRaise(r, p, k) => AboutToRaise(r, p, k)'
      BY <1>3 DEF AboutToRaise
    <2> QED  BY <1>1, <2>1 DEF IInv, AlertsAreRaised
  <1>6. AloneOK' /\ RaiseOK' /\ OneAlertOfAType' /\ WriteOK' /\ CompanyOK'
    <2>1. AloneOK'  BY <1>1, <1>3 DEF IInv, AloneOK
    <2>2. RaiseOK'  BY <1>1, <1>3 DEF IInv, RaiseOK
    <2>3. OneAlertOfAType' /\ CompanyOK'
      BY <1>1 DEF IInv, OneAlertOfAType, CompanyOK
    <2>4. WriteOK'  BY <1>1, <1>3 DEF IInv, WriteOK
    <2> QED  BY <2>1, <2>2, <2>3, <2>4
  <1>7. QuietOK'  BY <1>3 DEF QuietOK
  <1> QED  BY <1>4, <1>5, <1>6, <1>7 DEF IInv

-----------------------------------------------------------------------------
(* Theorems                                                                *)

LEMMA IInvInit == Init => IInv
  <1> SUFFICES ASSUME Init PROVE IInv  OBVIOUS
  <1>1. \A s \in Sessions :
          run[s] \in Sync /\ run[s].pc = "none" /\ ~run[s].quiet
    BY IdleIsSync DEF Init
  <1>2. TypeOK
    <2>1. /\ today \in Days /\ edits \in 0..MaxEdits /\ syncs \in 0..MaxSyncs
      BY KnowledgeAssumption DEF Init, Days
    <2>2. alert \in [Paths -> [AlertTypes -> 0..2]] /\ links \in [Paths -> 0..2]
      BY DEF Init
    <2>3. asset \in [Paths -> Asset] /\ run \in [Sessions -> Sync]
      BY IdleIsSync, NoAssetIsAsset DEF Init
    <2> QED  BY <2>1, <2>2, <2>3 DEF Init, TypeOK
  <1>3. AlertsAreRaised
    BY DEF Init, AlertsAreRaised, NoAsset, AlertFor
  <1>4. /\ AloneOK /\ RaiseOK /\ OneAlertOfAType /\ QuietOK
        /\ CompanyOK /\ WriteOK
    BY <1>1 DEF Init, AloneOK, RaiseOK, OneAlertOfAType, QuietOK, CompanyOK,
                CompanyOf, NoAsset, WriteOK
  <1> QED  BY <1>2, <1>3, <1>4 DEF IInv

LEMMA IInvStep == IInv /\ [Next]_vars => IInv'
  <1> SUFFICES ASSUME IInv, [Next]_vars PROVE IInv'  OBVIOUS
  <1>1. CASE NextDay \/ \E p \in Paths, v \in Files : Edit(p, v)
    BY <1>1, WorldStep
  <1>2. ASSUME NEW s \in Sessions, Synchronize(s) PROVE IInv'
    <2>1. CASE Begin(s)  BY <2>1, BeginStep
    <2>2. CASE \E p \in Paths, text \in Files : ReadFile(s, p, text)
      BY <2>2, ReadFileStep
    <2>3. CASE WriteAsset(s)  BY <2>3, WriteAssetStep
    <2>4. CASE CheckAlert(s)  BY <2>4, CheckAlertStep
    <2>5. CASE RaiseAlert(s)  BY <2>5, RaiseAlertStep
    <2>6. CASE Deactivate(s)  BY <2>6, DeactivateStep
    <2>7. CASE Clear(s)  BY <2>7, ClearStep
    <2>8. CASE LookForEntities(s) \/ InsertEntities(s) \/ Save(s)
      BY <2>8, GraphLookSteps
    <2>9. CASE Link(s)  BY <2>9, LinkStep
    <2>10. CASE \E p \in Paths : SkipFile(s, p)  BY <2>10, SkipFileStep
    <2>11. CASE Refresh(s)  BY <2>11, RefreshStep
    <2>12. CASE Fail(s)  BY <2>12, FailStep
    <2> QED
      BY <1>2, <2>1, <2>2, <2>3, <2>4, <2>5, <2>6, <2>7, <2>8, <2>9, <2>10,
         <2>11, <2>12 DEF Synchronize
  <1>3. CASE UNCHANGED vars
    <2>1. TypeOK' /\ AloneOK' /\ RaiseOK' /\ OneAlertOfAType'
      BY <1>3 DEF vars, IInv, TypeOK, AloneOK, RaiseOK, OneAlertOfAType
    <2>2. AlertsAreRaised' /\ CompanyOK' /\ WriteOK'
      BY <1>3 DEF vars, IInv, AlertsAreRaised, AboutToRaise, CompanyOK, WriteOK
    <2>3. QuietOK'
      BY <1>3 DEF vars, IInv, QuietOK, ProgressOK, AllDone, Done, Fits, Raised,
                  Matches
    <2> QED  BY <2>1, <2>2, <2>3 DEF IInv
  <1> QED  BY <1>1, <1>2, <1>3 DEF Next

LEMMA IInvAlways == Spec => []IInv
  <1> QED  BY IInvInit, IInvStep, PTL DEF Spec

\* The variables keep their types.
THEOREM TypeCorrect == Spec => []TypeOK
  <1>1. IInv => TypeOK  BY DEF IInv
  <1> QED  BY <1>1, IInvAlways, PTL

\* Whatever synchronizations overlap, and whichever columns each of them
\* writes, a document that is stored as expired or close to it has its alert
\* or is about to have it (_upsert_asset and _sync_alerts), unless one of
\* them has failed between the two.
THEOREM ExpiryIsTold == Spec => []AlertsAreRaised
  <1>1. IInv => AlertsAreRaised  BY DEF IInv
  <1> QED  BY <1>1, IInvAlways, PTL

\* Without overlap no document has two open alerts of a type.
THEOREM AlertsAreSingle == Spec => []OneAlertOfAType
  <1>1. IInv => OneAlertOfAType  BY DEF IInv
  <1> QED  BY <1>1, IInvAlways, PTL

\* A synchronization alone, while nothing changes and all can be read, ends
\* with the hashes, dates and alerts of the files on this day, and with the
\* links that follow from the stored texts (sync).
THEOREM SyncIsRepair == Spec => []SyncRepairs
  <1>1. IInv => SyncRepairs
    BY DEF IInv, QuietOK, ProgressOK, SyncRepairs, AllDone, Done
  <1> QED  BY <1>1, IInvAlways, PTL
=============================================================================
