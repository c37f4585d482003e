---------------------------- MODULE SearchProofs ----------------------------
(***************************************************************************)
(* Proofs about Search, for any number of searches and all durations: the  *)
(* variables keep their types, the index is as old as it says, the caches  *)
(* forget what they hold at an invalidation, and no answer is older than   *)
(* SearchFreshness allows.                                                 *)
(***************************************************************************)
EXTENDS Search, TLAPS

-----------------------------------------------------------------------------
(* The inductive invariant, in parts.                                      *)

\* How old results may be when a search finds them, the time that the search
\* takes left out.
Slack == [k \in Sources |-> CASE k = "index" -> SyncInterval
                              [] k = "jaios" -> 0
                              [] OTHER       -> SliceTTL[k] + Patience]

\* A result is not from the future, and a search that began at since may find
\* it.
PartOK(p, since) == p.at <= now /\ (p.err \/ since <= p.at + Slack[p.source])

IndexOK(i) == i.asOf <= now /\ (i.err \/ i.ran <= i.asOf)

AskedPcs == {"odoo_asked", "dgcp_asked"}

\* A search that is under way.
RunOK ==
  \A s \in Sessions : run[s].pc # "none" =>
    /\ run[s].since <= now /\ now <= run[s].since + Patience
    /\ run[s].pc \in {"write"} \cup AskedPcs =>
         run[s].since <= run[s].read /\ run[s].read <= now
    /\ run[s].pc = "find" =>
         SeenBy(s).err \/ run[s].since <= SeenBy(s).asOf + SyncInterval
    /\ \A p \in run[s].parts : PartOK(p, run[s].since)

\* The index, and what a search has written of it.
IndexesOK == IndexOK(index) /\ \A s \in Sessions : IndexOK(run[s].index)

WriterOK ==
  \A s \in Sessions : writer = s =>
    /\ run[s].pc \notin {"none", "index", "write"}
    /\ run[s].index.err \/ run[s].since <= run[s].index.asOf

\* What the cache holds expires in time.
ResponsesOK ==
  \A q \in Question : \A p \in responses[q].parts :
    p.at <= now /\ (p.err \/ responses[q].expires <= p.at + Bounds[p.source])

SlicesOK ==
  \A k \in Slices : \A p \in slices[k].parts :
    /\ p.source = k /\ p.at <= now
    /\ slices[k].expires <= p.at + Slack[k]

\* All but the index is of the version.
Current(P) == \A p \in P : p.source # "index" => version <= p.version

\* Without a search during an invalidation, all is of the current version.
VersionOK ==
  ~raced =>
    /\ \A s \in Sessions : run[s].pc # "none" =>
         /\ run[s].began = version
         /\ run[s].pc \in AskedPcs => run[s].asked = version
         /\ Current(run[s].parts)
    /\ \A q \in Question : Current(responses[q].parts)
    /\ \A k \in Slices : Current(slices[k].parts)

IInv == /\ TypeOK /\ RunOK /\ IndexesOK /\ WriterOK /\ ResponsesOK /\ SlicesOK
        /\ VersionOK /\ InvalidationHolds

-----------------------------------------------------------------------------
(* Constants and records                                                   *)

LEMMA Durations ==
  /\ ResponseTTL \in Nat \ {0} /\ SyncInterval \in Nat \ {0}
  /\ \A k \in Slices : SliceTTL[k] \in Nat \ {0}
  /\ Patience \in Nat /\ Patience <= SyncInterval
  BY SearchAssumption, PatienceAssumption

LEMMA Slacks ==
  /\ \A k \in Sources : /\ Slack[k] \in Nat
                        /\ Bounds[k] \in Nat
                        /\ Bounds[k] = Slack[k] + Patience + ResponseTTL
  /\ Slack["index"] = SyncInterval /\ Slack["jaios"] = 0
  /\ \A k \in Slices : Slack[k] = SliceTTL[k] + Patience
  /\ Slices \subseteq Sources /\ "index" \in Sources /\ "jaios" \in Sources
  BY Durations DEF Slack, Bounds, Sources, Slices

LEMMA Bounded ==
  /\ Time \subseteq Nat /\ Versions \subseteq Nat
  /\ 0 \in Time /\ 0 \in Versions
  BY SearchAssumption DEF Time, Versions

LEMMA QuestionExists == AnyQuestion \in Question
  <1>1. PICK c \in Companies : TRUE  BY SearchAssumption
  <1>2. PICK f \in Filters : TRUE  BY SearchAssumption
  <1>3. [company |-> c, filter |-> f] \in Question  BY DEF Question
  <1> QED  BY <1>3 DEF AnyQuestion

LEMMA IdleIsSearch ==
  /\ Idle \in Search
  /\ Idle.pc = "none" /\ Idle.parts = {} /\ Idle.index = NewIndex
  /\ NewIndex \in Index /\ NewIndex.err /\ NewIndex.asOf = 0
  /\ NoEntry \in Entry /\ NoEntry.parts = {}
  BY QuestionExists, Bounded DEF Idle, Search, Pcs, NewIndex, Index, NoEntry, Entry

LEMMA NothingIsShown ==
  /\ NothingShown \in Shown /\ NothingShown.parts = {}
  BY QuestionExists, Bounded DEF NothingShown, Shown, Question

LEMMA SearchFields ==
  ASSUME TypeOK, NEW s \in Sessions
  PROVE  /\ run[s] \in Search
         /\ run[s].pc \in Pcs /\ run[s].question \in Question
         /\ run[s].question.company \in Companies
         /\ run[s].since \in Nat /\ run[s].began \in Nat
         /\ run[s].began \in Versions
         /\ run[s].read \in Time /\ run[s].read \in Nat
         /\ run[s].asked \in Versions /\ run[s].asked \in Nat
         /\ run[s].index \in Index /\ run[s].parts \subseteq Part
         /\ now \in Time /\ now \in Nat /\ version \in Versions /\ version \in Nat
  BY Bounded DEF TypeOK, Search, Question

LEMMA IndexFields ==
  ASSUME NEW i \in Index
  PROVE  /\ i.asOf \in Nat /\ i.ran \in Nat /\ i.asOf \in Time /\ i.ran \in Time
         /\ i.err \in BOOLEAN /\ i.synced \in BOOLEAN /\ i.version \in Versions
  BY Bounded DEF Index

LEMMA PartFields ==
  ASSUME NEW p \in Part
  PROVE  /\ p.at \in Nat /\ p.version \in Nat /\ p.err \in BOOLEAN
         /\ p.source \in Sources
  BY Bounded DEF Part

LEMMA SeenIsIndex ==
  ASSUME TypeOK, NEW s \in Sessions PROVE SeenBy(s) \in Index
  BY SearchFields DEF TypeOK, SeenBy

LEMMA EntryFields ==
  ASSUME TypeOK
  PROVE  /\ \A q \in Question : /\ responses[q] \in Entry
                                /\ responses[q].parts \subseteq Part
                                /\ responses[q].expires \in Nat
         /\ \A k \in Slices : /\ slices[k] \in Entry
                              /\ slices[k].parts \subseteq Part
                              /\ slices[k].expires \in Nat
  BY DEF TypeOK, Entry

LEMMA RunAfter ==
  ASSUME TypeOK, NEW s \in Sessions, NEW X, run' = [run EXCEPT ![s] = X]
  PROVE  /\ run'[s] = X
         /\ \A r \in Sessions \ {s} : run'[r] = run[r]
         /\ X \in Search => run' \in [Sessions -> Search]
  BY DEF TypeOK

\* NoOne is no search.
LEMMA NoOneElse == \A s \in Sessions : s # NoOne
  BY SearchAssumption

-----------------------------------------------------------------------------
(* Steps that move a search on and leave cache and index alone             *)

LEMMA GoStep ==
  ASSUME IInv, NEW s \in Sessions, NEW X \in Search, Go(s, X),
         UNCHANGED <<cache, writer>>,
         run[s].pc # "none", X.pc # "none",
         X.since = run[s].since, X.began = run[s].began, X.index = run[s].index,
         writer = s => X.pc \notin {"index", "write"},
         X.pc \in {"write"} \cup AskedPcs => X.read = now,
         X.pc \in AskedPcs => X.asked = version,
         X.pc = "find" =>
           SeenBy(s).err \/ run[s].since <= SeenBy(s).asOf + SyncInterval,
         \A p \in X.parts : PartOK(p, run[s].since),
         ~raced => Current(X.parts)
  PROVE  IInv'
  <1>1. /\ run'[s] = X /\ \A r \in Sessions \ {s} : run'[r] = run[r]
        /\ run' \in [Sessions -> Search]
    BY RunAfter DEF IInv, Go
  <1>2. /\ now' = now /\ version' = version /\ index' = index /\ raced' = raced
        /\ responses' = responses /\ slices' = slices /\ writer' = writer
        /\ shown' = NothingShown
    BY DEF Go, cache
  <1>3. TypeOK'
    BY <1>1, <1>2, NothingIsShown DEF IInv, TypeOK
  <1>4. RunOK'
    <2> SUFFICES ASSUME NEW r \in Sessions, run'[r].pc # "none"
        PROVE /\ run'[r].since <= now /\ now <= run'[r].since + Patience
              /\ run'[r].pc \in {"write"} \cup AskedPcs =>
                   run'[r].since <= run'[r].read /\ run'[r].read <= now
              /\ run'[r].pc = "find" =>
                   SeenBy(r)'.err \/ run'[r].since <= SeenBy(r)'.asOf + SyncInterval
              /\ \A p \in run'[r].parts : PartOK(p, run'[r].since)
      BY <1>2 DEF RunOK, PartOK
    <2>1. CASE r = s
      <3>1. SeenBy(s)' = SeenBy(s)  BY <1>1, <1>2 DEF SeenBy
      <3>2. now <= now  BY SearchFields DEF IInv
      <3> QED  BY <1>1, <2>1, <3>1, <3>2 DEF IInv, RunOK
    <2>2. CASE r # s
      <3>1. run'[r] = run[r] /\ SeenBy(r)' = SeenBy(r)
        BY <1>1, <1>2, <2>2 DEF SeenBy
      <3> QED  BY <3>1 DEF IInv, RunOK
    <2> QED  BY <2>1, <2>2
  <1>5. IndexesOK'
    BY <1>1, <1>2 DEF IInv, IndexesOK, IndexOK
  <1>6. WriterOK'
    BY <1>1, <1>2 DEF IInv, WriterOK
  <1>7. ResponsesOK' /\ SlicesOK'
    BY <1>2 DEF IInv, ResponsesOK, SlicesOK
  <1>8. VersionOK'
    BY <1>1, <1>2 DEF IInv, VersionOK, Current
  <1>9. InvalidationHolds'
    BY <1>2, NothingIsShown DEF InvalidationHolds
  <1> QED  BY <1>3, <1>4, <1>5, <1>6, <1>7, <1>8, <1>9 DEF IInv

LEMMA SkipSyncStep == ASSUME IInv, NEW s \in Sessions, SkipSync(s) PROVE IInv'
  <1> DEFINE X == [run[s] EXCEPT !.pc = "find"]
  <1>0. run[s].pc = "index" /\ writer # s  BY DEF IInv, WriterOK, SkipSync
  <1>1. /\ X \in Search /\ X.pc = "find" /\ X.since = run[s].since
        /\ X.began = run[s].began /\ X.index = run[s].index
        /\ X.parts = run[s].parts
    BY SearchFields DEF IInv, Search, Pcs
  <1>2. run[s].since <= now /\ SeenBy(s) = index /\ now < index.ran + SyncInterval
    BY <1>0 DEF IInv, RunOK, SeenBy, SkipSync, FreshIndex
  <1>3. index.err \/ run[s].since <= index.asOf + SyncInterval
    <2>1. index \in Index  BY DEF IInv, TypeOK
    <2> QED
      BY <1>2, <2>1, IndexFields, SearchFields, Durations DEF IInv, IndexesOK, IndexOK
  <1>4. Go(s, X) /\ UNCHANGED <<cache, writer>>  BY DEF SkipSync
  <1> HIDE DEF X
  <1> QED  BY <1>0, <1>1, <1>2, <1>3, <1>4, GoStep DEF AskedPcs, IInv, RunOK, VersionOK, Current

LEMMA ReadRowsStep == ASSUME IInv, NEW s \in Sessions, ReadRows(s) PROVE IInv'
  <1> DEFINE X == [run[s] EXCEPT !.pc = "write", !.read = now, !.asked = version]
  <1>0. run[s].pc = "index" /\ writer # s  BY DEF IInv, WriterOK, ReadRows
  <1>1. /\ X \in Search /\ X.pc = "write" /\ X.since = run[s].since
        /\ X.began = run[s].began /\ X.index = run[s].index
        /\ X.parts = run[s].parts /\ X.read = now
    BY SearchFields DEF IInv, Search, Pcs
  <1>2. Go(s, X) /\ UNCHANGED <<cache, writer>>  BY DEF ReadRows
  <1> HIDE DEF X
  <1> QED  BY <1>0, <1>1, <1>2, GoStep DEF AskedPcs, IInv, RunOK, VersionOK, Current

LEMMA FindStep ==
  ASSUME IInv, NEW s \in Sessions, NEW hit \in BOOLEAN, Find(s, hit) PROVE IInv'
  <1> DEFINE parts == IF hit THEN {IndexPart(s)} ELSE {}
             X == [run[s] EXCEPT !.pc = AfterIndex(s), !.hit = hit,
                                 !.parts = parts]
  <1>0. run[s].pc = "find"  BY DEF Find
  <1>1. SeenBy(s) \in Index  BY SeenIsIndex DEF IInv
  <1>2. /\ IndexPart(s) \in Part /\ IndexPart(s).at = SeenBy(s).asOf
        /\ IndexPart(s).source = "index" /\ IndexPart(s).err = SeenBy(s).err
    BY <1>1, IndexFields, SearchFields DEF IInv, IndexPart, Part, Sources
  <1>3. SeenBy(s).asOf <= now
    BY DEF IInv, IndexesOK, IndexOK, SeenBy
  <1>4. PartOK(IndexPart(s), run[s].since)
    BY <1>0, <1>2, <1>3, Slacks DEF IInv, RunOK, PartOK
  <1>6. AfterIndex(s) \in {"odoo", "dgcp", "jaios"}
    BY SearchFields, SearchAssumption DEF IInv, AfterIndex, Question
  <1>7. /\ parts \subseteq Part /\ \A p \in parts : PartOK(p, run[s].since)
        /\ Current(parts)
    BY <1>2, <1>4 DEF Current
  <1> HIDE DEF parts
  <1>8. /\ X \in Search /\ X.pc \in {"odoo", "dgcp", "jaios"} /\ X.since = run[s].since
        /\ X.began = run[s].began /\ X.index = run[s].index /\ X.parts = parts
    BY <1>6, <1>7, SearchFields DEF IInv, Search, Pcs
  <1>9. Go(s, X) /\ UNCHANGED <<cache, writer>>  BY DEF Find, parts
  <1> HIDE DEF X
  <1> QED  BY <1>0, <1>7, <1>8, <1>9, GoStep DEF AskedPcs

\* Where a search goes from a slice, and what is true of it there.
LEMMA AtSlice ==
  ASSUME IInv, NEW s \in Sessions, NEW k \in Slices
  PROVE  /\ AfterSlice(s, k) \in {"dgcp", "jaios", "done"}
         /\ Asked(k) \in AskedPcs
         /\ run[s].pc = k => run[s].pc \notin {"none", "index", "write", "find"}
  BY DEF AfterSlice, Asked, AskedPcs, Slices

LEMMA SkipSourcesStep == ASSUME IInv, NEW s \in Sessions, SkipSources(s) PROVE IInv'
  <1> DEFINE X == [run[s] EXCEPT !.pc = "done", !.hit = FALSE]
  <1>0. run[s].pc # "none"  BY DEF SkipSources
  <1>1. /\ X \in Search /\ X.pc = "done" /\ X.since = run[s].since
        /\ X.began = run[s].began /\ X.index = run[s].index
        /\ X.parts = run[s].parts
    BY SearchFields DEF IInv, Search, Pcs
  <1>2. Go(s, X) /\ UNCHANGED <<cache, writer>>  BY DEF SkipSources
  <1> HIDE DEF X
  <1> QED  BY <1>0, <1>1, <1>2, GoStep DEF AskedPcs, IInv, RunOK, VersionOK, Current

LEMMA ReadDirectStep == ASSUME IInv, NEW s \in Sessions, ReadDirect(s) PROVE IInv'
  <1> DEFINE part == DirectPart(s)
             parts == run[s].parts \cup {part}
             X == [run[s] EXCEPT !.pc = "done", !.parts = parts]
  <1>0. run[s].pc # "none"  BY DEF ReadDirect
  <1>1. /\ part \in Part /\ part.source = "jaios" /\ part.at = now
        /\ part.version = version
    BY SearchFields, Slacks DEF IInv, DirectPart, Part
  <1>2. PartOK(part, run[s].since)
    <2>1. /\ run[s].since <= now /\ run[s].since \in Nat /\ now \in Nat
          /\ Slack[part.source] = 0
      BY <1>0, <1>1, SearchFields, Slacks DEF IInv, RunOK
    <2>2. now <= now /\ run[s].since <= now + 0  BY <2>1
    <2> QED  BY <1>1, <2>1, <2>2 DEF PartOK
  <1>3. version <= version  BY SearchFields DEF IInv
  <1>4. /\ parts \subseteq Part /\ \A p \in parts : PartOK(p, run[s].since)
        /\ ~raced => Current(parts)
    BY <1>0, <1>1, <1>2, <1>3, SearchFields DEF IInv, RunOK, VersionOK, Current
  <1> HIDE DEF part
  <1>5. Go(s, X) /\ UNCHANGED <<cache, writer>>  BY DEF ReadDirect, part
  <1> HIDE DEF parts
  <1>6. /\ X \in Search /\ X.pc = "done" /\ X.since = run[s].since
        /\ X.began = run[s].began /\ X.index = run[s].index /\ X.parts = parts
    BY <1>4, SearchFields DEF IInv, Search, Pcs
  <1> HIDE DEF X
  <1> QED  BY <1>0, <1>4, <1>5, <1>6, GoStep DEF AskedPcs

LEMMA UseSliceStep ==
  ASSUME IInv, NEW s \in Sessions, NEW k \in Slices, UseSlice(s, k) PROVE IInv'
  <1> DEFINE parts == run[s].parts \cup slices[k].parts
             X == [run[s] EXCEPT !.pc = AfterSlice(s, k), !.parts = parts]
  <1>0. run[s].pc = k /\ run[s].pc # "none"  BY AtSlice DEF UseSlice
  <1>1. AfterSlice(s, k) \in {"dgcp", "jaios", "done"}  BY AtSlice
  <1>2. ASSUME NEW p \in slices[k].parts PROVE PartOK(p, run[s].since)
    <2>1. p \in Part /\ slices[k].expires \in Nat  BY EntryFields DEF IInv
    <2>2. /\ p.source = k /\ p.at <= now /\ now < slices[k].expires
          /\ slices[k].expires <= p.at + Slack[k] /\ run[s].since <= now
      BY <1>0 DEF IInv, SlicesOK, RunOK, UseSlice, Live
    <2>3. p.at \in Nat /\ Slack[k] \in Nat /\ run[s].since \in Nat /\ now \in Nat
      BY <2>1, PartFields, Slacks, SearchFields DEF IInv
    <2>4. run[s].since <= p.at + Slack[k]  BY <2>1, <2>2, <2>3
    <2> QED  BY <2>2, <2>4 DEF PartOK
  <1>3. /\ parts \subseteq Part /\ \A p \in parts : PartOK(p, run[s].since)
        /\ ~raced => Current(parts)
    BY <1>0, <1>2, SearchFields, EntryFields DEF IInv, RunOK, VersionOK, Current
  <1> HIDE DEF parts
  <1>4. /\ X \in Search /\ X.pc \in {"dgcp", "jaios", "done"} /\ X.since = run[s].since
        /\ X.began = run[s].began /\ X.index = run[s].index /\ X.parts = parts
    BY <1>1, <1>3, SearchFields DEF IInv, Search, Pcs
  <1>5. Go(s, X) /\ UNCHANGED <<cache, writer>>  BY DEF UseSlice, parts
  <1> HIDE DEF X
  <1> QED  BY <1>0, <1>3, <1>4, <1>5, GoStep DEF AskedPcs

LEMMA AskStep ==
  ASSUME IInv, NEW s \in Sessions, NEW k \in Slices, Ask(s, k) PROVE IInv'
  <1> DEFINE X == [run[s] EXCEPT !.pc = Asked(k), !.read = now, !.asked = version]
  <1>0. run[s].pc = k /\ run[s].pc # "none"  BY AtSlice DEF Ask
  <1>1. Asked(k) \in AskedPcs  BY AtSlice
  <1>2. /\ X \in Search /\ X.pc \in AskedPcs /\ X.since = run[s].since
        /\ X.began = run[s].began /\ X.index = run[s].index
        /\ X.parts = run[s].parts /\ X.read = now /\ X.asked = version
    BY <1>1, SearchFields DEF IInv, Search, Pcs, AskedPcs
  <1>3. Go(s, X) /\ UNCHANGED <<cache, writer>>  BY DEF Ask
  <1> HIDE DEF X
  <1> QED  BY <1>0, <1>2, <1>3, GoStep DEF AskedPcs, IInv, RunOK, VersionOK, Current

LEMMA AnsweredEmptyStep ==
  ASSUME IInv, NEW s \in Sessions, NEW k \in Slices, AnsweredEmpty(s, k) PROVE IInv'
  <1> DEFINE X == [run[s] EXCEPT !.pc = AfterSlice(s, k), !.read = 0, !.asked = 0]
  <1>0. run[s].pc # "none"  BY AtSlice DEF AnsweredEmpty, AskedPcs
  <1>1. AfterSlice(s, k) \in {"dgcp", "jaios", "done"}  BY AtSlice
  <1>2. /\ X \in Search /\ X.pc \in {"dgcp", "jaios", "done"} /\ X.since = run[s].since
        /\ X.began = run[s].began /\ X.index = run[s].index
        /\ X.parts = run[s].parts
    BY <1>1, SearchFields, Bounded DEF IInv, Search, Pcs
  <1>3. Go(s, X) /\ UNCHANGED <<cache, writer>>  BY DEF AnsweredEmpty
  <1> HIDE DEF X
  <1> QED  BY <1>0, <1>2, <1>3, GoStep DEF AskedPcs, IInv, RunOK, VersionOK, Current

-----------------------------------------------------------------------------
(* Steps that change the index or the cache                                *)

\* What a step of s leaves to the others, when it does not touch their index.
LEMMA OthersRun ==
  ASSUME IInv, NEW s \in Sessions, NEW r \in Sessions \ {s}, now' = now,
         run'[r] = run[r],
         \/ SeenBy(r)' = SeenBy(r)
         \/ SeenBy(r)'.err \/ run[r].since <= SeenBy(r)'.asOf + SyncInterval
  PROVE  run'[r].pc # "none" =>
           /\ run'[r].since <= now' /\ now' <= run'[r].since + Patience
           /\ run'[r].pc \in {"write"} \cup AskedPcs =>
                run'[r].since <= run'[r].read /\ run'[r].read <= now'
           /\ run'[r].pc = "find" =>
                SeenBy(r)'.err \/ run'[r].since <= SeenBy(r)'.asOf + SyncInterval
           /\ \A p \in run'[r].parts : PartOK(p, run[r].since)'
  BY DEF IInv, RunOK, PartOK

LEMMA WriteIndexStep == ASSUME IInv, NEW s \in Sessions, WriteIndex(s) PROVE IInv'
  <1>0. TypeOK /\ run[s].pc = "write" /\ writer = NoOne /\ writer' = s
    BY DEF IInv, WriteIndex
  <1>1. PICK i \in {Synced(run[s])} \cup Failed(run[s]) :
          Go(s, [run[s] EXCEPT !.pc = "find", !.read = 0, !.asked = 0, !.index = i])
    BY DEF WriteIndex
  <1> DEFINE X == [run[s] EXCEPT !.pc = "find", !.read = 0, !.asked = 0, !.index = i]
  <1>2. /\ run[s].read \in Time /\ run[s].read \in Nat /\ run[s].since \in Nat
        /\ run[s].since <= run[s].read /\ run[s].read <= now /\ now \in Nat
        /\ index \in Index /\ index.asOf \in Nat /\ index.asOf \in Time
        /\ index.asOf <= now /\ run[s].asked \in Versions
    BY <1>0, SearchFields, IndexFields DEF IInv, RunOK, TypeOK, IndexesOK, IndexOK
  <1>3. i \in Index /\ i.asOf <= now /\ (i.err \/ i.ran <= i.asOf)
        /\ (i.err \/ run[s].since <= i.asOf)
    <2>1. CASE i = Synced(run[s])
      BY <1>2, <2>1 DEF Synced, Index
    <2>2. CASE i \in Failed(run[s])
      <3>1. PICK j \in {index, Synced(run[s])} :
              i = [j EXCEPT !.ran = run[s].read, !.synced = TRUE, !.err = TRUE]
        BY <2>2 DEF Failed
      <3>2. Synced(run[s]) \in Index /\ Synced(run[s]).asOf = run[s].read
        BY <1>2 DEF Synced, Index
      <3>3. j \in Index /\ j.asOf <= now
        BY <1>2, <3>1, <3>2
      <3>4. i \in Index /\ i.asOf = j.asOf /\ i.err
        BY <1>2, <3>1, <3>3 DEF Index
      <3> QED  BY <3>3, <3>4
    <2> QED  BY <1>1, <2>1, <2>2
  <1>4. /\ X \in Search /\ X.pc = "find" /\ X.since = run[s].since
        /\ X.began = run[s].began /\ X.index = i /\ X.parts = run[s].parts
    BY <1>0, <1>3, SearchFields, Bounded DEF Search, Pcs
  <1>5. Go(s, X)  BY <1>1
  <1> HIDE DEF X
  <1>6. /\ run'[s] = X /\ \A r \in Sessions \ {s} : run'[r] = run[r]
        /\ run' \in [Sessions -> Search]
    BY <1>0, <1>4, <1>5, RunAfter DEF Go
  <1>7. /\ now' = now /\ version' = version /\ index' = index /\ raced' = raced
        /\ responses' = responses /\ slices' = slices /\ shown' = NothingShown
    BY <1>5 DEF Go, WriteIndex, cache
  <1>8. TypeOK'
    BY <1>0, <1>6, <1>7, NothingIsShown DEF TypeOK
  <1>9. RunOK'
    <2> SUFFICES ASSUME NEW r \in Sessions, run'[r].pc # "none"
        PROVE /\ run'[r].since <= now' /\ now' <= run'[r].since + Patience
              /\ run'[r].pc \in {"write"} \cup AskedPcs =>
                   run'[r].since <= run'[r].read /\ run'[r].read <= now'
              /\ run'[r].pc = "find" =>
                   SeenBy(r)'.err \/ run'[r].since <= SeenBy(r)'.asOf + SyncInterval
              /\ \A p \in run'[r].parts : PartOK(p, run[r].since)'
      BY DEF RunOK
    <2>1. CASE r = s
      <3>1. SeenBy(s)' = i  BY <1>0, <1>4, <1>6 DEF SeenBy
      <3>2. i.err \/ run[s].since <= i.asOf + SyncInterval
        BY <1>2, <1>3, IndexFields, Durations
      <3>3. X.pc \notin {"write"} \cup AskedPcs  BY <1>4 DEF AskedPcs
      <3> QED  BY <1>0, <1>4, <1>6, <1>7, <2>1, <3>1, <3>2, <3>3
               DEF IInv, RunOK, PartOK
    <2>2. CASE r # s
      <3>1. SeenBy(r)' = SeenBy(r)
        BY <1>0, <1>7, <2>2, NoOneElse DEF SeenBy
      <3> QED  BY <1>6, <1>7, <2>2, <3>1, OthersRun
    <2> QED  BY <2>1, <2>2
  <1>10. IndexesOK'
    BY <1>3, <1>4, <1>6, <1>7 DEF IInv, IndexesOK, IndexOK
  <1>11. WriterOK'
    BY <1>0, <1>3, <1>4, <1>6 DEF WriterOK
  <1>12. ResponsesOK' /\ SlicesOK' /\ InvalidationHolds'
    BY <1>7, NothingIsShown DEF IInv, ResponsesOK, SlicesOK, InvalidationHolds
  <1>13. VersionOK'
    BY <1>0, <1>4, <1>6, <1>7 DEF IInv, VersionOK, Current, AskedPcs
  <1> QED  BY <1>8, <1>9, <1>10, <1>11, <1>12, <1>13 DEF IInv

LEMMA AnsweredStep ==
  ASSUME IInv, NEW s \in Sessions, NEW k \in Slices, Answered(s, k) PROVE IInv'
  <1> DEFINE part == SlicePart(s, k)
             X == [run[s] EXCEPT !.pc = AfterSlice(s, k), !.read = 0, !.asked = 0,
                                 !.parts = run[s].parts \cup {part}]
             E == [parts |-> {part}, expires |-> now + SliceTTL[k]]
  <1>0. TypeOK /\ run[s].pc \in AskedPcs /\ run[s].pc # "none"
    BY AtSlice DEF IInv, Answered, AskedPcs
  <1>1. AfterSlice(s, k) \in {"dgcp", "jaios", "done"}  BY AtSlice
  <1>2. /\ run[s].since \in Nat /\ run[s].read \in Nat /\ now \in Nat
        /\ run[s].since <= run[s].read /\ run[s].read <= now
        /\ now <= run[s].since + Patience
        /\ SliceTTL[k] \in Nat /\ Slack[k] = SliceTTL[k] + Patience
        /\ Patience \in Nat
    BY <1>0, SearchFields, Slacks, Durations DEF IInv, RunOK
  <1>3. /\ part \in Part /\ part.source = k /\ part.at = run[s].read
        /\ part.version = run[s].asked
    BY <1>0, SearchFields, Slacks DEF SlicePart, Part
  <1> HIDE DEF part
  <1>4. /\ X \in Search /\ X.pc \in {"dgcp", "jaios", "done"} /\ X.since = run[s].since
        /\ X.began = run[s].began /\ X.index = run[s].index
        /\ X.parts = run[s].parts \cup {part}
    BY <1>0, <1>1, <1>3, SearchFields, Bounded DEF Search, Pcs
  <1>5. Go(s, X)  BY DEF Answered, part
  <1>6. slices' = [slices EXCEPT ![k] = E]  BY DEF Answered, Entering, part
  <1>7. E \in Entry /\ E.parts = {part} /\ E.expires = now + SliceTTL[k]
    BY <1>2, <1>3 DEF Entry
  <1> HIDE DEF X, E
  <1>8. /\ run'[s] = X /\ \A r \in Sessions \ {s} : run'[r] = run[r]
        /\ run' \in [Sessions -> Search]
    BY <1>0, <1>4, <1>5, RunAfter DEF Go
  <1>9. /\ now' = now /\ version' = version /\ index' = index /\ raced' = raced
        /\ responses' = responses /\ writer' = writer /\ shown' = NothingShown
    BY <1>5 DEF Go, Answered
  <1>10. /\ slices' \in [Slices -> Entry] /\ slices'[k] = E
         /\ \A j \in Slices \ {k} : slices'[j] = slices[j]
    BY <1>0, <1>6, <1>7 DEF TypeOK
  <1>11. TypeOK'
    BY <1>0, <1>8, <1>9, <1>10, NothingIsShown DEF TypeOK
  <1>12. PartOK(part, run[s].since)
    <2>1. run[s].since <= run[s].read + Slack[k]  BY <1>2
    <2> QED  BY <1>2, <1>3, <2>1 DEF PartOK
  <1>13. RunOK'
    <2> SUFFICES ASSUME NEW r \in Sessions, run'[r].pc # "none"
        PROVE /\ run'[r].since <= now' /\ now' <= run'[r].since + Patience
              /\ run'[r].pc \in {"write"} \cup AskedPcs =>
                   run'[r].since <= run'[r].read /\ run'[r].read <= now'
              /\ run'[r].pc = "find" =>
                   SeenBy(r)'.err \/ run'[r].since <= SeenBy(r)'.asOf + SyncInterval
              /\ \A p \in run'[r].parts : PartOK(p, run[r].since)'
      BY DEF RunOK
    <2>1. CASE r = s
      <3>1. X.pc \notin {"write", "find"} \cup AskedPcs  BY <1>4 DEF AskedPcs
      <3>2. \A p \in X.parts : PartOK(p, X.since)
        BY <1>0, <1>4, <1>12 DEF IInv, RunOK
      <3> QED  BY <1>2, <1>4, <1>8, <1>9, <2>1, <3>1, <3>2 DEF PartOK
    <2>2. CASE r # s
      <3>1. SeenBy(r)' = SeenBy(r)
        BY <1>8, <1>9, <2>2 DEF SeenBy
      <3> QED  BY <1>8, <1>9, <2>2, <3>1, OthersRun
    <2> QED  BY <2>1, <2>2
  <1>14. IndexesOK' /\ WriterOK'
    BY <1>4, <1>8, <1>9 DEF IInv, IndexesOK, IndexOK, WriterOK
  <1>15. ResponsesOK' /\ InvalidationHolds'
    BY <1>9, NothingIsShown DEF IInv, ResponsesOK, InvalidationHolds
  <1>16. SlicesOK'
    <2> SUFFICES ASSUME NEW j \in Slices, NEW p \in slices'[j].parts
                 PROVE  /\ p.source = j /\ p.at <= now
                        /\ slices'[j].expires <= p.at + Slack[j]
      BY <1>9 DEF SlicesOK
    <2>1. CASE j = k
      <3>1. p = part /\ slices'[j].expires = now + SliceTTL[k]
        BY <1>7, <1>10, <2>1
      <3>2. now + SliceTTL[k] <= run[s].read + Slack[k]  BY <1>2
      <3> QED  BY <1>2, <1>3, <2>1, <3>1, <3>2
    <2>2. CASE j # k
      BY <1>10, <2>2 DEF IInv, SlicesOK
    <2> QED  BY <2>1, <2>2
  <1>17. VersionOK'
    <2> SUFFICES ASSUME ~raced PROVE VersionOK'  BY <1>9 DEF VersionOK, Current
    <2>1. version <= part.version
      BY <1>0, <1>3, SearchFields DEF IInv, VersionOK, Current
    <2>2. Current(X.parts)
      BY <1>0, <1>4, <2>1 DEF IInv, VersionOK, Current
    <2>3. \A j \in Slices : Current(slices'[j].parts)
      BY <1>7, <1>10, <2>1 DEF IInv, VersionOK, Current
    <2>4. X.pc \notin AskedPcs /\ X.began = version
      BY <1>0, <1>4 DEF IInv, VersionOK, Current, AskedPcs
    <2> QED  BY <1>8, <1>9, <2>2, <2>3, <2>4 DEF IInv, VersionOK, Current
  <1> QED  BY <1>11, <1>13, <1>14, <1>15, <1>16, <1>17 DEF IInv

LEMMA StoreStep == ASSUME IInv, NEW s \in Sessions, Store(s) PROVE IInv'
  <1> DEFINE q == run[s].question
             parts == run[s].parts
             E == [parts |-> parts, expires |-> now + ResponseTTL]
             X == [run[s] EXCEPT !.pc = "stored"]
  <1>0. TypeOK /\ run[s].pc = "done"  BY DEF IInv, Store
  <1>1. /\ q \in Question /\ parts \subseteq Part
        /\ now \in Nat /\ run[s].since \in Nat
        /\ run[s].since <= now /\ now <= run[s].since + Patience
        /\ \A p \in parts : PartOK(p, run[s].since)
        /\ ~raced => Current(parts) /\ run[s].began = version
    BY <1>0, SearchFields DEF IInv, RunOK, VersionOK, Current
  <1>2. E \in Entry /\ E.parts = parts /\ E.expires = now + ResponseTTL
    BY <1>1, Durations DEF Entry
  <1>3. /\ X \in Search /\ X.pc = "stored" /\ X.since = run[s].since
        /\ X.began = run[s].began /\ X.index = run[s].index /\ X.parts = parts
    BY <1>0, SearchFields DEF Search, Pcs
  <1>4. Go(s, X) /\ responses' = [responses EXCEPT ![q] = E]
        /\ slices' = slices /\ writer' = writer
    BY DEF Store, Entering
  <1> HIDE DEF X, E
  <1>5. /\ run'[s] = X /\ \A r \in Sessions \ {s} : run'[r] = run[r]
        /\ run' \in [Sessions -> Search]
    BY <1>0, <1>3, <1>4, RunAfter DEF Go
  <1>6. /\ now' = now /\ version' = version /\ index' = index /\ raced' = raced
        /\ shown' = NothingShown
    BY <1>4 DEF Go
  <1>7. /\ responses' \in [Question -> Entry] /\ responses'[q] = E
        /\ \A o \in Question \ {q} : responses'[o] = responses[o]
    BY <1>0, <1>1, <1>2, <1>4 DEF TypeOK
  <1>8. TypeOK'
    BY <1>0, <1>4, <1>5, <1>6, <1>7, NothingIsShown DEF TypeOK
  <1>9. RunOK'
    <2> SUFFICES ASSUME NEW r \in Sessions, run'[r].pc # "none"
        PROVE /\ run'[r].since <= now' /\ now' <= run'[r].since + Patience
              /\ run'[r].pc \in {"write"} \cup AskedPcs =>
                   run'[r].since <= run'[r].read /\ run'[r].read <= now'
              /\ run'[r].pc = "find" =>
                   SeenBy(r)'.err \/ run'[r].since <= SeenBy(r)'.asOf + SyncInterval
              /\ \A p \in run'[r].parts : PartOK(p, run[r].since)'
      BY DEF RunOK
    <2>1. CASE r = s
      BY <1>1, <1>3, <1>5, <1>6, <2>1 DEF PartOK, AskedPcs
    <2>2. CASE r # s
      <3>1. SeenBy(r)' = SeenBy(r)  BY <1>4, <1>5, <1>6, <2>2 DEF SeenBy
      <3> QED  BY <1>5, <1>6, <2>2, <3>1, OthersRun
    <2> QED  BY <2>1, <2>2
  <1>10. IndexesOK' /\ WriterOK'
    BY <1>3, <1>4, <1>5, <1>6 DEF IInv, IndexesOK, IndexOK, WriterOK
  <1>11. ResponsesOK'
    <2> SUFFICES ASSUME NEW o \in Question, NEW p \in responses'[o].parts
                 PROVE  /\ p.at <= now
                        /\ p.err \/ responses'[o].expires <= p.at + Bounds[p.source]
      BY <1>6 DEF ResponsesOK
    <2>1. CASE o = q
      <3>1. p \in parts /\ responses'[o].expires = now + ResponseTTL
        BY <1>2, <1>7, <2>1
      <3>2. /\ p.at \in Nat /\ Slack[p.source] \in Nat
            /\ Bounds[p.source] = Slack[p.source] + Patience + ResponseTTL
        BY <1>1, <3>1, PartFields, Slacks
      <3>3. p.at <= now /\ (p.err \/ run[s].since <= p.at + Slack[p.source])
        BY <1>1, <3>1 DEF PartOK
      <3>4. ASSUME run[s].since <= p.at + Slack[p.source]
            PROVE  now + ResponseTTL <= p.at + Bounds[p.source]
        BY <1>1, <3>2, <3>4, Durations
      <3> QED  BY <3>1, <3>3, <3>4
    <2>2. CASE o # q
      BY <1>7, <2>2 DEF IInv, ResponsesOK
    <2> QED  BY <2>1, <2>2
  <1>12. SlicesOK' /\ InvalidationHolds'
    BY <1>4, <1>6, NothingIsShown DEF IInv, SlicesOK, InvalidationHolds
  <1>13. VersionOK'
    <2> SUFFICES ASSUME ~raced PROVE VersionOK'  BY <1>6 DEF VersionOK, Current
    <2>1. \A o \in Question : Current(responses'[o].parts)
      BY <1>1, <1>2, <1>7 DEF IInv, VersionOK, Current
    <2>2. X.pc \notin AskedPcs /\ X.began = version /\ Current(X.parts)
      BY <1>1, <1>3 DEF AskedPcs
    <2> QED  BY <1>4, <1>5, <1>6, <2>1, <2>2 DEF IInv, VersionOK, Current
  <1> QED  BY <1>8, <1>9, <1>10, <1>11, <1>12, <1>13 DEF IInv

LEMMA BeginStep ==
  ASSUME IInv, NEW s \in Sessions, NEW q \in Question, Begin(s, q) PROVE IInv'
  <1> DEFINE X == [Idle EXCEPT !.pc = IF q.filter = "odoo" THEN "odoo" ELSE "index",
                               !.question = q, !.since = now, !.began = version]
  <1>0. TypeOK /\ run[s].pc = "none" /\ writer # s
    BY DEF IInv, Begin, WriterOK
  <1>1. /\ X \in Search /\ X.pc \in {"odoo", "index"} /\ X.since = now
        /\ X.began = version /\ X.parts = {} /\ X.index = NewIndex
    BY <1>0, IdleIsSearch, SearchFields DEF Search, Pcs
  <1>2. run' = [run EXCEPT ![s] = X]  BY DEF Begin
  <1> HIDE DEF X
  <1>3. /\ run'[s] = X /\ \A r \in Sessions \ {s} : run'[r] = run[r]
        /\ run' \in [Sessions -> Search]
    BY <1>0, <1>1, <1>2, RunAfter
  <1>4. /\ now' = now /\ version' = version /\ index' = index /\ raced' = raced
        /\ responses' = responses /\ slices' = slices /\ writer' = writer
        /\ shown' = NothingShown
    BY DEF Begin, cache, others
  <1>5. TypeOK'
    BY <1>0, <1>3, <1>4, NothingIsShown DEF TypeOK
  <1>6. RunOK'
    <2> SUFFICES ASSUME NEW r \in Sessions, run'[r].pc # "none"
        PROVE /\ run'[r].since <= now' /\ now' <= run'[r].since + Patience
              /\ run'[r].pc \in {"write"} \cup AskedPcs =>
                   run'[r].since <= run'[r].read /\ run'[r].read <= now'
              /\ run'[r].pc = "find" =>
                   SeenBy(r)'.err \/ run'[r].since <= SeenBy(r)'.asOf + SyncInterval
              /\ \A p \in run'[r].parts : PartOK(p, run[r].since)'
      BY DEF RunOK
    <2>1. CASE r = s
      <3>1. now <= now /\ now <= now + Patience
        BY <1>0, SearchFields, Durations
      <3> QED  BY <1>1, <1>3, <1>4, <2>1, <3>1 DEF AskedPcs
    <2>2. CASE r # s
      <3>1. SeenBy(r)' = SeenBy(r)  BY <1>3, <1>4, <2>2 DEF SeenBy
      <3> QED  BY <1>3, <1>4, <2>2, <3>1, OthersRun
    <2> QED  BY <2>1, <2>2
  <1>7. IndexOK(NewIndex)
    BY <1>0, IdleIsSearch, SearchFields DEF IndexOK
  <1>8. IndexesOK' /\ WriterOK'
    BY <1>0, <1>1, <1>3, <1>4, <1>7 DEF IInv, IndexesOK, IndexOK, WriterOK
  <1>9. ResponsesOK' /\ SlicesOK' /\ InvalidationHolds'
    BY <1>4, NothingIsShown DEF IInv, ResponsesOK, SlicesOK, InvalidationHolds
  <1>10. VersionOK'
    BY <1>1, <1>3, <1>4 DEF IInv, VersionOK, Current, AskedPcs
  <1> QED  BY <1>5, <1>6, <1>8, <1>9, <1>10 DEF IInv

LEMMA ShowCachedStep ==
  ASSUME IInv, NEW s \in Sessions, NEW q \in Question, ShowCached(s, q) PROVE IInv'
  <1>1. /\ now' = now /\ version' = version /\ index' = index /\ raced' = raced
        /\ responses' = responses /\ slices' = slices /\ writer' = writer
        /\ run' = run
        /\ shown' = [parts |-> responses[q].parts, company |-> q.company,
                     began |-> version]
    BY DEF ShowCached, cache, others
  <1>2. shown' \in Shown
    BY <1>1, EntryFields, SearchFields DEF IInv, Shown, Question
  <1>3. TypeOK'
    BY <1>1, <1>2 DEF IInv, TypeOK
  <1>4. RunOK' /\ IndexesOK' /\ WriterOK' /\ ResponsesOK' /\ SlicesOK'
    BY <1>1 DEF IInv, RunOK, IndexesOK, IndexOK, WriterOK, ResponsesOK, SlicesOK,
                PartOK, SeenBy
  <1>5. VersionOK' /\ InvalidationHolds'
    BY <1>1 DEF IInv, VersionOK, Current, InvalidationHolds
  <1> QED  BY <1>3, <1>4, <1>5 DEF IInv

-----------------------------------------------------------------------------
(* Ends                                                                    *)

\* What the others see of the index when s ends: their own, what it was, or
\* what s has written, which is not much older than they are.
LEMMA SeenAtEnd ==
  ASSUME IInv, NEW s \in Sessions, NEW r \in Sessions \ {s},
         run[r].pc # "none", run'[r] = run[r], Release(s),
         index' \in {index, SeenBy(s)}
  PROVE  \/ SeenBy(r)' = SeenBy(r)
         \/ SeenBy(r)'.err \/ run[r].since <= SeenBy(r)'.asOf + SyncInterval
  <1>1. CASE writer = r
    BY <1>1 DEF SeenBy, Release
  <1>2. CASE writer # r /\ index' = index
    BY <1>2, NoOneElse DEF SeenBy, Release
  <1>3. CASE writer # r /\ writer # s
    BY <1>3, NoOneElse DEF SeenBy, Release
  <1>4. CASE writer = s /\ index' = SeenBy(s)
    <2>1. SeenBy(r)' = run[s].index
      BY <1>4, NoOneElse DEF SeenBy, Release
    <2>2. run[s].pc # "none" /\ (run[s].index.err \/ run[s].since <= run[s].index.asOf)
      BY <1>4 DEF IInv, WriterOK
    <2>3. now <= run[s].since + Patience /\ run[r].since <= now
      BY <2>2 DEF IInv, RunOK
    <2>4. /\ now \in Nat /\ run[s].since \in Nat /\ run[r].since \in Nat
          /\ run[s].index.asOf \in Nat
      BY SearchFields, IndexFields DEF IInv
    <2> QED  BY <2>1, <2>2, <2>3, <2>4, Durations
  <1> QED  BY <1>1, <1>2, <1>3, <1>4

\* A search that ends: its index may be committed.
LEMMA EndStep ==
  ASSUME IInv, NEW s \in Sessions, run[s].pc # "none",
         run' = [run EXCEPT ![s] = Idle], Release(s), index' \in {index, SeenBy(s)},
         now' = now, version' = version, raced' = raced
  PROVE  RunOK' /\ IndexesOK' /\ WriterOK' /\ index' \in Index
         /\ writer' \in Sessions \cup {NoOne} /\ run' \in [Sessions -> Search]
         /\ \A r \in Sessions \ {s} : run'[r] = run[r]
         /\ run'[s] = Idle
  <1>1. /\ run'[s] = Idle /\ \A r \in Sessions \ {s} : run'[r] = run[r]
        /\ run' \in [Sessions -> Search]
    BY RunAfter, IdleIsSearch DEF IInv
  <1>2. RunOK'
    <2> SUFFICES ASSUME NEW r \in Sessions, run'[r].pc # "none"
        PROVE /\ run'[r].since <= now' /\ now' <= run'[r].since + Patience
              /\ run'[r].pc \in {"write"} \cup AskedPcs =>
                   run'[r].since <= run'[r].read /\ run'[r].read <= now'
              /\ run'[r].pc = "find" =>
                   SeenBy(r)'.err \/ run'[r].since <= SeenBy(r)'.asOf + SyncInterval
              /\ \A p \in run'[r].parts : PartOK(p, run[r].since)'
      BY DEF RunOK
    <2>1. r # s /\ run'[r] = run[r]  BY <1>1, IdleIsSearch
    <2> QED  BY <2>1, SeenAtEnd, OthersRun
  <1>3. IndexesOK'
    <2>1. IndexOK(SeenBy(s)) /\ IndexOK(index)
      BY DEF IInv, IndexesOK, SeenBy
    <2>2. IndexOK(NewIndex)
      BY IdleIsSearch, SearchFields DEF IInv, IndexOK
    <2> QED  BY <1>1, <2>1, <2>2, IdleIsSearch DEF IInv, IndexesOK, IndexOK
  <1>4. WriterOK'
    BY <1>1, NoOneElse DEF IInv, WriterOK, Release
  <1>5. index' \in Index /\ writer' \in Sessions \cup {NoOne}
    BY SeenIsIndex DEF IInv, TypeOK, Release
  <1> QED  BY <1>1, <1>2, <1>3, <1>4, <1>5

LEMMA FinishStep == ASSUME IInv, NEW s \in Sessions, Finish(s) PROVE IInv'
  <1>0. TypeOK /\ run[s].pc # "none"  BY DEF IInv, Finish
  <1>1. /\ now' = now /\ version' = version /\ raced' = raced /\ slices' = slices
        /\ responses' = responses /\ index' = SeenBy(s) /\ Release(s)
        /\ run' = [run EXCEPT ![s] = Idle]
        /\ shown' = [parts |-> run[s].parts, company |-> run[s].question.company,
                     began |-> run[s].began]
    BY DEF Finish, cache
  <1>2. /\ RunOK' /\ IndexesOK' /\ WriterOK' /\ index' \in Index
        /\ writer' \in Sessions \cup {NoOne} /\ run' \in [Sessions -> Search]
        /\ \A r \in Sessions \ {s} : run'[r] = run[r]
        /\ run'[s] = Idle
    BY <1>0, <1>1, EndStep
  <1>3. shown' \in Shown
    BY <1>0, <1>1, SearchFields DEF Shown
  <1>4. TypeOK'
    BY <1>0, <1>1, <1>2, <1>3 DEF TypeOK
  <1>5. ResponsesOK' /\ SlicesOK'
    BY <1>1 DEF IInv, ResponsesOK, SlicesOK
  <1>6. VersionOK'
    BY <1>1, <1>2, IdleIsSearch DEF IInv, VersionOK, Current
  <1>7. InvalidationHolds'
    BY <1>0, <1>1 DEF IInv, VersionOK, Current, InvalidationHolds
  <1> QED  BY <1>2, <1>4, <1>5, <1>6, <1>7 DEF IInv

LEMMA FailStep == ASSUME IInv, NEW s \in Sessions, Fail(s) PROVE IInv'
  <1>0. TypeOK /\ run[s].pc # "none"  BY DEF IInv, Fail
  <1>1. /\ now' = now /\ version' = version /\ raced' = raced /\ slices' = slices
        /\ responses' = responses /\ index' = index /\ shown' = NothingShown
        /\ Release(s) /\ run' = [run EXCEPT ![s] = Idle]
    BY DEF Fail, cache
  <1>2. /\ RunOK' /\ IndexesOK' /\ WriterOK' /\ index' \in Index
        /\ writer' \in Sessions \cup {NoOne} /\ run' \in [Sessions -> Search]
        /\ \A r \in Sessions \ {s} : run'[r] = run[r]
        /\ run'[s] = Idle
    BY <1>0, <1>1, EndStep
  <1>3. TypeOK'
    BY <1>0, <1>1, <1>2, NothingIsShown DEF TypeOK
  <1>4. ResponsesOK' /\ SlicesOK' /\ InvalidationHolds'
    BY <1>1, NothingIsShown DEF IInv, ResponsesOK, SlicesOK, InvalidationHolds
  <1>5. VersionOK'
    BY <1>1, <1>2, IdleIsSearch DEF IInv, VersionOK, Current
  <1> QED  BY <1>2, <1>3, <1>4, <1>5 DEF IInv

-----------------------------------------------------------------------------
(* Invalidation and time                                                   *)

LEMMA InvalidateStep == ASSUME IInv, Invalidate PROVE IInv'
  <1>1. /\ now' = now /\ version' = version + 1 /\ version < MaxVersion
        /\ responses' = [q \in Question |-> NoEntry]
        /\ slices' = [k \in Slices |-> NoEntry]
        /\ raced' = (raced \/ \E s \in Sessions : run[s].pc # "none")
        /\ shown' = NothingShown /\ index' = index /\ writer' = writer /\ run' = run
    BY DEF Invalidate
  <1>2. version' \in Versions
    BY <1>1, SearchAssumption DEF IInv, TypeOK, Versions
  <1>3. TypeOK'
    BY <1>1, <1>2, NothingIsShown, IdleIsSearch DEF IInv, TypeOK
  <1>4. RunOK' /\ IndexesOK' /\ WriterOK'
    BY <1>1 DEF IInv, RunOK, IndexesOK, IndexOK, WriterOK, PartOK, SeenBy
  <1>5. ResponsesOK' /\ SlicesOK' /\ VersionOK' /\ InvalidationHolds'
    BY <1>1, NothingIsShown, IdleIsSearch
       DEF ResponsesOK, SlicesOK, VersionOK, Current, InvalidationHolds
  <1> QED  BY <1>3, <1>4, <1>5 DEF IInv

LEMMA TickStep == ASSUME IInv, Tick PROVE IInv'
  <1>0. TypeOK  BY DEF IInv
  <1>1. /\ now' = now + 1 /\ now < MaxTime
        /\ \A s \in Sessions : run[s].pc # "none" => now < run[s].since + Patience
        /\ responses' = Unexpired(responses, now')
        /\ slices' = Unexpired(slices, now')
        /\ shown' = NothingShown /\ version' = version /\ index' = index
        /\ writer' = writer /\ run' = run /\ raced' = raced
    BY DEF Tick
  <1>2. now' \in Time /\ now \in Nat
    BY <1>0, <1>1, SearchAssumption DEF TypeOK, Time
  <1>3. /\ responses' \in [Question -> Entry]
        /\ \A q \in Question : responses'[q] \in {responses[q], NoEntry}
        /\ slices' \in [Slices -> Entry]
        /\ \A k \in Slices : slices'[k] \in {slices[k], NoEntry}
    BY <1>0, <1>1, IdleIsSearch DEF TypeOK, Unexpired
  <1>4. TypeOK'
    BY <1>0, <1>1, <1>2, <1>3, NothingIsShown DEF TypeOK
  <1>5. ASSUME NEW n \in Nat, n <= now PROVE n <= now'
    BY <1>1, <1>2, <1>5
  <1>6. RunOK'
    <2> SUFFICES ASSUME NEW s \in Sessions, run[s].pc # "none"
        PROVE /\ run[s].since <= now' /\ now' <= run[s].since + Patience
              /\ run[s].pc \in {"write"} \cup AskedPcs =>
                   run[s].since <= run[s].read /\ run[s].read <= now'
              /\ run[s].pc = "find" =>
                   SeenBy(s)'.err \/ run[s].since <= SeenBy(s)'.asOf + SyncInterval
              /\ \A p \in run[s].parts : PartOK(p, run[s].since)'
      BY <1>1 DEF RunOK
    <2>1. run[s].since \in Nat /\ run[s].read \in Nat
      BY <1>0, SearchFields
    <2>2. run[s].since <= now'  BY <1>5, <2>1 DEF IInv, RunOK
    <2>3. now' <= run[s].since + Patience
      BY <1>1, <1>2, <2>1, Durations
    <2>4. run[s].pc \in {"write"} \cup AskedPcs =>
            run[s].since <= run[s].read /\ run[s].read <= now'
      BY <1>5, <2>1 DEF IInv, RunOK
    <2>5. SeenBy(s)' = SeenBy(s)  BY <1>1 DEF SeenBy
    <2>6. ASSUME NEW p \in run[s].parts PROVE PartOK(p, run[s].since)'
      <3>1. p.at \in Nat  BY <1>0, SearchFields, PartFields
      <3>2. PartOK(p, run[s].since)  BY DEF IInv, RunOK
      <3> QED  BY <1>1, <1>5, <3>1, <3>2 DEF PartOK
    <2> QED  BY <2>2, <2>3, <2>4, <2>5, <2>6 DEF IInv, RunOK
  <1>7. IndexesOK'
    <2>1. /\ index.asOf \in Nat
          /\ \A s \in Sessions : run[s].index.asOf \in Nat
      BY <1>0, SearchFields, IndexFields DEF TypeOK
    <2> QED  BY <1>1, <1>5, <2>1 DEF IInv, IndexesOK, IndexOK
  <1>8. WriterOK' /\ InvalidationHolds'
    BY <1>1, NothingIsShown DEF IInv, WriterOK, InvalidationHolds
  <1>9. ResponsesOK'
    <2> SUFFICES ASSUME NEW q \in Question, NEW p \in responses'[q].parts
                 PROVE  /\ p.at <= now'
                        /\ p.err \/ responses'[q].expires <= p.at + Bounds[p.source]
      BY DEF ResponsesOK
    <2>1. responses'[q] = responses[q]  BY <1>3, IdleIsSearch
    <2>2. p.at \in Nat  BY <1>0, <2>1, EntryFields, PartFields
    <2> QED  BY <1>5, <2>1, <2>2 DEF IInv, ResponsesOK
  <1>10. SlicesOK'
    <2> SUFFICES ASSUME NEW k \in Slices, NEW p \in slices'[k].parts
                 PROVE  /\ p.source = k /\ p.at <= now'
                        /\ slices'[k].expires <= p.at + Slack[k]
      BY DEF SlicesOK
    <2>1. slices'[k] = slices[k]  BY <1>3, IdleIsSearch
    <2>2. p.at \in Nat  BY <1>0, <2>1, EntryFields, PartFields
    <2> QED  BY <1>5, <2>1, <2>2 DEF IInv, SlicesOK
  <1>11. VersionOK'
    <2>1. /\ \A q \in Question : responses'[q].parts \subseteq responses[q].parts
          /\ \A k \in Slices : slices'[k].parts \subseteq slices[k].parts
      BY <1>3, IdleIsSearch
    <2> QED  BY <1>1, <2>1 DEF IInv, VersionOK, Current
  <1> QED  BY <1>4, <1>6, <1>7, <1>8, <1>9, <1>10, <1>11 DEF IInv

-----------------------------------------------------------------------------

LEMMA InitIInv == Init => IInv
  <1> SUFFICES ASSUME Init PROVE IInv  OBVIOUS
  <1>1. TypeOK
    BY IdleIsSearch, NothingIsShown, Bounded DEF Init, TypeOK
  <1>2. \A s \in Sessions : run[s] = Idle  BY DEF Init
  <1>3. RunOK /\ WriterOK /\ ResponsesOK /\ SlicesOK /\ VersionOK /\ InvalidationHolds
    BY <1>2, IdleIsSearch, NothingIsShown, NoOneElse
       DEF Init, RunOK, WriterOK, ResponsesOK, SlicesOK, VersionOK, Current, InvalidationHolds
  <1>4. IndexesOK
    <2>1. 0 <= 0  OBVIOUS
    <2> QED  BY <1>2, <2>1, IdleIsSearch DEF Init, IndexesOK, IndexOK
  <1> QED  BY <1>1, <1>3, <1>4 DEF IInv

LEMMA NextIInv == IInv /\ [Next]_vars => IInv'
  <1> SUFFICES ASSUME IInv, [Next]_vars PROVE IInv'  OBVIOUS
  <1>1. CASE UNCHANGED vars
    BY <1>1 DEF vars, IInv, TypeOK, RunOK, IndexesOK, IndexOK, WriterOK, ResponsesOK,
                SlicesOK, VersionOK, Current, InvalidationHolds, PartOK, SeenBy
  <1>2. CASE Tick  BY <1>2, TickStep
  <1>3. CASE Invalidate  BY <1>3, InvalidateStep
  <1>4. ASSUME NEW s \in Sessions, Step(s) PROVE IInv'
    <2>1. ASSUME NEW q \in Question, ShowCached(s, q) \/ Begin(s, q) PROVE IInv'
      BY <2>1, ShowCachedStep, BeginStep
    <2>2. CASE SkipSync(s) \/ ReadRows(s) \/ WriteIndex(s)
      BY <2>2, SkipSyncStep, ReadRowsStep, WriteIndexStep
    <2>3. ASSUME NEW hit \in BOOLEAN, Find(s, hit) PROVE IInv'
      BY <2>3, FindStep
    <2>4. ASSUME NEW k \in Slices, \/ UseSlice(s, k) \/ Ask(s, k)
                                   \/ Answered(s, k) \/ AnsweredEmpty(s, k)
          PROVE  IInv'
      BY <2>4, UseSliceStep, AskStep, AnsweredStep, AnsweredEmptyStep
    <2>5. CASE SkipSources(s) \/ ReadDirect(s)
      BY <2>5, SkipSourcesStep, ReadDirectStep
    <2>6. CASE Store(s) \/ Finish(s) \/ Fail(s)
      BY <2>6, StoreStep, FinishStep, FailStep
    <2> QED  BY <1>4, <2>1, <2>2, <2>3, <2>4, <2>5, <2>6 DEF Step
  <1> QED  BY <1>1, <1>2, <1>3, <1>4 DEF Next

LEMMA InductiveInvariant == Spec => []IInv
  BY InitIInv, NextIInv, PTL DEF Spec

\* The variables keep their types, for any number of searches and all durations
\* (search_cache_service.py, search_index_service.py).
THEOREM TypeCorrect == Spec => []TypeOK
  BY InductiveInvariant, PTL DEF IInv

\* last_run_at never promises contents newer than those of the index, whatever
\* searches synchronize at once (SearchIndexService.ensure_synced).
THEOREM IndexIsHonest == Spec => []IndexAsOldAsItSays
  <1>1. IInv => IndexAsOldAsItSays
    BY DEF IInv, IndexesOK, IndexOK, IndexAsOldAsItSays
  <1> QED  BY <1>1, InductiveInvariant, PTL

\* After invalidate_tenant neither an older cached answer nor an older slice is
\* shown, when no search was under way; rows of the index may be
\* (SearchCacheService).
THEOREM InvalidationIsEffective == Spec => []InvalidationHolds
  BY InductiveInvariant, PTL DEF IInv

-----------------------------------------------------------------------------
(* The refinement                                                          *)

\* Results that are not too old make a step of the abstract search.
LEMMA ShowMaps ==
  ASSUME NEW P \in SUBSET Part,
         \A p \in P : p.at <= now /\ (p.err \/ now < p.at + Bounds[p.source]),
         shown'.parts = P, now' = now
  PROVE  Freshness!Show
  <1>1. Results(P) \in SUBSET Freshness!Result
    BY PartFields DEF Results, Freshness!Result
  <1>2. \A x \in Results(P) : x.at <= now /\ now < x.at + Bounds[x.source]
    BY DEF Results
  <1>3. Results(shown.parts)' = Results(P)
    BY DEF Results
  <1> QED  BY <1>1, <1>2, <1>3 DEF Freshness!Show

LEMMA StepMaps ==
  ASSUME IInv, [Next]_vars
  PROVE  [Freshness!Next]_<<now, Results(shown.parts)>>
  <1>0. TypeOK  BY DEF IInv
  <1>1. CASE UNCHANGED vars
    BY <1>1 DEF vars, Results
  <1>2. CASE Tick
    <2>1. now' = now + 1 /\ Results(shown.parts)' = {}
      BY <1>2, NothingIsShown DEF Tick, Results
    <2> QED  BY <2>1 DEF Freshness!Next, Freshness!Tick
  <1>3. CASE shown' = NothingShown /\ now' = now
    BY <1>3, ShowMaps, NothingIsShown DEF Freshness!Next
  <1>4. ASSUME NEW s \in Sessions, NEW q \in Question, ShowCached(s, q)
        PROVE  Freshness!Show
    <2> DEFINE P == responses[q].parts
    <2>1. P \subseteq Part /\ responses[q].expires \in Nat /\ now \in Nat
      BY <1>0, EntryFields, SearchFields
    <2>2. now < responses[q].expires /\ shown'.parts = P /\ now' = now
      BY <1>4 DEF ShowCached, Live
    <2>3. ASSUME NEW p \in P
          PROVE  p.at <= now /\ (p.err \/ now < p.at + Bounds[p.source])
      <3>1. p.at \in Nat /\ Bounds[p.source] \in Nat
        BY <2>1, PartFields, Slacks
      <3>2. p.at <= now
            /\ (p.err \/ responses[q].expires <= p.at + Bounds[p.source])
        BY DEF IInv, ResponsesOK
      <3> QED  BY <2>1, <2>2, <3>1, <3>2
    <2> QED  BY <2>1, <2>2, <2>3, ShowMaps
  <1>5. ASSUME NEW s \in Sessions, Finish(s) PROVE Freshness!Show
    <2> DEFINE P == run[s].parts
    <2>1. P \subseteq Part /\ run[s].since \in Nat /\ now \in Nat
      BY <1>0, SearchFields
    <2>2. /\ now <= run[s].since + Patience
          /\ \A p \in P : PartOK(p, run[s].since)
          /\ shown'.parts = P /\ now' = now
      BY <1>5 DEF IInv, RunOK, Finish
    <2>3. ASSUME NEW p \in P
          PROVE  p.at <= now /\ (p.err \/ now < p.at + Bounds[p.source])
      <3>1. /\ p.at \in Nat /\ Slack[p.source] \in Nat
            /\ Bounds[p.source] = Slack[p.source] + Patience + ResponseTTL
        BY <2>1, PartFields, Slacks
      <3>2. p.at <= now /\ (p.err \/ run[s].since <= p.at + Slack[p.source])
        BY <2>2 DEF PartOK
      <3>3. ASSUME run[s].since <= p.at + Slack[p.source]
            PROVE  now < p.at + Bounds[p.source]
        BY <2>1, <2>2, <3>1, <3>3, Durations
      <3> QED  BY <3>2, <3>3
    <2> QED  BY <2>1, <2>2, <2>3, ShowMaps
  <1>6. CASE Invalidate
    BY <1>3, <1>6 DEF Invalidate
  <1>7. ASSUME NEW s \in Sessions, Step(s)
        PROVE  [Freshness!Next]_<<now, Results(shown.parts)>>
    <2>1. ASSUME NEW q \in Question, ShowCached(s, q) \/ Begin(s, q)
          PROVE  [Freshness!Next]_<<now, Results(shown.parts)>>
      <3>1. CASE ShowCached(s, q)  BY <1>4, <3>1 DEF Freshness!Next
      <3>2. CASE Begin(s, q)  BY <1>3, <3>2 DEF Begin
      <3> QED  BY <2>1, <3>1, <3>2
    <2>2. CASE SkipSync(s) \/ ReadRows(s) \/ WriteIndex(s)
      BY <1>3, <2>2 DEF SkipSync, ReadRows, WriteIndex, Go
    <2>3. ASSUME NEW hit \in BOOLEAN, Find(s, hit)
          PROVE  [Freshness!Next]_<<now, Results(shown.parts)>>
      BY <1>3, <2>3 DEF Find, Go
    <2>4. ASSUME NEW k \in Slices, \/ UseSlice(s, k) \/ Ask(s, k)
                                   \/ Answered(s, k) \/ AnsweredEmpty(s, k)
          PROVE  [Freshness!Next]_<<now, Results(shown.parts)>>
      BY <1>3, <2>4 DEF UseSlice, Ask, Answered, AnsweredEmpty, Go
    <2>5. CASE Finish(s)  BY <1>5, <2>5 DEF Freshness!Next
    <2>6. CASE Fail(s)  BY <1>3, <2>6 DEF Fail
    <2>7. CASE SkipSources(s) \/ ReadDirect(s) \/ Store(s)
      BY <1>3, <2>7 DEF SkipSources, ReadDirect, Store, Go
    <2> QED  BY <1>7, <2>1, <2>2, <2>3, <2>4, <2>5, <2>6, <2>7 DEF Step
  <1> QED  BY <1>1, <1>2, <1>6, <1>7 DEF Next, Freshness!Next

\* The search with its caches and its index implements the promise of
\* SearchFreshness (SearchAccelerationOrchestrator.search).
THEOREM SearchIsFresh == Spec => AnswersAreFresh
  <1>1. Init => Freshness!Init
    BY NothingIsShown DEF Init, Freshness!Init, Results
  <1>2. IInv /\ [Next]_vars => [Freshness!Next]_<<now, Results(shown.parts)>>
    BY StepMaps
  <1> QED
    BY <1>1, <1>2, InductiveInvariant, PTL DEF Spec, AnswersAreFresh, Freshness!Spec
=============================================================================
