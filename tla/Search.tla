------------------------------- MODULE Search -------------------------------
(***************************************************************************)
(* The global search of a tenant: answers cached in Redis, an index of the *)
(* tenant's rows that searches bring up to date, and slices of the answers *)
(* of Odoo and of the search for opportunities, cached as well.            *)
(*                                                                         *)
(* One query text is searched for, for different companies.  A result is   *)
(* known by when it was read, for whom and under which version of the      *)
(* cache, not by what it says.  Ranking, merging of groups and analytics   *)
(* are left out.                                                           *)
(***************************************************************************)
EXTENDS Integers

CONSTANTS Sessions,       \* searches that may be under way at once
          Companies,      \* company filters
          Filters,        \* source filters
          ResponseTTL, SliceTTL, SyncInterval,
          Patience,       \* how long a search may take
          MaxTime, MaxVersion,
          NoOne

Slices == {"odoo", "dgcp"}
Sources == {"index", "jaios"} \cup Slices

ASSUME SearchAssumption ==
  /\ Companies # {} /\ Filters # {}
  /\ Filters \subseteq {"all", "odoo", "dgcp", "jaios"}
  /\ ResponseTTL \in Nat \ {0}
  /\ SliceTTL \in [Slices -> Nat \ {0}]
  /\ SyncInterval \in Nat \ {0}
  /\ Patience \in Nat
  /\ MaxTime \in Nat /\ MaxVersion \in Nat
  /\ NoOne \notin Sessions

(* A search takes no longer than the five minutes of SYNC_INTERVAL.        *)
ASSUME PatienceAssumption == Patience <= SyncInterval

Time == 0..MaxTime
Versions == 0..MaxVersion

VARIABLES
  now,
  version,     \* of the cache of the tenant
  responses,   \* cached answers of the version, by question
  slices,      \* cached slices of the version, by kind: not by company
  index,       \* the committed index and its row of search_index_state:
               \* not of a version of the cache
  writer,      \* the search whose transaction has written the index
  run,         \* what each search is doing
  shown,       \* the answer that the last step has given
  raced        \* auxiliary: the cache was invalidated during a search

vars == <<now, version, responses, slices, index, writer, run, shown, raced>>

Question == [company : Companies, filter : Filters]

Part == [source  : Sources,
         at      : Time,           \* when it was read
         company : Companies,      \* the filter it was read with
         version : Versions,       \* of the cache, when it was read
         err     : BOOLEAN]        \* the last synchronization had failed

(* A value in Redis; none when it has expired. *)
Entry == [parts : SUBSET Part, expires : Nat]
NoEntry == [parts |-> {}, expires |-> 0]

Index == [asOf    : Time,          \* when its oldest content was read
          version : Versions,      \* of the cache, when it was read
          ran     : Time,          \* last_run_at
          synced  : BOOLEAN,       \* the row of the state exists
          err     : BOOLEAN]       \* last_error

NewIndex ==
  [asOf |-> 0, version |-> 0, ran |-> 0, synced |-> FALSE, err |-> TRUE]

Pcs == {"none", "index", "write", "find", "odoo", "odoo_asked",
        "dgcp", "dgcp_asked", "jaios", "done", "stored"}

Search == [pc       : Pcs,
           question : Question,
           since    : Time,
           began    : Versions,
           read     : Time,          \* when rows or results were read
           asked    : Versions,      \* version of the cache then
           index    : Index,         \* what it has written, once it has
           hit      : BOOLEAN,
           parts    : SUBSET Part]

Shown == [parts : SUBSET Part, company : Companies, began : Versions]

AnyQuestion == CHOOSE q \in Question : TRUE
Idle == [pc |-> "none", question |-> AnyQuestion, since |-> 0, began |-> 0,
         read |-> 0, asked |-> 0, index |-> NewIndex, hit |-> FALSE,
         parts |-> {}]
NothingShown ==
  [parts |-> {}, company |-> AnyQuestion.company, began |-> 0]

TypeOK ==
  /\ now \in Time
  /\ version \in Versions
  /\ responses \in [Question -> Entry]
  /\ slices \in [Slices -> Entry]
  /\ index \in Index
  /\ writer \in Sessions \cup {NoOne}
  /\ run \in [Sessions -> Search]
  /\ shown \in Shown
  /\ raced \in BOOLEAN

Init ==
  /\ now = 0 /\ version = 0
  /\ responses = [q \in Question |-> NoEntry]
  /\ slices = [k \in Slices |-> NoEntry]
  /\ index = NewIndex /\ writer = NoOne
  /\ run = [s \in Sessions |-> Idle]
  /\ shown = NothingShown
  /\ raced = FALSE

-----------------------------------------------------------------------------
(* The cache *)

Live(entry) == now < entry.expires

Unexpired(entries, t) ==
  [k \in DOMAIN entries |-> IF t < entries[k].expires THEN entries[k]
                                                      ELSE NoEntry]

Entering(parts, ttl) ==
  [parts |-> parts, expires |-> now + ttl]

cache == <<responses, slices>>
others == <<version, index, writer, raced>>

(* A cached answer is shown at once. *)
ShowCached(s, q) ==
  /\ run[s].pc = "none" /\ Live(responses[q])
  /\ shown' = [parts |-> responses[q].parts, company |-> q.company,
                began |-> version]
  /\ UNCHANGED <<now, cache, others, run>>

Begin(s, q) ==
  /\ run[s].pc = "none" /\ ~Live(responses[q])
  /\ run' = [run EXCEPT ![s] =
       [Idle EXCEPT !.pc = IF q.filter = "odoo" THEN "odoo" ELSE "index",
                    !.question = q, !.since = now, !.began = version]]
  /\ shown' = NothingShown
  /\ UNCHANGED <<now, cache, others>>

Go(s, request) ==
  /\ run' = [run EXCEPT ![s] = request]
  /\ shown' = NothingShown
  /\ UNCHANGED <<now, version, index, raced>>

-----------------------------------------------------------------------------
(* The index: ensure_synced and search_groups *)

FreshIndexOnceSynced == index.synced

FreshIndex == index.synced /\ now < index.ran + SyncInterval

SkipSync(s) ==
  /\ run[s].pc = "index" /\ FreshIndex
  /\ Go(s, [run[s] EXCEPT !.pc = "find"])
  /\ UNCHANGED <<cache, writer>>

ReadRows(s) ==
  /\ run[s].pc = "index" /\ ~FreshIndex
  /\ Go(s, [run[s] EXCEPT !.pc = "write", !.read = now, !.asked = version])
  /\ UNCHANGED <<cache, writer>>

(* The upserts wait for another search that has written the same rows and  *)
(* not ended.  last_run_at is the time at which the synchronization began, *)
(* of one that failed as well; what that one had written stays.            *)
SyncedStampingLate(r) ==
  [asOf |-> r.read, version |-> r.asked, ran |-> now, synced |-> TRUE,
   err |-> FALSE]

SyncedStampingNext(r) ==
  [asOf |-> r.read, version |-> r.asked, ran |-> r.read + SyncInterval,
   synced |-> TRUE, err |-> FALSE]

Synced(r) ==
  [asOf |-> r.read, version |-> r.asked, ran |-> r.read, synced |-> TRUE,
   err |-> FALSE]

(* None or some of the rows are written; the oldest may be these or others. *)
Failed(r) ==
  {[i EXCEPT !.ran = r.read, !.synced = TRUE, !.err = TRUE] :
     i \in {index} \cup {j \in {Synced(r)} : j.asOf < index.asOf}}

WriteIndex(s) ==
  /\ run[s].pc = "write" /\ writer = NoOne
  /\ writer' = s
  /\ \E i \in {Synced(run[s])} \cup Failed(run[s]) :
       Go(s, [run[s] EXCEPT !.pc = "find", !.read = 0, !.asked = 0,
                            !.index = i])
  /\ UNCHANGED cache

(* A search sees what it has written itself. *)
SeenBy(s) == IF writer = s THEN run[s].index ELSE index

IndexPart(s) ==
  [source |-> "index", at |-> SeenBy(s).asOf, version |-> SeenBy(s).version,
   company |-> run[s].question.company, err |-> SeenBy(s).err]

AfterIndex(s) ==
  IF run[s].question.filter = "all" THEN "odoo" ELSE run[s].question.filter

Find(s, hit) ==
  /\ run[s].pc = "find"
  /\ Go(s, [run[s] EXCEPT !.pc = AfterIndex(s), !.hit = hit,
                          !.parts = IF hit THEN {IndexPart(s)} ELSE {}])
  /\ UNCHANGED <<cache, writer>>

-----------------------------------------------------------------------------
(* Odoo, and what the index does not have *)

Asked(k) == IF k = "odoo" THEN "odoo_asked" ELSE "dgcp_asked"

AfterSlice(s, k) ==
  IF run[s].question.filter # "all" THEN "done"
  ELSE IF k = "odoo" THEN "dgcp" ELSE "jaios"

(* An index hit makes the other sources of the tenant superfluous. *)
Superfluous(s, k) == k # "odoo" /\ run[s].hit

SkipSources(s) ==
  /\ run[s].pc \in {"dgcp", "jaios"} /\ Superfluous(s, run[s].pc)
  /\ Go(s, [run[s] EXCEPT !.pc = "done", !.hit = FALSE])
  /\ UNCHANGED <<cache, writer>>

(* get_slice: by query and limit only. *)
UseSlice(s, k) ==
  /\ run[s].pc = k /\ ~Superfluous(s, k) /\ Live(slices[k])
  /\ Go(s, [run[s] EXCEPT !.pc = AfterSlice(s, k),
                          !.parts = @ \cup slices[k].parts])
  /\ UNCHANGED <<cache, writer>>

Ask(s, k) ==
  /\ run[s].pc = k /\ ~Superfluous(s, k) /\ ~Live(slices[k])
  /\ Go(s, [run[s] EXCEPT !.pc = Asked(k), !.read = now, !.asked = version])
  /\ UNCHANGED <<cache, writer>>

SlicePart(s, k) ==
  [source |-> k, at |-> run[s].read, version |-> run[s].asked,
   company |-> run[s].question.company, err |-> FALSE]

(* set_slice reads the version again; an empty answer is not stored. *)
Answered(s, k) ==
  /\ run[s].pc = Asked(k)
  /\ slices' = [slices EXCEPT ![k] =
                  Entering({SlicePart(s, k)}, SliceTTL[k])]
  /\ Go(s, [run[s] EXCEPT !.pc = AfterSlice(s, k), !.read = 0, !.asked = 0,
                          !.parts = @ \cup {SlicePart(s, k)}])
  /\ UNCHANGED <<responses, writer>>

AnsweredEmpty(s, k) ==
  /\ run[s].pc = Asked(k)
  /\ Go(s, [run[s] EXCEPT !.pc = AfterSlice(s, k), !.read = 0, !.asked = 0])
  /\ UNCHANGED <<cache, writer>>

(* Tasks and notifications are read at once, and not kept as a slice.      *)
(* Whether any are found makes no difference to anything.                  *)
DirectPart(s) ==
  [source |-> "jaios", at |-> now, version |-> version,
   company |-> run[s].question.company, err |-> FALSE]

ReadDirect(s) ==
  /\ run[s].pc = "jaios" /\ ~Superfluous(s, "jaios")
  /\ Go(s, [run[s] EXCEPT !.pc = "done", !.parts = @ \cup {DirectPart(s)}])
  /\ UNCHANGED <<cache, writer>>

-----------------------------------------------------------------------------
(* The end of a search *)

Release(s) == writer' = IF writer = s THEN NoOne ELSE writer

(* set_response reads the version again.  The transaction is still open:   *)
(* others may be shown this answer, and it may be rolled back.             *)
Store(s) ==
  /\ run[s].pc = "done"
  /\ responses' = [responses EXCEPT ![run[s].question] =
                     Entering(run[s].parts, ResponseTTL)]
  /\ Go(s, [run[s] EXCEPT !.pc = "stored"])
  /\ UNCHANGED <<slices, writer>>

Finish(s) ==
  LET r == run[s] IN
  /\ r.pc = "stored"
  /\ shown' = [parts |-> r.parts, company |-> r.question.company,
                began |-> r.began]
  /\ index' = SeenBy(s)
  /\ Release(s)
  /\ run' = [run EXCEPT ![s] = Idle]
  /\ UNCHANGED <<now, version, cache, raced>>

Fail(s) ==
  /\ run[s].pc # "none"
  /\ Release(s)
  /\ run' = [run EXCEPT ![s] = Idle]
  /\ shown' = NothingShown
  /\ UNCHANGED <<now, version, cache, index, raced>>

(* invalidate_tenant: nobody asks for the keys of an old version again. *)
InvalidateResponses ==
  /\ version < MaxVersion
  /\ version' = version + 1
  /\ responses' = [q \in Question |-> NoEntry]
  /\ raced' = (raced \/ \E s \in Sessions : run[s].pc # "none")
  /\ shown' = NothingShown
  /\ UNCHANGED <<now, slices, index, writer, run>>

Invalidate ==
  /\ version < MaxVersion
  /\ version' = version + 1
  /\ responses' = [q \in Question |-> NoEntry]
  /\ slices' = [k \in Slices |-> NoEntry]
  /\ raced' = (raced \/ \E s \in Sessions : run[s].pc # "none")
  /\ shown' = NothingShown
  /\ UNCHANGED <<now, index, writer, run>>

Tick ==
  /\ now < MaxTime
  /\ \A s \in Sessions : run[s].pc # "none" => now < run[s].since + Patience
  /\ now' = now + 1
  /\ responses' = Unexpired(responses, now')
  /\ slices' = Unexpired(slices, now')
  /\ shown' = NothingShown
  /\ UNCHANGED <<version, index, writer, run, raced>>

-----------------------------------------------------------------------------

Step(s) ==
  \/ \E q \in Question : ShowCached(s, q) \/ Begin(s, q)
  \/ SkipSync(s) \/ ReadRows(s) \/ WriteIndex(s)
  \/ \E hit \in BOOLEAN : Find(s, hit)
  \/ SkipSources(s) \/ ReadDirect(s)
  \/ \E k \in Slices : \/ UseSlice(s, k) \/ Ask(s, k)
                       \/ Answered(s, k) \/ AnsweredEmpty(s, k)
  \/ Store(s) \/ Finish(s) \/ Fail(s)

Next == Tick \/ Invalidate \/ \E s \in Sessions : Step(s)

Spec == Init /\ [][Next]_vars

-----------------------------------------------------------------------------
(* Properties *)

(* The contents of the index are not older than last_run_at says, unless   *)
(* last_error says otherwise, however the synchronizations of several      *)
(* searches overlap and whichever commits last.                            *)
IndexAsOldAsItSays == index.err \/ index.ran <= index.asOf

(* The caches forget: an answer to a search that begins after              *)
(* invalidate_tenant holds no cached answer, slice or direct result of     *)
(* before it, if no search was under way at that time.  The rows of the    *)
(* index are not invalidated: ensure_synced leaves them for its interval,  *)
(* and how old they get is bounded by AnswersAreFresh.                     *)
InvalidationHolds ==
  ~raced => \A p \in shown.parts :
              p.source # "index" => shown.began <= p.version

(* How old results may get on their way through the index, a slice or      *)
(* neither, the searches that take time and the cache of responses.        *)
Bounds ==
  [k \in Sources |->
     CASE k = "index" -> SyncInterval + Patience + ResponseTTL
       [] k = "jaios" -> Patience + ResponseTTL
       [] OTHER       -> SliceTTL[k] + 2 * Patience + ResponseTTL]

Results(parts) ==
  {[source |-> p.source, at |-> p.at] : p \in {q \in parts : ~q.err}}

Freshness == INSTANCE SearchFreshness WITH
  Bound <- Bounds, shown <- Results(shown.parts)

(* Whatever mix of caches, index and sources an answer comes from, nobody  *)
(* is shown results older than the bound of their source, those of an      *)
(* index whose last synchronization failed excepted.                       *)
AnswersAreFresh == Freshness!Spec

(* An answer for a company holds results that were looked for with this    *)
(* company as the filter.                                                  *)
AnswersOfCompany ==
  \A p \in shown.parts : p.company = shown.company
=============================================================================
