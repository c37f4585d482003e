# JustEch / JAIOS — a TLA+ verification project

The repository is a multi-tenant business assistant: a FastAPI backend over
PostgreSQL and Redis (`backend/app`), clients of external services
(`integrations`), a web and a desktop client. Its own core logic is the treatment
of public tenders of the Dominican procurement portal (DGCP): importing them,
extracting their requirements, matching corporate documents to a checklist and
preparing the bid's *expediente*. Around it stand the services that every user
works with: tasks and notices, mail, search, the assistant's conversations, the
repository of corporate documents and the price lists. This project models both.

## 1. Inventory

| Component (source) | State | Operations | What is hard |
|---|---|---|---|
| Compliance rules (`dgcp_compliance_engine.py`, `document_validity_analyzer.py`, `document_finalization_rules.py`, `real_expediente_classifier.py`, `dgcp_operational_stages.py`) | none, pure | normalize a status, demand evidence, rebuild an item from match and history, percentage, statuses | an item is rebuilt from two sources by different rules |
| Bid package (`dgcp_bid_package_service.py`, `dgcp_attachment_ingestion_service.py`, `dgcp_expediente_service.py`) | one row per opportunity: checklist, bid, statuses (JSON columns); process documents | analyze, validate, note, associate, upload, user input, prepare, mark ready | whole columns are written back by overlapping requests; an analysis commits three times |
| Real expediente (`real_dgcp_expediente_builder.py`) | path, status, manifest in the same row; folders on disk | generate, validate, submit, mark, download, mark stale | three copies of one status; disk and row change separately |
| Economic offer (`dgcp_economic_offer_service.py`) | draft rows, item of the checklist, its task | attach a quotation, create a draft task | changes the checklist outside the rules of the others |
| Finalization (`document_finalization_engine.py`) | finalization records, process documents | finalize one or all | a batch keeps using objects loaded before it began |
| Opportunities (`dgcp_service.py`) | status | user actions | the expediente is tracked or not by this status |
| Synchronization (`dgcp_sync_service.py`, `dgcp_scheduler.py`, schedule endpoints) | opportunities, jobs, schedules | tick, manual run, edit schedule | one scheduler per server process; one transaction for all tenants |
| Sessions (`db/session.py`) | identity map, pending rows | flush, commit, rollback | no autoflush, no expiry on commit, READ COMMITTED, no locks or versions |
| Tasks and notifications (`task_service.py`, `notification_service.py`, `bulk_actions_service.py`) | tasks, once-only flags in their metadata, notices, links from items and drafts | create, update, delete, bulk, due notices, tasks of requirements, offers and quotations | metadata rewritten as a whole; four ways to complete a task; duplicates by race |
| Microsoft 365 (`m365_account_service.py`, `m365_operative_service.py`, `imap_client.py`) | accounts, mailboxes, processed mails | prepare, connect, disconnect, delete, synchronize, webhook | look up, then insert, without a unique constraint; identities made of `hash()` |
| Search (`search_cache_service.py`, `search_index_service.py`, `search_acceleration_orchestrator.py`, `enterprise_search_service.py`) | answers and slices in Redis under a version per tenant; an index in PostgreSQL with its last run | search, synchronize, invalidate | stored under a version that is read after the answer was computed; ages add up |
| Assistant, conversations (`persistent_conversation_store.py`, `assistant_conversation_context.py`, `conversation_follow_up_resolver.py`, `assistant_service.py`) | a row of entities per conversation, its messages | ask, follow up, reset | the context is read before and written back after a slow answer |
| Corporate knowledge (`corporate_knowledge_engine.py`, `vigency_engine.py`) | assets, alerts, a graph, all derived from folders | synchronize, rebuild the graph | a dozen commits per synchronization; the graph is deleted before it is built |
| Price lists and quotations (`price_list_indexer.py`, `price_intelligence_service.py`, `price_quote_draft_service.py`) | versions of files and their products, drafts | synchronize, draft a quotation | hash and contents are read at two times; one transaction for all files |
| Documents, corporate identity (`document_service.py`, `corporate_identity_service.py`) | rows, chunks, files | upload, analyze, scan | files are written before rows |
| Classification, extraction, forms; LLM router; Odoo | none of their own | lookups and calls | texts, external services |
| Authentication, users, tenants, administration | rows | | access control: not a subject of this project |
| Clients (web, desktop), agents, deployment | user interface | | not modelled |

How they interact: every HTTP request owns one database session (`get_db`), and
commits or rolls it back as a whole unless a service commits in between. The
handlers of the bid package, the economic offer, the finalization and the real
expediente all rewrite the same row and read the opportunity's status, which users
change at the same time. The checklist and the offers create tasks, which the task
centre and the bulk actions change; the items only name them. The schedulers of
the server processes (the Dockerfile starts four) write opportunities next to
these requests. Searches read the rows of all of them into the index. Nothing but
the rows connects two requests: there is no lock and no version column, and unique
constraints exist for some tables only. What makes each component correct is
stated in section 4; `PROJECT.json` lists, line by line, what is hard to test.

## 2. Modules

| Module | Models | Parameters |
|---|---|---|
| `DGCPCompliance` | the pure rules, on requirements of five kinds | `Reqs`, `Mandatory`, `Kind`, `DocIds` |
| `BidPackage` | every handler that changes the row of one opportunity, under concurrent requests | `Sessions`, `Ops`, `Extractions`, `Targets`, `Outcomes` |
| `Expediente` | what a bid promises when every request acts at once; implemented by `BidPackage` of one session | those of `DGCPCompliance` |
| `Imports` | what synchronizations promise: imports one at a time, each for all its tenants or for none | `Tenants`, `Codes`, `Expired` |
| `DGCPSync` | schedulers, manual runs, schedules, transactions, locks | `Tenants`, `Codes`, `Workers`, `Users`, `MaxPages`, `MaxCrashes` |
| `Tasks` | tasks, notices, and their links to items, offers and drafts | `Users`, `Sessions`, `Items`, `Drafts`, `MaxTasks`, `Ops`, `Values`, `Dues` |
| `Mail` | accounts, mailboxes, processed mails | `Users`, `Sessions`, `UserOf`, `NWorkers`, `WorkerOf`, `Addresses`, `AddressOf`, `Monitored`, `Source`, `Messages`, `Anonymous`, `MaxCopies`, `MaxIssued` |
| `SearchFreshness` | what a search promises about the age of its results | `Sources`, `Bound` |
| `Search` | cache, index, slices; implements `SearchFreshness` | `Sessions`, `Companies`, `Filters`, the durations, `MaxTime`, `MaxVersion` |
| `Conversations` | one stored conversation | `Sessions`, `Fields`, `MaxQuestions` |
| `Knowledge` | assets, alerts and graph over changing folders | `Sessions`, `Paths`, `Corporate`, `Versions`, `Naming`, `UntilOf`, `Warning`, `MaxDay`, `MaxEdits`, `MaxSyncs` |
| `Prices` | versions of price lists over a changing folder | `NPaths`, `Contents`, `Broken`, `Sessions`, `MaxSyncs`, `MaxWrites` |
| `BidPackageProofs`, `DGCPSyncProofs`, `TasksProofs`, `MailProofs`, `SearchProofs`, `ConversationsProofs`, `KnowledgeProofs`, `PricesProofs` | proofs about them | any values |
| `MC...` | instances for TLC | |

Definitions whose comment calls them a bug, and variants of an action or operator
that stand right before it (`UpdatedWithoutStamp` before `Updated`), take part in no
specification: they are the mutations that the properties must detect.

### DGCPCompliance and BidPackage

An item of the checklist is a record: its status, whether it holds a corporate
document (`doc`), a process document (`proc`) or an Odoo quotation, the manual
decision, an evidence text, and the sticky mark `noAplica`. Names, titles,
dates, risks and labels are left out. A percentage is kept in tenths, ties rounded to
the even one (`RoundHalfEven`), as `round` does. The code divides floating-point
numbers first; from 80 items on a tie may come out on the other side there.

`row` is the committed row, `sess[s].row` what the session of request `s` has
loaded and computed. `Load` is the beginning of a handler; each handler is one
action that checks its preconditions on the *loaded* row, computes, and commits.
The commit is `Flush`: SQLAlchemy writes the columns whose new value differs from
the loaded one (`Column`), on top of whatever is stored by then. Handlers that
assign a value which always differs (it holds a timestamp or a new identifier)
name that column as fresh. An analysis is four actions, because its ingestion
commits twice before the row is read (`AnalyzeIngest`, `AnalyzeRegister`,
`AnalyzeMatch`, `AnalyzePersist`); a submission is two (`PrepareSubmission`,
`FinishSubmission`); a batch of finalizations keeps its session (`Finalize`).
`Abort` stands for a refused precondition, an exception, and the death of the
process between two commits.

`matched` are the requirements for which `document_matches` names a file: a generation
looks there too when the item itself leads to none. `ResolvedFiles` are the outcomes of
`_resolve_file`: the PDF of a finalization (which is taken for one whether or not the
file is still there), the file of the process document, the one that a match names, or
nothing.

Abstracted: `Load` reads opportunity and row at once; notes, `generated_forms`, the
references that an ingestion registers, task rows and draft rows are left out (an existing
draft task makes `create_draft_task` return early, which is `Abort` here; the tasks are in
`Tasks`), and of `document_matches` all but the files; two columns that are equal here count
as unchanged; the manifest status `sin_generar` stands for an absent manifest; the disk is
not modelled, the files that a generation may find are chosen anew each time (a failed
finalization that leaves its output behind, or keys whose files share a name, make no
difference then); what the matcher answers is any member of `MatchResults`.

Kept as the code has it: attaching a quotation and creating a draft accept any
item; `generate_final` tests the requirement of the request (`k`) and changes the item that
the request names (`r`), which may be another; `log_download` writes the manifest of an
opportunity that has no real expediente; `upload_checklist_document` always ends in a
refusal.

`Expediente` is the same bid without sessions, commits and copies: one checklist, one
status of the real expediente, one shown status, and a request is one step. `BidPackage`
maps to it by dropping what is derived (`Atomic`): the percentage, the stages, the status
in the manifest. What an item may become is said as a promise (its evidence stays, a
decision is made, kept or withdrawn in favour of a document), not handler by handler.

### DGCPSync and Imports

`run[s]` is one run with its single session: the tenants left to do (`todo`),
the job at work, and what has been flushed for each tenant (`done`: rows locked,
rows added, counter). `Fetch` is one page with all its lookups, which see only
committed rows; `Upserted` counts new codes and remembers whether a code was
added twice. `Flush` waits while another run has locked one of its rows, and
fails when a unique constraint is broken (`Conflict`): then `FlushFails` rolls
the *whole* run back, because the failed session also breaks `refresh(job)` and
the exception handler of the loop. `Commit` publishes all tenants at once.
A failed download (`FetchFails`) only fails the job: what it had added is
committed, and the schedule stays due. `DeadlockVictim` and `Crash` roll back.

Abstracted: a flush takes all its locks at once (a partial one ends in the same
wait or the same victim); classification, scores and payloads; the requests of
users that edit an opportunity while it is imported. `page` is the next page.

`Imports` has neither runs nor jobs, pages or locks: an import adds, at one moment, new
and open codes to any of the tenants, counts each once, and puts off the tenants that it
has completed. A commit of `DGCPSync` is such an import; everything else that a run does
is invisible (`Portal`).

### Tasks

`task` holds the rows by id, `sent` the notices about each, `linked` the task that
an item of the checklist names (text in a JSON column), `offer` and `draft` the rows
with a foreign key to a task. A request reads when it begins (`Begin...`, which keeps
the rows as they were read) and commits when it finishes (`Finish...`, `Create...`,
`LinkFound`); requests that only insert are one action. `Merged` writes the columns
that the request has set to another value, the metadata always as a whole.
`FinishDelete` nulls the foreign keys; a commit that writes a row which is gone
fails (`Fail`), and so does every update of `due_date` or `amount`, whose audit
entry cannot be serialized. `Age` lets due dates come.

Abstracted: one field per update; texts, comments, checklists of a task,
supervisors, company visibility, audit entries, read marks. Notices of due dates
are counted up to two. `silent` remembers the columns last set by a way that tells
nobody and stamps nothing (a bulk action, creation): the properties name these
exceptions.

### Mail

`account` is the row of a user, `mailbox` and `stored` the number of rows of an address
and of an identity. `BeginSync` is `sync_inbox` up to the flush of `ensure_mailboxes`;
`Fetch` reads the mailbox that is connected by then; a batch says how often it lists each
identity (two monitored mailboxes may hold one message). `Ingest` is one message of
`_process_raw_message`, which finds what is committed and what its own transaction has
flushed (`Rows`); `Finish` commits. A mailbox that does not answer commits the rows of the
mailboxes only (`FetchFails`). A message without Message-ID gets an identity made of
`hash()`: the pair of the message and the seed of the server process that reads it
(`Identity`). There are several processes (`WorkerOf`), each with a seed of its own, and a
restart of one has another; a webhook makes up an identity for every delivery.

Abstracted: classification, extraction, relations and suggested actions are data
of the stored row; what users do with a mail (`execute_action`) inserts rows of
other components and is left out.

### Search and SearchFreshness

`responses` and `slices` are what Redis holds for the current version of the tenant,
`index` the committed index with `last_run_at`, `writer` the search whose transaction
has written it and makes others wait. A search skips, reads or writes the index
(`SkipSync`, `ReadRows`, `WriteIndex`), looks into it (`Find`), and asks Odoo and the
opportunities if need be (`UseSlice`, `Ask`, `Answered`) and the tasks and notices directly
(`ReadDirect`). `Store` puts the answer into the cache under the version that is current
*then*, while the transaction is open; `Finish` commits and shows it, or `Fail` rolls back
what others may have been shown. `Tick` is time; entries expire by it. A result is known by
its source, when and under which version it was read and for whom; the rows of the index are
as old, in both respects, as the oldest of them (`asOf`, `version` of `Index`).

`SearchFreshness` has a clock and the answer just given: none of its results is older
than the bound of its source. `Search` implements it by the mapping `Results`; the
bounds add up the interval of the index or the life of a slice, the time searches
take, and the life of a cached answer.

Abstracted: the five sources of the index are one; ranking and analytics. A search takes no
longer than `Patience`. Kept: slices are keyed without the company; a failed synchronization
of the index gets a new `last_run_at` as well.

### Conversations

`row` is the committed snapshot of entities, each known by the question that mentioned
it. A question reads the entities (`Ask`), may reset them (`Reset`), is answered
(`Answer`), makes sure that the row exists (`Ensure`, `InsertRow`), reads the row again
and writes its context over it (`ReadRow`, `WriteRow`, from which on it holds
`locked`) and commits with its messages (`Finish`). After the answer any of these steps may
fail (`Lose`): the code swallows the exception, or that of the commit, and the user has an
answer whose exchange is lost. The insertion of a row that another question has inserted
meanwhile always does (`InsertFails`). `ResetConversation` is the endpoint.

Abstracted: how a question is answered; what an answer mentions, that to a follow-up as
well, is any set of fields. A flush that fails and a later commit of the same session that
is refused are one step.
The identity map holds rows weakly, so the row is read again before it is written.

### Knowledge

`disk` and `today` change at any time. A synchronization lists the files with their
hashes (`Begin`), and for each reads it (`ReadFile`), writes its asset (`WriteAsset`), reads
the row again if it is new or of a new hash (`Refresh`), looks for an open alert of what the
row says by then (`CheckAlert`) and raises one (`RaiseAlert`), committing each time; an
error in a file skips it (`SkipFile`). Then it switches off the assets without a file (`Deactivate`) and rebuilds the graph
(`Clear`, `LookForEntities`, `InsertEntities`, `Link`). The hash is of the listing, the
text of the later reading, which may find nothing. `company` is `company_key`: it is found
in the path (`Corporate`) or in the text (`Naming`) and, like the text, is not updated while
the hash stays; the links of the graph follow it. Links and alerts are counted up to two.

Abstracted: the hash, which the code makes of size, time and name, is the content; of the
classification all but whether a company is named; chunks, and the relations to suppliers
and manufacturers, which the same loop builds. That no link points to an entity that is gone
is guaranteed by the database (ON DELETE CASCADE) and is not a property here.

### Prices

A file row and its products are one `Version`. A synchronization goes through the
sorted paths: it hashes a file and looks up the current version (`LookUp`), then parses
it (`Parse`), by when it may have changed: `hash` and `content` are separate. `Replace`
switches the old version off and adds the new one; the row that is replaced is held until
the commit (`RowFree`), and others wait for it with what they have parsed; two current
versions make the lookup fail (`LookUpFails`). Parsing is left out but for one thing: what has errors and no
rows (`Broken`) replaces nothing. The drafts of quotations are in `Tasks`.

## 3. Runs and bounds

| Run | Instance | Question |
|---|---|---|
| `serial_all` | 1 request at a time, one SNCC form, 1 document, every operation | do the handlers implement `Expediente`, do the row's summaries and the copies of the real status tell the truth, do manual decisions survive an analysis; types |
| `concurrent` | 2 overlapping requests, 1 certificate: status, analyze, attach, generate | the two invariants that hold under any overlap |
| `sync_safety` | 2 schedulers, 2 tenants, 2 codes (one expired), 2 pages that may repeat them, 1 crash | refinement of `Imports`, failures stay due; types |
| `sync_liveness` | 1 scheduler, 1 user, 2 tenants, 2 codes (one expired), one tenant that may fail for ever | is every other due tenant served |
| `tasks_serial` | 1 request at a time, 2 tasks, 1 item, 1 draft, all operations but bulk | due notices once, drafts and their tasks, one active task of an item; types |
| `tasks_overlap` | 2 users with overlapping requests about 1 task: create, update, bulk, delete | are assignees told, are completions stamped |
| `mail` | 2 overlapping requests in 2 server processes, 1 user, 1 address, monitored and connected, 2 messages (one without identity), each up to twice in a batch, 3 seeds and made-up identities: one for each process, one for a webhook or a restart | nothing twice, nothing lost, connected means used; types |
| `search` | 2 overlapping searches of all sources, 3 ticks, 1 invalidation | honest index, caches that forget, refinement of `SearchFreshness`; types |
| `conversations` | 2 windows, 3 questions, 2 kinds of entities | context and messages belong together, lost exchanges leave nothing, questions end; types |
| `knowledge` | 2 synchronizations at a time, 3 in all, 1 path that names no company, 2 contents that expire on different days, one of which names one, 3 changes | repair of rows, alerts and graph; types |
| `prices` | 2 synchronizations at a time, 3 in all, 2 paths, 3 contents (one broken), 2 changes | prices stay, one version, catching up, no waiting in a circle, ending; types |
| `upload_lost` | 1 request at a time | where the code does not do what its names say (section 6) |

Why these bounds are enough. *Bid package*: the rules treat each requirement on its own;
they meet in the percentage and in guards that quantify over requirements, for
which one mandatory requirement is both the best and the worst case; one document is
enough for an item to have, lose and regain it. *Overlap*: what can go wrong in a pair
of requests is one writing over what the other has read; a third adds another
writer. *Sync*: two tenants let a run fail between them and let two schedulers lock
in opposite orders; two pages let a code repeat. *Tasks*: two tasks are an active
one and its newer duplicate, or a requirement's and an offer's. *Mail*: one message
with and one without identity; twice in a batch is as good as more often. *Search*: with
lives of one tick and up, three ticks let answers and the index expire while a search is under way;
the bounds of the slices add up to more than three, so that TLC can break only that of the
index, and the theorem covers the others. *Conversations*: a third question finds
what two that overlapped have left. *Knowledge* and *Prices*: a third synchronization
finds what two that overlapped have left and may itself be undisturbed; three changes
bring a file, replace it and take it away.

Symmetry of sessions is used where no liveness is checked (`concurrent`, `search`,
`knowledge`; `sync_safety` also of tenants). Deadlock is checked for the bid
package, the synchronization and mail, where something can always be done. It is not
where a bound ends everything: `search` (time ends), `conversations`, `knowledge`, `prices`
(the last question or synchronization), and the runs of `tasks` (ids are used up and
all tasks deleted).

Fairness. `DGCPSync!FairSpec`: a scheduler's interval job fires again and again (WF of
`Tick`); a started run goes on, since downloads have a timeout (WF of `Proceed`);
whoever waits for a lock gets it some time, since PostgreSQL queues lock waits in
order (SF of flushing); and a download of a *reliable* tenant that is tried again and
again succeeds some time (SF of `FetchAny`, per page). Nothing is assumed of tenants
in `Unreliable`, of users, of crashes, or of who is chosen as deadlock victim. The
property is checked with one scheduler; with two it fails: both may lock two tenants
in opposite orders and be each other's victim for ever. Pages that keep repeating codes
would also starve a tenant (`autoflush=False`), so `Overlap` is `FALSE` in this run.
`Conversations!FairSpec` and `Prices!FairSpec`: a question or a synchronization that can go
on, again and again, does (SF of `Proceed`, of each session): services and file reads
end, and lock waits are queued. `Abort`, `ResetConversation` and new requests are not
fair. The other modules need no fairness: nothing there must happen.

## 4. Properties

Bid package
* `CompliantNeedsDocument` — no item is fulfilled by a document it lacks.
* `HandlersAreAtomic` — the refinement of `Expediente` (one request at a time).
* `SummaryIsTrue` — the stored percentage and a computed "ready for review" answer to
  the stored checklist (one request at a time: two overlapping ones break it, since
  an unchanged `bid_package` is not written while the changed checklist is).
* `RealStatusIsTrue` — the real status, its copy in the manifest and
  `expediente_status` belong together, and nothing is ready to upload with something
  missing (one request at a time).
* `ManualSurvivesAnalysis` — an analysis keeps every manual decision.
* `SinPrepararUntilTracked` — before Licitar and before a real expediente the
  status is `sin_preparar`, whatever is overwritten. `tracked` is a history
  variable.

Synchronization
* `RunsAreImports` — the refinement of `Imports`. It implies `CountsExact`, which no run
  checks: the committed `created_count`s add up to the opportunities.
* `FailedStaysDue` — only a completed job, or its user, postpones a schedule.
* `DueIsServed` — a due tenant is synchronized in the end.

Tasks
* `AssigneeIsTold`, `CompletionIsStamped` — under any overlap, bulk actions and
  creation excepted.
* `DueNoticeOnce`, `DraftOwnsItsTask` — while requests do not overlap.
* `OneActiveTask` — the task of a requirement leaves one per item, the linked one.

Mail
* `NothingTwice` — no second row while requests do not overlap, even of what a batch lists
  twice: one would make every later lookup of it fail.
* `BatchIsStored` — who commits has stored all that it fetched, whatever overlaps.
* `ActiveIsUsed` — an account shown as connected is the one synchronizations read.

Search
* `AnswersAreFresh` — the refinement: nobody sees results older than the bounds.
* `IndexAsOldAsItSays` — `last_run_at` is honest unless `last_error` is set, whichever
  of several synchronizations commits last.
* `InvalidationHolds` — later searches see no cached answer, slice or direct result of before
  an invalidation, unless it met a search under way. The index is not invalidated: its rows
  may be older, as far as `AnswersAreFresh` allows.

Conversations
* `ContextIsOfMessages` — the stored entities are those of the last stored exchange that
  mentions any (no overlap).
* `NothingHalfStored` — what the conversation is about, and what a follow-up refers to, was
  mentioned by a question whose exchange was stored, whatever overlaps and whatever is lost
  after the answer.
* `QuestionsEnd` — no question waits for the row for ever.

Knowledge
* `SyncRepairs` — an undisturbed synchronization that reads every file makes hashes, dates,
  status and alerts those of the folders and the day, and gives each document one link that
  names a company in its path or in the text stored with its hash, whatever was left half
  done before. It does not repair a text, and so a company, that could not be read.
* `AlertsAreRaised` — what is stored as expired has its alert, one about to be raised, or met
  a synchronization that ended between the two commits, under any overlap.
* `OneAlertOfAType` — no second open alert of a type (no overlap).

Prices
* `PricesStay` — a path on offer stays on offer, whatever overlaps or fails.
* `OneVersionOffered` (no overlap).
* `SyncCatchesUp` — an undisturbed synchronization leaves each readable file a current version
  with its hash and its products. Excepted are the products of a version that was indexed
  while the folder changed: its hash may be of another content (section 6).
* `NoCircularWait` — among synchronizations that wait for rows of others one always
  waits for none of them: the sorted order of the paths is the only thing that keeps
  two from failing each other. `SyncsEnd` says that all of them end.

The auxiliary variables `overlapped` and `raced` are never reset: a property that
excepts overlap is about histories without any. What overlap does is in section 6.

## 5. Proofs

| Module | Theorems, for every value of the constants |
|---|---|
| `BidPackageProofs` | `TypeCorrect`, `CompliantBacked` (`CompliantNeedsDocument`), `UntrackedUnprepared` (`SinPrepararUntilTracked`); with `OneSession`: `RealStatusAgrees`, `SummaryAgrees`, `ManualValidationsSurvive`, `BidIsAtomic` (`HandlersAreAtomic`); of the rules alone: `ReadyIsDocumented`, `GeneratedIsComplete` |
| `DGCPSyncProofs` | `TypeCorrect`, `CountsAreExact` (`CountsExact`), `FailuresStayDue` (`FailedStaysDue`), `RunsAreAtomic` (`RunsAreImports`) |
| `TasksProofs` | `TypeCorrect`, `AssigneesAreTold`, `CompletionsAreStamped`, `DueNoticesAreSentOnce`, `DraftsOwnTheirTasks`, `OneTaskIsActive` (`OneActiveTask`) |
| `MailProofs` | `TypeCorrect`, `NothingIsTwice`, `ConnectedAreUsed`, `NoMessageIsLost` (`BatchIsStored`) |
| `SearchProofs` | `TypeCorrect`, `IndexIsHonest`, `InvalidationIsEffective`, `SearchIsFresh` (the refinement) |
| `ConversationsProofs` | `TypeCorrect`, `ContextIsRead` (`ContextIsOfMessages`), `OnlyStoredIsContext` (`NothingHalfStored`) |
| `KnowledgeProofs` | `TypeCorrect`, `ExpiryIsTold` (`AlertsAreRaised`), `AlertsAreSingle` (`OneAlertOfAType`), `SyncIsRepair` (`SyncRepairs`) |
| `PricesProofs` | `TypeCorrect`, `OneVersion`, `PricesNeverVanish` (`PricesStay`), `SyncsCatchUp` (`SyncCatchesUp`), `NoDeadlock` (`NoCircularWait`) |

`CompliantBacked`. The property alone is not inductive: a request commits the
checklist that it loaded, however old. `Backed` adds that every snapshot is
backed too. A commit then chooses, column by column, between two backed
checklists. The key lemma, `BuildItemBacked`, says that rebuilding an item
keeps a fulfilled status only for a document of the new match.

`UntrackedUnprepared`. `Tracking` says the same of the snapshots (`Dormant`:
nothing prepared, nothing generated, `sin_preparar`), that a request which saw
the path of the real expediente saw what is still there (no commit clears it),
and that a submission in its second half has generated one. The status is
`sin_preparar` because each writer of it is untracked or has just generated.

One request at a time. Four theorems assume `OneSession`, as the run
`serial_all` does: under overlap a commit mixes columns of two requests, and the
properties are false of the code. `Serial` adds to `Tracking` that a request which
has loaded the row still knows it (`Loaded(s) = row`) and that the row is sound
(`SoundRow`: the percentage is the checklist's, the copies of the real status agree,
"ready" is earned). `FlushSame` shows that such a commit stores exactly what the
handler computed; a lemma per group of handlers, that this is sound if the loaded row was.

`BidIsAtomic`. Every commit is one step of `Expediente`, every other step a stutter. A
commit is guarded by what was loaded, so `Agreed` adds to `Serial` that the request under
way still knows the opportunity (`Knowing`), that what it has found out between its commits
still holds (an analysis or a batch began under a status of interest; a submission has
generated a package without critical errors), and that a real expediente always has a
status. There is one lemma per handler: it names the abstract action and shows its promise,
for which `DocumentBacked` must be known of the stored checklist.

The rules alone. `ReadyIsDocumented` says what the status computed from a rounded
percentage comes to: fewer than 667 mandatory items are "ready for review" exactly when each
is fulfilled by a document or does not apply. The bound is sharp: of 667 items one validated
by hand without a document is rounded away. The explicit mark (`can_mark_ready_for_review`)
asks for less. `GeneratedIsComplete` says the same of a generation that finds the expediente
ready; it need not pass `validate_package` if an economic offer is optional.

`CountsAreExact`. `IInv` says that what a run holds is sound (`Sound`: a job
that has not repeated a code counts what it added; what is flushed is locked,
not yet stored, and counted exactly) and that locks exclude each other
(`Exclusive`). A commit therefore adds a set of codes disjoint from what is
stored, and the counters add up; the other runs stay sound because the rows
stored now were locked against them. `FailuresStayDue` needs only the types. `RunsAreAtomic` adds that
no run holds an expired code (`NoneExpired`); its commit is then the `Import` of what it has
flushed for each tenant, which is empty for the others.

`TasksProofs`. A request commits from what it has read, so the invariant relates the
two: a task that was read with its `completed_at` still has it (`StampOK`); without
overlap the request under way is alone (`AloneOK`), has read the flags as they are
(`ReadOK`) and knows the task of its draft (`DraftsOK`); every due notice that was sent is
flagged (`FlaggedOK`), so that the next one is not sent. `OneTaskIsActive` needs that the
tasks which the request has read are those of the tender, with their statuses (`KnownOK`); the
survivor is the one with the greatest id, which exists by the lemma `NatMax`.

`MailProofs`. What a request has fetched is still to do, about to be stored or stored
(`BatchOK`), and rows never go: this holds under any overlap and gives
`NoMessageIsLost`. Without overlap what a request has inserted is in no other row, committed
or its own (`NewOK`), because each insertion is flushed before the next lookup.

`SearchProofs`. Each place that holds results has its own slack: a search finds nothing
older than `Slack` before its beginning (`RunOK`), an entry expires before its results
get too old (`ResponsesOK`, `SlicesOK`), and whoever writes the index writes rows read after
it began (`WriterOK`), so that the commit that comes last does not make it older than it
says. The sum of the slacks is `Bounds`. Every step then maps to a `Tick`, a `Show` or a
stutter of `SearchFreshness`. `VersionOK` says of all but the rows of the index that they are
of the version that searches ask for, unless an invalidation met one.
`PatienceAssumption` is needed: a search that takes longer
than the interval of the index may show rows older than the bound.

`ConversationsProofs`. Without overlap the question under way is newer than every stored
message (`NumbersOK`), and what it holds in memory is what the conversation will be about
when its transaction commits (`QuestionOK`): the messages that it does not delete before the
answer, and itself as well after it. The lemma `LearnedIsAbout` says that what an answer
adds is what the maximum over the messages changes by. `OnlyStoredIsContext` makes no
assumption about overlap: what a session knows of was mentioned by stored questions or, once
it is answered, by itself (`SessionOK`), it becomes stored together with its context, and no
number is shared (`DistinctOK`).

`KnowledgeProofs`. `ExpiryIsTold` holds under any overlap: alerts are never taken back, a
merged status is that of one of the two rows (`MergedIsAsset`), and whoever has written a
row reads it again before it looks for the alert. `SyncIsRepair` rests on `ProgressOK`: how much is
right already at each stage of a synchronization that nothing has disturbed, every file that
is no longer to do first, then all assets, then a graph that is empty, then the links. It
says nothing of the state from which the synchronization began: that is the repair.

`PricesProofs`. A path that has versions has a current one (`KeptOK`), because whatever a
transaction switches off it replaces (`ReplacedOK`) by a current version (`AddedOK`): no
assumption about overlap. Without it, what a transaction adds is newer than all of its
path and replaces the only current one (`FoundOK`, `NewestOK`). `SyncsCatchUp` says of a
synchronization that nothing disturbs that each readable file is still to do, up to date in
a version that is not being replaced, or refreshed (`CaughtUp`); that the products are those
of the hash is an invariant of its own (`HonestOK`): a synchronization that the folder left
alone parses what it has hashed. `NoDeadlock` rests on
`InOrder`: what a transaction has replaced lies before all that it has still to do. Who
waits is then at an earlier path than whoever it waits for has left to do, and in any set
of waiting sessions one at the last path waits for nobody (`LastPath`).

Assumptions are those that the modules name, which TLC evaluates in the runs: constants
have their types, codes are finite (`SyncAssumption`), the values that stand for nothing
are none of the others (`NoTaskAssumption`, `NoVersionAssumption`, `NoRowAssumption`), and
`PatienceAssumption`. Each inductive invariant was checked with TLC before it was proved.

Only model-checked: `DueIsServed`, `QuestionsEnd` and `SyncsEnd`, since liveness under
fairness and ENABLED are out of the prover's reach (`NoDeadlock` is the part of `SyncsEnd`
that is a matter of safety). Induction over data is out of its reach as well; no module
declares a RECURSIVE operator.

## 6. Where code and statements disagree

* `upload_lost` (a run) — an upload is always refused, after its file was written.

The others were met while modelling; where a definition is named, the module keeps the
statement as a property that no run checks, because it does not hold:

* A manual validation outlives its document: evidence is looked for in the previous
  item, and the new item is stored without it (`BidPackage!CompliantNeedsEvidence`).
* An analysis deletes the process documents and commits, before (or without)
  rewriting the checklist that points to them (`LinkedDocumentsExist`); two overlapping
  ones register every reference twice.
* Two validations of different items: the second undoes the first
  (`ValidateTouchesOnlyItsItem`).
* Attaching, finalizing and analyzing change the documents after a generation and do
  not mark it stale; associating does (`StaleIsMarked`).
* An update of a task's due date or amount never succeeds: its audit entry is not
  serializable. Bulk completion and creation as completed set no `completed_at`.
* `connect_imap` after `delete_account` leaves the account inactive: it is shown as connected
  and never read (`Mail!ConnectedIsUsed`). A synchronization fetches the last mails only:
  what came before them since the last one is never fetched.
* Slices are cached without the company: an answer for one is reused for another
  (`Search!AnswersOfCompany`). `invalidate_tenant` has no caller.
* A question that overlaps a reset writes the old context back
  (`Conversations!FollowUpsReferToMessages`). An answer whose context or exchange cannot be
  stored is shown and lost without a sign.
* A message without Message-ID is stored once for every server process that reads it, and
  again after each restart.
* The alerts of the repository are never resolved. An asset read at a moment when its file
  could not be read keeps an empty text as long as the file does not change, and no link to a
  company that only its text names.
* A price list that is hashed, changed before it is parsed and changed back keeps the
  products of the other content under the hash of this one: it is taken for unchanged.
* An empty CSV replaces the prices by a version without products, an empty workbook does
  not. A price list that was deleted stays current.
* `scan_folder` registers a copy of each file it finds and looks for the path of the
  original: every scan registers every original again.

## 7. Not modelled, and what is left

Left out of modelled components: see their sections, and the notes of `PROJECT.json`.

* *Documents and corporate identity*: single files with their rows, one request each, and
  the scan above. It is what we would model next.
* *Classification, extraction, forms, the assistant's routing of questions*: heuristics over
  words without state. Where a result matters, the model takes every result that the code
  can return.
* *LLM router*: attempts in a fixed order, without state. *Odoo*: an external service that
  the program only reads.
* *Authentication, users, tenants, administration*: access control and configuration.
* *Clients, agents, deployment*: no logic of their own between requests.
* *The disk of the expedientes*: a generation deletes and writes folders before it commits.

What remains to be done: the overwriting of an opportunity by a synchronization
while a user closes it.
