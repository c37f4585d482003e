-------------------------------- MODULE Tasks --------------------------------
(***************************************************************************)
(* The tasks of a tenant and the notices their users get, shared by the    *)
(* requests of the task centre, the bulk actions, the checklist of a       *)
(* tender, its economic offer and the drafts of quotations.                *)
(*                                                                         *)
(* A request reads its rows when it begins and commits when it finishes.   *)
(* It writes back the columns that it has set to another value, the        *)
(* metadata always as a whole.  Writing a row that is gone makes the       *)
(* commit fail.  Texts, comments, checklists of a task, audit entries and  *)
(* the visibility of companies are left out; so are read marks.            *)
(***************************************************************************)
EXTENDS Integers, FiniteSets

CONSTANTS Users, Sessions,
          UserOf,       \* who makes the requests of a session
          Items,        \* requirements of the checklist of one tender
          Drafts,       \* drafts of quotations
          MaxTasks,     \* bound on the tasks ever created
          Ops,          \* operations that sessions perform
          Values,       \* statuses that users set
          Dues,         \* when new tasks are due
          NoUser, NoTask, Nothing

TaskIds == 1..MaxTasks      \* in the order of their creation

ASSUME TasksAssumption ==
  /\ UserOf \in [Sessions -> Users]
  /\ MaxTasks \in Nat
  /\ NoUser \notin Users /\ NoTask \notin TaskIds
  /\ Nothing \notin Items \cup Drafts /\ Items \cap Drafts = {}

TaskStatus == {"pendiente", "en_proceso", "esperando_tercero", "en_revision",
               "completada", "vencida", "cancelada"}
Closed == {"completada", "cancelada"}
ActiveStatuses == {"pendiente", "en_proceso"}


Notices == {"assigned", "completed", "overdue", "due_soon"}
DueNotices == {"overdue", "due_soon"}

(* Due notices are counted up to two, of the others only whether one was   *)
(* sent matters.                                                           *)
Cap(n) == IF n \in DueNotices THEN 2 ELSE 1

DueDates == {"never", "later", "soon", "past"}

ASSUME ValuesAssumption == Values \subseteq TaskStatus /\ Dues \subseteq DueDates

Task == [status    : TaskStatus,
         creator   : Users,
         assignee  : Users \cup {NoUser},
         completed : BOOLEAN,               \* completed_at is set
         due       : DueDates,
         notified  : SUBSET DueNotices,  \* in the metadata
         about     : Items \cup Drafts \cup {Nothing},
         economic  : BOOLEAN]               \* task_type economic_offer

ASSUME NoTaskAssumption == NoTask \notin Task

Columns == {"status", "assignee", "completed", "metadata"}

VARIABLES
  task,        \* rows by id
  created,     \* how many ids were given out
  sent,        \* notices about a task that its row still refers to
  linked,      \* the task that the item of the checklist names
  offer,       \* draft of the economic offer of an item and its task
  draft,       \* draft of a quotation and its task
  run,         \* what each session is doing
  silent,      \* auxiliary: columns last set without stamp or notice
  overlapped   \* auxiliary: two requests have been under way at once

vars == <<task, created, sent, linked, offer, draft, run, silent, overlapped>>

Exists(t) == task[t] # NoTask
Existing == {t \in TaskIds : Exists(t)}
Active(r) == r # NoTask /\ r.status \in ActiveStatuses

Row == Task \cup {NoTask}
Link == TaskIds \cup {NoTask}
Draft == [exists : BOOLEAN, task : Link]
NoDraft == [exists |-> FALSE, task |-> NoTask]

Request == [op    : {"none", "update", "delete", "due", "bulk", "requirement",
                     "economic", "draft"},
            ids   : SUBSET TaskIds,         \* rows that were read
            rows  : [TaskIds -> Row],       \* as they were read
            field : {"none", "status", "assignee", "metadata", "due"},
            value : TaskStatus \cup Users \cup {NoUser},
            about : Items \cup Drafts \cup {Nothing},
            force : BOOLEAN,
            row   : Draft]                  \* the draft that was read

Idle == [op |-> "none", ids |-> {}, rows |-> [t \in TaskIds |-> NoTask],
         field |-> "none", value |-> NoUser, about |-> Nothing,
         force |-> FALSE, row |-> NoDraft]

Unsent == [u \in Users |-> [n \in Notices |-> 0]]

TypeOK ==
  /\ task \in [TaskIds -> Row]
  /\ created \in 0..MaxTasks
  /\ sent \in [TaskIds -> [Users -> [Notices -> 0..2]]]
  /\ linked \in [Items -> Link]
  /\ offer \in [Items -> Draft]
  /\ draft \in [Drafts -> Draft]
  /\ run \in [Sessions -> Request]
  /\ silent \in [TaskIds -> SUBSET {"status", "assignee"}]
  /\ overlapped \in BOOLEAN

Init ==
  /\ task = [t \in TaskIds |-> NoTask]
  /\ created = 0
  /\ sent = [t \in TaskIds |-> Unsent]
  /\ linked = [i \in Items |-> NoTask]
  /\ offer = [i \in Items |-> NoDraft]
  /\ draft = [d \in Drafts |-> NoDraft]
  /\ run = [s \in Sessions |-> Idle]
  /\ silent = [t \in TaskIds |-> {}]
  /\ overlapped = FALSE

-----------------------------------------------------------------------------
(* Rows and notices *)

(* A column that the request has not set keeps what others have written. *)
Merged(now, new, cols) ==
  [now EXCEPT !.status    = IF "status" \in cols THEN new.status ELSE @,
              !.assignee  = IF "assignee" \in cols THEN new.assignee ELSE @,
              !.completed = IF "completed" \in cols THEN new.completed ELSE @,
              !.notified  = IF "metadata" \in cols THEN new.notified ELSE @]

Notified(counts, users, n) ==
  [u \in Users |->
     IF u \in users /\ counts[u][n] < Cap(n)
       THEN [counts[u] EXCEPT ![n] = @ + 1] ELSE counts[u]]

(* _notify_assigned: nobody is told of a task that nobody gets. *)
NotifyAssigned(counts, u) == Notified(counts, {u} \cap Users, "assigned")

(* _notify_completed: not the one who completes it. *)
NotifyCompleted(counts, row, actor) ==
  Notified(counts, {row.creator} \ {actor}, "completed")

New(u, assignee, status, due, about, economic) ==
  [status |-> status, creator |-> u, assignee |-> assignee,
   completed |-> FALSE, due |-> due, notified |-> {}, about |-> about,
   economic |-> economic]

(* create_task: a task that is created as completed gets no completed_at,  *)
(* no more than one that a bulk action completes.                          *)
Insert(row, rows, counts) ==
  /\ created < MaxTasks
  /\ created' = created + 1
  /\ task' = [rows EXCEPT ![created'] = row]
  /\ sent' = [counts EXCEPT ![created'] = NotifyAssigned(Unsent, row.assignee)]
  /\ silent' = [silent EXCEPT ![created'] = {"status"}]

Done(s) == run' = [run EXCEPT ![s] = Idle] /\ UNCHANGED overlapped

Rollback(s) ==
  Done(s) /\ UNCHANGED <<task, created, sent, linked, offer, draft, silent>>

-----------------------------------------------------------------------------
(* Requests that insert only *)

(* create_task, and create_from_event with the assignee and the due date   *)
(* of the routing rules.                                                   *)
CreateTask(s, assignee, status, due) ==
  /\ "create" \in Ops /\ run[s].op = "none"
  /\ Insert(New(UserOf[s], assignee, status, due, Nothing, FALSE), task, sent)
  /\ UNCHANGED <<linked, offer, draft, run, overlapped>>

(* PriceQuoteDraftService.create_draft: the draft and its task. *)
CreateDraft(s, d) ==
  /\ "draft" \in Ops /\ run[s].op = "none" /\ ~draft[d].exists
  /\ Insert(New(UserOf[s], NoUser, "pendiente", "never", d, FALSE), task, sent)
  /\ draft' = [draft EXCEPT ![d] = [exists |-> TRUE, task |-> created']]
  /\ UNCHANGED <<linked, offer, run, overlapped>>

-----------------------------------------------------------------------------
(* Requests that read first *)

Begin(s, request, ids) ==
  /\ run[s].op = "none" /\ request.op \in Ops
  /\ run' = [run EXCEPT ![s] =
       [request EXCEPT !.ids  = ids,
                       !.rows = [t \in TaskIds |-> IF t \in ids THEN task[t]
                                                                ELSE NoTask]]]
  /\ overlapped' = (overlapped \/ \E r \in Sessions : run[r].op # "none")
  /\ UNCHANGED <<task, created, sent, linked, offer, draft, silent>>

Changes == [field : {"status"}, value : Values]
           \cup [field : {"assignee"}, value : Users \cup {NoUser}]
           \cup [field : {"metadata", "due"}, value : {NoUser}]

BeginUpdate(s, t, c) ==
  /\ Exists(t)
  /\ Begin(s, [Idle EXCEPT !.op = "update", !.field = c.field,
                           !.value = c.value], {t})

BeginDelete(s, t) == Exists(t) /\ Begin(s, [Idle EXCEPT !.op = "delete"], {t})

(* sync_due_notifications, whenever the user opens the work hub. *)
BeginDue(s) ==
  Begin(s, [Idle EXCEPT !.op = "due"],
        {t \in Existing : /\ task[t].assignee = UserOf[s]
                          /\ task[t].status \notin Closed})

(* tasks_bulk: status (archive is the status cancelada) and assign. *)
BeginBulk(s, ids, c) ==
  /\ ids # {} /\ c.field \in {"status", "assignee"} /\ c.value # NoUser
  /\ Begin(s, [Idle EXCEPT !.op = "bulk", !.field = c.field,
                           !.value = c.value], ids)

(* The active tasks of the tender. *)
OfTender == {t \in Existing : Active(task[t]) /\ task[t].about \in Items}

BeginRequirement(s, i, force) ==
  Begin(s, [Idle EXCEPT !.op = "requirement", !.about = i, !.force = force],
        OfTender)

BeginEconomic(s, i, assignee) ==
  Begin(s, [Idle EXCEPT !.op = "economic", !.about = i, !.value = assignee,
                        !.row = offer[i]], OfTender)

(* drafts_bulk, one draft at a time. *)
BeginDraft(s, d) ==
  /\ draft[d].exists
  /\ Begin(s, [Idle EXCEPT !.op = "draft", !.about = d, !.row = draft[d]], {})

-----------------------------------------------------------------------------
(* Their commits *)

(* update_task.  completed_at is set once and for all.  The audit entry of *)
(* a new due date cannot be serialized: the request fails.                 *)
UpdatedReplacingMetadata(r, t) ==
  LET old == r.rows[t] IN
  CASE r.field = "status"   ->
         [old EXCEPT !.status = r.value,
                     !.completed = @ \/ r.value = "completada"]
    [] r.field = "assignee" -> [old EXCEPT !.assignee = r.value]
    [] OTHER                -> [old EXCEPT !.notified = {}]

UpdatedWithoutStamp(r, t) ==
  IF r.field \in {"status", "assignee"}
    THEN [r.rows[t] EXCEPT ![r.field] = r.value] ELSE r.rows[t]

Updated(r, t) ==
  LET old == r.rows[t] IN
  CASE r.field = "status"   ->
         [old EXCEPT !.status = r.value,
                     !.completed = @ \/ r.value = "completada"]
    [] r.field = "assignee" -> [old EXCEPT !.assignee = r.value]
    [] OTHER                -> old

UpdatedColumns(r, t) ==
  LET old == r.rows[t]
      new == Updated(r, t)
  IN  {c \in {"status", "assignee", "completed"} : new[c] # old[c]}
      \cup IF r.field = "metadata" THEN {"metadata"} ELSE {}

UpdateNoticesOnce(counts, new, cols, actor) ==
  IF "assignee" \in cols /\ \A u \in Users : counts[u]["assigned"] = 0
    THEN NotifyAssigned(counts, new.assignee) ELSE counts

UpdateNotices(counts, new, cols, actor) ==
  CASE "assignee" \in cols -> NotifyAssigned(counts, new.assignee)
    [] "assignee" \notin cols /\ "status" \in cols /\ new.status = "completada"
         -> NotifyCompleted(counts, new, actor)
    [] OTHER -> counts

FinishUpdate(s, t) ==
  LET r    == run[s]
      new  == Updated(r, t)
      cols == UpdatedColumns(r, t)
  IN  /\ r.op = "update" /\ r.ids = {t}
      /\ Exists(t) /\ r.field # "due"
      /\ task' = [task EXCEPT ![t] = Merged(@, new, cols)]
      /\ sent' = [sent EXCEPT ![t] = UpdateNotices(@, new, cols, UserOf[s])]
      /\ silent' = [silent EXCEPT ![t] = @ \ cols]
      /\ Done(s)
      /\ UNCHANGED <<created, linked, offer, draft>>

(* delete_task: the links that are foreign keys become null. *)
Unlinked(rows, t) ==
  [k \in DOMAIN rows |-> IF rows[k].task = t
                           THEN [rows[k] EXCEPT !.task = NoTask] ELSE rows[k]]

FinishDelete(s, t) ==
  /\ run[s].op = "delete" /\ run[s].ids = {t} /\ Exists(t)
  /\ task' = [task EXCEPT ![t] = NoTask]
  /\ sent' = [sent EXCEPT ![t] = Unsent]
  /\ offer' = Unlinked(offer, t)
  /\ draft' = Unlinked(draft, t)
  /\ silent' = [silent EXCEPT ![t] = {}]
  /\ Done(s)
  /\ UNCHANGED <<created, linked>>

(* A task is overdue or due soon; each is told once. *)
DueNotice(row) ==
  {n \in DueNotices \ row.notified :
     row.due = IF n = "overdue" THEN "past" ELSE "soon"}

Told(r) == {t \in r.ids : DueNotice(r.rows[t]) # {}}

FinishDue(s) ==
  LET r == run[s]
      told == Told(r)
      flagged(t) == [r.rows[t] EXCEPT !.notified = @ \cup DueNotice(r.rows[t])]
  IN  /\ r.op = "due" /\ told \subseteq Existing
      /\ task' = [t \in TaskIds |->
                    IF t \in told THEN Merged(task[t], flagged(t), {"metadata"})
                                  ELSE task[t]]
      /\ sent' = [t \in TaskIds |->
                    IF t \in told
                      THEN Notified(sent[t], {UserOf[s]},
                                    CHOOSE n \in DueNotice(r.rows[t]) : TRUE)
                      ELSE sent[t]]
      /\ Done(s)
      /\ UNCHANGED <<created, linked, offer, draft, silent>>

(* tasks_bulk sets the column and nothing else. *)
Changed(r) == {t \in r.ids : r.rows[t][r.field] # r.value}

FinishBulk(s) ==
  LET r == run[s]
      changed == Changed(r)
      set(t) == [r.rows[t] EXCEPT ![r.field] = r.value]
  IN  /\ r.op = "bulk" /\ changed \subseteq Existing
      /\ task' = [t \in TaskIds |->
                    IF t \in changed THEN Merged(task[t], set(t), {r.field})
                                     ELSE task[t]]
      /\ silent' = [t \in TaskIds |->
                      IF t \in changed THEN silent[t] \cup {r.field}
                                       ELSE silent[t]]
      /\ Done(s)
      /\ UNCHANGED <<created, sent, linked, offer, draft>>

(* _dedupe_requirement_tasks: of the active tasks of an item only the      *)
(* newest stays, whatever their type.                                      *)
DuplicatesPerType(r) ==
  {t \in r.ids : \E n \in r.ids : /\ n > t
                                 /\ r.rows[n].about = r.rows[t].about
                                 /\ r.rows[n].economic = r.rows[t].economic}

Duplicates(r) == {t \in r.ids : \E n \in r.ids :
                    n > t /\ r.rows[n].about = r.rows[t].about}

DedupedAsDuplicate(r) ==
  [t \in TaskIds |-> IF t \in Duplicates(r)
                       THEN [task[t] EXCEPT !.status = "duplicada"]
                       ELSE task[t]]

Deduped(r) ==
  [t \in TaskIds |->
     IF t \in Duplicates(r)
       THEN Merged(task[t], [r.rows[t] EXCEPT !.status = "cancelada"],
                   {"status", "metadata"})
       ELSE task[t]]

(* _find_active_requirement_task *)
Found(r) == {t \in r.ids \ Duplicates(r) : r.rows[t].about = r.about}

LinkFound(s) ==
  LET r == run[s] IN
  /\ r.op = "requirement" /\ ~r.force
  /\ Duplicates(r) \subseteq Existing
  /\ \E t \in Found(r) : linked' = [linked EXCEPT ![r.about] = t]
  /\ task' = Deduped(r)
  /\ Done(s)
  /\ UNCHANGED <<created, sent, offer, draft, silent>>

CreateRequirementTask(s, due) ==
  LET r == run[s] IN
  /\ r.op = "requirement" /\ (r.force \/ Found(r) = {})
  /\ Duplicates(r) \subseteq Existing
  /\ Insert(New(UserOf[s], NoUser, "pendiente", due, r.about, FALSE),
            Deduped(r), sent)
  /\ linked' = [linked EXCEPT ![r.about] = created']
  /\ Done(s)
  /\ UNCHANGED <<offer, draft>>

(* create_draft_task of the economic offer: an active task of its own type *)
(* is left alone; the draft of an item is unique.                          *)
EconomicFound(r) == \E t \in r.ids : r.rows[t].about = r.about /\ r.rows[t].economic

CreateEconomicTask(s, due) ==
  LET r == run[s] IN
  /\ r.op = "economic" /\ ~EconomicFound(r)
  /\ offer[r.about].exists => r.row.exists
  /\ Insert(New(UserOf[s], r.value, "pendiente", due, r.about, TRUE),
            task, sent)
  /\ linked' = [linked EXCEPT ![r.about] = created']
  /\ offer' = [offer EXCEPT ![r.about] = [exists |-> TRUE, task |-> created']]
  /\ Done(s)
  /\ UNCHANGED draft

(* drafts_bulk create_task skips the drafts that have a task. *)
CreateDraftTaskAlways(s) ==
  LET r == run[s] IN
  /\ r.op = "draft"
  /\ Insert(New(UserOf[s], NoUser, "pendiente", "never", r.about, FALSE),
            task, sent)
  /\ draft' = [draft EXCEPT ![r.about].task = created']
  /\ Done(s)
  /\ UNCHANGED <<linked, offer>>

CreateDraftTask(s) ==
  LET r == run[s] IN
  /\ r.op = "draft" /\ r.row.task = NoTask
  /\ Insert(New(UserOf[s], NoUser, "pendiente", "never", r.about, FALSE),
            task, sent)
  /\ draft' = [draft EXCEPT ![r.about].task = created']
  /\ Done(s)
  /\ UNCHANGED <<linked, offer>>

(* The rows that the commit writes, or that its notices refer to. *)
Written(r) ==
  CASE r.op = "due"         -> Told(r)
    [] r.op = "bulk"        -> Changed(r)
    [] r.op = "requirement" -> Duplicates(r)
    [] OTHER                -> r.ids

(* Whether the request comes to create a task. *)
Inserts(r) ==
  \/ r.op = "requirement" /\ (r.force \/ Found(r) = {})
  \/ r.op = "economic" /\ ~EconomicFound(r)
  \/ r.op = "draft" /\ r.row.task = NoTask

(* A row is gone, the audit of a due date fails, somebody else inserted    *)
(* the draft of the item, or the bound on tasks is reached: the request is *)
(* rolled back.                                                            *)
Fail(s) ==
  LET r == run[s] IN
  /\ \/ r.op \in {"update", "delete", "due", "bulk", "requirement"}
        /\ ~(Written(r) \subseteq Existing)
     \/ r.op = "update" /\ r.field = "due"
     \/ r.op = "economic" /\ offer[r.about].exists /\ ~r.row.exists
     \/ Inserts(r) /\ created = MaxTasks
  /\ Rollback(s)

(* The task is there already. *)
NothingToDo(s) ==
  LET r == run[s] IN
  /\ \/ r.op = "economic" /\ EconomicFound(r)
     \/ r.op = "draft" /\ r.row.task # NoTask
  /\ Rollback(s)

(* Days pass. *)
Age(t) ==
  /\ Exists(t) /\ task[t].due \in {"later", "soon"}
  /\ task' = [task EXCEPT ![t].due = IF @ = "later" THEN "soon" ELSE "past"]
  /\ UNCHANGED <<created, sent, linked, offer, draft, run, silent, overlapped>>

-----------------------------------------------------------------------------

Insertions ==
  \E s \in Sessions :
    \/ \E u \in Users \cup {NoUser}, v \in Values, due \in Dues :
         CreateTask(s, u, v, due)
    \/ \E d \in Drafts : CreateDraft(s, d)

Begins ==
  \E s \in Sessions :
    \/ \E t \in TaskIds, c \in Changes : BeginUpdate(s, t, c)
    \/ \E t \in TaskIds : BeginDelete(s, t)
    \/ BeginDue(s)
    \/ \E ids \in SUBSET Existing, c \in Changes : BeginBulk(s, ids, c)
    \/ \E i \in Items, force \in BOOLEAN : BeginRequirement(s, i, force)
    \/ \E i \in Items, u \in Users \cup {NoUser} : BeginEconomic(s, i, u)
    \/ \E d \in Drafts : BeginDraft(s, d)

Commits ==
  \E s \in Sessions :
    \/ \E t \in TaskIds : FinishUpdate(s, t) \/ FinishDelete(s, t)
    \/ FinishDue(s)
    \/ FinishBulk(s)
    \/ LinkFound(s)
    \/ \E due \in Dues : CreateRequirementTask(s, due) \/ CreateEconomicTask(s, due)
    \/ CreateDraftTask(s)
    \/ Fail(s)
    \/ NothingToDo(s)

Next == Insertions \/ Begins \/ Commits \/ \E t \in TaskIds : Age(t)

Spec == Init /\ [][Next]_vars

-----------------------------------------------------------------------------
(* Properties *)

(* Whatever updates, reassignments and deduplications come in between,     *)
(* sync_due_notifications tells of a task that is due soon once, and once  *)
(* that it is overdue, as long as no two requests overlap.                 *)
DueNoticeOnce ==
  ~overlapped =>
    \A t \in TaskIds, n \in DueNotices, u, v \in Users :
      sent[t][u][n] + (IF u = v THEN 0 ELSE sent[t][v][n]) <= 1

(* The one a task is assigned to has been told by _notify_assigned, even   *)
(* when several requests assign it at the same time, unless tasks_bulk     *)
(* assigned it last.                                                       *)
AssigneeIsTold ==
  \A t \in Existing :
    \/ task[t].assignee = NoUser
    \/ "assignee" \in silent[t]
    \/ sent[t][task[t].assignee]["assigned"] > 0

(* A completed task has its completed_at, whatever requests overlap,       *)
(* unless it was created as completed or completed by tasks_bulk.          *)
CompletionIsStamped ==
  \A t \in Existing :
    task[t].status = "completada" /\ "status" \notin silent[t]
      => task[t].completed

ActiveAbout(rows, i) ==
  {t \in TaskIds : Active(rows[t]) /\ rows[t].about = i}

(* create_checklist_task leaves the item with one active task, the one     *)
(* that the checklist names, and no other item without its task.           *)
OneActiveTask ==
  [][\A s \in Sessions :
       /\ run[s].op = "requirement" /\ run'[s].op = "none"
       /\ ~run[s].force /\ ~overlapped
       /\ created < MaxTasks \/ Found(run[s]) # {}
       => /\ ActiveAbout(task', run[s].about) = {linked'[run[s].about]}
          /\ \A i \in Items : ActiveAbout(task, i) # {}
                              => Cardinality(ActiveAbout(task', i)) = 1]_vars

(* The task that exists for a draft of a quotation is the one the draft    *)
(* names, as long as no two requests overlap: none is left orphaned.       *)
DraftOwnsItsTask ==
  ~overlapped =>
    \A t \in Existing :
      task[t].about \in Drafts => draft[task[t].about].task = t
=============================================================================
