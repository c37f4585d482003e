----------------------------- MODULE TasksProofs -----------------------------
(***************************************************************************)
(* Proofs about Tasks, for any number of users, requests, tasks, items and *)
(* drafts: the variables keep their types, assignees have been told and    *)
(* completions are stamped whatever overlaps; without overlap, due notices *)
(* are sent once, no draft loses its task and an item has one active task. *)
(***************************************************************************)
EXTENDS Tasks, FiniteSetTheorems, WellFoundedInduction, TLAPS

-----------------------------------------------------------------------------
(* The inductive invariant, in parts.                                      *)

\* What a request may set, and the rows that it has read.
RequestOK ==
  \A s \in Sessions :
    /\ \A t \in run[s].ids : run[s].rows[t] \in Task /\ t <= created
    /\ run[s].field = "status" => run[s].value \in TaskStatus
    /\ run[s].field = "assignee" => run[s].value \in Users \cup {NoUser}
    /\ run[s].op = "bulk" => run[s].field \in {"status", "assignee"}
    /\ run[s].op = "requirement" => run[s].about \in Items
    /\ run[s].op = "economic" => /\ run[s].about \in Items
                                 /\ run[s].value \in Users \cup {NoUser}
    /\ run[s].op = "draft" => run[s].about \in Drafts

CreatedOK == \A t \in TaskIds : Exists(t) => t <= created

\* A task that was read with its completed_at still has it.
StampOK ==
  \A s \in Sessions : \A t \in run[s].ids :
    Exists(t) /\ run[s].rows[t].completed => task[t].completed

IdleOK == \A s \in Sessions : run[s].op = "none" => run[s].ids = {}

\* Without overlap one request is under way, and it has read the metadata as
\* they are.
AloneOK ==
  ~overlapped =>
    \A s, r \in Sessions : run[s].op # "none" /\ run[r].op # "none" => s = r

ReadOK ==
  ~overlapped =>
    \A s \in Sessions : \A t \in run[s].ids :
      Exists(t) /\ run[s].rows[t].notified = task[t].notified

\* Without overlap, a notice of a due date that was sent is in the metadata.
FlaggedOK ==
  ~overlapped =>
    \A t \in Existing, u \in Users, n \in DueNotices :
      sent[t][u][n] = 0 \/ n \in task[t].notified

\* Drafts never vanish, and without overlap a request knows the task of its
\* draft.
DraftsOK ==
  /\ \A d \in Drafts : draft[d].task # NoTask => draft[d].exists
  /\ \A s \in Sessions : run[s].op = "draft" => draft[run[s].about].exists
  /\ ~overlapped =>
       \A s \in Sessions : run[s].op = "draft" =>
         draft[run[s].about].task = run[s].row.task

IInv == /\ TypeOK /\ RequestOK /\ CreatedOK /\ StampOK /\ IdleOK /\ AloneOK /\ ReadOK
        /\ FlaggedOK /\ DraftsOK
        /\ AssigneeIsTold /\ CompletionIsStamped
        /\ DueNoticeOnce /\ DraftOwnsItsTask

-----------------------------------------------------------------------------
(* Records and counts                                                      *)

Counts == [Users -> [Notices -> 0..2]]

LEMMA TaskFields ==
  ASSUME NEW r \in Task
  PROVE  /\ r.status \in TaskStatus /\ r.creator \in Users
         /\ r.assignee \in Users \cup {NoUser} /\ r.completed \in BOOLEAN
         /\ r.due \in DueDates /\ r.notified \subseteq DueNotices
         /\ r.about \in Items \cup Drafts \cup {Nothing} /\ r.economic \in BOOLEAN
  BY DEF Task

LEMMA IdleIsRequest ==
  /\ Idle \in Request
  /\ Idle.op = "none" /\ Idle.ids = {} /\ Idle.field = "none"
  /\ \A t \in TaskIds : Idle.rows[t] = NoTask
  BY DEF Idle, Request, Row, NoDraft, Draft, Link

LEMMA RequestFields ==
  ASSUME TypeOK, NEW s \in Sessions
  PROVE  /\ run[s] \in Request /\ run[s].ids \subseteq TaskIds
         /\ run[s].rows \in [TaskIds -> Row] /\ run[s].row \in Draft
  BY DEF TypeOK, Request

\* What the columns of a request make of a row.
LEMMA MergedFields ==
  ASSUME NEW old \in Task, NEW new \in Task, NEW cols
  PROVE  /\ Merged(old, new, cols) \in Task
         /\ Merged(old, new, cols).status = IF "status" \in cols THEN new.status ELSE old.status
         /\ Merged(old, new, cols).assignee = IF "assignee" \in cols THEN new.assignee ELSE old.assignee
         /\ Merged(old, new, cols).completed = IF "completed" \in cols THEN new.completed ELSE old.completed
         /\ Merged(old, new, cols).notified = IF "metadata" \in cols THEN new.notified ELSE old.notified
         /\ Merged(old, new, cols).about = old.about
         /\ Merged(old, new, cols).due = old.due
  BY DEF Merged, Task

LEMMA UnsentCounts ==
  /\ Unsent \in Counts
  /\ \A u \in Users, n \in Notices : Unsent[u][n] = 0
  BY DEF Unsent, Counts

LEMMA NotifiedCounts ==
  ASSUME NEW counts \in Counts, NEW us, NEW n \in Notices
  PROVE  /\ Notified(counts, us, n) \in Counts
         /\ \A u \in Users, m \in Notices :
              Notified(counts, us, n)[u][m] =
                IF m = n /\ u \in us /\ counts[u][n] < Cap(n)
                  THEN counts[u][m] + 1 ELSE counts[u][m]
  <1>1. Cap(n) \in 1..2  BY DEF Cap
  <1>2. \A u \in Users : Notified(counts, us, n)[u] =
          IF u \in us /\ counts[u][n] < Cap(n)
            THEN [counts[u] EXCEPT ![n] = counts[u][n] + 1] ELSE counts[u]
    BY DEF Notified
  <1>3. ASSUME NEW u \in Users
        PROVE  /\ Notified(counts, us, n)[u] \in [Notices -> 0..2]
               /\ \A m \in Notices : Notified(counts, us, n)[u][m] =
                    IF m = n /\ u \in us /\ counts[u][n] < Cap(n)
                      THEN counts[u][m] + 1 ELSE counts[u][m]
    <2>1. counts[u] \in [Notices -> 0..2]  BY DEF Counts
    <2>2. CASE u \in us /\ counts[u][n] < Cap(n)
      <3>1. counts[u][n] + 1 \in 0..2  BY <1>1, <2>1, <2>2
      <3> QED  BY <1>2, <2>1, <2>2, <3>1
    <2>3. CASE ~(u \in us /\ counts[u][n] < Cap(n))
      BY <1>2, <2>1, <2>3
    <2> QED  BY <2>2, <2>3
  <1>4. Notified(counts, us, n) = [u \in Users |-> Notified(counts, us, n)[u]]
    BY DEF Notified
  <1> QED  BY <1>3, <1>4 DEF Counts

\* Being told of an assignment.
LEMMA AssignedCounts ==
  ASSUME NEW counts \in Counts, NEW a \in Users \cup {NoUser}
  PROVE  /\ NotifyAssigned(counts, a) \in Counts
         /\ \A u \in Users : /\ NotifyAssigned(counts, a)[u]["assigned"] >= counts[u]["assigned"]
                             /\ a = u => NotifyAssigned(counts, a)[u]["assigned"] > 0
         /\ \A u \in Users, n \in DueNotices : NotifyAssigned(counts, a)[u][n] = counts[u][n]
  <1>1. "assigned" \in Notices /\ "assigned" \notin DueNotices /\ DueNotices \subseteq Notices
        /\ Cap("assigned") = 1
    BY DEF Notices, DueNotices, Cap
  <1>2. \A u \in Users, m \in Notices : counts[u][m] \in Nat
    BY DEF Counts
  <1> QED  BY <1>1, <1>2, NotifiedCounts DEF NotifyAssigned

LEMMA CompletedCounts ==
  ASSUME NEW counts \in Counts, NEW row, NEW a
  PROVE  /\ NotifyCompleted(counts, row, a) \in Counts
         /\ \A u \in Users : NotifyCompleted(counts, row, a)[u]["assigned"] = counts[u]["assigned"]
         /\ \A u \in Users, n \in DueNotices : NotifyCompleted(counts, row, a)[u][n] = counts[u][n]
  <1>1. "completed" \in Notices /\ "completed" \notin DueNotices /\ DueNotices \subseteq Notices
        /\ "assigned" \in Notices
    BY DEF Notices, DueNotices
  <1> QED  BY <1>1, NotifiedCounts DEF NotifyCompleted

LEMMA RunAfter ==
  ASSUME TypeOK, NEW s \in Sessions, NEW X, run' = [run EXCEPT ![s] = X]
  PROVE  /\ run'[s] = X
         /\ \A r \in Sessions \ {s} : run'[r] = run[r]
         /\ X \in Request => run' \in [Sessions -> Request]
  BY DEF TypeOK

LEMMA TypedCounts ==
  TypeOK => sent \in [TaskIds -> Counts]
  BY DEF TypeOK, Counts

-----------------------------------------------------------------------------
(* Steps that change rows                                                  *)

\* What is true of a row after a step keeps what it was.
RowKept(t) ==
  /\ task'[t].assignee = task[t].assignee
  /\ task'[t].completed = task[t].completed
  /\ task'[t].status \in {task[t].status, "cancelada"}
  /\ task'[t].about = task[t].about
  /\ \A u \in Users : sent'[t][u]["assigned"] >= sent[t][u]["assigned"]
  /\ silent[t] \subseteq silent'[t]

\* A row that is told, stamped, flagged and owned.
RowOK(t) ==
  /\ \/ task[t].assignee = NoUser
     \/ "assignee" \in silent[t]
     \/ sent[t][task[t].assignee]["assigned"] > 0
  /\ task[t].status = "completada" /\ "status" \notin silent[t] => task[t].completed

LEMMA RowsOK == (\A t \in Existing : RowOK(t)) <=> AssigneeIsTold /\ CompletionIsStamped
  BY DEF RowOK, AssigneeIsTold, CompletionIsStamped

LEMMA KeptIsOK ==
  ASSUME TypeOK, NEW t \in TaskIds, Exists(t), RowOK(t), RowKept(t), TypeOK'
  PROVE  RowOK(t)'
  <1>1. task[t].assignee \in Users \cup {NoUser}
    BY TaskFields DEF TypeOK, Exists, Row
  <1>2. \A u \in Users : sent[t][u]["assigned"] \in Nat /\ sent'[t][u]["assigned"] \in Nat
    <2>1. "assigned" \in Notices  BY DEF Notices
    <2>2. /\ sent \in [TaskIds -> [Users -> [Notices -> 0..2]]]
          /\ sent' \in [TaskIds -> [Users -> [Notices -> 0..2]]]
      BY DEF TypeOK
    <2>3. ASSUME NEW u \in Users
          PROVE  sent[t][u]["assigned"] \in 0..2 /\ sent'[t][u]["assigned"] \in 0..2
      BY <2>1, <2>2
    <2> QED  BY <2>3
  <1> DEFINE a == task[t].assignee
  <1>3. \/ task'[t].assignee = NoUser
        \/ "assignee" \in silent'[t]
        \/ sent'[t][task'[t].assignee]["assigned"] > 0
    <2>1. task'[t].assignee = a  BY DEF RowKept
    <2>2. CASE a \in Users
      <3>1. sent'[t][a]["assigned"] >= sent[t][a]["assigned"]
        BY <2>2 DEF RowKept
      <3>2. sent[t][a]["assigned"] \in Nat /\ sent'[t][a]["assigned"] \in Nat
        BY <1>2, <2>2
      <3>3. a = NoUser \/ "assignee" \in silent[t] \/ sent[t][a]["assigned"] > 0
        BY DEF RowOK
      <3>4. silent[t] \subseteq silent'[t]  BY DEF RowKept
      <3> HIDE DEF a
      <3> QED  BY <2>1, <3>1, <3>2, <3>3, <3>4
    <2>3. CASE a = NoUser
      BY <2>1, <2>3
    <2> QED  BY <1>1, <2>2, <2>3
  <1>4. task'[t].status = "completada" /\ "status" \notin silent'[t]
          => task'[t].completed
    BY DEF RowOK, RowKept
  <1> QED  BY <1>3, <1>4 DEF RowOK

\* A session that is done.
LEMMA DoneRun ==
  ASSUME IInv, NEW s \in Sessions, Done(s), run[s].op # "none",
         created' \in created..MaxTasks,
         \A t \in TaskIds : Exists(t)' /\ t <= created =>
           Exists(t) /\ (task[t].completed => task'[t].completed),
         \A d \in Drafts : draft[d].exists => draft'[d].exists,
         \A d \in Drafts : draft'[d].task # NoTask => draft'[d].exists
  PROVE  /\ run' \in [Sessions -> Request] /\ overlapped' = overlapped
         /\ RequestOK' /\ StampOK' /\ IdleOK' /\ AloneOK' /\ ReadOK' /\ DraftsOK'
  <1>1. /\ run'[s] = Idle /\ \A r \in Sessions \ {s} : run'[r] = run[r]
        /\ run' \in [Sessions -> Request] /\ overlapped' = overlapped
    BY RunAfter, IdleIsRequest DEF IInv, Done
  <1>2. created \in Nat /\ created' \in Nat /\ created <= created'
    BY TasksAssumption DEF IInv, TypeOK
  <1>3. RequestOK'
    <2> SUFFICES ASSUME NEW r \in Sessions
        PROVE /\ \A t \in run'[r].ids : run'[r].rows[t] \in Task /\ t <= created'
              /\ run'[r].field = "status" => run'[r].value \in TaskStatus
              /\ run'[r].field = "assignee" => run'[r].value \in Users \cup {NoUser}
              /\ run'[r].op = "bulk" => run'[r].field \in {"status", "assignee"}
              /\ run'[r].op = "requirement" => run'[r].about \in Items
              /\ run'[r].op = "economic" => /\ run'[r].about \in Items
                                            /\ run'[r].value \in Users \cup {NoUser}
              /\ run'[r].op = "draft" => run'[r].about \in Drafts
      BY DEF RequestOK
    <2>1. CASE r = s  BY <1>1, <2>1, IdleIsRequest
    <2>2. CASE r # s
      <3>1. \A t \in run[r].ids : t <= created'
        BY <1>2, RequestFields DEF IInv, RequestOK, TaskIds
      <3> QED  BY <1>1, <2>2, <3>1 DEF IInv, RequestOK
    <2> QED  BY <2>1, <2>2
  <1>4. StampOK'
    <2> SUFFICES ASSUME NEW r \in Sessions, NEW t \in run'[r].ids, Exists(t)',
                        run'[r].rows[t].completed
                 PROVE  task'[t].completed
      BY DEF StampOK, Exists
    <2>1. r # s /\ run'[r] = run[r]  BY <1>1, IdleIsRequest
    <2>2. t \in TaskIds /\ t <= created
      BY <2>1, RequestFields DEF IInv, RequestOK
    <2> QED  BY <2>1, <2>2 DEF IInv, StampOK
  <1>5. IdleOK' /\ AloneOK'
    BY <1>1, IdleIsRequest DEF IInv, IdleOK, AloneOK
  <1>6. ~overlapped => \A r \in Sessions : run'[r].op = "none" /\ run'[r].ids = {}
    BY <1>1, IdleIsRequest DEF IInv, AloneOK, IdleOK
  <1>7. ReadOK'
    BY <1>1, <1>6 DEF ReadOK
  <1>8. DraftsOK'
    BY <1>1, <1>6, IdleIsRequest DEF IInv, DraftsOK, RequestOK
  <1> QED  BY <1>1, <1>3, <1>4, <1>5, <1>7, <1>8

-----------------------------------------------------------------------------
(* New tasks                                                               *)

LEMMA InsertEffect ==
  ASSUME TypeOK, NEW row \in Task, NEW rows \in [TaskIds -> Row],
         Insert(row, rows, sent)
  PROVE  /\ created' = created + 1 /\ created' \in created..MaxTasks
         /\ created' \in 0..MaxTasks /\ created' \in TaskIds
         /\ task' \in [TaskIds -> Row] /\ task'[created'] = row
         /\ \A t \in TaskIds \ {created'} : task'[t] = rows[t]
         /\ sent' \in [TaskIds -> [Users -> [Notices -> 0..2]]]
         /\ sent'[created'] = NotifyAssigned(Unsent, row.assignee)
         /\ \A t \in TaskIds \ {created'} : sent'[t] = sent[t]
         /\ silent' \in [TaskIds -> SUBSET {"status", "assignee"}]
         /\ silent'[created'] = {"status"}
         /\ \A t \in TaskIds \ {created'} : silent'[t] = silent[t]
  <1>1. /\ created' = created + 1 /\ created' \in created..MaxTasks
        /\ created' \in 0..MaxTasks /\ created' \in TaskIds
    BY TasksAssumption DEF TypeOK, Insert, TaskIds
  <1>2. NotifyAssigned(Unsent, row.assignee) \in Counts
    BY UnsentCounts, AssignedCounts, TaskFields
  <1>3. /\ task' = [rows EXCEPT ![created'] = row]
        /\ sent' = [sent EXCEPT ![created'] = NotifyAssigned(Unsent, row.assignee)]
        /\ silent' = [silent EXCEPT ![created'] = {"status"}]
    BY DEF Insert
  <1>4. row \in Row  BY DEF Row
  <1> QED  BY <1>1, <1>2, <1>3, <1>4 DEF TypeOK, Counts

\* The invariants of rows after an insertion: the others keep what they had.
LEMMA InsertRows ==
  ASSUME IInv, NEW row \in Task, NEW rows \in [TaskIds -> Row],
         Insert(row, rows, sent), TypeOK', overlapped' = overlapped,
         \A t \in TaskIds : rows[t] # NoTask <=> Exists(t),
         \A t \in Existing : /\ rows[t].assignee = task[t].assignee
                             /\ rows[t].completed = task[t].completed
                             /\ rows[t].status \in {task[t].status, "cancelada"}
                             /\ rows[t].about = task[t].about
                             /\ ~overlapped => rows[t].notified = task[t].notified
  PROVE  /\ CreatedOK' /\ AssigneeIsTold' /\ CompletionIsStamped'
         /\ FlaggedOK' /\ DueNoticeOnce'
         /\ \A t \in TaskIds : Exists(t)' /\ t <= created =>
              Exists(t) /\ (task[t].completed => task'[t].completed)
         /\ \A t \in Existing : /\ Exists(t)' /\ task'[t] = rows[t]
                                /\ task'[t].about = task[t].about
         /\ \A t \in TaskIds : Exists(t)' => t = created' \/ Exists(t)
  <1>0. TypeOK  BY DEF IInv
  <1> DEFINE n == created'
  <1>1. /\ n = created + 1 /\ n \in TaskIds
        /\ task'[n] = row /\ \A t \in TaskIds \ {n} : task'[t] = rows[t]
        /\ sent'[n] = NotifyAssigned(Unsent, row.assignee)
        /\ \A t \in TaskIds \ {n} : sent'[t] = sent[t]
        /\ silent'[n] = {"status"}
        /\ \A t \in TaskIds \ {n} : silent'[t] = silent[t]
    BY <1>0, InsertEffect
  <1>2. created \in Nat /\ \A t \in TaskIds : t \in Nat
    BY <1>0, TasksAssumption DEF TypeOK, TaskIds
  <1> HIDE DEF n
  <1>3. \A t \in Existing : t # n /\ t \in TaskIds /\ Exists(t)
    BY <1>1, <1>2 DEF IInv, CreatedOK, Existing
  <1>4. \A t \in TaskIds : Exists(t)' => t = n \/ Exists(t)
    BY <1>1 DEF Exists
  <1>5. \A t \in Existing : Exists(t)' /\ RowKept(t)
    <2> SUFFICES ASSUME NEW t \in Existing PROVE Exists(t)' /\ RowKept(t)
      OBVIOUS
    <2>1. t # n /\ t \in TaskIds /\ Exists(t)  BY <1>3
    <2>2. task'[t] = rows[t] /\ sent'[t] = sent[t] /\ silent'[t] = silent[t]
      BY <1>1, <2>1
    <2>3. \A u \in Users : sent[t][u]["assigned"] >= sent[t][u]["assigned"]
      <3>1. "assigned" \in Notices  BY DEF Notices
      <3>2. sent[t] \in [Users -> [Notices -> 0..2]]  BY <1>0, <2>1 DEF TypeOK
      <3> QED  BY <3>1, <3>2
    <2> QED  BY <2>1, <2>2, <2>3 DEF RowKept, Exists
  <1>6. CreatedOK'
    <2>1. ASSUME NEW t \in TaskIds, Exists(t) PROVE t <= n
      <3>1. t <= created  BY <2>1 DEF IInv, CreatedOK
      <3>2. t \in Nat /\ created \in Nat  BY <1>2
      <3>3. n = created + 1  BY <1>1
      <3> QED  BY <3>1, <3>2, <3>3
    <2>2. n <= n  BY <1>1, <1>2
    <2> QED  BY <1>4, <2>1, <2>2 DEF CreatedOK, n
  <1>7. ASSUME NEW t \in TaskIds, Exists(t)' PROVE RowOK(t)'
    <2>1. CASE t = n
      <3>1. row.assignee \in Users \cup {NoUser}  BY TaskFields
      <3>2. row.assignee \in Users =>
              NotifyAssigned(Unsent, row.assignee)[row.assignee]["assigned"] > 0
        BY <3>1, UnsentCounts, AssignedCounts
      <3>3. \/ task'[t].assignee = NoUser
            \/ sent'[t][task'[t].assignee]["assigned"] > 0
        BY <1>1, <2>1, <3>1, <3>2
      <3>4. "status" \in silent'[t]  BY <1>1, <2>1
      <3> QED  BY <3>3, <3>4 DEF RowOK
    <2>2. CASE t # n
      <3>1. t \in Existing /\ Exists(t)  BY <1>4, <1>7, <2>2 DEF Existing
      <3>2. RowOK(t)  BY <3>1, RowsOK DEF IInv
      <3> QED  BY <1>0, <1>5, <3>1, <3>2, KeptIsOK
    <2> QED  BY <2>1, <2>2
  <1>8. AssigneeIsTold' /\ CompletionIsStamped'
    BY <1>7 DEF RowOK, AssigneeIsTold, CompletionIsStamped, Existing
  <1>9. DueNotices \subseteq Notices  BY DEF DueNotices, Notices
  <1>10. \A u \in Users, m \in DueNotices : sent'[n][u][m] = 0
    BY <1>1, <1>9, UnsentCounts, AssignedCounts, TaskFields
  <1>11. FlaggedOK'
    <2> SUFFICES ASSUME ~overlapped, NEW t \in TaskIds, Exists(t)', NEW u \in Users,
                        NEW m \in DueNotices
                 PROVE  sent'[t][u][m] = 0 \/ m \in task'[t].notified
      BY DEF FlaggedOK, Existing
    <2>1. CASE t = n  BY <1>10, <2>1
    <2>2. CASE t # n
      <3>1. t \in Existing  BY <1>4, <2>2 DEF Existing
      <3>2. task'[t].notified = task[t].notified /\ sent'[t] = sent[t]
        BY <1>1, <2>2, <3>1
      <3> QED  BY <3>1, <3>2 DEF IInv, FlaggedOK
    <2> QED  BY <2>1, <2>2
  <1>12. DueNoticeOnce'
    <2> SUFFICES ASSUME ~overlapped, NEW t \in TaskIds, NEW m \in DueNotices,
                        NEW u \in Users, NEW v \in Users
                 PROVE  sent'[t][u][m] + (IF u = v THEN 0 ELSE sent'[t][v][m]) <= 1
      BY DEF DueNoticeOnce
    <2>1. CASE t = n  BY <1>10, <2>1
    <2>2. CASE t # n
      <3>1. sent'[t] = sent[t]  BY <1>1, <2>2
      <3> QED  BY <3>1 DEF IInv, DueNoticeOnce
    <2> QED  BY <2>1, <2>2
  <1>13. \A t \in TaskIds : Exists(t)' /\ t <= created =>
           Exists(t) /\ (task[t].completed => task'[t].completed)
    <2> SUFFICES ASSUME NEW t \in TaskIds, Exists(t)', t <= created
                 PROVE  Exists(t) /\ (task[t].completed => task'[t].completed)
      OBVIOUS
    <2>1. t # n  BY <1>1, <1>2
    <2>2. t \in Existing /\ Exists(t)  BY <1>4, <2>1 DEF Existing
    <2> QED  BY <1>5, <2>2 DEF RowKept
  <1>14. \A t \in Existing : task'[t] = rows[t]
    BY <1>1, <1>3
  <1> QED  BY <1>4, <1>5, <1>6, <1>8, <1>11, <1>12, <1>13, <1>14 DEF RowKept, n

\* Requests that are under way stay as they are.
LEMMA SameRun ==
  ASSUME IInv, run' = run, overlapped' = overlapped, created' \in created..MaxTasks,
         \A t \in TaskIds : Exists(t)' /\ t <= created =>
           Exists(t) /\ (task[t].completed => task'[t].completed),
         \A t \in Existing : Exists(t)' /\ task'[t].notified = task[t].notified,
         \A d \in Drafts : draft[d].exists => draft'[d] = draft[d],
         \A d \in Drafts : draft'[d].task # NoTask => draft'[d].exists
  PROVE  RequestOK' /\ StampOK' /\ IdleOK' /\ AloneOK' /\ ReadOK' /\ DraftsOK'
  <1>1. created \in Nat /\ created' \in Nat /\ created <= created'
    BY TasksAssumption DEF IInv, TypeOK
  <1>2. \A s \in Sessions : run[s].ids \subseteq TaskIds /\ \A t \in run[s].ids : t \in Nat
    BY RequestFields, TasksAssumption DEF IInv, TaskIds
  <1>3. RequestOK'
    <2>1. \A s \in Sessions : \A t \in run[s].ids : t <= created'
      BY <1>1, <1>2 DEF IInv, RequestOK
    <2> QED  BY <2>1 DEF IInv, RequestOK
  <1>4. StampOK'
    <2> SUFFICES ASSUME NEW s \in Sessions, NEW t \in run[s].ids, Exists(t)',
                        run[s].rows[t].completed
                 PROVE  task'[t].completed
      BY DEF StampOK, Exists
    <2>1. t \in TaskIds /\ t <= created
      BY RequestFields DEF IInv, RequestOK
    <2> QED  BY <2>1 DEF IInv, StampOK
  <1>5. IdleOK' /\ AloneOK'
    BY DEF IInv, IdleOK, AloneOK
  <1>6. ReadOK'
    BY <1>2 DEF IInv, ReadOK, Existing, Exists
  <1>7. DraftsOK'
    BY DEF IInv, DraftsOK, RequestOK
  <1> QED  BY <1>3, <1>4, <1>5, <1>6, <1>7

LEMMA Unchanged ==
  ASSUME TypeOK
  PROVE  /\ task \in [TaskIds -> Row]
         /\ \A t \in TaskIds : task[t] # NoTask <=> Exists(t)
         /\ \A t \in Existing : /\ task[t].status \in {task[t].status, "cancelada"}
                                /\ t \in TaskIds
  BY DEF TypeOK, Exists, Existing

LEMMA CreateTaskStep ==
  ASSUME IInv, NEW s \in Sessions, NEW a \in Users \cup {NoUser}, NEW v \in Values,
         NEW due \in Dues, CreateTask(s, a, v, due)
  PROVE  IInv'
  <1> DEFINE row == New(UserOf[s], a, v, due, Nothing, FALSE)
  <1>0. TypeOK  BY DEF IInv
  <1>1. row \in Task /\ row.about = Nothing
    BY TasksAssumption, ValuesAssumption DEF New, Task
  <1>2. /\ Insert(row, task, sent) /\ run' = run /\ overlapped' = overlapped
        /\ linked' = linked /\ offer' = offer /\ draft' = draft
    BY DEF CreateTask
  <1> HIDE DEF row
  <1>3. TypeOK'
    BY <1>0, <1>1, <1>2, InsertEffect, Unchanged DEF TypeOK
  <1>4. /\ CreatedOK' /\ AssigneeIsTold' /\ CompletionIsStamped'
        /\ FlaggedOK' /\ DueNoticeOnce'
        /\ \A t \in TaskIds : Exists(t)' /\ t <= created =>
             Exists(t) /\ (task[t].completed => task'[t].completed)
        /\ \A t \in Existing : Exists(t)' /\ task'[t] = task[t]
        /\ \A t \in TaskIds : Exists(t)' => t = created' \/ Exists(t)
    BY <1>0, <1>1, <1>2, <1>3, InsertRows, Unchanged
  <1>5. created' \in created..MaxTasks /\ task'[created'] = row
    BY <1>0, <1>1, <1>2, InsertEffect, Unchanged
  <1>6. RequestOK' /\ StampOK' /\ IdleOK' /\ AloneOK' /\ ReadOK' /\ DraftsOK'
    BY <1>2, <1>4, <1>5, SameRun DEF IInv, DraftsOK
  <1>7. DraftOwnsItsTask'
    <2> SUFFICES ASSUME ~overlapped, NEW t \in TaskIds, Exists(t)',
                        task'[t].about \in Drafts
                 PROVE  draft[task'[t].about].task = t
      BY <1>2 DEF DraftOwnsItsTask, Existing
    <2>1. t # created'  BY <1>1, <1>5, TasksAssumption
    <2>2. t \in Existing /\ task'[t] = task[t]  BY <1>4, <2>1 DEF Existing
    <2> QED  BY <2>2 DEF IInv, DraftOwnsItsTask
  <1> QED  BY <1>3, <1>4, <1>6, <1>7 DEF IInv

LEMMA CreateDraftStep ==
  ASSUME IInv, NEW s \in Sessions, NEW d \in Drafts, CreateDraft(s, d)
  PROVE  IInv'
  <1> DEFINE row == New(UserOf[s], NoUser, "pendiente", "never", d, FALSE)
  <1>0. TypeOK  BY DEF IInv
  <1>1. row \in Task /\ row.about = d
    BY TasksAssumption DEF New, Task, TaskStatus, DueDates
  <1>2. /\ Insert(row, task, sent) /\ run' = run /\ overlapped' = overlapped
        /\ linked' = linked /\ offer' = offer /\ ~draft[d].exists
        /\ draft' = [draft EXCEPT ![d] = [exists |-> TRUE, task |-> created']]
    BY DEF CreateDraft
  <1> HIDE DEF row
  <1>3. created' \in created..MaxTasks /\ task'[created'] = row /\ created' \in TaskIds
    BY <1>0, <1>1, <1>2, InsertEffect, Unchanged
  <1>4. /\ draft' \in [Drafts -> Draft] /\ draft'[d].task = created' /\ draft'[d].exists
        /\ \A e \in Drafts \ {d} : draft'[e] = draft[e]
    BY <1>0, <1>2, <1>3 DEF TypeOK, Draft, Link
  <1>5. TypeOK'
    BY <1>0, <1>1, <1>2, <1>4, InsertEffect, Unchanged DEF TypeOK
  <1>6. /\ CreatedOK' /\ AssigneeIsTold' /\ CompletionIsStamped'
        /\ FlaggedOK' /\ DueNoticeOnce'
        /\ \A t \in TaskIds : Exists(t)' /\ t <= created =>
             Exists(t) /\ (task[t].completed => task'[t].completed)
        /\ \A t \in Existing : Exists(t)' /\ task'[t] = task[t]
        /\ \A t \in TaskIds : Exists(t)' => t = created' \/ Exists(t)
    BY <1>0, <1>1, <1>2, <1>5, InsertRows, Unchanged
  <1>7. RequestOK' /\ StampOK' /\ IdleOK' /\ AloneOK' /\ ReadOK' /\ DraftsOK'
    BY <1>2, <1>3, <1>4, <1>6, SameRun DEF IInv, DraftsOK
  <1>8. DraftOwnsItsTask'
    <2> SUFFICES ASSUME ~overlapped, NEW t \in TaskIds, Exists(t)',
                        task'[t].about \in Drafts
                 PROVE  draft'[task'[t].about].task = t
      BY <1>2 DEF DraftOwnsItsTask, Existing
    <2>1. CASE t = created'  BY <1>1, <1>3, <1>4, <2>1
    <2>2. CASE t # created'
      <3>1. t \in Existing /\ task'[t] = task[t]  BY <1>6, <2>2 DEF Existing
      <3>2. draft[task[t].about].task = t  BY <3>1 DEF IInv, DraftOwnsItsTask
      <3>3. task[t].about # d
        BY <1>2, <3>1, <3>2, TasksAssumption DEF IInv, DraftsOK
      <3> QED  BY <1>4, <3>1, <3>2, <3>3
    <2> QED  BY <2>1, <2>2
  <1> QED  BY <1>5, <1>6, <1>7, <1>8 DEF IInv

-----------------------------------------------------------------------------
(* Requests that begin                                                     *)

LEMMA BeginStep ==
  ASSUME IInv, NEW s \in Sessions, NEW q \in Request, NEW ids \in SUBSET Existing,
         Begin(s, q, ids),
         q.op # "none",
         q.field = "status" => q.value \in TaskStatus,
         q.field = "assignee" => q.value \in Users \cup {NoUser},
         q.op = "bulk" => q.field \in {"status", "assignee"},
         q.op = "requirement" => q.about \in Items,
         q.op = "economic" => q.about \in Items /\ q.value \in Users \cup {NoUser},
         q.op = "draft" => /\ q.about \in Drafts /\ q.row = draft[q.about]
                           /\ draft[q.about].exists
  PROVE  IInv'
  <1> DEFINE rows == [t \in TaskIds |-> IF t \in ids THEN task[t] ELSE NoTask]
             X == [q EXCEPT !.ids = ids, !.rows = rows]
  <1>0. TypeOK  BY DEF IInv
  <1>1. rows \in [TaskIds -> Row] /\ ids \subseteq TaskIds
        /\ \A t \in ids : rows[t] = task[t] /\ Exists(t) /\ task[t] \in Task /\ t <= created
    BY <1>0 DEF IInv, CreatedOK, TypeOK, Row, Existing, Exists
  <1>2. run' = [run EXCEPT ![s] = X] /\ run[s].op = "none"
    BY DEF Begin
  <1>3. /\ overlapped' = (overlapped \/ \E r \in Sessions : run[r].op # "none")
        /\ task' = task /\ created' = created /\ sent' = sent /\ linked' = linked
        /\ offer' = offer /\ draft' = draft /\ silent' = silent
    BY DEF Begin
  <1> HIDE DEF rows
  <1>4. /\ X \in Request /\ X.op = q.op /\ X.ids = ids /\ X.rows = rows
        /\ X.field = q.field /\ X.value = q.value /\ X.about = q.about
        /\ X.row = q.row
    BY <1>1 DEF Request
  <1> HIDE DEF X
  <1>5. /\ run'[s] = X /\ \A r \in Sessions \ {s} : run'[r] = run[r]
        /\ run' \in [Sessions -> Request]
    BY <1>0, <1>2, <1>4, RunAfter
  <1>6. TypeOK'
    BY <1>0, <1>3, <1>5 DEF TypeOK
  <1>7. ~overlapped' => ~overlapped /\ \A r \in Sessions : run[r].op = "none"
    BY <1>3
  <1>8. RequestOK'
    BY <1>1, <1>3, <1>4, <1>5 DEF IInv, RequestOK
  <1>9. StampOK'
    BY <1>1, <1>3, <1>4, <1>5 DEF IInv, StampOK, Exists
  <1>10. IdleOK' /\ AloneOK'
    BY <1>4, <1>5, <1>7 DEF IInv, IdleOK, AloneOK
  <1>11. ReadOK'
    BY <1>1, <1>3, <1>4, <1>5, <1>7 DEF IInv, IdleOK, ReadOK, Exists
  <1>12. DraftsOK'
    BY <1>3, <1>4, <1>5, <1>7 DEF IInv, DraftsOK
  <1>13. CreatedOK' /\ AssigneeIsTold' /\ CompletionIsStamped'
    BY <1>3 DEF IInv, CreatedOK, AssigneeIsTold, CompletionIsStamped, Exists, Existing
  <1>14. FlaggedOK' /\ DueNoticeOnce' /\ DraftOwnsItsTask'
    BY <1>3, <1>7 DEF IInv, FlaggedOK, DueNoticeOnce, DraftOwnsItsTask, Exists, Existing
  <1> QED
    BY <1>6, <1>8, <1>9, <1>10, <1>11, <1>12, <1>13, <1>14 DEF IInv

LEMMA BeginsStep == ASSUME IInv, Begins PROVE IInv'
  <1> USE IdleIsRequest
  <1>1. ASSUME NEW s \in Sessions, NEW t \in TaskIds, NEW c \in Changes,
               BeginUpdate(s, t, c)
        PROVE  IInv'
    <2> DEFINE q == [Idle EXCEPT !.op = "update", !.field = c.field, !.value = c.value]
    <2>1. /\ c.field \in {"status", "assignee", "metadata", "due"}
          /\ c.value \in TaskStatus \cup Users \cup {NoUser}
          /\ c.field = "status" => c.value \in TaskStatus
          /\ c.field = "assignee" => c.value \in Users \cup {NoUser}
      BY ValuesAssumption DEF Changes
    <2>2. q \in Request /\ q.op = "update" /\ q.field = c.field /\ q.value = c.value
      BY <2>1 DEF Request
    <2>3. {t} \in SUBSET Existing /\ Begin(s, q, {t})
      BY <1>1 DEF BeginUpdate, Existing
    <2> HIDE DEF q
    <2> QED  BY <2>1, <2>2, <2>3, BeginStep
  <1>2. ASSUME NEW s \in Sessions, NEW t \in TaskIds, BeginDelete(s, t) PROVE IInv'
    <2> DEFINE q == [Idle EXCEPT !.op = "delete"]
    <2>2. q \in Request /\ q.op = "delete" /\ q.field = "none"  BY DEF Request
    <2>3. {t} \in SUBSET Existing /\ Begin(s, q, {t})
      BY <1>2 DEF BeginDelete, Existing
    <2> HIDE DEF q
    <2> QED  BY <2>2, <2>3, BeginStep
  <1>3. ASSUME NEW s \in Sessions, BeginDue(s) PROVE IInv'
    <2> DEFINE q == [Idle EXCEPT !.op = "due"]
               ids == {t \in Existing : /\ task[t].assignee = UserOf[s]
                                        /\ task[t].status \notin Closed}
    <2>2. q \in Request /\ q.op = "due" /\ q.field = "none"  BY DEF Request
    <2>3. ids \in SUBSET Existing /\ Begin(s, q, ids)  BY <1>3 DEF BeginDue
    <2> HIDE DEF q, ids
    <2> QED  BY <2>2, <2>3, BeginStep
  <1>4. ASSUME NEW s \in Sessions, NEW ids \in SUBSET Existing, NEW c \in Changes,
               BeginBulk(s, ids, c)
        PROVE  IInv'
    <2> DEFINE q == [Idle EXCEPT !.op = "bulk", !.field = c.field, !.value = c.value]
    <2>1. /\ c.field \in {"status", "assignee"}
          /\ c.value \in TaskStatus \cup Users \cup {NoUser}
          /\ c.field = "status" => c.value \in TaskStatus
          /\ c.field = "assignee" => c.value \in Users \cup {NoUser}
      BY <1>4, ValuesAssumption DEF Changes, BeginBulk
    <2>2. q \in Request /\ q.op = "bulk" /\ q.field = c.field /\ q.value = c.value
      BY <2>1 DEF Request
    <2>3. Begin(s, q, ids)  BY <1>4 DEF BeginBulk
    <2> HIDE DEF q
    <2> QED  BY <2>1, <2>2, <2>3, BeginStep
  <1>5. ASSUME NEW s \in Sessions, NEW i \in Items, NEW force \in BOOLEAN,
               BeginRequirement(s, i, force)
        PROVE  IInv'
    <2> DEFINE q == [Idle EXCEPT !.op = "requirement", !.about = i, !.force = force]
    <2>2. q \in Request /\ q.op = "requirement" /\ q.field = "none" /\ q.about = i
      BY DEF Request
    <2>3. OfTender \in SUBSET Existing /\ Begin(s, q, OfTender)
      BY <1>5 DEF BeginRequirement, OfTender
    <2> HIDE DEF q
    <2> QED  BY <2>2, <2>3, BeginStep
  <1>6. ASSUME NEW s \in Sessions, NEW i \in Items, NEW u \in Users \cup {NoUser},
               BeginEconomic(s, i, u)
        PROVE  IInv'
    <2> DEFINE q == [Idle EXCEPT !.op = "economic", !.about = i, !.value = u,
                                 !.row = offer[i]]
    <2>1. offer[i] \in Draft  BY DEF IInv, TypeOK
    <2>2. /\ q \in Request /\ q.op = "economic" /\ q.field = "none" /\ q.about = i
          /\ q.value = u
      BY <2>1 DEF Request
    <2>3. OfTender \in SUBSET Existing /\ Begin(s, q, OfTender)
      BY <1>6 DEF BeginEconomic, OfTender
    <2> HIDE DEF q
    <2> QED  BY <2>2, <2>3, BeginStep
  <1>7. ASSUME NEW s \in Sessions, NEW d \in Drafts, BeginDraft(s, d) PROVE IInv'
    <2> DEFINE q == [Idle EXCEPT !.op = "draft", !.about = d, !.row = draft[d]]
    <2>1. draft[d] \in Draft  BY DEF IInv, TypeOK
    <2>2. /\ q \in Request /\ q.op = "draft" /\ q.field = "none" /\ q.about = d
          /\ q.row = draft[d]
      BY <2>1 DEF Request
    <2>3. {} \in SUBSET Existing /\ Begin(s, q, {}) /\ draft[d].exists
      BY <1>7 DEF BeginDraft
    <2> HIDE DEF q
    <2> QED  BY <2>2, <2>3, BeginStep
  <1> QED
    BY <1>1, <1>2, <1>3, <1>4, <1>5, <1>6, <1>7 DEF Begins

-----------------------------------------------------------------------------
(* Requests that commit changes of rows                                    *)

\* The notices of a row are in its metadata, each once.
FlagsOK(t) ==
  /\ \A u \in Users, n \in DueNotices : sent[t][u][n] = 0 \/ n \in task[t].notified
  /\ \A n \in DueNotices, u, v \in Users :
       sent[t][u][n] + (IF u = v THEN 0 ELSE sent[t][v][n]) <= 1

LEMMA FlagsKept ==
  ASSUME IInv, ~overlapped, NEW t \in TaskIds, Exists(t) PROVE FlagsOK(t)
  BY DEF IInv, FlaggedOK, DueNoticeOnce, FlagsOK, Existing

\* Rows that are kept, or changed well, keep the invariants.
LEMMA RowsStep ==
  ASSUME IInv, NEW s \in Sessions, run[s].op # "none", Done(s), TypeOK',
         created' = created, draft' = draft,
         \A t \in TaskIds : Exists(t)' =>
           /\ Exists(t) /\ (task[t].completed => task'[t].completed)
           /\ task'[t].about = task[t].about /\ RowOK(t)'
           /\ ~overlapped => FlagsOK(t)',
         \A t \in TaskIds : ~Exists(t) => sent'[t] = sent[t] /\ ~Exists(t)',
         \A t \in TaskIds : Exists(t) => Exists(t)'
  PROVE  IInv'
  <1>1. created' \in created..MaxTasks  BY TasksAssumption DEF IInv, TypeOK
  <1>2. /\ overlapped' = overlapped
        /\ RequestOK' /\ StampOK' /\ IdleOK' /\ AloneOK' /\ ReadOK' /\ DraftsOK'
    BY <1>1, DoneRun DEF IInv, DraftsOK
  <1>3. CreatedOK'
    BY DEF IInv, CreatedOK, Exists
  <1>4. AssigneeIsTold' /\ CompletionIsStamped'
    BY DEF RowOK, AssigneeIsTold, CompletionIsStamped, Existing
  <1>5. FlaggedOK'
    BY <1>2 DEF FlaggedOK, FlagsOK, Existing
  <1>6. DueNoticeOnce'
    <2> SUFFICES ASSUME ~overlapped, NEW t \in TaskIds, NEW n \in DueNotices,
                        NEW u \in Users, NEW v \in Users
                 PROVE  sent'[t][u][n] + (IF u = v THEN 0 ELSE sent'[t][v][n]) <= 1
      BY <1>2 DEF DueNoticeOnce
    <2>1. CASE Exists(t)
      BY <2>1 DEF FlagsOK
    <2>2. CASE ~Exists(t)
      <3>1. sent'[t] = sent[t]  BY <2>2
      <3> QED  BY <3>1 DEF IInv, DueNoticeOnce
    <2> QED  BY <2>1, <2>2
  <1>7. DraftOwnsItsTask'
    BY <1>2 DEF IInv, DraftOwnsItsTask, Existing
  <1> QED  BY <1>2, <1>3, <1>4, <1>5, <1>6, <1>7 DEF IInv

\* A row that a step leaves alone.
LEMMA SameRow ==
  ASSUME IInv, NEW t \in TaskIds, Exists(t),
         task'[t] = task[t], sent'[t] = sent[t], silent'[t] = silent[t]
  PROVE  /\ Exists(t)' /\ RowOK(t)' /\ (~overlapped => FlagsOK(t)')
         /\ task[t].completed => task'[t].completed
         /\ task'[t].about = task[t].about
  <1>1. RowOK(t)  BY RowsOK DEF IInv, Existing
  <1>2. RowOK(t)'  BY <1>1 DEF RowOK
  <1>3. ~overlapped => FlagsOK(t)'  BY FlagsKept DEF FlagsOK
  <1> QED  BY <1>2, <1>3 DEF Exists

LEMMA UpdatedFields ==
  ASSUME NEW r \in Request, NEW t \in TaskIds, r.rows[t] \in Task, r.field # "due",
         r.field = "status" => r.value \in TaskStatus,
         r.field = "assignee" => r.value \in Users \cup {NoUser}
  PROVE  /\ Updated(r, t) \in Task
         /\ Updated(r, t).notified = r.rows[t].notified
         /\ r.rows[t].completed => Updated(r, t).completed
         /\ /\ Updated(r, t).status # r.rows[t].status
            /\ Updated(r, t).status = "completada"
            => Updated(r, t).completed
  <1>1. CASE r.field = "status"
    BY <1>1 DEF Updated, Task
  <1>2. CASE r.field = "assignee"
    BY <1>2 DEF Updated, Task
  <1>3. CASE r.field \notin {"status", "assignee"}
    BY <1>3 DEF Updated
  <1> QED  BY <1>1, <1>2, <1>3

LEMMA UpdatedCols ==
  ASSUME NEW r, NEW t
  PROVE  /\ "status" \in UpdatedColumns(r, t) <=> Updated(r, t).status # r.rows[t].status
         /\ "assignee" \in UpdatedColumns(r, t) <=> Updated(r, t).assignee # r.rows[t].assignee
         /\ "completed" \in UpdatedColumns(r, t) <=> Updated(r, t).completed # r.rows[t].completed
  BY DEF UpdatedColumns

LEMMA UpdateCounts ==
  ASSUME NEW counts \in Counts, NEW new \in Task, NEW cols, NEW actor
  PROVE  /\ UpdateNotices(counts, new, cols, actor) \in Counts
         /\ \A u \in Users : UpdateNotices(counts, new, cols, actor)[u]["assigned"]
                               >= counts[u]["assigned"]
         /\ \A u \in Users, n \in DueNotices :
              UpdateNotices(counts, new, cols, actor)[u][n] = counts[u][n]
         /\ "assignee" \in cols /\ new.assignee \in Users =>
              UpdateNotices(counts, new, cols, actor)[new.assignee]["assigned"] > 0
  <1> DEFINE N == UpdateNotices(counts, new, cols, actor)
  <1>1. \A u \in Users : counts[u]["assigned"] >= counts[u]["assigned"]
    BY DEF Counts, Notices
  <1>2. new.assignee \in Users \cup {NoUser}  BY TaskFields
  <1>3. CASE "assignee" \in cols
    <2>1. N = NotifyAssigned(counts, new.assignee)  BY <1>3 DEF UpdateNotices
    <2> HIDE DEF N
    <2> QED  BY <1>2, <1>3, <2>1, AssignedCounts DEF N
  <1>4. CASE "assignee" \notin cols /\ "status" \in cols /\ new.status = "completada"
    <2>1. N = NotifyCompleted(counts, new, actor)  BY <1>4 DEF UpdateNotices
    <2> HIDE DEF N
    <2> QED  BY <1>1, <1>4, <2>1, CompletedCounts DEF N
  <1>5. CASE /\ "assignee" \notin cols
             /\ ~("status" \in cols /\ new.status = "completada")
    <2>1. N = counts  BY <1>5 DEF UpdateNotices
    <2> HIDE DEF N
    <2> QED  BY <1>1, <1>5, <2>1 DEF N
  <1> QED  BY <1>3, <1>4, <1>5

LEMMA FinishUpdateStep ==
  ASSUME IInv, NEW s \in Sessions, NEW t \in TaskIds, FinishUpdate(s, t)
  PROVE  IInv'
  <1> DEFINE r == run[s]
             new == Updated(r, t)
             cols == UpdatedColumns(r, t)
             old == r.rows[t]
  <1>0. TypeOK  BY DEF IInv
  <1>1. /\ r.op = "update" /\ r.ids = {t} /\ Exists(t) /\ r.field # "due"
        /\ task' = [task EXCEPT ![t] = Merged(task[t], new, cols)]
        /\ sent' = [sent EXCEPT ![t] = UpdateNotices(sent[t], new, cols, UserOf[s])]
        /\ silent' = [silent EXCEPT ![t] = silent[t] \ cols]
        /\ Done(s) /\ UNCHANGED <<created, linked, offer, draft>>
    BY DEF FinishUpdate
  <1>2. r \in Request /\ old \in Task
    BY <1>0, <1>1, RequestFields DEF IInv, RequestOK
  <1>3. /\ new \in Task /\ new.notified = old.notified
        /\ old.completed => new.completed
        /\ new.status # old.status /\ new.status = "completada" => new.completed
    BY <1>1, <1>2, UpdatedFields DEF IInv, RequestOK
  <1>4. /\ "status" \in cols <=> new.status # old.status
        /\ "assignee" \in cols <=> new.assignee # old.assignee
        /\ "completed" \in cols <=> new.completed # old.completed
    BY UpdatedCols
  <1>5. old.completed => task[t].completed
    BY <1>1 DEF IInv, StampOK
  <1>6. ~overlapped => old.notified = task[t].notified
    BY <1>1 DEF IInv, ReadOK
  <1> HIDE DEF new, cols, old, r
  <1>7. task[t] \in Task  BY <1>0, <1>1 DEF TypeOK, Row, Exists
  <1> DEFINE row == Merged(task[t], new, cols)
             counts == UpdateNotices(sent[t], new, cols, UserOf[s])
  <1>8. /\ row \in Task
        /\ row.status = IF "status" \in cols THEN new.status ELSE task[t].status
        /\ row.assignee = IF "assignee" \in cols THEN new.assignee ELSE task[t].assignee
        /\ row.completed = IF "completed" \in cols THEN new.completed ELSE task[t].completed
        /\ row.notified = IF "metadata" \in cols THEN new.notified ELSE task[t].notified
        /\ row.about = task[t].about
    <2> DEFINE st == IF "status" \in cols THEN new.status ELSE task[t].status
               as == IF "assignee" \in cols THEN new.assignee ELSE task[t].assignee
               co == IF "completed" \in cols THEN new.completed ELSE task[t].completed
               no == IF "metadata" \in cols THEN new.notified ELSE task[t].notified
    <2>1. row = [task[t] EXCEPT !.status = st, !.assignee = as, !.completed = co,
                                !.notified = no]
      BY DEF Merged
    <2>2. /\ st \in TaskStatus /\ as \in Users \cup {NoUser} /\ co \in BOOLEAN
          /\ no \subseteq DueNotices
      BY <1>3, <1>7, TaskFields
    <2> HIDE DEF st, as, co, no, row
    <2>3. /\ row \in Task /\ row.status = st /\ row.assignee = as
          /\ row.completed = co /\ row.notified = no /\ row.about = task[t].about
      BY <1>7, <2>1, <2>2 DEF Task
    <2> QED  BY <2>3 DEF st, as, co, no
  <1>9. sent[t] \in Counts  BY <1>0, TypedCounts
  <1>10. /\ counts \in Counts
         /\ \A u \in Users : counts[u]["assigned"] >= sent[t][u]["assigned"]
         /\ \A u \in Users, n \in DueNotices : counts[u][n] = sent[t][u][n]
         /\ "assignee" \in cols /\ new.assignee \in Users =>
              counts[new.assignee]["assigned"] > 0
    BY <1>3, <1>9, UpdateCounts
  <1> HIDE DEF row, counts
  <1>11. /\ task' = [task EXCEPT ![t] = row] /\ sent' = [sent EXCEPT ![t] = counts]
    BY <1>1 DEF row, counts
  <1>12. /\ task'[t] = row /\ sent'[t] = counts /\ silent'[t] = silent[t] \ cols
         /\ \A x \in TaskIds \ {t} : /\ task'[x] = task[x] /\ sent'[x] = sent[x]
                                     /\ silent'[x] = silent[x]
         /\ task' \in [TaskIds -> Row] /\ sent' \in [TaskIds -> Counts]
         /\ silent' \in [TaskIds -> SUBSET {"status", "assignee"}]
    BY <1>0, <1>1, <1>8, <1>10, <1>11, TypedCounts DEF TypeOK, Row
  <1>13. run' \in [Sessions -> Request] /\ overlapped' = overlapped
    BY <1>0, <1>1, RunAfter, IdleIsRequest DEF Done
  <1>14. TypeOK'
    BY <1>0, <1>1, <1>12, <1>13 DEF TypeOK, Counts
  <1>15. RowOK(t)  BY <1>1, RowsOK DEF IInv, Existing
  <1>16. RowOK(t)'
    <2>1. task[t].assignee \in Users \cup {NoUser} /\ new.assignee \in Users \cup {NoUser}
      BY <1>3, <1>7, TaskFields
    <2>2. \A u \in Users : sent[t][u]["assigned"] \in Nat /\ counts[u]["assigned"] \in Nat
      BY <1>9, <1>10, SMTT(30) DEF Counts, Notices
    <2>3. \/ row.assignee = NoUser
          \/ "assignee" \in silent[t] \ cols
          \/ counts[row.assignee]["assigned"] > 0
      <3>1. CASE "assignee" \in cols
        BY <1>8, <1>10, <2>1, <3>1
      <3>2. CASE "assignee" \notin cols
        <4>1. row.assignee = task[t].assignee  BY <1>8, <3>2
        <4>2. \/ task[t].assignee = NoUser \/ "assignee" \in silent[t]
              \/ sent[t][task[t].assignee]["assigned"] > 0
          BY <1>15 DEF RowOK
        <4>3. ASSUME task[t].assignee \in Users,
                     sent[t][task[t].assignee]["assigned"] > 0
              PROVE  counts[task[t].assignee]["assigned"] > 0
          BY <1>10, <2>2, <4>3
        <4> QED  BY <2>1, <3>2, <4>1, <4>2, <4>3
      <3> QED  BY <3>1, <3>2
    <2>4. row.status = "completada" /\ "status" \notin silent[t] \ cols => row.completed
      <3>1. task[t].status = "completada" /\ "status" \notin silent[t] => task[t].completed
        BY <1>15 DEF RowOK
      <3>2. row.completed = (new.completed \/ task[t].completed)
        <4>1. CASE "completed" \in cols
          BY <1>2, <1>3, <1>4, <1>7, <1>8, <4>1, TaskFields
        <4>2. CASE "completed" \notin cols
          BY <1>4, <1>5, <1>7, <1>8, <4>2, <1>3, <1>2, TaskFields
        <4> QED  BY <4>1, <4>2
      <3> QED  BY <1>3, <1>4, <1>8, <3>1, <3>2
    <2> QED  BY <1>12, <2>3, <2>4 DEF RowOK
  <1>17. task[t].completed => row.completed
    BY <1>3, <1>4, <1>5, <1>8, <1>2, <1>7, TaskFields
  <1>18. ~overlapped => FlagsOK(t)'
    <2> SUFFICES ASSUME ~overlapped PROVE FlagsOK(t)'  OBVIOUS
    <2>1. FlagsOK(t)  BY <1>1, FlagsKept
    <2>2. row.notified = task[t].notified  BY <1>3, <1>6, <1>8
    <2>3. \A u \in Users, n \in DueNotices : sent'[t][u][n] = sent[t][u][n]
      BY <1>10, <1>12
    <2> QED  BY <1>12, <2>1, <2>2, <2>3 DEF FlagsOK
  <1>19. Exists(t)'  BY <1>8, <1>12, NoTaskAssumption DEF Exists
  <1>20. /\ \A x \in TaskIds : Exists(x)' =>
              /\ Exists(x) /\ (task[x].completed => task'[x].completed)
              /\ task'[x].about = task[x].about /\ RowOK(x)'
              /\ ~overlapped => FlagsOK(x)'
         /\ \A x \in TaskIds : ~Exists(x) => sent'[x] = sent[x] /\ ~Exists(x)'
         /\ \A x \in TaskIds : Exists(x) => Exists(x)'
    <2> SUFFICES ASSUME NEW x \in TaskIds
        PROVE /\ Exists(x)' =>
                   /\ Exists(x) /\ (task[x].completed => task'[x].completed)
                   /\ task'[x].about = task[x].about /\ RowOK(x)'
                   /\ ~overlapped => FlagsOK(x)'
              /\ ~Exists(x) => sent'[x] = sent[x] /\ ~Exists(x)'
              /\ Exists(x) => Exists(x)'
      OBVIOUS
    <2>1. CASE x = t
      BY <1>1, <1>8, <1>12, <1>16, <1>17, <1>18, <1>19, <2>1
    <2>2. CASE x # t
      <3>1. /\ task'[x] = task[x] /\ sent'[x] = sent[x] /\ silent'[x] = silent[x]
        BY <1>12, <2>2
      <3>2. Exists(x)' <=> Exists(x)  BY <3>1 DEF Exists
      <3> QED  BY <3>1, <3>2, SameRow
    <2> QED  BY <2>1, <2>2
  <1>21. run[s].op # "none"  BY <1>1 DEF r
  <1> QED  BY <1>1, <1>14, <1>20, <1>21, RowsStep

\* Changing rows that exist, in a way that keeps them: the rest of a commit.
LEMMA KeepingStep ==
  ASSUME IInv, NEW s \in Sessions, run[s].op # "none", Done(s), TypeOK',
         created' = created, draft' = draft, NEW T \in SUBSET Existing,
         \A t \in T : /\ Exists(t)' /\ RowOK(t)'
                      /\ task'[t].completed = task[t].completed
                      /\ task'[t].about = task[t].about
                      /\ ~overlapped => FlagsOK(t)',
         \A t \in TaskIds \ T : /\ task'[t] = task[t] /\ sent'[t] = sent[t]
                                /\ silent'[t] = silent[t]
  PROVE  IInv'
  <1>1. ASSUME NEW t \in TaskIds
        PROVE /\ Exists(t)' =>
                   /\ Exists(t) /\ (task[t].completed => task'[t].completed)
                   /\ task'[t].about = task[t].about /\ RowOK(t)'
                   /\ ~overlapped => FlagsOK(t)'
              /\ ~Exists(t) => sent'[t] = sent[t] /\ ~Exists(t)'
              /\ Exists(t) => Exists(t)'
    <2>1. CASE t \in T
      BY <2>1 DEF Existing
    <2>2. CASE t \notin T
      <3>1. /\ task'[t] = task[t] /\ sent'[t] = sent[t] /\ silent'[t] = silent[t]
        BY <2>2
      <3>2. Exists(t)' <=> Exists(t)  BY <3>1 DEF Exists
      <3> QED  BY <3>1, <3>2, SameRow
    <2> QED  BY <2>1, <2>2
  <1> QED  BY <1>1, RowsStep

LEMMA FinishDueStep == ASSUME IInv, NEW s \in Sessions, FinishDue(s) PROVE IInv'
  <1> DEFINE r == run[s]
             T == Told(r)
             flagged(t) == [r.rows[t] EXCEPT !.notified = r.rows[t].notified \cup DueNotice(r.rows[t])]
             n(t) == CHOOSE m \in DueNotice(r.rows[t]) : TRUE
  <1>0. TypeOK  BY DEF IInv
  <1>1. /\ r.op = "due" /\ T \subseteq Existing /\ Done(s)
        /\ task' = [t \in TaskIds |->
                      IF t \in T THEN Merged(task[t], flagged(t), {"metadata"})
                                 ELSE task[t]]
        /\ sent' = [t \in TaskIds |->
                      IF t \in T THEN Notified(sent[t], {UserOf[s]}, n(t))
                                 ELSE sent[t]]
        /\ UNCHANGED <<created, linked, offer, draft, silent>>
    BY DEF FinishDue
  <1>2. Existing \subseteq TaskIds  BY DEF Existing
  <1>3. ASSUME NEW t \in T
        PROVE  /\ t \in TaskIds /\ Exists(t) /\ t \in r.ids
               /\ task[t] \in Task /\ r.rows[t] \in Task /\ flagged(t) \in Task
               /\ flagged(t).notified = r.rows[t].notified \cup DueNotice(r.rows[t])
               /\ n(t) \in DueNotices \ r.rows[t].notified
               /\ n(t) \in DueNotice(r.rows[t])
    <2>1. t \in TaskIds /\ Exists(t) /\ t \in r.ids /\ DueNotice(r.rows[t]) # {}
      BY <1>1 DEF Existing, Told
    <2>2. task[t] \in Task /\ r.rows[t] \in Task
      BY <1>0, <2>1 DEF TypeOK, Row, Exists, IInv, RequestOK
    <2>3. DueNotice(r.rows[t]) \subseteq DueNotices \ r.rows[t].notified
      BY DEF DueNotice
    <2>4. n(t) \in DueNotice(r.rows[t])  BY <2>1
    <2>5. flagged(t) \in Task
          /\ flagged(t).notified = r.rows[t].notified \cup DueNotice(r.rows[t])
      BY <2>2, <2>3 DEF Task
    <2> QED  BY <2>1, <2>2, <2>3, <2>4, <2>5
  <1> HIDE DEF T, flagged, n
  <1>4. DueNotices \subseteq Notices /\ "assigned" \in Notices \ DueNotices
    BY DEF DueNotices, Notices
  <1>5. sent \in [TaskIds -> Counts]  BY <1>0, TypedCounts
  <1>6. ASSUME NEW t \in T
        PROVE  /\ task'[t] \in Task /\ RowKept(t)
               /\ task'[t].notified = r.rows[t].notified \cup DueNotice(r.rows[t])
               /\ sent'[t] = Notified(sent[t], {UserOf[s]}, n(t))
               /\ sent'[t] \in Counts
    <2>1. task'[t] = Merged(task[t], flagged(t), {"metadata"})
          /\ sent'[t] = Notified(sent[t], {UserOf[s]}, n(t))
      BY <1>1, <1>3
    <2>2. /\ task'[t] \in Task /\ task'[t].status = task[t].status
          /\ task'[t].assignee = task[t].assignee
          /\ task'[t].completed = task[t].completed
          /\ task'[t].about = task[t].about
          /\ task'[t].notified = flagged(t).notified
      BY <1>3, <2>1 DEF Merged, Task
    <2>3. /\ sent'[t] \in Counts
          /\ \A u \in Users : sent'[t][u]["assigned"] = sent[t][u]["assigned"]
      BY <1>3, <1>4, <1>5, <2>1, NotifiedCounts
    <2>4. \A u \in Users : sent[t][u]["assigned"] >= sent[t][u]["assigned"]
      BY <1>3, <1>4, <1>5 DEF Counts
    <2>5. silent'[t] = silent[t]  BY <1>1
    <2> QED  BY <1>3, <2>1, <2>2, <2>3, <2>4, <2>5 DEF RowKept
  <1>7. \A t \in TaskIds \ T : task'[t] = task[t] /\ sent'[t] = sent[t]
                              /\ silent'[t] = silent[t]
    BY <1>1
  <1>8. TypeOK'
    <2>1. run' \in [Sessions -> Request] /\ overlapped' = overlapped
      BY <1>0, <1>1, RunAfter, IdleIsRequest DEF Done
    <2>2. /\ \A t \in TaskIds : task'[t] \in Row /\ sent'[t] \in Counts
      <3>1. \A t \in TaskIds : task[t] \in Row /\ sent[t] \in Counts
        BY <1>0, <1>5 DEF TypeOK
      <3> QED  BY <1>6, <1>7, <3>1 DEF Row
    <2>3. task' \in [TaskIds -> Row] /\ sent' \in [TaskIds -> Counts]
      BY <1>1, <2>2
    <2> QED  BY <1>0, <1>1, <2>1, <2>3 DEF TypeOK, Counts
  <1>9. ASSUME NEW t \in T PROVE Exists(t)' /\ RowOK(t)'
    <2>1. RowOK(t)  BY <1>3, RowsOK DEF IInv, Existing
    <2> QED  BY <1>0, <1>3, <1>6, <1>8, <2>1, KeptIsOK, NoTaskAssumption DEF Exists
  <1>10. ASSUME NEW t \in T, ~overlapped PROVE FlagsOK(t)'
    <2>1. FlagsOK(t)  BY <1>3, <1>10, FlagsKept
    <2>2. r.rows[t].notified = task[t].notified
      BY <1>3, <1>10 DEF IInv, ReadOK
    <2>3. \A u \in Users : sent[t][u][n(t)] = 0
      BY <1>3, <2>1, <2>2 DEF FlagsOK
    <2>4. /\ \A u \in Users, m \in DueNotices : m # n(t) => sent'[t][u][m] = sent[t][u][m]
          /\ \A u \in Users : sent'[t][u][n(t)] \in 0..1
          /\ \A u \in Users : u # UserOf[s] => sent'[t][u][n(t)] = 0
      BY <1>3, <1>4, <1>5, <1>6, <2>3, NotifiedCounts
    <2>5. \A u \in Users, m \in DueNotices : sent'[t][u][m] = 0 \/ m \in task'[t].notified
      BY <1>3, <1>6, <2>1, <2>2, <2>4 DEF FlagsOK
    <2>6. ASSUME NEW m \in DueNotices, NEW u \in Users, NEW v \in Users
          PROVE  sent'[t][u][m] + (IF u = v THEN 0 ELSE sent'[t][v][m]) <= 1
      <3>1. CASE m # n(t)
        BY <2>1, <2>4, <3>1 DEF FlagsOK
      <3>2. CASE m = n(t)
        BY <2>4, <3>2
      <3> QED  BY <3>1, <3>2
    <2> QED  BY <2>5, <2>6 DEF FlagsOK
  <1>11. \A t \in T : /\ task'[t].completed = task[t].completed
                      /\ task'[t].about = task[t].about
    BY <1>6 DEF RowKept
  <1>12. T \in SUBSET Existing /\ run[s].op # "none"  BY <1>1
  <1> HIDE DEF r
  <1> QED  BY <1>1, <1>7, <1>8, <1>9, <1>10, <1>11, <1>12, KeepingStep

LEMMA FinishBulkStep == ASSUME IInv, NEW s \in Sessions, FinishBulk(s) PROVE IInv'
  <1> DEFINE r == run[s]
             T == Changed(r)
             set(t) == [r.rows[t] EXCEPT ![r.field] = r.value]
  <1>0. TypeOK  BY DEF IInv
  <1>1. /\ r.op = "bulk" /\ T \subseteq Existing /\ Done(s)
        /\ task' = [t \in TaskIds |->
                      IF t \in T THEN Merged(task[t], set(t), {r.field})
                                 ELSE task[t]]
        /\ silent' = [t \in TaskIds |->
                        IF t \in T THEN silent[t] \cup {r.field} ELSE silent[t]]
        /\ UNCHANGED <<created, sent, linked, offer, draft>>
    BY DEF FinishBulk
  <1>2. /\ r.field \in {"status", "assignee"}
        /\ r.field = "status" => r.value \in TaskStatus
        /\ r.field = "assignee" => r.value \in Users \cup {NoUser}
    BY <1>1 DEF IInv, RequestOK
  <1>3. ASSUME NEW t \in T
        PROVE  /\ t \in TaskIds /\ Exists(t) /\ task[t] \in Task /\ r.rows[t] \in Task
    <2>1. t \in TaskIds /\ Exists(t) /\ t \in r.ids
      BY <1>1 DEF Existing, Changed
    <2> QED  BY <1>0, <2>1 DEF TypeOK, Row, Exists, IInv, RequestOK
  <1>4. ASSUME NEW t \in T
        PROVE  /\ task'[t] \in Task
               /\ task'[t].completed = task[t].completed
               /\ task'[t].about = task[t].about
               /\ task'[t].notified = task[t].notified
               /\ r.field # "status" => task'[t].status = task[t].status
               /\ r.field # "assignee" => task'[t].assignee = task[t].assignee
    <2>1. task'[t] = Merged(task[t], set(t), {r.field})  BY <1>1, <1>3
    <2>2. CASE r.field = "status"
      BY <1>2, <1>3, <2>1, <2>2 DEF Merged, Task
    <2>3. CASE r.field = "assignee"
      BY <1>2, <1>3, <2>1, <2>3 DEF Merged, Task
    <2> QED  BY <1>2, <2>2, <2>3
  <1> HIDE DEF T, set
  <1>5. \A t \in T : silent'[t] = silent[t] \cup {r.field} /\ sent'[t] = sent[t]
    BY <1>1, <1>3
  <1>6. \A t \in TaskIds \ T : task'[t] = task[t] /\ sent'[t] = sent[t]
                              /\ silent'[t] = silent[t]
    BY <1>1
  <1>7. TypeOK'
    <2>1. run' \in [Sessions -> Request] /\ overlapped' = overlapped
      BY <1>0, <1>1, RunAfter, IdleIsRequest DEF Done
    <2>2. \A t \in TaskIds : /\ task'[t] \in Row
                             /\ silent'[t] \in SUBSET {"status", "assignee"}
      <3>1. \A t \in TaskIds : /\ task[t] \in Row
                               /\ silent[t] \in SUBSET {"status", "assignee"}
        BY <1>0 DEF TypeOK
      <3> QED  BY <1>2, <1>3, <1>4, <1>5, <1>6, <3>1 DEF Row
    <2>3. /\ task' \in [TaskIds -> Row]
          /\ silent' \in [TaskIds -> SUBSET {"status", "assignee"}]
      BY <1>1, <2>2
    <2> QED  BY <1>0, <1>1, <2>1, <2>3 DEF TypeOK
  <1>8. ASSUME NEW t \in T
        PROVE  Exists(t)' /\ RowOK(t)' /\ (~overlapped => FlagsOK(t)')
    <2>1. RowOK(t)  BY <1>3, RowsOK DEF IInv, Existing
    <2>2. RowOK(t)'
      <3>1. CASE r.field = "status"
        BY <1>3, <1>4, <1>5, <2>1, <3>1 DEF RowOK
      <3>2. CASE r.field = "assignee"
        BY <1>3, <1>4, <1>5, <2>1, <3>2 DEF RowOK
      <3> QED  BY <1>2, <3>1, <3>2
    <2>3. ~overlapped => FlagsOK(t)'
      BY <1>3, <1>4, <1>5, FlagsKept DEF FlagsOK
    <2> QED  BY <1>4, <2>2, <2>3, NoTaskAssumption DEF Exists
  <1>9. T \in SUBSET Existing /\ run[s].op # "none"  BY <1>1
  <1> HIDE DEF r
  <1> QED  BY <1>1, <1>4, <1>6, <1>7, <1>8, <1>9, KeepingStep

-----------------------------------------------------------------------------
(* Requests that cancel duplicates, create tasks or delete one             *)

LEMMA DedupedRows ==
  ASSUME IInv, NEW s \in Sessions, Duplicates(run[s]) \subseteq Existing
  PROVE  /\ Deduped(run[s]) \in [TaskIds -> Row]
         /\ \A t \in TaskIds : Deduped(run[s])[t] # NoTask <=> Exists(t)
         /\ \A t \in Existing :
              /\ Deduped(run[s])[t].assignee = task[t].assignee
              /\ Deduped(run[s])[t].completed = task[t].completed
              /\ Deduped(run[s])[t].status \in {task[t].status, "cancelada"}
              /\ Deduped(run[s])[t].about = task[t].about
              /\ ~overlapped => Deduped(run[s])[t].notified = task[t].notified
  <1> DEFINE r == run[s]
             D == Duplicates(r)
             rows == Deduped(r)
             new(t) == [r.rows[t] EXCEPT !.status = "cancelada"]
  <1>0. TypeOK  BY DEF IInv
  <1>1. ASSUME NEW t \in TaskIds
        PROVE  rows[t] = IF t \in D THEN Merged(task[t], new(t), {"status", "metadata"})
                                    ELSE task[t]
    BY DEF Deduped
  <1>2. ASSUME NEW t \in D
        PROVE  /\ t \in TaskIds /\ Exists(t) /\ task[t] \in Task /\ r.rows[t] \in Task
               /\ new(t) \in Task /\ new(t).status = "cancelada"
               /\ ~overlapped => new(t).notified = task[t].notified
    <2>1. t \in TaskIds /\ Exists(t) /\ t \in r.ids  BY DEF Existing, Duplicates
    <2>2. task[t] \in Task /\ r.rows[t] \in Task
      BY <1>0, <2>1 DEF TypeOK, Row, Exists, IInv, RequestOK
    <2>3. /\ new(t) \in Task /\ new(t).status = "cancelada"
          /\ new(t).notified = r.rows[t].notified
      BY <2>2 DEF Task, TaskStatus
    <2>4. ~overlapped => r.rows[t].notified = task[t].notified
      BY <2>1 DEF IInv, ReadOK
    <2> QED  BY <2>1, <2>2, <2>3, <2>4
  <1> HIDE DEF D, new
  <1>3. ASSUME NEW t \in D
        PROVE  /\ rows[t] \in Task
               /\ rows[t].assignee = task[t].assignee
               /\ rows[t].completed = task[t].completed
               /\ rows[t].status = "cancelada"
               /\ rows[t].about = task[t].about
               /\ ~overlapped => rows[t].notified = task[t].notified
    <2>1. rows[t] = Merged(task[t], new(t), {"status", "metadata"})  BY <1>1, <1>2
    <2> HIDE DEF rows
    <2> QED  BY <1>2, <2>1 DEF Merged, Task
  <1>4. \A t \in TaskIds \ D : rows[t] = task[t]  BY <1>1
  <1>5. rows = [t \in TaskIds |-> rows[t]]  BY DEF Deduped
  <1> HIDE DEF rows
  <1>6. \A t \in TaskIds : rows[t] \in Row
    BY <1>0, <1>3, <1>4 DEF TypeOK, Row
  <1>7. \A t \in TaskIds : rows[t] # NoTask <=> Exists(t)
    BY <1>2, <1>3, <1>4, NoTaskAssumption DEF Exists
  <1>8. \A t \in Existing :
          /\ rows[t].assignee = task[t].assignee
          /\ rows[t].completed = task[t].completed
          /\ rows[t].status \in {task[t].status, "cancelada"}
          /\ rows[t].about = task[t].about
          /\ ~overlapped => rows[t].notified = task[t].notified
    BY <1>3, <1>4 DEF Existing
  <1> QED  BY <1>5, <1>6, <1>7, <1>8 DEF rows, r

LEMMA LinkFoundStep == ASSUME IInv, NEW s \in Sessions, LinkFound(s) PROVE IInv'
  <1> DEFINE rows == Deduped(run[s])
  <1>0. TypeOK  BY DEF IInv
  <1>1. PICK x \in Found(run[s]) : linked' = [linked EXCEPT ![run[s].about] = x]
    BY DEF LinkFound
  <1>2. /\ run[s].op = "requirement" /\ Duplicates(run[s]) \subseteq Existing
        /\ task' = rows /\ Done(s)
        /\ created' = created /\ sent' = sent /\ offer' = offer /\ draft' = draft
        /\ silent' = silent
    BY DEF LinkFound
  <1>3. /\ rows \in [TaskIds -> Row]
        /\ \A t \in TaskIds : rows[t] # NoTask <=> Exists(t)
        /\ \A t \in Existing :
             /\ rows[t].assignee = task[t].assignee
             /\ rows[t].completed = task[t].completed
             /\ rows[t].status \in {task[t].status, "cancelada"}
             /\ rows[t].about = task[t].about
             /\ ~overlapped => rows[t].notified = task[t].notified
    BY <1>2, DedupedRows
  <1> HIDE DEF rows
  <1>4. x \in TaskIds /\ run[s].about \in Items
    BY <1>0, <1>2, RequestFields DEF Found, IInv, RequestOK
  <1>5. TypeOK'
    <2>1. linked' \in [Items -> Link]
      BY <1>0, <1>1, <1>4 DEF TypeOK, Link
    <2>2. run' \in [Sessions -> Request] /\ overlapped' = overlapped
      BY <1>0, <1>2, RunAfter, IdleIsRequest DEF Done
    <2> QED  BY <1>0, <1>2, <1>3, <2>1, <2>2 DEF TypeOK
  <1>6. ASSUME NEW t \in Existing
        PROVE  /\ Exists(t)' /\ RowOK(t)' /\ (~overlapped => FlagsOK(t)')
               /\ task'[t].completed = task[t].completed
               /\ task'[t].about = task[t].about
    <2>1. t \in TaskIds /\ Exists(t) /\ RowOK(t)
      BY RowsOK DEF IInv, Existing
    <2>2. \A u \in Users : sent[t][u]["assigned"] >= sent[t][u]["assigned"]
      <3>1. sent[t] \in Counts /\ "assigned" \in Notices
        BY <1>0, <2>1, TypedCounts DEF Notices
      <3> QED  BY <3>1 DEF Counts
    <2>3. RowKept(t)  BY <1>2, <1>3, <2>2 DEF RowKept
    <2>4. RowOK(t)'  BY <1>0, <1>5, <2>1, <2>3, KeptIsOK
    <2>5. ~overlapped => FlagsOK(t)'
      BY <1>2, <1>3, <2>1, FlagsKept DEF FlagsOK
    <2> QED  BY <1>2, <1>3, <2>1, <2>4, <2>5 DEF Exists
  <1>7. \A t \in TaskIds \ Existing : /\ sent'[t] = sent[t] /\ silent'[t] = silent[t]
                                      /\ ~Exists(t) /\ ~Exists(t)'
    BY <1>2, <1>3 DEF Exists, Existing
  <1>8. /\ \A t \in TaskIds : Exists(t)' =>
             /\ Exists(t) /\ (task[t].completed => task'[t].completed)
             /\ task'[t].about = task[t].about /\ RowOK(t)'
             /\ ~overlapped => FlagsOK(t)'
        /\ \A t \in TaskIds : ~Exists(t) => sent'[t] = sent[t] /\ ~Exists(t)'
        /\ \A t \in TaskIds : Exists(t) => Exists(t)'
    BY <1>6, <1>7 DEF Existing
  <1>9. run[s].op # "none"  BY <1>2
  <1> QED  BY <1>2, <1>5, <1>8, <1>9, RowsStep

\* A request that ends with a new task.
LEMMA NewTaskStep ==
  ASSUME IInv, NEW s \in Sessions, run[s].op # "none", Done(s),
         NEW row \in Task, NEW rows \in [TaskIds -> Row], Insert(row, rows, sent),
         linked' \in [Items -> Link], offer' \in [Items -> Draft],
         draft' \in [Drafts -> Draft],
         \A t \in TaskIds : rows[t] # NoTask <=> Exists(t),
         \A t \in Existing : /\ rows[t].assignee = task[t].assignee
                             /\ rows[t].completed = task[t].completed
                             /\ rows[t].status \in {task[t].status, "cancelada"}
                             /\ rows[t].about = task[t].about
                             /\ ~overlapped => rows[t].notified = task[t].notified,
         \A d \in Drafts : draft'[d] = draft[d]
                           \/ (row.about = d /\ draft[d].exists /\ draft'[d].exists
                                /\ draft'[d].task = created'
                                /\ (~overlapped => draft[d].task = NoTask)),
         row.about \in Drafts => draft'[row.about].task = created'
  PROVE  IInv'
  <1>0. TypeOK  BY DEF IInv
  <1>1. created' \in created..MaxTasks /\ task'[created'] = row /\ created' \in TaskIds
    BY <1>0, InsertEffect
  <1>2. run' \in [Sessions -> Request] /\ overlapped' = overlapped
    BY <1>0, RunAfter, IdleIsRequest DEF Done
  <1>3. TypeOK'
    BY <1>0, <1>2, InsertEffect DEF TypeOK
  <1>4. /\ CreatedOK' /\ AssigneeIsTold' /\ CompletionIsStamped'
        /\ FlaggedOK' /\ DueNoticeOnce'
        /\ \A t \in TaskIds : Exists(t)' /\ t <= created =>
             Exists(t) /\ (task[t].completed => task'[t].completed)
        /\ \A t \in Existing : Exists(t)' /\ task'[t].about = task[t].about
        /\ \A t \in TaskIds : Exists(t)' => t = created' \/ Exists(t)
    BY <1>2, <1>3, InsertRows
  <1>5. /\ \A d \in Drafts : draft[d].exists => draft'[d].exists
        /\ \A d \in Drafts : draft'[d].task # NoTask => draft'[d].exists
    BY DEF IInv, DraftsOK
  <1>6. RequestOK' /\ StampOK' /\ IdleOK' /\ AloneOK' /\ ReadOK' /\ DraftsOK'
    BY <1>1, <1>4, <1>5, DoneRun
  <1>7. DraftOwnsItsTask'
    <2> SUFFICES ASSUME ~overlapped, NEW t \in TaskIds, Exists(t)',
                        task'[t].about \in Drafts
                 PROVE  draft'[task'[t].about].task = t
      BY <1>2 DEF DraftOwnsItsTask, Existing
    <2>1. CASE t = created'  BY <1>1, <2>1
    <2>2. CASE t # created'
      <3>1. t \in Existing /\ task'[t].about = task[t].about
        BY <1>4, <2>2 DEF Existing
      <3>2. draft[task[t].about].task = t  BY <3>1 DEF IInv, DraftOwnsItsTask
      <3>3. draft[task[t].about].task # NoTask  BY <3>2, TasksAssumption
      <3> QED  BY <3>1, <3>2, <3>3
    <2> QED  BY <2>1, <2>2
  <1> QED  BY <1>3, <1>4, <1>6, <1>7 DEF IInv

LEMMA CreateRequirementTaskStep ==
  ASSUME IInv, NEW s \in Sessions, NEW due \in Dues, CreateRequirementTask(s, due)
  PROVE  IInv'
  <1> DEFINE row == New(UserOf[s], NoUser, "pendiente", due, run[s].about, FALSE)
             rows == Deduped(run[s])
  <1>0. TypeOK  BY DEF IInv
  <1>1. /\ run[s].op = "requirement" /\ Duplicates(run[s]) \subseteq Existing
        /\ Insert(row, rows, sent) /\ Done(s) /\ offer' = offer /\ draft' = draft
        /\ linked' = [linked EXCEPT ![run[s].about] = created']
    BY DEF CreateRequirementTask
  <1>2. run[s].about \in Items  BY <1>1 DEF IInv, RequestOK
  <1>3. row \in Task /\ row.about = run[s].about
    BY <1>2, TasksAssumption, ValuesAssumption DEF New, Task, TaskStatus
  <1>4. /\ rows \in [TaskIds -> Row]
        /\ \A t \in TaskIds : rows[t] # NoTask <=> Exists(t)
        /\ \A t \in Existing :
             /\ rows[t].assignee = task[t].assignee
             /\ rows[t].completed = task[t].completed
             /\ rows[t].status \in {task[t].status, "cancelada"}
             /\ rows[t].about = task[t].about
             /\ ~overlapped => rows[t].notified = task[t].notified
    BY <1>1, DedupedRows
  <1> HIDE DEF row, rows
  <1>5. created' \in TaskIds  BY <1>0, <1>1, <1>3, <1>4, InsertEffect
  <1>6. /\ linked' \in [Items -> Link] /\ offer' \in [Items -> Draft]
        /\ draft' \in [Drafts -> Draft]
    BY <1>0, <1>1, <1>2, <1>5 DEF TypeOK, Link
  <1>7. row.about \notin Drafts /\ run[s].op # "none"
    BY <1>1, <1>2, <1>3, TasksAssumption
  <1> QED  BY <1>1, <1>3, <1>4, <1>6, <1>7, NewTaskStep

\* The rows as they are are rows to insert into.
LEMMA RowsAsTheyAre ==
  ASSUME TypeOK
  PROVE  /\ task \in [TaskIds -> Row]
         /\ \A t \in TaskIds : task[t] # NoTask <=> Exists(t)
         /\ \A t \in Existing : task[t].status \in {task[t].status, "cancelada"}
  BY DEF TypeOK, Exists

LEMMA CreateEconomicTaskStep ==
  ASSUME IInv, NEW s \in Sessions, NEW due \in Dues, CreateEconomicTask(s, due)
  PROVE  IInv'
  <1> DEFINE row == New(UserOf[s], run[s].value, "pendiente", due, run[s].about, TRUE)
  <1>0. TypeOK  BY DEF IInv
  <1>1. /\ run[s].op = "economic" /\ Insert(row, task, sent) /\ Done(s)
        /\ draft' = draft
        /\ linked' = [linked EXCEPT ![run[s].about] = created']
        /\ offer' = [offer EXCEPT ![run[s].about] = [exists |-> TRUE, task |-> created']]
    BY DEF CreateEconomicTask
  <1>2. run[s].about \in Items /\ run[s].value \in Users \cup {NoUser}
    BY <1>1 DEF IInv, RequestOK
  <1>3. row \in Task /\ row.about = run[s].about
    BY <1>2, TasksAssumption, ValuesAssumption DEF New, Task, TaskStatus
  <1> HIDE DEF row
  <1>5. created' \in TaskIds  BY <1>0, <1>1, <1>3, RowsAsTheyAre, InsertEffect
  <1>6. /\ linked' \in [Items -> Link] /\ offer' \in [Items -> Draft]
        /\ draft' \in [Drafts -> Draft]
    BY <1>0, <1>1, <1>2, <1>5 DEF TypeOK, Link, Draft
  <1>7. row.about \notin Drafts /\ run[s].op # "none"
    BY <1>1, <1>2, <1>3, TasksAssumption
  <1> QED  BY <1>0, <1>1, <1>3, <1>6, <1>7, RowsAsTheyAre, NewTaskStep

LEMMA CreateDraftTaskStep ==
  ASSUME IInv, NEW s \in Sessions, CreateDraftTask(s) PROVE IInv'
  <1> DEFINE d == run[s].about
             row == New(UserOf[s], NoUser, "pendiente", "never", d, FALSE)
  <1>0. TypeOK  BY DEF IInv
  <1>1. /\ run[s].op = "draft" /\ run[s].row.task = NoTask
        /\ Insert(row, task, sent) /\ Done(s)
        /\ draft' = [draft EXCEPT ![d].task = created']
        /\ linked' = linked /\ offer' = offer
    BY DEF CreateDraftTask
  <1>2. /\ d \in Drafts /\ draft[d].exists
        /\ ~overlapped => draft[d].task = NoTask
    BY <1>1 DEF IInv, RequestOK, DraftsOK
  <1>3. row \in Task /\ row.about = d
    BY <1>2, TasksAssumption DEF New, Task, TaskStatus, DueDates
  <1> HIDE DEF row, d
  <1>5. created' \in TaskIds  BY <1>0, <1>1, <1>3, RowsAsTheyAre, InsertEffect
  <1>6. /\ draft' \in [Drafts -> Draft]
        /\ draft'[d].task = created' /\ draft'[d].exists = draft[d].exists
        /\ \A e \in Drafts \ {d} : draft'[e] = draft[e]
    BY <1>0, <1>1, <1>2, <1>5 DEF TypeOK, Draft, Link
  <1>7. linked' \in [Items -> Link] /\ offer' \in [Items -> Draft]
    BY <1>0, <1>1 DEF TypeOK
  <1>8. run[s].op # "none"  BY <1>1
  <1> QED  BY <1>0, <1>1, <1>2, <1>3, <1>6, <1>7, <1>8, RowsAsTheyAre, NewTaskStep

LEMMA FinishDeleteStep ==
  ASSUME IInv, NEW s \in Sessions, NEW t \in TaskIds, FinishDelete(s, t)
  PROVE  IInv'
  <1>0. TypeOK  BY DEF IInv
  <1>1. /\ run[s].op = "delete" /\ Exists(t) /\ Done(s)
        /\ task' = [task EXCEPT ![t] = NoTask]
        /\ sent' = [sent EXCEPT ![t] = Unsent]
        /\ offer' = Unlinked(offer, t) /\ draft' = Unlinked(draft, t)
        /\ silent' = [silent EXCEPT ![t] = {}]
        /\ created' = created /\ linked' = linked
    BY DEF FinishDelete
  <1>2. /\ task'[t] = NoTask /\ sent'[t] = Unsent /\ silent'[t] = {}
        /\ \A x \in TaskIds \ {t} : /\ task'[x] = task[x] /\ sent'[x] = sent[x]
                                    /\ silent'[x] = silent[x]
        /\ task' \in [TaskIds -> Row] /\ sent' \in [TaskIds -> Counts]
        /\ silent' \in [TaskIds -> SUBSET {"status", "assignee"}]
    BY <1>0, <1>1, UnsentCounts, TypedCounts DEF TypeOK, Row
  <1>3. /\ offer' \in [Items -> Draft] /\ draft' \in [Drafts -> Draft]
        /\ \A d \in Drafts : /\ draft'[d].exists = draft[d].exists
                             /\ draft'[d].task = IF draft[d].task = t THEN NoTask
                                                 ELSE draft[d].task
    BY <1>0, <1>1 DEF TypeOK, Unlinked, Draft, Link
  <1>4. run' \in [Sessions -> Request] /\ overlapped' = overlapped
    BY <1>0, <1>1, RunAfter, IdleIsRequest DEF Done
  <1>5. TypeOK'
    BY <1>0, <1>1, <1>2, <1>3, <1>4 DEF TypeOK, Counts
  <1>6. ~Exists(t)' /\ \A x \in TaskIds \ {t} : Exists(x)' <=> Exists(x)
    BY <1>2 DEF Exists
  <1>7. RequestOK' /\ StampOK' /\ IdleOK' /\ AloneOK' /\ ReadOK' /\ DraftsOK'
    <2>1. created' \in created..MaxTasks  BY <1>0, <1>1, TasksAssumption DEF TypeOK
    <2>2. \A x \in TaskIds : Exists(x)' /\ x <= created =>
            Exists(x) /\ (task[x].completed => task'[x].completed)
      BY <1>2, <1>6
    <2>3. /\ \A d \in Drafts : draft[d].exists => draft'[d].exists
          /\ \A d \in Drafts : draft'[d].task # NoTask => draft'[d].exists
      BY <1>3 DEF IInv, DraftsOK
    <2>4. run[s].op # "none"  BY <1>1
    <2> QED  BY <1>1, <2>1, <2>2, <2>3, <2>4, DoneRun
  <1>8. CreatedOK'
    BY <1>1, <1>6 DEF IInv, CreatedOK
  <1>9. \A x \in Existing \ {t} : RowOK(x)'
    BY <1>2, RowsOK DEF IInv, RowOK, Existing
  <1>10. AssigneeIsTold' /\ CompletionIsStamped'
    BY <1>6, <1>9 DEF RowOK, AssigneeIsTold, CompletionIsStamped, Existing
  <1>11. FlaggedOK'
    BY <1>2, <1>4, <1>6 DEF IInv, FlaggedOK, Existing
  <1>12. DueNoticeOnce'
    <2> SUFFICES ASSUME ~overlapped, NEW x \in TaskIds, NEW n \in DueNotices,
                        NEW u \in Users, NEW v \in Users
                 PROVE  sent'[x][u][n] + (IF u = v THEN 0 ELSE sent'[x][v][n]) <= 1
      BY <1>4 DEF DueNoticeOnce
    <2>1. CASE x = t
      <3>1. n \in Notices  BY DEF DueNotices, Notices
      <3> QED  BY <1>2, <2>1, <3>1, UnsentCounts
    <2>2. CASE x # t
      BY <1>2, <2>2 DEF IInv, DueNoticeOnce
    <2> QED  BY <2>1, <2>2
  <1>13. DraftOwnsItsTask'
    <2> SUFFICES ASSUME ~overlapped, NEW x \in TaskIds, Exists(x)',
                        task'[x].about \in Drafts
                 PROVE  draft'[task'[x].about].task = x
      BY <1>4 DEF DraftOwnsItsTask, Existing
    <2>1. x # t /\ x \in Existing /\ task'[x] = task[x]
      BY <1>2, <1>6 DEF Existing
    <2>2. draft[task[x].about].task = x
      BY <2>1 DEF IInv, DraftOwnsItsTask
    <2> QED  BY <1>3, <2>1, <2>2
  <1> QED
    BY <1>5, <1>7, <1>8, <1>10, <1>11, <1>12, <1>13 DEF IInv

LEMMA RollbackStep ==
  ASSUME IInv, NEW s \in Sessions, run[s].op # "none", Rollback(s) PROVE IInv'
  <1>0. TypeOK  BY DEF IInv
  <1>1. /\ Done(s) /\ task' = task /\ created' = created /\ sent' = sent
        /\ linked' = linked /\ offer' = offer /\ draft' = draft /\ silent' = silent
    BY DEF Rollback
  <1>2. run' \in [Sessions -> Request] /\ overlapped' = overlapped
    BY <1>0, <1>1, RunAfter, IdleIsRequest DEF Done
  <1>3. TypeOK'  BY <1>0, <1>1, <1>2 DEF TypeOK
  <1>4. {} \in SUBSET Existing  OBVIOUS
  <1> QED  BY <1>1, <1>3, <1>4, KeepingStep

LEMMA AgeStep == ASSUME IInv, NEW t \in TaskIds, Age(t) PROVE IInv'
  <1>0. TypeOK  BY DEF IInv
  <1> DEFINE due == IF task[t].due = "later" THEN "soon" ELSE "past"
             row == [task[t] EXCEPT !.due = due]
  <1>1. /\ Exists(t) /\ task' = [task EXCEPT ![t] = row]
        /\ created' = created /\ sent' = sent /\ linked' = linked /\ offer' = offer
        /\ draft' = draft /\ run' = run /\ silent' = silent /\ overlapped' = overlapped
    BY <1>0 DEF Age, TypeOK, Row, Task
  <1>2. task[t] \in Task  BY <1>0, <1>1 DEF TypeOK, Row, Exists
  <1>3. /\ row \in Task /\ row.status = task[t].status
        /\ row.assignee = task[t].assignee /\ row.completed = task[t].completed
        /\ row.notified = task[t].notified /\ row.about = task[t].about
    BY <1>2 DEF Task, DueDates
  <1> HIDE DEF row
  <1>4. /\ task'[t] = row /\ \A x \in TaskIds \ {t} : task'[x] = task[x]
        /\ task' \in [TaskIds -> Row]
    BY <1>0, <1>1, <1>3 DEF TypeOK, Row
  <1>5. TypeOK'  BY <1>0, <1>1, <1>4 DEF TypeOK
  <1>6. \A x \in TaskIds : Exists(x)' <=> Exists(x)
    BY <1>1, <1>3, <1>4, NoTaskAssumption DEF Exists
  <1>7. \A x \in TaskIds : /\ task'[x].status = task[x].status
                           /\ task'[x].assignee = task[x].assignee
                           /\ task'[x].completed = task[x].completed
                           /\ task'[x].notified = task[x].notified
                           /\ task'[x].about = task[x].about
    BY <1>3, <1>4
  <1>8. RequestOK' /\ StampOK' /\ IdleOK' /\ AloneOK' /\ ReadOK' /\ DraftsOK'
    <2>1. created' \in created..MaxTasks  BY <1>0, <1>1, TasksAssumption DEF TypeOK
    <2>2. \A x \in TaskIds : Exists(x)' /\ x <= created =>
            Exists(x) /\ (task[x].completed => task'[x].completed)
      BY <1>6, <1>7
    <2>3. \A x \in Existing : Exists(x)' /\ task'[x].notified = task[x].notified
      BY <1>6, <1>7 DEF Existing
    <2>4. \A d \in Drafts : draft'[d].task # NoTask => draft'[d].exists
      BY <1>1 DEF IInv, DraftsOK
    <2> QED  BY <1>1, <2>1, <2>2, <2>3, <2>4, SameRun
  <1>9. CreatedOK'
    BY <1>1, <1>6 DEF IInv, CreatedOK
  <1>10. AssigneeIsTold' /\ CompletionIsStamped'
    BY <1>1, <1>6, <1>7 DEF IInv, AssigneeIsTold, CompletionIsStamped, Existing
  <1>11. FlaggedOK' /\ DueNoticeOnce' /\ DraftOwnsItsTask'
    BY <1>1, <1>6, <1>7 DEF IInv, FlaggedOK, DueNoticeOnce, DraftOwnsItsTask, Existing
  <1> QED  BY <1>5, <1>8, <1>9, <1>10, <1>11 DEF IInv

-----------------------------------------------------------------------------

LEMMA InitIInv == Init => IInv
  <1> SUFFICES ASSUME Init PROVE IInv  OBVIOUS
  <1>1. \A s \in Sessions : run[s] = Idle  BY DEF Init
  <1>2. TypeOK
    <2>1. run \in [Sessions -> Request]  BY IdleIsRequest DEF Init
    <2>2. sent \in [TaskIds -> Counts]  BY UnsentCounts DEF Init
    <2>3. created \in 0..MaxTasks  BY TasksAssumption DEF Init
    <2>4. NoDraft \in Draft  BY DEF NoDraft, Draft, Link
    <2> QED  BY <2>1, <2>2, <2>3, <2>4 DEF Init, TypeOK, Counts, Row, Link
  <1>3. \A t \in TaskIds : ~Exists(t)  BY DEF Init, Exists
  <1>4. RequestOK /\ StampOK /\ IdleOK /\ AloneOK /\ ReadOK
    BY <1>1, IdleIsRequest DEF RequestOK, StampOK, IdleOK, AloneOK, ReadOK
  <1>5. DraftsOK
    BY <1>1, IdleIsRequest DEF Init, DraftsOK, NoDraft
  <1>6. CreatedOK /\ FlaggedOK /\ AssigneeIsTold /\ CompletionIsStamped /\ DraftOwnsItsTask
    BY <1>3 DEF CreatedOK, FlaggedOK, AssigneeIsTold, CompletionIsStamped,
                DraftOwnsItsTask, Existing
  <1>7. DueNoticeOnce
    <2>1. DueNotices \subseteq Notices  BY DEF DueNotices, Notices
    <2>2. \A t \in TaskIds, u \in Users, n \in DueNotices : sent[t][u][n] = 0
      BY <2>1, UnsentCounts DEF Init
    <2> QED  BY <2>2 DEF DueNoticeOnce
  <1> QED  BY <1>2, <1>4, <1>5, <1>6, <1>7 DEF IInv

LEMMA CommitsStep == ASSUME IInv, Commits PROVE IInv'
  <1> SUFFICES ASSUME NEW s \in Sessions,
                 \/ \E t \in TaskIds : FinishUpdate(s, t) \/ FinishDelete(s, t)
                 \/ FinishDue(s)
                 \/ FinishBulk(s)
                 \/ LinkFound(s)
                 \/ \E due \in Dues : CreateRequirementTask(s, due)
                                      \/ CreateEconomicTask(s, due)
                 \/ CreateDraftTask(s)
                 \/ Fail(s)
                 \/ NothingToDo(s)
               PROVE  IInv'
    BY DEF Commits
  <1>1. ASSUME NEW t \in TaskIds, FinishUpdate(s, t) \/ FinishDelete(s, t) PROVE IInv'
    BY <1>1, FinishUpdateStep, FinishDeleteStep
  <1>2. CASE FinishDue(s)  BY <1>2, FinishDueStep
  <1>3. CASE FinishBulk(s)  BY <1>3, FinishBulkStep
  <1>4. CASE LinkFound(s)  BY <1>4, LinkFoundStep
  <1>5. ASSUME NEW due \in Dues,
               CreateRequirementTask(s, due) \/ CreateEconomicTask(s, due)
        PROVE  IInv'
    BY <1>5, CreateRequirementTaskStep, CreateEconomicTaskStep
  <1>6. CASE CreateDraftTask(s)  BY <1>6, CreateDraftTaskStep
  <1>7. CASE Fail(s)
    <2>1. run[s].op # "none" /\ Rollback(s)  BY <1>7 DEF Fail, Inserts
    <2> QED  BY <2>1, RollbackStep
  <1>8. CASE NothingToDo(s)
    <2>1. run[s].op # "none" /\ Rollback(s)  BY <1>8 DEF NothingToDo
    <2> QED  BY <2>1, RollbackStep
  <1> QED  BY <1>1, <1>2, <1>3, <1>4, <1>5, <1>6, <1>7, <1>8

LEMMA NextIInv == IInv /\ [Next]_vars => IInv'
  <1> SUFFICES ASSUME IInv, [Next]_vars PROVE IInv'  OBVIOUS
  <1>1. CASE UNCHANGED vars
    BY <1>1 DEF vars, IInv, TypeOK, RequestOK, CreatedOK, StampOK, IdleOK, AloneOK,
                ReadOK, FlaggedOK, DraftsOK, AssigneeIsTold, CompletionIsStamped,
                DueNoticeOnce, DraftOwnsItsTask, Exists, Existing
  <1>2. CASE Insertions
    BY <1>2, CreateTaskStep, CreateDraftStep DEF Insertions
  <1>3. CASE Begins  BY <1>3, BeginsStep
  <1>4. CASE Commits  BY <1>4, CommitsStep
  <1>5. CASE \E t \in TaskIds : Age(t)  BY <1>5, AgeStep
  <1> QED  BY <1>1, <1>2, <1>3, <1>4, <1>5 DEF Next

LEMMA InductiveInvariant == Spec => []IInv
  BY InitIInv, NextIInv, PTL DEF Spec

\* The variables keep their types, for any number of users, requests and tasks
\* (models/task.py, task_service.py).
THEOREM TypeCorrect == Spec => []TypeOK
  BY InductiveInvariant, PTL DEF IInv

\* Whoever a task is assigned to has been told, whatever requests overlap, bulk
\* assignments excepted (TaskService._notify_assigned).
THEOREM AssigneesAreTold == Spec => []AssigneeIsTold
  BY InductiveInvariant, PTL DEF IInv

\* A completed task is stamped, whatever requests overlap, bulk completions
\* excepted (TaskService.update_task).
THEOREM CompletionsAreStamped == Spec => []CompletionIsStamped
  BY InductiveInvariant, PTL DEF IInv

\* Without overlap a due notice is sent once (TaskService.sync_due_notifications).
THEOREM DueNoticesAreSentOnce == Spec => []DueNoticeOnce
  BY InductiveInvariant, PTL DEF IInv

\* Without overlap no draft of a quotation loses its task (create_draft,
\* drafts_bulk).
THEOREM DraftsOwnTheirTasks == Spec => []DraftOwnsItsTask
  BY InductiveInvariant, PTL DEF IInv

-----------------------------------------------------------------------------
(* The duplicates of a requirement's task.                                 *)

\* A set of naturals has a least member, a set of ids a newest one.
LEMMA NatMin ==
  ASSUME NEW T, T \subseteq Nat, T # {}
  PROVE  \E x \in T : \A y \in T : x <= y
  <1> DEFINE R == OpToRel(<, Nat)
  <1>1. IsWellFoundedOn(R, Nat)  BY NatLessThanWellFounded
  <1>2. \A x, y \in Nat : y < x => <<y, x>> \in R  BY DEF OpToRel
  <1> HIDE DEF R
  <1>3. PICK x \in T : \A y \in T : ~(<<y, x>> \in R)  BY <1>1, WFMin
  <1>4. ASSUME NEW y \in T PROVE x <= y
    <2>1. x \in Nat /\ y \in Nat  OBVIOUS
    <2>2. ~(y < x)  BY <1>2, <1>3, <2>1
    <2> QED  BY <2>1, <2>2
  <1> QED  BY <1>4

LEMMA NatMax ==
  ASSUME NEW n \in Nat, NEW T, T \subseteq 1..n, T # {}
  PROVE  \E x \in T : \A y \in T : y <= x
  <1> DEFINE U == {n - t : t \in T}
  <1>0. \A t \in T : t \in Nat /\ n - t \in Nat
    <2> TAKE t \in T
    <2>1. t \in 1..n  OBVIOUS
    <2> QED BY <2>1
  <1>1. U \subseteq Nat /\ U # {}  BY <1>0
  <1>2. PICK u \in U : \A v \in U : u <= v  
    <2> HIDE DEF U
    <2> QED BY <1>1, NatMin
  <1>3. PICK x \in T : u = n - x  OBVIOUS
  <1>4. ASSUME NEW y \in T PROVE y <= x
    <2>1. n - x <= n - y  BY <1>2, <1>3
    <2> QED  BY <1>0, <2>1
  <1> QED  BY <1>4

\* Without overlap the tasks of the tender are those that create_checklist_task
\* has read.
KnownOK ==
  ~overlapped =>
    \A s \in Sessions : run[s].op = "requirement" =>
      /\ run[s].ids = OfTender
      /\ \A t \in run[s].ids : /\ run[s].rows[t].status = task[t].status
                               /\ run[s].rows[t].about = task[t].about

LEMMA KnownBegin ==
  ASSUME IInv, NEW s \in Sessions, NEW q \in Request, NEW ids \in SUBSET TaskIds,
         Begin(s, q, ids), q.op = "requirement" => ids = OfTender
  PROVE  KnownOK'
  <1> DEFINE rows == [t \in TaskIds |-> IF t \in ids THEN task[t] ELSE NoTask]
             X == [q EXCEPT !.ids = ids, !.rows = rows]
  <1>1. run' = [run EXCEPT ![s] = X] /\ task' = task
    BY DEF Begin
  <1>2. \A t \in ids : rows[t] = task[t]  OBVIOUS
  <1> HIDE DEF rows
  <1>3. X.op = q.op /\ X.ids = ids /\ X.rows = rows  BY DEF Request
  <1> HIDE DEF X
  <1>4. run'[s] = X /\ \A r \in Sessions \ {s} : run'[r] = run[r]
    BY <1>1, RunAfter DEF IInv
  <1>5. ~overlapped' => \A r \in Sessions : run[r].op = "none"
    BY DEF Begin
  <1>6. OfTender' = OfTender
    BY <1>1 DEF OfTender, Existing, Exists, Active
  <1> QED  BY <1>1, <1>2, <1>3, <1>4, <1>5, <1>6 DEF KnownOK

LEMMA KnownBegins == ASSUME IInv, Begins PROVE KnownOK'
  <1> USE IdleIsRequest
  <1>1. ASSUME NEW s \in Sessions, NEW t \in TaskIds, NEW c \in Changes,
               BeginUpdate(s, t, c)
        PROVE  KnownOK'
    <2> DEFINE q == [Idle EXCEPT !.op = "update", !.field = c.field, !.value = c.value]
    <2>1. q \in Request /\ q.op = "update"
      BY ValuesAssumption DEF Request, Changes
    <2>2. Begin(s, q, {t})  BY <1>1 DEF BeginUpdate
    <2> HIDE DEF q
    <2> QED  BY <2>1, <2>2, KnownBegin
  <1>2. ASSUME NEW s \in Sessions, NEW t \in TaskIds, BeginDelete(s, t) PROVE KnownOK'
    <2> DEFINE q == [Idle EXCEPT !.op = "delete"]
    <2>1. q \in Request /\ q.op = "delete"  BY DEF Request
    <2>2. Begin(s, q, {t})  BY <1>2 DEF BeginDelete
    <2> HIDE DEF q
    <2> QED  BY <2>1, <2>2, KnownBegin
  <1>3. ASSUME NEW s \in Sessions, BeginDue(s) PROVE KnownOK'
    <2> DEFINE q == [Idle EXCEPT !.op = "due"]
               ids == {t \in Existing : /\ task[t].assignee = UserOf[s]
                                        /\ task[t].status \notin Closed}
    <2>1. q \in Request /\ q.op = "due"  BY DEF Request
    <2>2. Begin(s, q, ids) /\ ids \in SUBSET TaskIds  BY <1>3 DEF BeginDue, Existing
    <2> HIDE DEF q, ids
    <2> QED  BY <2>1, <2>2, KnownBegin
  <1>4. ASSUME NEW s \in Sessions, NEW ids \in SUBSET Existing, NEW c \in Changes,
               BeginBulk(s, ids, c)
        PROVE  KnownOK'
    <2> DEFINE q == [Idle EXCEPT !.op = "bulk", !.field = c.field, !.value = c.value]
    <2>1. q \in Request /\ q.op = "bulk"
      BY ValuesAssumption DEF Request, Changes
    <2>2. Begin(s, q, ids) /\ ids \in SUBSET TaskIds  BY <1>4 DEF BeginBulk, Existing
    <2> HIDE DEF q
    <2> QED  BY <2>1, <2>2, KnownBegin
  <1>5. ASSUME NEW s \in Sessions, NEW i \in Items, NEW force \in BOOLEAN,
               BeginRequirement(s, i, force)
        PROVE  KnownOK'
    <2> DEFINE q == [Idle EXCEPT !.op = "requirement", !.about = i, !.force = force]
    <2>1. q \in Request  BY DEF Request
    <2>2. Begin(s, q, OfTender) /\ OfTender \in SUBSET TaskIds
      BY <1>5 DEF BeginRequirement, OfTender, Existing
    <2> HIDE DEF q
    <2> QED  BY <2>1, <2>2, KnownBegin
  <1>6. ASSUME NEW s \in Sessions, NEW i \in Items, NEW u \in Users \cup {NoUser},
               BeginEconomic(s, i, u)
        PROVE  KnownOK'
    <2> DEFINE q == [Idle EXCEPT !.op = "economic", !.about = i, !.value = u,
                                 !.row = offer[i]]
    <2>1. offer[i] \in Draft  BY DEF IInv, TypeOK
    <2>2. q \in Request /\ q.op = "economic"  BY <2>1 DEF Request
    <2>3. Begin(s, q, OfTender) /\ OfTender \in SUBSET TaskIds
      BY <1>6 DEF BeginEconomic, OfTender, Existing
    <2> HIDE DEF q
    <2> QED  BY <2>2, <2>3, KnownBegin
  <1>7. ASSUME NEW s \in Sessions, NEW d \in Drafts, BeginDraft(s, d) PROVE KnownOK'
    <2> DEFINE q == [Idle EXCEPT !.op = "draft", !.about = d, !.row = draft[d]]
    <2>1. draft[d] \in Draft  BY DEF IInv, TypeOK
    <2>2. q \in Request /\ q.op = "draft"  BY <2>1 DEF Request
    <2>3. Begin(s, q, {})  BY <1>7 DEF BeginDraft
    <2> HIDE DEF q
    <2> QED  BY <2>2, <2>3, KnownBegin
  <1> QED
    BY <1>1, <1>2, <1>3, <1>4, <1>5, <1>6, <1>7 DEF Begins

\* The tasks of the tender are the same when no task of an item changes.
LEMMA KnownSame ==
  ASSUME IInv, KnownOK, run' = run, overlapped' = overlapped,
         \A t \in Existing : /\ task'[t] # NoTask
                             /\ task'[t].status = task[t].status
                             /\ task'[t].about = task[t].about,
         \A t \in TaskIds \ Existing :
           task'[t] = NoTask \/ task'[t].about \notin Items
  PROVE  KnownOK'
  <1>1. OfTender' = OfTender
    BY DEF OfTender, Existing, Exists, Active
  <1>2. OfTender \subseteq Existing  BY DEF OfTender
  <1> QED  BY <1>1, <1>2 DEF KnownOK

LEMMA KnownInsertions == ASSUME IInv, KnownOK, Insertions PROVE KnownOK'
  <1>0. TypeOK  BY DEF IInv
  <1>1. ASSUME NEW row \in Task, row.about \notin Items, Insert(row, task, sent),
               run' = run, overlapped' = overlapped
        PROVE  KnownOK'
    <2>1. /\ created' = created + 1 /\ created' \in TaskIds /\ task'[created'] = row
          /\ \A t \in TaskIds \ {created'} : task'[t] = task[t]
      BY <1>0, <1>1, InsertEffect, Unchanged
    <2>2. \A t \in Existing : t # created'
      BY <1>0, <2>1, TasksAssumption DEF IInv, CreatedOK, Existing, TypeOK, TaskIds
    <2> QED  BY <1>1, <2>1, <2>2, KnownSame DEF Existing, Exists
  <1>2. ASSUME NEW s \in Sessions, NEW a \in Users \cup {NoUser}, NEW v \in Values,
               NEW due \in Dues, CreateTask(s, a, v, due)
        PROVE  KnownOK'
    <2> DEFINE row == New(UserOf[s], a, v, due, Nothing, FALSE)
    <2>1. row \in Task /\ row.about \notin Items
      BY TasksAssumption, ValuesAssumption DEF New, Task
    <2>2. Insert(row, task, sent) /\ run' = run /\ overlapped' = overlapped
      BY <1>2 DEF CreateTask
    <2> HIDE DEF row
    <2> QED  BY <1>1, <2>1, <2>2
  <1>3. ASSUME NEW s \in Sessions, NEW d \in Drafts, CreateDraft(s, d)
        PROVE  KnownOK'
    <2> DEFINE row == New(UserOf[s], NoUser, "pendiente", "never", d, FALSE)
    <2>1. row \in Task /\ row.about \notin Items
      BY TasksAssumption DEF New, Task, TaskStatus, DueDates
    <2>2. Insert(row, task, sent) /\ run' = run /\ overlapped' = overlapped
      BY <1>3 DEF CreateDraft
    <2> HIDE DEF row
    <2> QED  BY <1>1, <2>1, <2>2
  <1> QED  BY <1>2, <1>3 DEF Insertions

\* Whoever commits is done, and without overlap it was alone.
LEMMA CommitsAreDone ==
  ASSUME Commits
  PROVE  \E s \in Sessions : Done(s) /\ run[s].op # "none"
  <1>1. ASSUME NEW s \in Sessions, Fail(s) PROVE Done(s) /\ run[s].op # "none"
    BY <1>1 DEF Fail, Rollback, Inserts
  <1>2. ASSUME NEW s \in Sessions, NothingToDo(s)
        PROVE  Done(s) /\ run[s].op # "none"
    BY <1>2 DEF NothingToDo, Rollback
  <1>3. ASSUME NEW s \in Sessions, NEW t \in TaskIds,
               FinishUpdate(s, t) \/ FinishDelete(s, t)
        PROVE  Done(s) /\ run[s].op # "none"
    BY <1>3 DEF FinishUpdate, FinishDelete
  <1>4. ASSUME NEW s \in Sessions,
               FinishDue(s) \/ FinishBulk(s) \/ LinkFound(s) \/ CreateDraftTask(s)
        PROVE  Done(s) /\ run[s].op # "none"
    BY <1>4 DEF FinishDue, FinishBulk, LinkFound, CreateDraftTask
  <1>5. ASSUME NEW s \in Sessions, NEW due \in Dues,
               CreateRequirementTask(s, due) \/ CreateEconomicTask(s, due)
        PROVE  Done(s) /\ run[s].op # "none"
    BY <1>5 DEF CreateRequirementTask, CreateEconomicTask
  <1> QED  BY <1>1, <1>2, <1>3, <1>4, <1>5 DEF Commits

LEMMA KnownStep == ASSUME IInv, KnownOK, [Next]_vars PROVE KnownOK'
  <1>1. CASE Insertions  BY <1>1, KnownInsertions
  <1>2. CASE Begins  BY <1>2, KnownBegins
  <1>3. CASE Commits
    <2>1. PICK s \in Sessions : Done(s) /\ run[s].op # "none"
      BY <1>3, CommitsAreDone
    <2>2. /\ run'[s] = Idle /\ \A r \in Sessions \ {s} : run'[r] = run[r]
          /\ overlapped' = overlapped
      BY <2>1, RunAfter, IdleIsRequest DEF IInv, Done
    <2>3. ~overlapped => \A r \in Sessions : run'[r].op = "none"
      BY <2>1, <2>2, IdleIsRequest DEF IInv, AloneOK
    <2> QED  BY <2>2, <2>3 DEF KnownOK
  <1>4. ASSUME NEW t \in TaskIds, Age(t) PROVE KnownOK'
    <2> DEFINE due == IF task[t].due = "later" THEN "soon" ELSE "past"
               row == [task[t] EXCEPT !.due = due]
    <2>1. /\ Exists(t) /\ task' = [task EXCEPT ![t] = row]
          /\ run' = run /\ overlapped' = overlapped
      BY <1>4 DEF Age, IInv, TypeOK, Row, Task
    <2>2. task[t] \in Task  BY <2>1 DEF IInv, TypeOK, Row, Exists
    <2>3. row \in Task /\ row.status = task[t].status /\ row.about = task[t].about
      BY <2>2 DEF Task, DueDates
    <2> HIDE DEF row
    <2>4. task'[t] = row /\ \A x \in TaskIds \ {t} : task'[x] = task[x]
      BY <2>1 DEF IInv, TypeOK
    <2> QED  BY <2>1, <2>3, <2>4, KnownSame, NoTaskAssumption DEF Existing, Exists
  <1>5. CASE UNCHANGED vars
    BY <1>5 DEF vars, KnownOK, OfTender, Existing, Exists, Active
  <1> QED  BY <1>1, <1>2, <1>3, <1>4, <1>5 DEF Next

LEMMA KnownAlways == Spec => []KnownOK
  <1>1. Init => KnownOK
    BY IdleIsRequest DEF Init, KnownOK
  <1> QED  BY <1>1, InductiveInvariant, KnownStep, PTL DEF Spec

\* Of the active tasks of an item the newest is left.
LEMMA NewestIsLeft ==
  ASSUME IInv, KnownOK, ~overlapped, NEW s \in Sessions,
         run[s].op = "requirement"
  PROVE  \A i \in Items :
           /\ ActiveAbout(task, i) = {t \in run[s].ids : run[s].rows[t].about = i}
           /\ ActiveAbout(Deduped(run[s]), i) =
                {t \in run[s].ids \ Duplicates(run[s]) : run[s].rows[t].about = i}
           /\ \A t, u \in ActiveAbout(Deduped(run[s]), i) : t = u
           /\ ActiveAbout(task, i) # {} => ActiveAbout(Deduped(run[s]), i) # {}
  <1> DEFINE r == run[s]
             D == Duplicates(r)
             rows == Deduped(r)
  <1>0. TypeOK  BY DEF IInv
  <1>1. /\ r.ids = OfTender /\ r.ids \subseteq TaskIds
        /\ \A t \in r.ids : /\ r.rows[t] \in Task
                            /\ r.rows[t].status = task[t].status
                            /\ r.rows[t].about = task[t].about
    BY <1>0, RequestFields DEF KnownOK, IInv, RequestOK
  <1>2. D \subseteq r.ids /\ D \subseteq Existing
    BY <1>1 DEF Duplicates, OfTender
  <1>3. \A t \in TaskIds \ D : rows[t] = task[t]
    BY DEF Deduped
  <1>4. ASSUME NEW t \in D
        PROVE  /\ rows[t].status = "cancelada" /\ rows[t].about = task[t].about
               /\ rows[t] # NoTask
    <2> DEFINE new == [r.rows[t] EXCEPT !.status = "cancelada"]
    <2>1. t \in TaskIds /\ task[t] \in Task /\ r.rows[t] \in Task
      BY <1>0, <1>1, <1>2 DEF TypeOK, Row, Existing, Exists
    <2>2. new \in Task /\ new.status = "cancelada"
      BY <2>1 DEF Task, TaskStatus
    <2>3. rows[t] = Merged(task[t], new, {"status", "metadata"})
      BY <2>1 DEF Deduped
    <2>4. Merged(task[t], new, {"status", "metadata"}) =
            [task[t] EXCEPT !.status = new.status, !.notified = new.notified]
      BY <2>1, <2>2 DEF Merged, Task
    <2> HIDE DEF new, rows
    <2>5. /\ rows[t].status = new.status /\ rows[t].about = task[t].about
          /\ rows[t] \in Task
      BY <2>1, <2>2, <2>3, <2>4 DEF Task
    <2> QED  BY <2>2, <2>5, NoTaskAssumption
  <1> HIDE DEF rows, D
  <1>5. \A i \in Items : ActiveAbout(task, i) = {t \in r.ids : r.rows[t].about = i}
    BY <1>1 DEF ActiveAbout, OfTender, Existing, Exists, Active
  <1>6. \A i \in Items : ActiveAbout(rows, i) = {t \in r.ids \ D : r.rows[t].about = i}
    <2> TAKE i \in Items
    <2>1. ASSUME NEW t \in TaskIds
          PROVE  Active(rows[t]) /\ rows[t].about = i
                   <=> t \in r.ids \ D /\ r.rows[t].about = i
      <3>1. CASE t \in D
        BY <1>4, <3>1 DEF Active, ActiveStatuses
      <3>2. CASE t \notin D
        <4>1. rows[t] = task[t]  BY <1>3, <3>2
        <4> QED
          BY <1>1, <3>2, <4>1 DEF OfTender, Existing, Exists, Active
      <3> QED  BY <3>1, <3>2
    <2> QED  BY <1>1, <2>1 DEF ActiveAbout
  <1>7. ASSUME NEW i \in Items, NEW t \in ActiveAbout(rows, i), NEW u \in ActiveAbout(rows, i)
        PROVE  t = u
    <2>1. /\ t \in r.ids \ D /\ u \in r.ids \ D /\ r.rows[t].about = r.rows[u].about
      BY <1>6, <1>7
    <2>2. ~(t > u) /\ ~(u > t)
      BY <2>1 DEF Duplicates, D
    <2>3. t \in Int /\ u \in Int  BY <1>1, <2>1 DEF TaskIds
    <2> QED  BY <2>2, <2>3
  <1>8. ASSUME NEW i \in Items, ActiveAbout(task, i) # {}
        PROVE  ActiveAbout(rows, i) # {}
    <2> DEFINE T == {t \in r.ids : r.rows[t].about = i}
    <2>1. T \subseteq 1..MaxTasks /\ T # {} /\ MaxTasks \in Nat
      BY <1>1, <1>5, <1>8, TasksAssumption DEF TaskIds
    <2>2. PICK x \in T : \A y \in T : y <= x
      <3> HIDE DEF T
      <3> QED  BY <2>1, NatMax
    <2>3. \A y \in T : ~(y > x)
      <3>1. x \in 1..MaxTasks /\ \A y \in T : y \in 1..MaxTasks  BY <2>1
      <3> QED  BY <2>2, <3>1
    <2>4. x \in r.ids \ D /\ r.rows[x].about = i
      BY <2>3 DEF Duplicates, D
    <2> QED  BY <1>6, <2>4
  <1> QED  BY <1>5, <1>6, <1>7, <1>8 DEF rows, D

LEMMA Singleton ==
  ASSUME NEW S, NEW x, S = {x} PROVE Cardinality(S) = 1
  BY FS_Singleton

\* create_checklist_task leaves the item with one active task, the one that the
\* checklist names, and every other item with its newest.
LEMMA OneIsLeft ==
  ASSUME IInv, KnownOK, Next, ~overlapped, NEW s \in Sessions,
         run[s].op = "requirement", run'[s].op = "none", ~run[s].force,
         created < MaxTasks \/ Found(run[s]) # {}
  PROVE  /\ ActiveAbout(task', run[s].about) = {linked'[run[s].about]}
         /\ \A i \in Items : ActiveAbout(task, i) # {}
                             => Cardinality(ActiveAbout(task', i)) = 1
  <1> DEFINE r == run[s]
             i == run[s].about
             rows == Deduped(run[s])
  <1>0. TypeOK  BY DEF IInv
  <1>1. \A j \in Items :
          /\ ActiveAbout(task, j) = {t \in r.ids : r.rows[t].about = j}
          /\ ActiveAbout(rows, j) =
               {t \in r.ids \ Duplicates(r) : r.rows[t].about = j}
          /\ \A t, u \in ActiveAbout(rows, j) : t = u
          /\ ActiveAbout(task, j) # {} => ActiveAbout(rows, j) # {}
    BY NewestIsLeft
  <1>2. i \in Items  BY DEF IInv, RequestOK
  <1>3. Found(r) = ActiveAbout(rows, i)
    BY <1>1, <1>2 DEF Found
  <1>4. r.ids \subseteq Existing /\ Duplicates(r) \subseteq Existing
    BY DEF KnownOK, OfTender, Duplicates
  <1>5. ASSUME NEW j \in Items, ActiveAbout(task, j) # {}
        PROVE  Cardinality(ActiveAbout(rows, j)) = 1
    <2>1. PICK x : x \in ActiveAbout(rows, j)  BY <1>1, <1>5
    <2>2. ActiveAbout(rows, j) = {x}  BY <1>1, <2>1
    <2> QED  BY <2>2, Singleton
  <1>6. LinkFound(s) \/ \E due \in Dues : CreateRequirementTask(s, due)
    <2>1. \/ LinkFound(s) \/ Fail(s)
          \/ \E due \in Dues : CreateRequirementTask(s, due)
      <3>1. \A q \in Sessions : Done(q) => q = s
        <4> SUFFICES ASSUME NEW q \in Sessions, Done(q), q # s PROVE FALSE
          OBVIOUS
        <4>1. run'[s] = run[s]  BY <1>0, RunAfter DEF Done
        <4> QED  BY <4>1
      <3>2. run' # run
        OBVIOUS
      <3>3. ~Insertions /\ \A t \in TaskIds : ~Age(t)
        BY <3>2 DEF Insertions, CreateTask, CreateDraft, Age
      <3>4. ~Begins
        <4>1. ASSUME NEW q \in Sessions, NEW request, NEW ids, Begin(q, request, ids)
              PROVE  FALSE
          <5>1. q # s  BY <4>1 DEF Begin
          <5>2. run'[s] = run[s]  BY <1>0, <4>1, <5>1, RunAfter DEF Begin
          <5> QED  BY <5>2
        <4> QED
          BY <4>1 DEF Begins, BeginUpdate, BeginDelete, BeginDue, BeginBulk,
                      BeginRequirement, BeginEconomic, BeginDraft
      <3>5. Commits  BY <3>3, <3>4 DEF Next
      <3> QED
        BY <3>1, <3>5 DEF Commits, FinishUpdate, FinishDelete, FinishDue, FinishBulk,
             LinkFound, CreateRequirementTask, CreateEconomicTask, CreateDraftTask,
             Fail, NothingToDo, Rollback
    <2>2. ~Fail(s)
      <3>1. created \in Int /\ MaxTasks \in Int
        BY <1>0, TasksAssumption DEF TypeOK
      <3> QED  BY <1>4, <3>1 DEF Fail, Written, Inserts
    <2> QED  BY <2>1, <2>2
  <1>7. CASE LinkFound(s)
    <2>1. PICK x \in Found(r) : linked' = [linked EXCEPT ![i] = x]
      BY <1>7 DEF LinkFound
    <2>2. task' = rows /\ linked'[i] = x
      BY <1>0, <1>2, <1>7, <2>1 DEF LinkFound, TypeOK
    <2>3. ActiveAbout(rows, i) = {x}
      BY <1>1, <1>2, <1>3, <2>1
    <2>4. linked'[run[s].about] = x /\ ActiveAbout(task', run[s].about) = {x}
      BY <2>2, <2>3
    <2> HIDE DEF rows, i, r
    <2> QED  BY <1>5, <2>2, <2>4
  <1>8. ASSUME NEW due \in Dues, CreateRequirementTask(s, due)
        PROVE  /\ ActiveAbout(task', i) = {linked'[i]}
               /\ \A j \in Items : ActiveAbout(task, j) # {}
                                   => Cardinality(ActiveAbout(task', j)) = 1
    <2> DEFINE row == New(UserOf[s], NoUser, "pendiente", due, i, FALSE)
    <2>1. /\ Insert(row, rows, sent) /\ Found(r) = {}
          /\ linked' = [linked EXCEPT ![i] = created']
      BY <1>8 DEF CreateRequirementTask
    <2>2. row \in Task /\ row.about = i /\ row.status = "pendiente"
      BY <1>2, TasksAssumption, ValuesAssumption DEF New, Task, TaskStatus
    <2>3. rows \in [TaskIds -> Row]  BY <1>4, DedupedRows
    <2>4. \A t \in TaskIds : rows[t] # NoTask => Exists(t)
      BY <1>4, DedupedRows
    <2> HIDE DEF row, rows
    <2>5. /\ created' = created + 1 /\ created' \in TaskIds /\ task'[created'] = row
          /\ \A t \in TaskIds \ {created'} : task'[t] = rows[t]
      BY <1>0, <2>1, <2>2, <2>3, InsertEffect
    <2>6. rows[created'] = NoTask
      <3>1. ~Exists(created')
        BY <1>0, <2>5, TasksAssumption DEF IInv, CreatedOK, TypeOK
      <3> QED  BY <2>4, <2>5, <3>1
    <2>7. Active(row)  BY <2>2, NoTaskAssumption DEF Active, ActiveStatuses
    <2>8. \A t \in TaskIds : t # created' =>
            (Active(task'[t]) <=> Active(rows[t])) /\ task'[t] = rows[t]
      BY <2>5
    <2>9. ActiveAbout(task', i) = ActiveAbout(rows, i) \cup {created'}
      BY <2>2, <2>5, <2>6, <2>7, <2>8 DEF ActiveAbout, Active
    <2>10. \A j \in Items \ {i} : ActiveAbout(task', j) = ActiveAbout(rows, j)
      BY <2>2, <2>5, <2>6, <2>8 DEF ActiveAbout, Active
    <2>11. linked'[i] = created'
      BY <1>0, <1>2, <2>1 DEF TypeOK
    <2>12. ActiveAbout(task', i) = {created'}
      BY <1>3, <2>1, <2>9
    <2> HIDE DEF i, r
    <2>13. Cardinality(ActiveAbout(task', i)) = 1  BY <2>12, Singleton
    <2> QED  BY <1>5, <2>10, <2>11, <2>12, <2>13
  <1> QED  BY <1>6, <1>7, <1>8

\* _dedupe_requirement_tasks and _find_active_requirement_task leave one active
\* task of the item, the one that the checklist names.
THEOREM OneTaskIsActive == Spec => OneActiveTask
  <1> DEFINE A == \A s \in Sessions :
       /\ run[s].op = "requirement" /\ run'[s].op = "none"
       /\ ~run[s].force /\ ~overlapped
       /\ created < MaxTasks \/ Found(run[s]) # {}
       => /\ ActiveAbout(task', run[s].about) = {linked'[run[s].about]}
          /\ \A i \in Items : ActiveAbout(task, i) # {}
                              => Cardinality(ActiveAbout(task', i)) = 1
  <1>1. IInv /\ KnownOK /\ [Next]_vars => [A]_vars
    BY OneIsLeft
  <1>2. OneActiveTask <=> [][A]_vars  BY DEF OneActiveTask
  <1> QED  BY <1>1, <1>2, InductiveInvariant, KnownAlways, PTL DEF Spec
=============================================================================
