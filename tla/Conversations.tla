---------------------------- MODULE Conversations ----------------------------
(***************************************************************************)
(* One stored conversation of a user with the assistant: the entities it   *)
(* is about (a product, a customer, a tender), which later questions refer *)
(* to, and its messages.                                                   *)
(*                                                                         *)
(* A question reads the entities when it is asked, is answered by slow     *)
(* services, and writes them back as a whole together with its exchange.   *)
(* Every question has a number, in the order in which their transactions   *)
(* begin, which is the order of created_at too.  An entity is known by the *)
(* question that mentioned it.  How questions are answered is left out,    *)
(* and so are titles, briefing modes and the filter of the year.           *)
(***************************************************************************)
EXTENDS Integers, FiniteSetsExt

CONSTANTS Sessions,       \* questions that may be under way at once
          Fields,         \* kinds of entities
          MaxQuestions,
          NoRow, NoOne, NoField

ASSUME ConversationsAssumption ==
  MaxQuestions \in Nat /\ NoOne \notin Sessions /\ NoField \notin Fields

Questions == 1..MaxQuestions
Entities == [Fields -> {0} \cup Questions]        \* 0: none
NoEntities == [f \in Fields |-> 0]

ASSUME NoRowAssumption == NoRow \notin Entities

VARIABLES
  row,          \* entity_snapshot of the committed row
  messages,     \* questions with a committed exchange
  mentions,     \* what each question was about
  asked,
  locked,       \* who has inserted or updated the row and not ended
  run,          \* the question of each session
  stored,       \* auxiliary: questions that ever had a committed exchange
  overlapped    \* auxiliary: two questions have been under way at once

vars ==
  <<row, messages, mentions, asked, locked, run, stored, overlapped>>

Pcs == {"none", "reset", "answer", "ensure", "insert", "read", "write", "end"}

Run == [pc      : Pcs,
        id      : {0} \cup Questions,
        ctx     : Entities,               \* conv
        used    : {0} \cup Questions,     \* what a follow-up refers to
        mine    : Entities \cup {NoRow},  \* the row as it has written it
        seen    : Entities \cup {NoRow},  \* the row that it writes back
        deleted : SUBSET Questions]       \* exchanges that a reset deletes

Idle == [pc |-> "none", id |-> 0, ctx |-> NoEntities, used |-> 0,
         mine |-> NoRow, seen |-> NoRow, deleted |-> {}]

TypeOK ==
  /\ row \in Entities \cup {NoRow}
  /\ messages \subseteq Questions
  /\ mentions \in [Questions -> SUBSET Fields]
  /\ asked \in {0} \cup Questions
  /\ locked \in Sessions \cup {NoOne}
  /\ run \in [Sessions -> Run]
  /\ stored \subseteq Questions
  /\ overlapped \in BOOLEAN

Init ==
  /\ row = NoRow
  /\ messages = {}
  /\ mentions = [q \in Questions |-> {}]
  /\ asked = 0
  /\ locked = NoOne
  /\ run = [s \in Sessions |-> Idle]
  /\ stored = {}
  /\ overlapped = FALSE

-----------------------------------------------------------------------------

(* load_context: no row is like no entities. *)
Loaded == IF row = NoRow THEN NoEntities ELSE row

(* What a transaction sees of the row. *)
Visible(s) == IF run[s].mine # NoRow THEN run[s].mine ELSE row

(* resolve_follow_up: with nothing to refer to it is a question by itself. *)
Referred(ctx, f) == IF f = NoField THEN 0 ELSE ctx[f]

(* A question that asks for a new topic has "reset" to do first. *)
Ask(s, f, reset) ==
  /\ run[s].pc = "none" /\ asked < MaxQuestions
  /\ asked' = asked + 1
  /\ run' = [run EXCEPT ![s] =
       [Idle EXCEPT !.pc   = IF reset THEN "reset" ELSE "answer",
                    !.id   = asked',
                    !.ctx  = IF reset THEN NoEntities ELSE Loaded,
                    !.used = IF reset THEN 0 ELSE Referred(Loaded, f)]]
  /\ overlapped' = (overlapped \/ \E r \in Sessions : run[r].pc # "none")
  /\ UNCHANGED <<row, messages, mentions, locked, stored>>

Free(s) == locked \in {s, NoOne}

(* reset_conversation.  A row without entities is not updated. *)
ToClear == row \notin {NoRow, NoEntities}

ResetEntities(s, deleted) ==
  LET r == run[s] IN
  /\ r.pc = "reset"
  /\ ToClear => Free(s)
  /\ locked' = IF ToClear THEN s ELSE locked
  /\ run' = [run EXCEPT ![s] =
       [r EXCEPT !.pc      = "answer",
                 !.mine    = IF ToClear THEN NoEntities ELSE @,
                 !.deleted = deleted]]
  /\ UNCHANGED <<row, messages, mentions, asked, stored, overlapped>>

ResetKeepingMessages(s) == ResetEntities(s, {})

Reset(s) == ResetEntities(s, messages)

(* update_from_response: what the answer is not about stays. *)
LearnedOnly(ctx, fs, id) == [f \in fs |-> id]

Learned(ctx, fs, id) == [f \in Fields |-> IF f \in fs THEN id ELSE ctx[f]]

(* _execute_query and _finalize_response: an answer, to a follow-up as     *)
(* well, is about what it finds and the record that is open.               *)
Answer(s, fs) ==
  LET r == run[s] IN
  /\ r.pc = "answer"
  /\ mentions' = [mentions EXCEPT ![r.id] = fs]
  /\ run' = [run EXCEPT ![s] =
       [r EXCEPT !.pc  = "ensure",
                 !.ctx = Learned(@, fs, r.id)]]
  /\ UNCHANGED <<row, messages, asked, locked, stored, overlapped>>

Continue(s, r) ==
  run' = [run EXCEPT ![s] = r] /\ UNCHANGED <<row, messages, mentions, asked,
                                              stored, overlapped>>

(* ensure_conversation: the insertion waits for that of another question,  *)
(* and fails if the other one commits.                                     *)
Ensure(s) ==
  /\ run[s].pc = "ensure"
  /\ Continue(s, [run[s] EXCEPT !.pc = IF Visible(s) = NoRow THEN "insert"
                                                             ELSE "read"])
  /\ UNCHANGED locked

InsertRow(s) ==
  /\ run[s].pc = "insert" /\ Free(s) /\ row = NoRow
  /\ locked' = s
  /\ Continue(s, [run[s] EXCEPT !.pc = "read", !.mine = NoEntities])

(* save_context: the snapshot is written if it differs from the one that   *)
(* has just been read, over whatever another question has committed since. *)
ReadRow(s) ==
  /\ run[s].pc = "read"
  /\ Continue(s, [run[s] EXCEPT !.pc = "write", !.seen = Visible(s)])
  /\ UNCHANGED locked

WriteRow(s) ==
  LET r == run[s] IN
  /\ r.pc = "write" /\ Free(s)
  /\ locked' = s
  /\ Continue(s, [r EXCEPT !.pc   = "end",
                           !.mine = IF r.ctx # r.seen THEN r.ctx ELSE Visible(s)])

Released(s) == IF locked = s THEN NoOne ELSE locked

(* append_exchange and the commit. *)
Finish(s) ==
  LET r == run[s] IN
  /\ r.pc = "end"
  /\ row' = r.mine
  /\ messages' = (messages \ r.deleted) \cup {r.id}
  /\ stored' = stored \cup {r.id}
  /\ locked' = Released(s)
  /\ run' = [run EXCEPT ![s] = Idle]
  /\ UNCHANGED <<mentions, asked, overlapped>>

Abandon(s) ==
  /\ locked' = Released(s)
  /\ run' = [run EXCEPT ![s] = Idle]
  /\ UNCHANGED <<row, messages, mentions, asked, stored, overlapped>>

(* The question cannot be answered: an error, and everything rolls back. *)
Fail(s) == run[s].pc \in {"reset", "answer"} /\ Abandon(s)

(* The user has the answer, and nothing of the exchange is stored: an      *)
(* exception of save_context or append_exchange is swallowed, and the      *)
(* commit that follows it fails with the transaction, or fails by itself.  *)
Saving == {"ensure", "insert", "read", "write", "end"}

LoseMessagesOnly(s) ==
  /\ run[s].pc \in Saving
  /\ row' = IF run[s].pc = "end" THEN run[s].mine ELSE row
  /\ locked' = Released(s)
  /\ run' = [run EXCEPT ![s] = Idle]
  /\ UNCHANGED <<messages, mentions, asked, stored, overlapped>>

Lose(s) == run[s].pc \in Saving /\ Abandon(s)

(* The insertion of a row that another question has inserted always fails. *)
InsertRetried(s) ==
  /\ run[s].pc = "insert" /\ Free(s) /\ row # NoRow
  /\ UNCHANGED vars

InsertFails(s) ==
  /\ run[s].pc = "insert" /\ Free(s) /\ row # NoRow
  /\ Abandon(s)

(* POST /assistant/conversations/reset *)
ResetConversation ==
  /\ row # NoRow /\ (ToClear => locked = NoOne)
  /\ row' = NoEntities
  /\ messages' = {}
  /\ overlapped' = (overlapped \/ \E r \in Sessions : run[r].pc # "none")
  /\ UNCHANGED <<mentions, asked, locked, run, stored>>

-----------------------------------------------------------------------------

Proceed(s) ==
  \/ Reset(s)
  \/ \E fs \in SUBSET Fields : Answer(s, fs)
  \/ Ensure(s) \/ InsertRow(s) \/ InsertFails(s)
  \/ ReadRow(s) \/ WriteRow(s)
  \/ Finish(s)

Next ==
  \/ ResetConversation
  \/ \E s \in Sessions :
       \/ \E f \in Fields \cup {NoField}, reset \in BOOLEAN : Ask(s, f, reset)
       \/ Proceed(s) \/ Lose(s) \/ Fail(s)

Spec == Init /\ [][Next]_vars

(* Services answer or time out, and PostgreSQL lets those who wait for a   *)
(* row have it in turn.  Nobody relies on failures.                        *)
Fairness == \A s \in Sessions : SF_vars(Proceed(s))

FairSpec == Spec /\ Fairness

-----------------------------------------------------------------------------
(* Properties *)

(* The entity of a kind that the stored conversation is about is the one   *)
(* of its last stored exchange that mentions any, as long as questions do  *)
(* not overlap: after resets, errors and answers without entities a        *)
(* follow-up refers to what the user can read above it.                    *)
ContextIsOfMessages ==
  ~overlapped /\ row # NoRow =>
    \A f \in Fields :
      row[f] = Max({0} \cup {q \in messages : f \in mentions[q]})

(* An answered question may lose its exchange without a sign.  It then     *)
(* leaves nothing behind: what the conversation is about, and what a       *)
(* follow-up refers to, was mentioned by a question whose exchange has     *)
(* been stored, however questions, resets and failures overlap.            *)
MentionedBy(q, f) == q \in stored /\ f \in mentions[q]

NothingHalfStored ==
  /\ row # NoRow =>
       \A f \in Fields : row[f] = 0 \/ MentionedBy(row[f], f)
  /\ \A s \in Sessions : run[s].used \in {0} \cup stored

(* A question that is asked comes to its end: none waits for the row of    *)
(* the conversation for ever.                                              *)
QuestionsEnd ==
  \A s \in Sessions : run[s].pc # "none" ~> run[s].pc = "none"

(* test_topic_reset_clears_context: a follow-up refers to an entity of the  *)
(* conversation as it is stored, never to one from before a reset.         *)
FollowUpsReferToMessages ==
  [][\A s \in Sessions :
       run[s].pc = "none" => run'[s].used \in {0} \cup messages]_vars
=============================================================================
