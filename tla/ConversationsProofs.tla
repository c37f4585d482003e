------------------------- MODULE ConversationsProofs -------------------------
(***************************************************************************)
(* Proofs about Conversations, for any number of windows, questions and    *)
(* kinds of entities: the variables keep their types, without overlap the  *)
(* conversation is about what its messages mention, and under any overlap  *)
(* a question that loses its exchange leaves nothing behind.               *)
(***************************************************************************)
EXTENDS Conversations, TLAPS

-----------------------------------------------------------------------------
(* The inductive invariant, in parts.                                      *)

\* A question under way has its number.
IdOK == \A s \in Sessions : run[s].pc # "none" => run[s].id \in Questions

\* Without overlap one question is under way.
AloneOK ==
  ~overlapped =>
    \A s, r \in Sessions : run[s].pc # "none" /\ run[r].pc # "none" => s = r

\* Without overlap the question under way is newer than what is stored.
NumbersOK ==
  ~overlapped =>
    /\ \A q \in messages : q <= asked
    /\ \A s \in Sessions :
         run[s].pc # "none" => run[s].id = asked /\ run[s].id \notin messages

\* The last question that mentioned an entity of a kind.
LastAbout(ms, qs, f) == Max({0} \cup {q \in qs : f \in ms[q]})

IsAbout(ctx, ms, qs) == \A f \in Fields : ctx[f] = LastAbout(ms, qs, f)

\* A conversation without a row has no messages.
RowOK == ~overlapped /\ row = NoRow => messages = {}

\* What a question that is alone takes the conversation to be about is what
\* its messages will mention.
QuestionOK(s) ==
  LET r == run[s]
      kept == messages \ r.deleted
  IN  /\ r.pc = "reset" => r.ctx = NoEntities
      /\ r.pc = "answer" => IsAbout(r.ctx, mentions, kept)
      /\ r.pc \in {"ensure", "insert", "read", "write", "end"} =>
           IsAbout(r.ctx, mentions, kept \cup {r.id})
      /\ r.pc \in {"read", "write"} => Visible(s) # NoRow
      /\ r.pc = "write" => r.seen = Visible(s)
      /\ r.pc = "end" => r.mine = r.ctx

QuestionsOK == ~overlapped => \A s \in Sessions : QuestionOK(s)

IInv == /\ TypeOK /\ IdOK /\ AloneOK /\ NumbersOK /\ RowOK
        /\ ContextIsOfMessages /\ QuestionsOK

-----------------------------------------------------------------------------
(* The last question that mentioned something                              *)

LEMMA LastOfNone ==
  ASSUME NEW ms, NEW f PROVE LastAbout(ms, {}, f) = 0
  <1>1. {0} \cup {q \in {} : f \in ms[q]} = {0}  OBVIOUS
  <1>2. \A x : x = Max({0}) => x = 0
    <2>1. Max({0}) = CHOOSE x \in {0} : \A y \in {0} : x >= y  BY DEF Max
    <2>2. \E x \in {0} : \A y \in {0} : x >= y  OBVIOUS
    <2>3. Max({0}) \in {0}  BY <2>1, <2>2
    <2> QED  BY <2>3
  <1> QED  BY <1>1, <1>2 DEF LastAbout

LEMMA LastAdded ==
  ASSUME NEW ms, NEW f, NEW qs \in SUBSET Questions, NEW id \in Questions,
         \A q \in qs : q < id
  PROVE  LastAbout(ms, qs \cup {id}, f) =
           IF f \in ms[id] THEN id ELSE LastAbout(ms, qs, f)
  <1> DEFINE S == {0} \cup {q \in qs \cup {id} : f \in ms[q]}
  <1>1. CASE f \notin ms[id]
    <2>1. S = {0} \cup {q \in qs : f \in ms[q]}  BY <1>1
    <2> QED  BY <1>1, <2>1 DEF LastAbout
  <1>2. CASE f \in ms[id]
    <2>1. /\ id \in S /\ \A y \in S : id >= y
          /\ \A x \in S : x \in Int /\ ((\A y \in S : x >= y) => x = id)
      BY <1>2, ConversationsAssumption DEF Questions
    <2>2. Max(S) = CHOOSE x \in S : \A y \in S : x >= y  BY DEF Max
    <2> HIDE DEF S
    <2>3. Max(S) \in S /\ \A y \in S : Max(S) >= y  BY <2>1, <2>2
    <2>4. Max(S) = id  BY <2>1, <2>3
    <2> QED  BY <1>2, <2>4 DEF LastAbout, S
  <1> QED  BY <1>1, <1>2

LEMMA LastSame ==
  ASSUME NEW ms, NEW ns, NEW f, NEW qs, \A q \in qs : ms[q] = ns[q]
  PROVE  LastAbout(ms, qs, f) = LastAbout(ns, qs, f)
  <1>1. {q \in qs : f \in ms[q]} = {q \in qs : f \in ns[q]}  OBVIOUS
  <1> QED  BY <1>1 DEF LastAbout

\* An answer adds to what the conversation is about what it mentions.
LEMMA LearnedIsAbout ==
  ASSUME NEW ms \in [Questions -> SUBSET Fields], NEW fs \in SUBSET Fields,
         NEW qs \in SUBSET Questions, NEW id \in Questions,
         \A q \in qs : q < id, NEW ctx, IsAbout(ctx, ms, qs)
  PROVE  IsAbout(Learned(ctx, fs, id), [ms EXCEPT ![id] = fs], qs \cup {id})
  <1> DEFINE ns == [ms EXCEPT ![id] = fs]
  <1>1. ns[id] = fs  OBVIOUS
  <1>2. \A q \in qs : q # id  BY DEF Questions
  <1>3. \A q \in qs : ms[q] = ns[q]  BY <1>2
  <1> HIDE DEF ns
  <1>4. \A f : LastAbout(ms, qs, f) = LastAbout(ns, qs, f)  BY <1>3, LastSame
  <1>5. \A f : LastAbout(ns, qs \cup {id}, f) =
                 IF f \in fs THEN id ELSE LastAbout(ns, qs, f)
    BY <1>1, LastAdded
  <1>6. IsAbout(Learned(ctx, fs, id), ns, qs \cup {id})
    BY <1>4, <1>5 DEF IsAbout, Learned
  <1> QED  BY <1>6 DEF ns

-----------------------------------------------------------------------------
(* Records                                                                 *)

LEMMA NoEntitiesAreEntities ==
  /\ NoEntities \in Entities /\ NoEntities # NoRow
  /\ \A ms : IsAbout(NoEntities, ms, {})
  BY NoRowAssumption, LastOfNone DEF NoEntities, Entities, IsAbout

LEMMA IdleIsRun == Idle \in Run /\ Idle.pc = "none"
  BY NoEntitiesAreEntities DEF Idle, Run, Pcs

LEMMA RunFields ==
  ASSUME TypeOK, NEW s \in Sessions
  PROVE  /\ run[s] \in Run /\ run[s].pc \in Pcs
         /\ run[s].id \in {0} \cup Questions /\ run[s].ctx \in Entities
         /\ run[s].mine \in Entities \cup {NoRow}
         /\ run[s].seen \in Entities \cup {NoRow}
         /\ run[s].deleted \subseteq Questions
         /\ run[s].ctx # NoRow /\ Visible(s) \in Entities \cup {NoRow}
  BY NoRowAssumption DEF TypeOK, Run, Visible

-----------------------------------------------------------------------------
(* Steps of one question                                                   *)

\* A step of one question leaves IInv true if it leaves the parts true that
\* are about this question and about what is stored.
LEMMA StepKeeps ==
  ASSUME IInv, NEW s \in Sessions, run[s].pc # "none",
         NEW X \in Run, run' = [run EXCEPT ![s] = X],
         asked' = asked, overlapped' = overlapped,
         row' \in Entities \cup {NoRow}, messages' \subseteq Questions,
         mentions' \in [Questions -> SUBSET Fields],
         locked' \in Sessions \cup {NoOne}, stored' \subseteq Questions,
         X.pc # "none" => X.id = run[s].id,
         ~overlapped =>
           /\ \A q \in messages' : q <= asked
           /\ X.pc # "none" => X.id \notin messages'
           /\ row' = NoRow => messages' = {}
           /\ ContextIsOfMessages'
           /\ QuestionOK(s)'
  PROVE  IInv'
  <1>1. /\ run'[s] = X /\ \A r \in Sessions \ {s} : run'[r] = run[r]
        /\ run' \in [Sessions -> Run]
    BY DEF IInv, TypeOK
  <1>2. TypeOK'  BY <1>1 DEF IInv, TypeOK
  <1>3. IdOK'  BY <1>1 DEF IInv, IdOK
  <1>4. AloneOK' /\ (~overlapped => \A r \in Sessions \ {s} : run'[r].pc = "none")
    BY <1>1 DEF IInv, AloneOK
  <1>5. NumbersOK'
    BY <1>1, <1>4 DEF IInv, NumbersOK
  <1>6. RowOK' /\ ContextIsOfMessages'
    BY DEF RowOK, ContextIsOfMessages
  <1>7. QuestionsOK'
    <2> SUFFICES ASSUME ~overlapped, NEW r \in Sessions PROVE QuestionOK(r)'
      BY DEF QuestionsOK
    <2>1. CASE r = s  BY <2>1
    <2>2. CASE r # s  BY <1>4, <2>2 DEF QuestionOK
    <2> QED  BY <2>1, <2>2
  <1> QED  BY <1>2, <1>3, <1>4, <1>5, <1>6, <1>7 DEF IInv

\* A step that changes nothing that is stored.
LEMMA QuietStepKeeps ==
  ASSUME IInv, NEW s \in Sessions, run[s].pc # "none",
         NEW X \in Run, run' = [run EXCEPT ![s] = X],
         UNCHANGED <<row, messages, mentions, asked, stored, overlapped>>,
         locked' \in Sessions \cup {NoOne},
         X.pc # "none" => X.id = run[s].id,
         ~overlapped => QuestionOK(s)'
  PROVE  IInv'
  <1>1. /\ row' \in Entities \cup {NoRow} /\ messages' \subseteq Questions
        /\ mentions' \in [Questions -> SUBSET Fields] /\ stored' \subseteq Questions
    BY DEF IInv, TypeOK
  <1>2. ~overlapped =>
          /\ \A q \in messages' : q <= asked
          /\ X.pc # "none" => X.id \notin messages'
          /\ row' = NoRow => messages' = {}
    BY DEF IInv, NumbersOK, RowOK
  <1>3. ContextIsOfMessages'
    BY DEF IInv, ContextIsOfMessages
  <1> QED  BY <1>1, <1>2, <1>3, StepKeeps

-----------------------------------------------------------------------------
(* The actions                                                             *)

LEMMA ReferredIsQuestion ==
  ASSUME TypeOK, NEW f \in Fields \cup {NoField}
  PROVE  Loaded \in Entities /\ Referred(Loaded, f) \in {0} \cup Questions
  <1>1. Loaded \in Entities
    BY NoEntitiesAreEntities DEF TypeOK, Loaded
  <1> QED  BY <1>1 DEF Referred, Entities

LEMMA AskStep ==
  ASSUME IInv, NEW s \in Sessions, NEW f \in Fields \cup {NoField},
         NEW reset \in BOOLEAN, Ask(s, f, reset)
  PROVE  IInv'
  <1> DEFINE ctx == IF reset THEN NoEntities ELSE Loaded
             used == IF reset THEN 0 ELSE Referred(Loaded, f)
             X == [Idle EXCEPT !.pc   = IF reset THEN "reset" ELSE "answer",
                               !.id   = asked', !.ctx = ctx, !.used = used]
  <1>1. /\ asked' = asked + 1 /\ asked' \in Questions /\ asked \in Nat
        /\ run' = [run EXCEPT ![s] = X]
        /\ overlapped' = (overlapped \/ \E r \in Sessions : run[r].pc # "none")
        /\ UNCHANGED <<row, messages, mentions, locked, stored>>
    BY ConversationsAssumption DEF Ask, IInv, TypeOK, Questions
  <1>2. ctx \in Entities /\ used \in {0} \cup Questions
    BY ReferredIsQuestion, NoEntitiesAreEntities DEF IInv
  <1> HIDE DEF ctx, used
  <1>3. /\ X \in Run /\ X.pc = (IF reset THEN "reset" ELSE "answer")
        /\ X.id = asked' /\ X.ctx = ctx /\ X.seen = NoRow /\ X.deleted = {}
    BY <1>1, <1>2, IdleIsRun DEF Idle, Run, Pcs
  <1> HIDE DEF X
  <1>4. /\ run'[s] = X /\ \A r \in Sessions \ {s} : run'[r] = run[r]
        /\ run' \in [Sessions -> Run]
    BY <1>1, <1>3 DEF IInv, TypeOK
  <1>5. ~overlapped' => ~overlapped /\ \A r \in Sessions : run[r].pc = "none"
    BY <1>1
  <1>6. TypeOK'
    <2>1. asked' \in {0} \cup Questions /\ overlapped' \in BOOLEAN
      BY <1>1 DEF IInv, TypeOK
    <2> QED  BY <1>1, <1>4, <2>1 DEF IInv, TypeOK
  <1>7. IdOK'  BY <1>1, <1>3, <1>4 DEF IInv, IdOK
  <1>8. AloneOK'  BY <1>4, <1>5 DEF AloneOK
  <1>9. NumbersOK'
    <2>1. ~overlapped => \A q \in messages : q \in Nat /\ q <= asked
      BY DEF IInv, NumbersOK, TypeOK, Questions
    <2>2. ~overlapped => \A q \in messages : q <= asked' /\ q # asked'
      BY <1>1, <2>1
    <2> QED  BY <1>1, <1>3, <1>4, <1>5, <2>2 DEF NumbersOK
  <1>10. RowOK' /\ ContextIsOfMessages'
    BY <1>1, <1>5 DEF IInv, RowOK, ContextIsOfMessages
  <1>11. QuestionsOK'
    <2> SUFFICES ASSUME ~overlapped', NEW r \in Sessions PROVE QuestionOK(r)'
      BY DEF QuestionsOK
    <2>1. CASE r # s  BY <1>4, <1>5, <2>1 DEF QuestionOK
    <2>2. CASE r = s
      <3>1. IsAbout(Loaded, mentions, messages)
        BY <1>5, NoEntitiesAreEntities
           DEF IInv, RowOK, ContextIsOfMessages, Loaded, IsAbout, LastAbout
      <3>2. messages \ {} = messages  OBVIOUS
      <3> QED  BY <1>1, <1>3, <1>4, <2>2, <3>1, <3>2 DEF QuestionOK, ctx
    <2> QED  BY <2>1, <2>2
  <1> QED  BY <1>6, <1>7, <1>8, <1>9, <1>10, <1>11 DEF IInv

LEMMA ResetStep == ASSUME IInv, NEW s \in Sessions, Reset(s) PROVE IInv'
  <1> DEFINE r == run[s]
             X == [r EXCEPT !.pc      = "answer",
                            !.mine    = IF ToClear THEN NoEntities ELSE @,
                            !.deleted = messages]
  <1>1. r \in Run /\ messages \subseteq Questions  BY RunFields DEF IInv, TypeOK
  <1>2. /\ r.pc = "reset" /\ run' = [run EXCEPT ![s] = X]
        /\ locked' \in Sessions \cup {NoOne}
        /\ UNCHANGED <<row, messages, mentions, asked, stored, overlapped>>
    BY DEF Reset, ResetEntities, IInv, TypeOK
  <1>3. /\ X \in Run /\ X.pc = "answer" /\ X.id = r.id /\ X.ctx = r.ctx
        /\ X.deleted = messages
    BY <1>1, NoEntitiesAreEntities DEF Run, Pcs
  <1> HIDE DEF X
  <1>4. run'[s] = X
    BY <1>2 DEF IInv, TypeOK
  <1>5. ASSUME ~overlapped PROVE QuestionOK(s)'
    <2>1. r.ctx = NoEntities /\ messages \ messages = {}
      BY <1>2, <1>5 DEF IInv, QuestionsOK, QuestionOK
    <2> QED  BY <1>2, <1>3, <1>4, <2>1, NoEntitiesAreEntities DEF QuestionOK
  <1> QED  BY <1>2, <1>3, <1>4, <1>5, QuietStepKeeps

LEMMA AnswerStep ==
  ASSUME IInv, NEW s \in Sessions, NEW fs \in SUBSET Fields, Answer(s, fs)
  PROVE  IInv'
  <1> DEFINE r == run[s]
             X == [r EXCEPT !.pc = "ensure", !.ctx = Learned(@, fs, r.id)]
  <1>1. /\ r \in Run /\ r.id \in {0} \cup Questions /\ r.ctx \in Entities
        /\ mentions \in [Questions -> SUBSET Fields]
        /\ messages \subseteq Questions
    BY RunFields DEF IInv, TypeOK
  <1>2. /\ r.pc = "answer" /\ run' = [run EXCEPT ![s] = X]
        /\ mentions' = [mentions EXCEPT ![r.id] = fs]
        /\ UNCHANGED <<row, messages, asked, locked, stored, overlapped>>
    BY DEF Answer
  <1>3. Learned(r.ctx, fs, r.id) \in Entities
    BY <1>1 DEF Learned, Entities
  <1>4. /\ X \in Run /\ X.pc = "ensure" /\ X.id = r.id
        /\ X.ctx = Learned(r.ctx, fs, r.id)
        /\ X.deleted = r.deleted
    BY <1>1, <1>3 DEF Run, Pcs
  <1> HIDE DEF X
  <1>5. run'[s] = X /\ mentions' \in [Questions -> SUBSET Fields]
    BY <1>1, <1>2 DEF IInv, TypeOK
  <1>6. ASSUME ~overlapped
        PROVE  /\ \A q \in messages' : q <= asked
               /\ X.id \notin messages'
               /\ row' = NoRow => messages' = {}
               /\ ContextIsOfMessages'
               /\ QuestionOK(s)'
    <2>1. /\ r.id \in Questions /\ r.id = asked /\ r.id \notin messages
          /\ \A q \in messages : q <= asked
      BY <1>2, <1>6 DEF IInv, IdOK, NumbersOK
    <2>2. row = NoRow => messages = {}  BY <1>6 DEF IInv, RowOK
    <2>3. \A f : LastAbout(mentions, messages, f) = LastAbout(mentions', messages, f)
      <3>1. \A q \in messages : mentions[q] = mentions'[q]
        BY <1>1, <1>2, <2>1
      <3> QED  BY <3>1, LastSame
    <2>4. ContextIsOfMessages'
      BY <1>2, <1>6, <2>3 DEF IInv, ContextIsOfMessages, LastAbout
    <2>5. IsAbout(X.ctx, mentions', (messages \ r.deleted) \cup {r.id})
      <3> DEFINE kept == messages \ r.deleted
      <3>1. IsAbout(r.ctx, mentions, kept)
        BY <1>2, <1>6 DEF IInv, QuestionsOK, QuestionOK
      <3>2. kept \in SUBSET Questions /\ \A q \in kept : q < r.id
        <4>1. \A q \in kept : q \in Questions /\ q <= r.id /\ q # r.id
          BY <1>1, <2>1
        <4> QED  BY <2>1, <4>1 DEF Questions
      <3> HIDE DEF kept
      <3>3. IsAbout(Learned(r.ctx, fs, r.id), [mentions EXCEPT ![r.id] = fs],
                    kept \cup {r.id})
        BY <1>1, <2>1, <3>1, <3>2, LearnedIsAbout
      <3> QED  BY <1>2, <1>4, <3>3 DEF kept
    <2>6. QuestionOK(s)'
      BY <1>2, <1>4, <1>5, <2>5 DEF QuestionOK
    <2> QED  BY <1>2, <1>4, <2>1, <2>2, <2>4, <2>6
  <1>7. /\ row' \in Entities \cup {NoRow} /\ messages' \subseteq Questions
        /\ locked' \in Sessions \cup {NoOne} /\ stored' \subseteq Questions
    BY <1>2 DEF IInv, TypeOK
  <1> QED  BY <1>2, <1>4, <1>5, <1>6, <1>7, StepKeeps

\* A step towards writing that keeps what the conversation is about.
LEMMA TowardsWriting ==
  ASSUME IInv, NEW s \in Sessions, NEW X \in Run, run' = [run EXCEPT ![s] = X],
         UNCHANGED <<row, messages, mentions>>, ~overlapped,
         run[s].pc \in {"ensure", "insert", "read", "write"},
         X.pc \in {"insert", "read", "write", "end"},
         X.id = run[s].id, X.ctx = run[s].ctx, X.deleted = run[s].deleted,
         X.pc \in {"read", "write"} => Visible(s)' # NoRow,
         X.pc = "write" => X.seen = Visible(s)',
         X.pc = "end" => X.mine = X.ctx
  PROVE  QuestionOK(s)'
  <1>1. run'[s] = X  BY DEF IInv, TypeOK
  <1>2. IsAbout(run[s].ctx, mentions, (messages \ run[s].deleted) \cup {run[s].id})
    BY DEF IInv, QuestionsOK, QuestionOK
  <1> QED  BY <1>1, <1>2 DEF QuestionOK

LEMMA EnsureStep ==
  ASSUME IInv, NEW s \in Sessions, Ensure(s) \/ InsertRow(s)
  PROVE  IInv'
  <1> DEFINE r == run[s]
  <1>1. r \in Run  BY RunFields DEF IInv
  <1>3. CASE Ensure(s)
    <2> DEFINE X == [r EXCEPT !.pc = IF Visible(s) = NoRow THEN "insert" ELSE "read"]
    <2>1. /\ X \in Run /\ X.id = r.id /\ X.ctx = r.ctx /\ X.deleted = r.deleted
          /\ X.seen = r.seen /\ X.mine = r.mine
          /\ X.pc = IF Visible(s) = NoRow THEN "insert" ELSE "read"
      BY <1>1 DEF Run, Pcs
    <2>2. /\ r.pc = "ensure" /\ run' = [run EXCEPT ![s] = X]
          /\ UNCHANGED <<row, messages, mentions, asked, stored, overlapped, locked>>
      BY <1>3 DEF Ensure, Continue
    <2> HIDE DEF X
    <2>3. Visible(s)' = Visible(s) /\ locked' \in Sessions \cup {NoOne}
      BY <2>1, <2>2 DEF Visible, IInv, TypeOK
    <2>4. ~overlapped => QuestionOK(s)'
      BY <2>1, <2>2, <2>3, TowardsWriting
    <2> QED  BY <2>1, <2>2, <2>3, <2>4, QuietStepKeeps
  <1>4. CASE InsertRow(s)
    <2> DEFINE X == [r EXCEPT !.pc = "read", !.mine = NoEntities]
    <2>1. /\ X \in Run /\ X.id = r.id /\ X.ctx = r.ctx /\ X.deleted = r.deleted
          /\ X.seen = r.seen /\ X.mine = NoEntities /\ X.pc = "read"
      BY <1>1, NoEntitiesAreEntities DEF Run, Pcs
    <2>2. /\ r.pc = "insert" /\ run' = [run EXCEPT ![s] = X] /\ locked' = s
          /\ UNCHANGED <<row, messages, mentions, asked, stored, overlapped>>
      BY <1>4 DEF InsertRow, Continue
    <2> HIDE DEF X
    <2>3. Visible(s)' # NoRow
      BY <2>1, <2>2, NoEntitiesAreEntities DEF Visible, IInv, TypeOK
    <2>4. ~overlapped => QuestionOK(s)'
      BY <2>1, <2>2, <2>3, TowardsWriting
    <2> QED  BY <2>1, <2>2, <2>4, QuietStepKeeps
  <1> QED  BY <1>3, <1>4

LEMMA ReadRowStep == ASSUME IInv, NEW s \in Sessions, ReadRow(s) PROVE IInv'
  <1> DEFINE r == run[s]
             X == [r EXCEPT !.pc = "write", !.seen = Visible(s)]
  <1>1. r \in Run /\ Visible(s) \in Entities \cup {NoRow}  BY RunFields DEF IInv
  <1>2. /\ X \in Run /\ X.id = r.id /\ X.ctx = r.ctx /\ X.deleted = r.deleted
        /\ X.seen = Visible(s) /\ X.mine = r.mine /\ X.pc = "write"
    BY <1>1 DEF Run, Pcs
  <1>3. /\ r.pc = "read" /\ run' = [run EXCEPT ![s] = X]
        /\ UNCHANGED <<row, messages, mentions, asked, stored, overlapped, locked>>
    BY DEF ReadRow, Continue
  <1> HIDE DEF X
  <1>4. Visible(s)' = Visible(s) /\ locked' \in Sessions \cup {NoOne}
    BY <1>2, <1>3 DEF Visible, IInv, TypeOK
  <1>5. ASSUME ~overlapped PROVE QuestionOK(s)'
    <2>1. Visible(s) # NoRow
      BY <1>3, <1>5 DEF IInv, QuestionsOK, QuestionOK
    <2> QED  BY <1>2, <1>3, <1>4, <1>5, <2>1, TowardsWriting
  <1> QED  BY <1>2, <1>3, <1>4, <1>5, QuietStepKeeps

LEMMA WriteRowStep == ASSUME IInv, NEW s \in Sessions, WriteRow(s) PROVE IInv'
  <1> DEFINE r == run[s]
             mine == IF r.ctx # r.seen THEN r.ctx ELSE Visible(s)
             X == [r EXCEPT !.pc = "end", !.mine = mine]
  <1>1. /\ r \in Run /\ r.ctx \in Entities
        /\ mine \in Entities \cup {NoRow}
    BY RunFields DEF IInv
  <1>2. /\ r.pc = "write" /\ run' = [run EXCEPT ![s] = X] /\ locked' = s
        /\ UNCHANGED <<row, messages, mentions, asked, stored, overlapped>>
    BY DEF WriteRow, Continue
  <1>3. ~overlapped => mine = r.ctx
    BY <1>2 DEF IInv, QuestionsOK, QuestionOK
  <1> HIDE DEF mine
  <1>4. /\ X \in Run /\ X.id = r.id /\ X.ctx = r.ctx /\ X.deleted = r.deleted
        /\ X.mine = mine /\ X.pc = "end"
    BY <1>1 DEF Run, Pcs
  <1> HIDE DEF X
  <1>5. ~overlapped => QuestionOK(s)'
    BY <1>2, <1>3, <1>4, TowardsWriting
  <1> QED  BY <1>2, <1>4, <1>5, QuietStepKeeps

LEMMA FinishStep == ASSUME IInv, NEW s \in Sessions, Finish(s) PROVE IInv'
  <1> DEFINE r == run[s]
             kept == messages \ r.deleted
  <1>1. /\ r \in Run /\ r.ctx \in Entities /\ r.ctx # NoRow
        /\ r.mine \in Entities \cup {NoRow}
        /\ r.id \in {0} \cup Questions /\ messages \subseteq Questions
    BY RunFields DEF IInv, TypeOK
  <1>2. /\ r.pc = "end" /\ row' = r.mine /\ messages' = kept \cup {r.id}
        /\ run' = [run EXCEPT ![s] = Idle]
        /\ UNCHANGED <<mentions, asked, overlapped>>
    BY DEF Finish
  <1>3. locked' \in Sessions \cup {NoOne}
    BY DEF Finish, Released, IInv, TypeOK
  <1>4. messages' \subseteq Questions /\ stored' \subseteq Questions
    <2>1. r.id \in Questions /\ stored' = stored \cup {r.id}
      BY <1>2 DEF IInv, IdOK, Finish
    <2> QED  BY <1>1, <1>2, <2>1 DEF IInv, TypeOK
  <1>5. ASSUME ~overlapped
        PROVE  /\ \A q \in messages' : q <= asked
               /\ row' = NoRow => messages' = {}
               /\ ContextIsOfMessages'
               /\ QuestionOK(s)'
    <2>1. /\ r.id = asked /\ asked \in Questions
          /\ \A q \in messages : q <= asked
      BY <1>2, <1>5 DEF IInv, IdOK, NumbersOK
    <2>2. \A q \in messages' : q <= asked
      BY <1>2, <2>1 DEF Questions
    <2>3. r.mine = r.ctx /\ IsAbout(r.ctx, mentions, kept \cup {r.id})
      BY <1>2, <1>5 DEF IInv, QuestionsOK, QuestionOK
    <2>4. ContextIsOfMessages'
      BY <1>2, <2>3 DEF ContextIsOfMessages, IsAbout, LastAbout
    <2>5. QuestionOK(s)'
      <3>1. run'[s].pc = "none"  BY <1>2, IdleIsRun DEF IInv, TypeOK
      <3> QED  BY <3>1 DEF QuestionOK
    <2> QED  BY <1>1, <1>2, <2>2, <2>3, <2>4, <2>5
  <1>6. /\ row' \in Entities \cup {NoRow} /\ r.pc # "none"
        /\ mentions' \in [Questions -> SUBSET Fields]
    BY <1>1, <1>2 DEF IInv, TypeOK
  <1> HIDE DEF kept
  <1> QED  BY <1>2, <1>3, <1>4, <1>5, <1>6, IdleIsRun, StepKeeps

LEMMA AbandonStep ==
  ASSUME IInv, NEW s \in Sessions, Lose(s) \/ InsertFails(s) \/ Fail(s)
  PROVE  IInv'
  <1>1. /\ run[s].pc # "none" /\ run' = [run EXCEPT ![s] = Idle]
        /\ UNCHANGED <<row, messages, mentions, asked, stored, overlapped>>
    BY DEF Lose, InsertFails, Fail, Saving, Abandon
  <1>2. locked' \in Sessions \cup {NoOne}
    BY DEF Lose, InsertFails, Fail, Saving, Abandon, Released, IInv, TypeOK
  <1>3. QuestionOK(s)'
    <2>1. run'[s].pc = "none"  BY <1>1, IdleIsRun DEF IInv, TypeOK
    <2> QED  BY <2>1 DEF QuestionOK
  <1> QED  BY <1>1, <1>2, <1>3, IdleIsRun, QuietStepKeeps

LEMMA ResetConversationStep == ASSUME IInv, ResetConversation PROVE IInv'
  <1>1. /\ row' = NoEntities /\ messages' = {}
        /\ overlapped' = (overlapped \/ \E r \in Sessions : run[r].pc # "none")
        /\ UNCHANGED <<mentions, asked, locked, run, stored>>
    BY DEF ResetConversation
  <1>2. TypeOK'  BY <1>1, NoEntitiesAreEntities DEF IInv, TypeOK
  <1>3. IdOK'  BY <1>1 DEF IInv, IdOK
  <1>4. ~overlapped' => ~overlapped /\ \A r \in Sessions : run'[r].pc = "none"
    BY <1>1
  <1>5. AloneOK' /\ NumbersOK' /\ RowOK'
    BY <1>1, <1>4 DEF AloneOK, NumbersOK, RowOK
  <1>6. ContextIsOfMessages'
    BY <1>1, NoEntitiesAreEntities DEF ContextIsOfMessages, IsAbout, LastAbout
  <1>7. QuestionsOK'  BY <1>4 DEF QuestionsOK, QuestionOK
  <1> QED  BY <1>2, <1>3, <1>5, <1>6, <1>7 DEF IInv

-----------------------------------------------------------------------------
(* Theorems                                                                *)

LEMMA IInvInit == Init => IInv
  <1> SUFFICES ASSUME Init PROVE IInv  OBVIOUS
  <1>1. \A s \in Sessions :
          run[s] \in Run /\ run[s].pc = "none"
    BY IdleIsRun DEF Init
  <1>2. TypeOK  BY <1>1, IdleIsRun DEF Init, TypeOK
  <1>3. IdOK /\ AloneOK /\ NumbersOK /\ RowOK
    BY <1>1 DEF Init, IdOK, AloneOK, NumbersOK, RowOK
  <1>4. ContextIsOfMessages  BY DEF Init, ContextIsOfMessages
  <1>5. QuestionsOK  BY <1>1 DEF QuestionsOK, QuestionOK
  <1> QED  BY <1>2, <1>3, <1>4, <1>5 DEF IInv

LEMMA IInvStep == IInv /\ [Next]_vars => IInv'
  <1> SUFFICES ASSUME IInv, [Next]_vars PROVE IInv'  OBVIOUS
  <1>1. CASE ResetConversation  BY <1>1, ResetConversationStep
  <1>2. ASSUME NEW s \in Sessions, NEW f \in Fields \cup {NoField},
               NEW reset \in BOOLEAN, Ask(s, f, reset)
        PROVE  IInv'
    BY <1>2, AskStep
  <1>3. ASSUME NEW s \in Sessions, Proceed(s) \/ Lose(s) \/ Fail(s)
        PROVE  IInv'
    <2>1. CASE Reset(s)  BY <2>1, ResetStep
    <2>2. CASE \E fs \in SUBSET Fields : Answer(s, fs)  BY <2>2, AnswerStep
    <2>3. CASE Ensure(s) \/ InsertRow(s)  BY <2>3, EnsureStep
    <2>4. CASE ReadRow(s)  BY <2>4, ReadRowStep
    <2>5. CASE WriteRow(s)  BY <2>5, WriteRowStep
    <2>6. CASE Finish(s)  BY <2>6, FinishStep
    <2>7. CASE Lose(s) \/ InsertFails(s) \/ Fail(s)  BY <2>7, AbandonStep
    <2> QED
      BY <1>3, <2>1, <2>2, <2>3, <2>4, <2>5, <2>6, <2>7 DEF Proceed
  <1>4. CASE UNCHANGED vars
    <2>1. TypeOK' /\ IdOK' /\ AloneOK'
      BY <1>4 DEF vars, IInv, TypeOK, IdOK, AloneOK
    <2>2. NumbersOK' /\ RowOK' /\ ContextIsOfMessages'
      BY <1>4 DEF vars, IInv, NumbersOK, RowOK, ContextIsOfMessages
    <2>3. QuestionsOK'
      BY <1>4 DEF vars, IInv, QuestionsOK, QuestionOK, Visible
    <2> QED  BY <2>1, <2>2, <2>3 DEF IInv
  <1> QED  BY <1>1, <1>2, <1>3, <1>4 DEF Next

LEMMA IInvAlways == Spec => []IInv
  <1> QED  BY IInvInit, IInvStep, PTL DEF Spec

\* The variables keep their types.
THEOREM TypeCorrect == Spec => []TypeOK
  <1>1. IInv => TypeOK  BY DEF IInv
  <1> QED  BY <1>1, IInvAlways, PTL

\* Without overlap the entities that the next follow-up refers to are those
\* of the last stored messages that mention any (save_context, after resets,
\* errors and answers about nothing).
THEOREM ContextIsRead == Spec => []ContextIsOfMessages
  <1>1. IInv => ContextIsOfMessages  BY DEF IInv
  <1> QED  BY <1>1, IInvAlways, PTL

-----------------------------------------------------------------------------
(* What a lost exchange leaves behind                                      *)

\* Entities that were mentioned by the questions of a set.
From(S, ms, ctx) ==
  \A f \in Fields : ctx[f] = 0 \/ (ctx[f] \in S /\ f \in ms[ctx[f]])

\* What a question knows of: what is stored, and what it has found itself.
KnownTo(s) == IF run[s].pc \in Saving THEN stored \cup {run[s].id} ELSE stored

SessionOK(s) ==
  LET r == run[s] IN
  /\ r.used \in {0} \cup stored
  /\ r.pc # "none" => r.id \in Questions /\ r.id <= asked /\ r.id \notin stored
  /\ From(KnownTo(s), mentions, r.ctx)
  /\ r.mine # NoRow => From(KnownTo(s), mentions, r.mine)

DistinctOK ==
  \A s, r \in Sessions :
    s # r /\ run[s].pc # "none" /\ run[r].pc # "none" => run[s].id # run[r].id

StoredOK ==
  /\ \A q \in stored : q <= asked
  /\ row # NoRow => From(stored, mentions, row)

SInv == StoredOK /\ DistinctOK /\ \A s \in Sessions : SessionOK(s)

LEMMA FromGrows ==
  ASSUME NEW S, NEW T, S \subseteq T, NEW ms, NEW ns, \A q \in S : ns[q] = ms[q],
         NEW ctx, From(S, ms, ctx)
  PROVE  From(T, ns, ctx)
  BY DEF From

LEMMA NothingIsFrom == \A S, ms : From(S, ms, NoEntities)
  BY DEF From, NoEntities

\* A step of one question keeps what the others know of.
LEMMA OthersKnow ==
  ASSUME IInv, SInv, NEW s \in Sessions, run[s].pc # "none", NEW X \in Run,
         run' = [run EXCEPT ![s] = X], asked' = asked,
         stored' = stored \/ stored' = stored \cup {run[s].id},
         \A q \in Questions \ {run[s].id} : mentions'[q] = mentions[q],
         X.pc # "none" => X.id = run[s].id,
         StoredOK', SessionOK(s)'
  PROVE  SInv'
  <1>1. /\ run'[s] = X /\ \A r \in Sessions \ {s} : run'[r] = run[r]
    BY DEF IInv, TypeOK
  <1>2. DistinctOK'  BY <1>1 DEF SInv, DistinctOK
  <1>3. ASSUME NEW r \in Sessions, r # s PROVE SessionOK(r)'
    <2>1. /\ run'[r] = run[r] /\ SessionOK(r)
          /\ run[r].pc # "none" => run[r].id # run[s].id
          /\ run[s].id \notin stored /\ stored \subseteq Questions
          /\ stored \subseteq stored'
      BY <1>1, <1>3 DEF SInv, DistinctOK, SessionOK, IInv, TypeOK
    <2>2. run[r].pc \in Saving => run[r].pc # "none"  BY DEF Saving
    <2>3. /\ KnownTo(r) \subseteq KnownTo(r)'
          /\ \A q \in KnownTo(r) : mentions'[q] = mentions[q]
      BY <2>1, <2>2 DEF KnownTo, SessionOK
    <2>4. /\ From(KnownTo(r)', mentions', run[r].ctx)
          /\ run[r].mine # NoRow => From(KnownTo(r)', mentions', run[r].mine)
      BY <2>1, <2>3, FromGrows DEF SessionOK
    <2>5. /\ run[r].used \in {0} \cup stored'
          /\ run[r].pc # "none" =>
               /\ run[r].id \in Questions /\ run[r].id <= asked
               /\ run[r].id \notin stored'
      BY <2>1 DEF SessionOK
    <2> QED  BY <2>1, <2>4, <2>5 DEF SessionOK
  <1> QED  BY <1>2, <1>3 DEF SInv

\* A step that stores nothing and mentions nothing.
LEMMA QuietKnows ==
  ASSUME IInv, SInv, NEW s \in Sessions, run[s].pc # "none", NEW X \in Run,
         run' = [run EXCEPT ![s] = X], X.id = run[s].id, X.used = run[s].used,
         UNCHANGED <<row, mentions, asked, stored>>,
         From(KnownTo(s)', mentions, X.ctx),
         X.mine # NoRow => From(KnownTo(s)', mentions, X.mine)
  PROVE  SInv'
  <1>1. run'[s] = X /\ StoredOK' /\ SessionOK(s)
    BY DEF IInv, TypeOK, SInv, StoredOK
  <1>2. SessionOK(s)'
    BY <1>1 DEF SessionOK
  <1> QED  BY <1>1, <1>2, OthersKnow

LEMMA AbandonKnows ==
  ASSUME IInv, SInv, NEW s \in Sessions, Lose(s) \/ InsertFails(s) \/ Fail(s)
  PROVE  SInv'
  <1>1. /\ run[s].pc # "none" /\ run' = [run EXCEPT ![s] = Idle]
        /\ UNCHANGED <<row, messages, mentions, asked, stored, overlapped>>
    BY DEF Lose, InsertFails, Fail, Saving, Abandon
  <1>2. run'[s] = Idle /\ StoredOK'
    BY <1>1 DEF IInv, TypeOK, SInv, StoredOK
  <1>3. SessionOK(s)'
    BY <1>2, NothingIsFrom DEF SessionOK, Idle
  <1> QED  BY <1>1, <1>2, <1>3, IdleIsRun, OthersKnow

LEMMA AskKnows ==
  ASSUME IInv, SInv, NEW s \in Sessions, NEW f \in Fields \cup {NoField},
         NEW reset \in BOOLEAN, Ask(s, f, reset)
  PROVE  SInv'
  <1> DEFINE ctx == IF reset THEN NoEntities ELSE Loaded
             used == IF reset THEN 0 ELSE Referred(Loaded, f)
             X == [Idle EXCEPT !.pc   = IF reset THEN "reset" ELSE "answer",
                               !.id   = asked', !.ctx = ctx, !.used = used]
  <1>1. /\ asked' = asked + 1 /\ asked' \in Questions /\ asked \in Nat
        /\ run' = [run EXCEPT ![s] = X] /\ run[s].pc = "none"
        /\ UNCHANGED <<row, mentions, stored>>
    BY ConversationsAssumption DEF Ask, IInv, TypeOK, Questions
  <1>2. From(stored, mentions, Loaded)
    BY NothingIsFrom DEF SInv, StoredOK, Loaded
  <1>3. From(stored, mentions, ctx) /\ used \in {0} \cup stored
    BY <1>2, NothingIsFrom DEF Referred, From
  <1> HIDE DEF ctx, used
  <1>4. /\ X.pc = (IF reset THEN "reset" ELSE "answer") /\ X.mine = NoRow
        /\ X.id = asked' /\ X.ctx = ctx /\ X.used = used
    BY DEF Idle
  <1> HIDE DEF X
  <1>5. /\ run'[s] = X /\ \A r \in Sessions \ {s} : run'[r] = run[r]
    BY <1>1 DEF IInv, TypeOK
  <1>6. stored \subseteq Questions /\ \A q \in stored : q \in Int /\ q <= asked
    BY DEF IInv, TypeOK, Questions, SInv, StoredOK
  <1>7. StoredOK'
    BY <1>1, <1>6 DEF SInv, StoredOK
  <1>8. SessionOK(s)'
    <2>1. asked' \notin stored  BY <1>1, <1>6
    <2>2. asked' \in Questions /\ asked' <= asked'  BY <1>1 DEF Questions
    <2> QED  BY <1>1, <1>3, <1>4, <1>5, <2>1, <2>2 DEF SessionOK, KnownTo, Saving
  <1>9. ASSUME NEW r \in Sessions, r # s PROVE SessionOK(r)'
    <2>1. SessionOK(r) /\ run'[r] = run[r] /\ run[r].id \in {0} \cup Questions
      BY <1>5, <1>9 DEF SInv, IInv, TypeOK, Run
    <2>2. run[r].pc # "none" => run[r].id <= asked'
      <3>1. run[r].pc # "none" => run[r].id \in Int /\ run[r].id <= asked
        BY <2>1 DEF SessionOK, Questions
      <3> QED  BY <1>1, <3>1
    <2>3. KnownTo(r)' = KnownTo(r)  BY <1>1, <2>1 DEF KnownTo
    <2> QED  BY <1>1, <2>1, <2>2, <2>3 DEF SessionOK
  <1>10. DistinctOK'
    <2>1. \A r \in Sessions : run[r].pc # "none" =>
            run[r].id \in Int /\ run[r].id <= asked
      BY DEF SInv, SessionOK, Questions
    <2>2. \A r \in Sessions : run[r].pc # "none" => run[r].id # asked'
      BY <1>1, <2>1
    <2> QED  BY <1>4, <1>5, <2>2 DEF SInv, DistinctOK
  <1> QED  BY <1>7, <1>8, <1>9, <1>10 DEF SInv

LEMMA AnswerKnows ==
  ASSUME IInv, SInv, NEW s \in Sessions, NEW fs \in SUBSET Fields, Answer(s, fs)
  PROVE  SInv'
  <1> DEFINE r == run[s]
             X == [r EXCEPT !.pc = "ensure", !.ctx = Learned(@, fs, r.id)]
  <1>1. /\ r \in Run /\ r.ctx \in Entities
        /\ mentions \in [Questions -> SUBSET Fields] /\ stored \subseteq Questions
    BY RunFields DEF IInv, TypeOK
  <1>2. /\ r.pc = "answer" /\ run' = [run EXCEPT ![s] = X]
        /\ mentions' = [mentions EXCEPT ![r.id] = fs]
        /\ UNCHANGED <<row, asked, stored>>
    BY DEF Answer
  <1>3. /\ r.id \in Questions /\ r.id \notin stored /\ r.id <= asked
        /\ r.used \in {0} \cup stored /\ From(stored, mentions, r.ctx)
        /\ r.mine # NoRow => From(stored, mentions, r.mine)
    BY <1>2 DEF SInv, SessionOK, KnownTo, Saving
  <1>4. /\ X \in Run /\ X.pc = "ensure" /\ X.id = r.id /\ X.used = r.used
        /\ X.ctx = Learned(r.ctx, fs, r.id) /\ X.mine = r.mine
    <2>1. Learned(r.ctx, fs, r.id) \in Entities
      BY <1>1, <1>3 DEF Learned, Entities
    <2> QED  BY <1>1, <2>1 DEF Run, Pcs
  <1> HIDE DEF X
  <1>5. run'[s] = X  BY <1>2 DEF IInv, TypeOK
  <1>6. \A q \in stored : mentions'[q] = mentions[q]
    BY <1>1, <1>2, <1>3
  <1>7. StoredOK'
    BY <1>2, <1>6, FromGrows DEF SInv, StoredOK
  <1>8. /\ From(stored \cup {r.id}, mentions', r.ctx)
        /\ r.mine # NoRow => From(stored \cup {r.id}, mentions', r.mine)
    BY <1>3, <1>6, FromGrows
  <1>9. From(stored \cup {r.id}, mentions', Learned(r.ctx, fs, r.id))
    <2>1. mentions'[r.id] = fs  BY <1>1, <1>2, <1>3
    <2> QED  BY <1>8, <2>1 DEF From, Learned
  <1>10. SessionOK(s)'
    BY <1>2, <1>3, <1>4, <1>5, <1>8, <1>9 DEF SessionOK, KnownTo, Saving
  <1>11. \A q \in Questions \ {r.id} : mentions'[q] = mentions[q]
    BY <1>1, <1>2
  <1> QED  BY <1>2, <1>4, <1>7, <1>10, <1>11, OthersKnow

\* What a question that is saving sees of the row was mentioned by what it
\* knows of.
LEMMA VisibleIsKnown ==
  ASSUME IInv, SInv, NEW s \in Sessions, Visible(s) # NoRow, run[s].pc \in Saving
  PROVE  From(stored \cup {run[s].id}, mentions, Visible(s))
  <1>1. SessionOK(s) /\ StoredOK  BY DEF SInv
  <1>2. CASE run[s].mine # NoRow
    BY <1>1, <1>2 DEF SessionOK, KnownTo, Visible
  <1>3. CASE run[s].mine = NoRow
    <2>1. From(stored, mentions, row)  BY <1>1, <1>3 DEF StoredOK, Visible
    <2> QED  BY <1>3, <2>1, FromGrows DEF Visible
  <1> QED  BY <1>2, <1>3

LEMMA SavingKnows ==
  ASSUME IInv, SInv, NEW s \in Sessions,
         Ensure(s) \/ InsertRow(s) \/ ReadRow(s) \/ WriteRow(s)
  PROVE  SInv'
  <1> DEFINE r == run[s]
             written == IF r.ctx # r.seen THEN r.ctx ELSE Visible(s)
  <1>1. /\ r \in Run /\ r.ctx \in Entities
        /\ Visible(s) \in Entities \cup {NoRow}
    BY RunFields DEF IInv
  <1>2. PICK X \in Run :
          /\ run' = [run EXCEPT ![s] = X] /\ X.pc \in Saving
          /\ X.id = r.id /\ X.ctx = r.ctx /\ X.used = r.used
          /\ X.mine \in {r.mine, NoEntities, written}
    <2>1. CASE Ensure(s)
      <3> DEFINE X == [r EXCEPT !.pc = IF Visible(s) = NoRow THEN "insert" ELSE "read"]
      <3>1. /\ X \in Run /\ X.pc \in Saving /\ X.id = r.id /\ X.ctx = r.ctx
            /\ X.used = r.used /\ X.mine = r.mine
        BY <1>1 DEF Run, Pcs, Saving
      <3> QED  BY <2>1, <3>1 DEF Ensure, Continue
    <2>2. CASE InsertRow(s)
      <3> DEFINE X == [r EXCEPT !.pc = "read", !.mine = NoEntities]
      <3>1. /\ X \in Run /\ X.pc \in Saving /\ X.id = r.id /\ X.ctx = r.ctx
            /\ X.used = r.used /\ X.mine = NoEntities
        BY <1>1, NoEntitiesAreEntities DEF Run, Pcs, Saving
      <3> QED  BY <2>2, <3>1 DEF InsertRow, Continue
    <2>3. CASE ReadRow(s)
      <3> DEFINE X == [r EXCEPT !.pc = "write", !.seen = Visible(s)]
      <3>1. /\ X \in Run /\ X.pc \in Saving /\ X.id = r.id /\ X.ctx = r.ctx
            /\ X.used = r.used /\ X.mine = r.mine
        BY <1>1 DEF Run, Pcs, Saving
      <3> QED  BY <2>3, <3>1 DEF ReadRow, Continue
    <2>4. CASE WriteRow(s)
      <3> DEFINE X == [r EXCEPT !.pc = "end", !.mine = written]
      <3>1. /\ X \in Run /\ X.pc \in Saving /\ X.id = r.id /\ X.ctx = r.ctx
            /\ X.used = r.used /\ X.mine = written
        BY <1>1 DEF Run, Pcs, Saving
      <3> QED  BY <2>4, <3>1 DEF WriteRow, Continue
    <2> QED  BY <2>1, <2>2, <2>3, <2>4
  <1>3. r.pc \in Saving /\ UNCHANGED <<row, mentions, asked, stored>>
    BY DEF Ensure, InsertRow, ReadRow, WriteRow, Continue, Saving
  <1>4. /\ From(stored \cup {r.id}, mentions, r.ctx)
        /\ r.mine # NoRow => From(stored \cup {r.id}, mentions, r.mine)
    BY <1>3 DEF SInv, SessionOK, KnownTo
  <1>5. written # NoRow => From(stored \cup {r.id}, mentions, written)
    BY <1>3, <1>4, VisibleIsKnown
  <1> HIDE DEF written
  <1>6. run'[s] = X /\ KnownTo(s)' = stored \cup {r.id}
    BY <1>2, <1>3 DEF IInv, TypeOK, KnownTo
  <1>7. X.mine # NoRow => From(stored \cup {r.id}, mentions, X.mine)
    BY <1>2, <1>4, <1>5, NothingIsFrom
  <1>8. r.pc # "none"  BY <1>3 DEF Saving
  <1> QED  BY <1>2, <1>3, <1>4, <1>6, <1>7, <1>8, QuietKnows

LEMMA ResetKnows == ASSUME IInv, SInv, NEW s \in Sessions, Reset(s) PROVE SInv'
  <1> DEFINE r == run[s]
             X == [r EXCEPT !.pc      = "answer",
                            !.mine    = IF ToClear THEN NoEntities ELSE @,
                            !.deleted = messages]
  <1>1. r \in Run /\ messages \subseteq Questions  BY RunFields DEF IInv, TypeOK
  <1>2. /\ r.pc = "reset" /\ run' = [run EXCEPT ![s] = X]
        /\ UNCHANGED <<row, mentions, asked, stored>>
    BY DEF Reset, ResetEntities
  <1>3. /\ X \in Run /\ X.pc = "answer" /\ X.id = r.id /\ X.ctx = r.ctx
        /\ X.used = r.used /\ X.mine \in {r.mine, NoEntities}
    BY <1>1, NoEntitiesAreEntities DEF Run, Pcs
  <1> HIDE DEF X
  <1>4. run'[s] = X  BY <1>2 DEF IInv, TypeOK
  <1>5. /\ From(stored, mentions, r.ctx)
        /\ r.mine # NoRow => From(stored, mentions, r.mine)
    BY <1>2 DEF SInv, SessionOK, KnownTo, Saving
  <1>6. KnownTo(s)' = stored
    BY <1>2, <1>3, <1>4 DEF KnownTo, Saving
  <1>7. X.mine # NoRow => From(stored, mentions, X.mine)
    BY <1>3, <1>5, NothingIsFrom
  <1> QED  BY <1>2, <1>3, <1>5, <1>6, <1>7, QuietKnows

LEMMA FinishKnows == ASSUME IInv, SInv, NEW s \in Sessions, Finish(s) PROVE SInv'
  <1> DEFINE r == run[s]
  <1>1. /\ r.pc = "end" /\ row' = r.mine /\ stored' = stored \cup {r.id}
        /\ run' = [run EXCEPT ![s] = Idle] /\ UNCHANGED <<mentions, asked>>
    BY DEF Finish
  <1>2. /\ r.id <= asked
        /\ r.mine # NoRow => From(stored \cup {r.id}, mentions, r.mine)
        /\ \A q \in stored : q <= asked
    BY <1>1 DEF SInv, SessionOK, StoredOK, KnownTo, Saving
  <1>3. StoredOK'  BY <1>1, <1>2 DEF StoredOK
  <1>4. run'[s] = Idle  BY <1>1 DEF IInv, TypeOK
  <1>5. SessionOK(s)'
    BY <1>4, NothingIsFrom DEF SessionOK, Idle
  <1> QED  BY <1>1, <1>3, <1>5, IdleIsRun, OthersKnow

LEMMA SInvStep == IInv /\ SInv /\ [Next]_vars => SInv'
  <1> SUFFICES ASSUME IInv, SInv, [Next]_vars PROVE SInv'  OBVIOUS
  <1>1. CASE ResetConversation
    <2>1. row' = NoEntities /\ UNCHANGED <<mentions, asked, run, stored>>
      BY <1>1 DEF ResetConversation
    <2>2. StoredOK'  BY <2>1, NothingIsFrom DEF SInv, StoredOK
    <2>3. DistinctOK' /\ \A s \in Sessions : SessionOK(s)'
      BY <2>1 DEF SInv, DistinctOK, SessionOK, KnownTo
    <2> QED  BY <2>2, <2>3 DEF SInv
  <1>2. ASSUME NEW s \in Sessions, NEW f \in Fields \cup {NoField},
               NEW reset \in BOOLEAN, Ask(s, f, reset)
        PROVE  SInv'
    BY <1>2, AskKnows
  <1>3. ASSUME NEW s \in Sessions, Proceed(s) \/ Lose(s) \/ Fail(s)
        PROVE  SInv'
    <2>1. CASE Reset(s)  BY <2>1, ResetKnows
    <2>2. CASE \E fs \in SUBSET Fields : Answer(s, fs)  BY <2>2, AnswerKnows
    <2>3. CASE Ensure(s) \/ InsertRow(s) \/ ReadRow(s) \/ WriteRow(s)
      BY <2>3, SavingKnows
    <2>4. CASE Finish(s)  BY <2>4, FinishKnows
    <2>5. CASE Lose(s) \/ InsertFails(s) \/ Fail(s)  BY <2>5, AbandonKnows
    <2> QED  BY <1>3, <2>1, <2>2, <2>3, <2>4, <2>5 DEF Proceed
  <1>4. CASE UNCHANGED vars
    BY <1>4 DEF vars, SInv, StoredOK, DistinctOK, SessionOK, KnownTo
  <1> QED  BY <1>1, <1>2, <1>3, <1>4 DEF Next

\* A question that loses its exchange (an error while it is saved, or a
\* failing commit) leaves nothing behind: what the conversation is about and
\* what follow-ups refer to was mentioned by exchanges that were stored.
THEOREM OnlyStoredIsContext == Spec => []NothingHalfStored
  <1>1. Init => SInv
    BY NothingIsFrom
       DEF Init, SInv, StoredOK, DistinctOK, SessionOK, Idle
  <1>2. SInv => NothingHalfStored
    BY DEF SInv, StoredOK, SessionOK, From, NothingHalfStored, MentionedBy
  <1> QED  BY <1>1, <1>2, SInvStep, IInvAlways, PTL DEF Spec
=============================================================================
