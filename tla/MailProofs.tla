----------------------------- MODULE MailProofs -----------------------------
(***************************************************************************)
(* Proofs about Mail, for any number of users, mailboxes, messages and     *)
(* requests: the variables keep their types, what is shown as connected is *)
(* used, nothing gets a second row without overlap, and a request that     *)
(* commits has stored all that it fetched.                                 *)
(***************************************************************************)
EXTENDS Mail, TLAPS

-----------------------------------------------------------------------------
(* The inductive invariant, in parts.                                      *)

\* An account that is shown as connected has a password.
ConnectedOK == \A u \in Users : ShownConnected(u) => account[u].password

\* What a request has fetched is still to do, stored, or about to be.
BatchOK ==
  \A s \in Sessions, id \in Ids : run[s].batch[id] > 0 =>
    run[s].todo[id] > 0 \/ run[s].rows[id] > 0 \/ stored[id] > 0

\* A session without a request holds no rows.
IdleOK ==
  \A s \in Sessions :
    run[s].pc = "none" => run[s].boxes = {} /\ run[s].rows = NoMessages

\* Without overlap one request is under way.
AloneOK ==
  ~overlapped =>
    \A s, r \in Sessions : run[s].pc # "none" /\ run[r].pc # "none" => s = r

\* Without overlap, what a request has inserted is in no other row, committed
\* or its own.
NewOK ==
  ~overlapped =>
    \A s \in Sessions : /\ \A a \in run[s].boxes : mailbox[a] = 0
                        /\ \A id \in Ids : ~Twice(Rows(s, id))

IInv == /\ TypeOK /\ ConnectedOK /\ BatchOK /\ IdleOK
        /\ AloneOK /\ NewOK /\ NothingTwice

-----------------------------------------------------------------------------
(* Records                                                                 *)

LEMMA NoMessagesIsBatch ==
  /\ NoMessages \in Batch /\ NoMessages \in [Ids -> Nat]
  /\ \A id \in Ids : NoMessages[id] = 0
  BY MailAssumption DEF NoMessages, Batch

LEMMA IdleIsRequest ==
  /\ Idle \in Request
  /\ Idle.pc = "none" /\ Idle.boxes = {} /\ Idle.batch = NoMessages
  /\ Idle.todo = NoMessages /\ Idle.rows = NoMessages
  BY NoMessagesIsBatch DEF Idle, Request

LEMMA RequestFields ==
  ASSUME TypeOK, NEW s \in Sessions
  PROVE  /\ run[s] \in Request
         /\ run[s].pc \in {"none", "fetch", "ingest"}
         /\ run[s].boxes \subseteq Addresses /\ run[s].batch \in Batch
         /\ run[s].todo \in Batch /\ run[s].rows \in [Ids -> Nat]
  BY DEF TypeOK, Request

LEMMA FetchedIsBatch ==
  ASSUME NEW s \in Sessions, NEW copies \in [Messages -> 0..MaxCopies]
  PROVE  Fetched(s, copies) \in Batch
  <1>1. \A id \in Ids : id[1] \in Messages  BY DEF Ids
  <1>2. \A id \in Ids : copies[id[1]] \in 0..MaxCopies  BY <1>1
  <1>3. 0 \in 0..MaxCopies  BY MailAssumption
  <1> QED  BY <1>2, <1>3 DEF Fetched, Batch

\* What becomes of the sessions when one of them moves.
LEMMA RunAfter ==
  ASSUME TypeOK, NEW s \in Sessions, NEW X, run' = [run EXCEPT ![s] = X]
  PROVE  /\ run'[s] = X
         /\ \A r \in Sessions \ {s} : run'[r] = run[r]
         /\ X \in Request => run' \in [Sessions -> Request]
  BY DEF TypeOK

-----------------------------------------------------------------------------
(* Accounts                                                                *)

LEMMA SetAccountStep ==
  ASSUME IInv, NEW u \in Users, NEW a \in Account, SetAccount(u, a),
         a.imap /\ a.status = "connected" => a.password
  PROVE  IInv'
  <1>1. TypeOK'
    BY DEF IInv, TypeOK, SetAccount, mail
  <1>2. ConnectedOK'
    <2> SUFFICES ASSUME NEW v \in Users, ShownConnected(v)' PROVE account'[v].password
      BY DEF ConnectedOK
    <2>1. CASE v = u
      BY <2>1 DEF IInv, TypeOK, SetAccount, ShownConnected
    <2>2. CASE v # u
      BY <2>2 DEF IInv, TypeOK, ConnectedOK, SetAccount, ShownConnected
    <2> QED  BY <2>1, <2>2
  <1> QED
    BY <1>1, <1>2 DEF IInv, SetAccount, mail, BatchOK, IdleOK, AloneOK, NewOK,
                      NothingTwice, Twice, Rows

LEMMA AccountsStep == ASSUME IInv, Accounts PROVE IInv'
  <1> SUFFICES ASSUME NEW u \in Users,
                      Prepare(u) \/ Connect(u) \/ Disconnect(u) \/ Delete(u)
               PROVE  IInv'
    BY DEF Accounts
  <1>0. account[u] \in Account  BY DEF IInv, TypeOK
  <1>1. CASE Prepare(u)
    <2> DEFINE a == [account[u] EXCEPT !.status = "prepared", !.active = TRUE]
    <2>1. a \in Account /\ a.status = "prepared"  BY <1>0 DEF Account
    <2> QED  BY <1>1, <2>1, SetAccountStep DEF Prepare
  <1>2. CASE Connect(u)
    <2> DEFINE a == [status |-> "connected", imap |-> TRUE, password |-> TRUE,
                     active |-> u \notin exists \/ account[u].active]
    <2>1. a \in Account /\ a.password  BY <1>0 DEF Account
    <2> QED  BY <1>2, <2>1, SetAccountStep DEF Connect
  <1>3. CASE Disconnect(u)
    <2> DEFINE a == [account[u] EXCEPT !.status = "not_connected",
                                       !.imap = FALSE, !.password = FALSE]
    <2>1. a \in Account /\ a.status = "not_connected"  BY <1>0 DEF Account
    <2> QED  BY <1>3, <2>1, SetAccountStep DEF Disconnect
  <1>4. CASE Delete(u)
    <2>1. NoAccount \in Account /\ NoAccount.status = "not_connected"
      BY DEF NoAccount, Account
    <2> QED  BY <1>4, <2>1, SetAccountStep DEF Delete
  <1> QED  BY <1>1, <1>2, <1>3, <1>4

-----------------------------------------------------------------------------
(* Requests                                                                *)

\* A request begins; what it brings along is new.
LEMMA StartStep ==
  ASSUME IInv, NEW s \in Sessions, NEW X \in Request, Start(s, X),
         X.pc # "none", X.rows = NoMessages, X.batch = X.todo,
         \A a \in X.boxes : mailbox[a] = 0,
         issued' \in issued .. MaxIssued
  PROVE  IInv'
  <1>1. /\ run'[s] = X /\ \A r \in Sessions \ {s} : run'[r] = run[r]
        /\ run' \in [Sessions -> Request]
    BY RunAfter DEF IInv, Start
  <1>2. TypeOK'
    BY <1>1, MailAssumption DEF IInv, TypeOK, Start, accounts
  <1>3. ConnectedOK' /\ BatchOK' /\ IdleOK'
    BY <1>1 DEF IInv, ConnectedOK, ShownConnected, BatchOK, IdleOK, Start, accounts
  <1>4. ~overlapped' => ~overlapped /\ \A r \in Sessions : run[r].pc = "none"
    BY DEF Start
  <1>5. AloneOK'
    BY <1>1, <1>4 DEF AloneOK
  <1>6. NothingTwice'
    BY <1>4 DEF IInv, NothingTwice, Twice, Start
  <1>7. NewOK'
    <2> SUFFICES ASSUME ~overlapped', NEW r \in Sessions
                 PROVE  /\ \A a \in run'[r].boxes : mailbox'[a] = 0
                        /\ \A id \in Ids : ~Twice(stored'[id] + run'[r].rows[id])
      BY DEF NewOK, Rows, Twice
    <2>1. stored' = stored /\ mailbox' = mailbox  BY DEF Start
    <2>2. CASE r # s
      BY <1>1, <1>4, <2>1, <2>2 DEF IInv, NewOK, Rows
    <2>3. CASE r = s
      <3>1. \A id \in Ids : ~Twice(stored[id]) /\ stored[id] \in Nat
        BY <1>4 DEF IInv, NothingTwice, TypeOK
      <3>2. \A id \in Ids : run'[r].rows[id] = 0
        BY <1>1, <2>3, NoMessagesIsBatch
      <3> QED  BY <1>1, <2>1, <2>3, <3>1, <3>2 DEF Twice
    <2> QED  BY <2>2, <2>3
  <1> QED  BY <1>2, <1>3, <1>5, <1>6, <1>7 DEF IInv

LEMMA BeginSyncStep == ASSUME IInv, NEW s \in Sessions, BeginSync(s) PROVE IInv'
  <1> DEFINE X == [Idle EXCEPT !.pc    = "fetch",
                               !.boxes = {a \in Wanted(s) : mailbox[a] = 0}]
  <1>1. Wanted(s) \subseteq Addresses
    BY MailAssumption DEF Wanted
  <1>2. /\ X \in Request /\ X.pc = "fetch" /\ X.rows = NoMessages
        /\ X.batch = NoMessages /\ X.todo = NoMessages
        /\ X.boxes = {a \in Wanted(s) : mailbox[a] = 0}
    BY <1>1, IdleIsRequest DEF Request
  <1>3. Start(s, X) /\ issued' = issued  BY DEF BeginSync
  <1>4. issued \in issued .. MaxIssued  BY MailAssumption DEF IInv, TypeOK
  <1> HIDE DEF X
  <1> QED  BY <1>2, <1>3, <1>4, StartStep

LEMMA WebhookStep ==
  ASSUME IInv, NEW s \in Sessions, NEW m \in Messages, Webhook(s, m) PROVE IInv'
  <1> DEFINE id == IF m \in Anonymous THEN <<m, issued'>> ELSE <<m, 0>>
             batch == [NoMessages EXCEPT ![id] = 1]
             X == [Idle EXCEPT !.pc = "ingest", !.batch = batch, !.todo = batch]
  <1>1. issued' \in issued .. MaxIssued
    BY MailAssumption DEF IInv, TypeOK, Webhook
  <1>2. Start(s, X)  BY DEF Webhook
  <1> HIDE DEF id
  <1>3. batch \in Batch
    <2>1. 1 \in 0..MaxCopies  BY MailAssumption
    <2> QED  BY <2>1, NoMessagesIsBatch, Zenon DEF Batch
  <1> HIDE DEF batch
  <1>4. /\ X \in Request /\ X.pc = "ingest" /\ X.rows = NoMessages /\ X.boxes = {}
        /\ X.batch = batch /\ X.todo = batch
    BY <1>3, IdleIsRequest DEF Request
  <1> HIDE DEF X
  <1> QED  BY <1>1, <1>2, <1>4, StartStep

\* A request moves on, inserting only what it does not find.
LEMMA ContinueStep ==
  ASSUME IInv, NEW s \in Sessions, NEW X \in Request, Continue(s, X),
         run[s].pc # "none", X.pc # "none", X.boxes = run[s].boxes,
         \A id \in Ids : \/ X.rows[id] = run[s].rows[id]
                         \/ X.rows[id] = 1 /\ stored[id] = 0,
         \A id \in Ids : X.batch[id] > 0 =>
            X.todo[id] > 0 \/ X.rows[id] > 0 \/ stored[id] > 0
  PROVE  IInv'
  <1>1. /\ run'[s] = X /\ \A r \in Sessions \ {s} : run'[r] = run[r]
        /\ run' \in [Sessions -> Request]
    BY RunAfter DEF IInv, Continue
  <1>2. TypeOK'
    BY <1>1 DEF IInv, TypeOK, Continue, accounts
  <1>3. ConnectedOK' /\ BatchOK' /\ IdleOK'
    BY <1>1 DEF IInv, ConnectedOK, ShownConnected, BatchOK, IdleOK, Continue, accounts
  <1>4. AloneOK' /\ NothingTwice'
    BY <1>1 DEF IInv, AloneOK, NothingTwice, Twice, Continue
  <1>5. NewOK'
    <2> SUFFICES ASSUME ~overlapped, NEW r \in Sessions
                 PROVE  /\ \A a \in run'[r].boxes : mailbox[a] = 0
                        /\ \A id \in Ids : ~Twice(stored[id] + run'[r].rows[id])
      BY DEF NewOK, Rows, Twice, Continue
    <2>1. CASE r # s
      BY <1>1, <2>1 DEF IInv, NewOK, Rows
    <2>2. CASE r = s
      BY <1>1, <2>2 DEF IInv, NewOK, Rows, Twice
    <2> QED  BY <2>1, <2>2
  <1> QED  BY <1>2, <1>3, <1>4, <1>5 DEF IInv

LEMMA FetchStep == ASSUME IInv, NEW s \in Sessions, Fetch(s) PROVE IInv'
  <1>1. PICK copies \in [Messages -> 0..MaxCopies] :
          Continue(s, [run[s] EXCEPT !.pc    = "ingest",
                                     !.batch = Fetched(s, copies),
                                     !.todo  = Fetched(s, copies)])
    BY DEF Fetch
  <1> DEFINE batch == Fetched(s, copies)
             X == [run[s] EXCEPT !.pc = "ingest", !.batch = batch, !.todo = batch]
  <1>2. batch \in Batch  BY FetchedIsBatch
  <1>3. Continue(s, X)  BY <1>1
  <1> HIDE DEF batch
  <1>4. /\ X \in Request /\ X.pc = "ingest" /\ X.boxes = run[s].boxes
        /\ X.rows = run[s].rows /\ X.batch = batch /\ X.todo = batch
    BY <1>2, RequestFields DEF IInv, Request
  <1> HIDE DEF X
  <1> QED  BY <1>3, <1>4, ContinueStep DEF Fetch

LEMMA IngestStep ==
  ASSUME IInv, NEW s \in Sessions, NEW id \in Ids, Ingest(s, id) PROVE IInv'
  <1> DEFINE r == run[s]
             found == stored[id] + r.rows[id]
             todo == [r.todo EXCEPT ![id] = @ - 1]
             rows == [r.rows EXCEPT ![id] = IF found > 0 THEN @ ELSE @ + 1]
             X == [r EXCEPT !.todo = todo, !.rows = rows]
  <1>1. /\ r \in Request /\ r.pc \in {"none", "fetch", "ingest"}
        /\ r.todo \in Batch /\ r.rows \in [Ids -> Nat] /\ r.batch \in Batch
        /\ stored[id] \in Nat /\ r.rows[id] \in Nat
    BY RequestFields DEF IInv, TypeOK
  <1>2. Continue(s, X) /\ r.todo[id] > 0 /\ r.pc = "ingest"
    BY <1>1 DEF Ingest, Rows, Request
  <1>3. todo \in Batch /\ \A i \in Ids \ {id} : todo[i] = r.todo[i]
    BY <1>1, <1>2, MailAssumption DEF Batch
  <1>4. /\ rows \in [Ids -> Nat] /\ \A i \in Ids \ {id} : rows[i] = r.rows[i]
        /\ \/ rows[id] = r.rows[id] /\ found > 0
           \/ rows[id] = 1 /\ stored[id] = 0
    BY <1>1
  <1>5. rows[id] > 0 \/ stored[id] > 0
    BY <1>1, <1>4
  <1> HIDE DEF todo, rows, found
  <1>6. /\ X \in Request /\ X.pc = r.pc /\ X.boxes = r.boxes
        /\ X.batch = r.batch /\ X.todo = todo /\ X.rows = rows
    BY <1>1, <1>3, <1>4 DEF Request
  <1>7. \A i \in Ids : X.batch[i] > 0 =>
          X.todo[i] > 0 \/ X.rows[i] > 0 \/ stored[i] > 0
    BY <1>3, <1>4, <1>5, <1>6 DEF IInv, BatchOK
  <1> HIDE DEF X
  <1> QED  BY <1>2, <1>4, <1>6, <1>7, ContinueStep

\* Whoever has ended has inserted nothing.
LEMMA EndsNew ==
  ASSUME IInv, UNCHANGED <<mailbox, stored, overlapped>>,
         \A r \in Sessions : run'[r] \in {Idle, run[r]}
  PROVE  NewOK'
  <1> SUFFICES ASSUME ~overlapped, NEW r \in Sessions
               PROVE  /\ \A a \in run'[r].boxes : mailbox[a] = 0
                      /\ \A id \in Ids : ~Twice(stored[id] + run'[r].rows[id])
    BY DEF NewOK, Rows, Twice
  <1>1. CASE run'[r] = run[r]
    BY <1>1 DEF IInv, NewOK, Rows
  <1>2. CASE run'[r] = Idle
    <2>1. \A id \in Ids : /\ ~Twice(stored[id]) /\ stored[id] \in Nat
                          /\ run'[r].rows[id] = 0
      BY <1>2, IdleIsRequest, NoMessagesIsBatch DEF IInv, NothingTwice, TypeOK
    <2> QED  BY <1>2, <2>1, IdleIsRequest DEF Twice
  <1> QED  BY <1>1, <1>2

\* A request ends without leaving anything.
LEMMA RollbackStep == ASSUME IInv, NEW s \in Sessions, Rollback(s) PROVE IInv'
  <1>1. /\ run'[s] = Idle /\ \A r \in Sessions \ {s} : run'[r] = run[r]
        /\ run' \in [Sessions -> Request]
    BY RunAfter, IdleIsRequest DEF IInv, Rollback, End
  <1>2. TypeOK'
    BY <1>1 DEF IInv, TypeOK, Rollback, accounts
  <1>3. ConnectedOK' /\ BatchOK' /\ IdleOK'
    BY <1>1, IdleIsRequest
       DEF IInv, ConnectedOK, ShownConnected, BatchOK, IdleOK, Rollback, accounts
  <1>4. AloneOK' /\ NothingTwice'
    BY <1>1, IdleIsRequest DEF IInv, AloneOK, NothingTwice, Twice, Rollback
  <1>5. NewOK'
    BY <1>1, EndsNew DEF Rollback
  <1> QED  BY <1>2, <1>3, <1>4, <1>5 DEF IInv

\* A server process that starts again has no requests.
LEMMA RestartStep == ASSUME IInv, NEW w \in Workers, Restart(w) PROVE IInv'
  <1>1. \A s \in Sessions : run'[s] \in {Idle, run[s]}  BY DEF Restart
  <1>2. TypeOK'
    <2>1. run' \in [Sessions -> Request]
      BY <1>1, IdleIsRequest DEF IInv, TypeOK, Restart
    <2>2. issued' \in 0..MaxIssued /\ seed' \in [Workers -> 1..issued']
      BY MailAssumption DEF IInv, TypeOK, Restart
    <2> QED  BY <2>1, <2>2 DEF IInv, TypeOK, Restart, accounts
  <1>3. ConnectedOK' /\ IdleOK'
    BY <1>1, IdleIsRequest
       DEF IInv, ConnectedOK, ShownConnected, IdleOK, Restart, accounts
  <1>4. BatchOK'
    BY <1>1, IdleIsRequest, NoMessagesIsBatch DEF IInv, BatchOK, Restart
  <1>5. AloneOK' /\ NothingTwice'
    BY <1>1, IdleIsRequest DEF IInv, AloneOK, NothingTwice, Twice, Restart
  <1>6. NewOK'
    BY <1>1, EndsNew DEF Restart
  <1> QED  BY <1>2, <1>3, <1>4, <1>5, <1>6 DEF IInv

-----------------------------------------------------------------------------
(* Commits                                                                 *)

LEMMA CommitRows ==
  ASSUME TypeOK, NEW s \in Sessions, Commit(s)
  PROVE  /\ mailbox' \in [Addresses -> Nat] /\ stored' \in [Ids -> Nat]
         /\ \A a \in Addresses :
              mailbox'[a] = IF a \in run[s].boxes THEN mailbox[a] + 1 ELSE mailbox[a]
         /\ \A id \in Ids : /\ stored'[id] = stored[id] + run[s].rows[id]
                             /\ stored[id] \in Nat /\ run[s].rows[id] \in Nat
  <1>1. run[s].rows \in [Ids -> Nat]  BY RequestFields
  <1> QED  BY <1>1 DEF TypeOK, Commit

LEMMA CommitStep ==
  ASSUME IInv, NEW s \in Sessions, Commit(s), run[s].pc # "none" PROVE IInv'
  <1>0. TypeOK  BY DEF IInv
  <1>1. /\ run'[s] = Idle /\ \A r \in Sessions \ {s} : run'[r] = run[r]
        /\ run' \in [Sessions -> Request]
    BY <1>0, RunAfter, IdleIsRequest DEF Commit, End
  <1>2. TypeOK'
    BY <1>0, <1>1, CommitRows DEF TypeOK, Commit, accounts
  <1>3. ConnectedOK' /\ IdleOK' /\ AloneOK'
    BY <1>1, IdleIsRequest
       DEF IInv, ConnectedOK, ShownConnected, IdleOK, AloneOK, Commit, accounts
  <1>4. BatchOK'
    <2> SUFFICES ASSUME NEW r \in Sessions, NEW id \in Ids, run'[r].batch[id] > 0
                 PROVE  \/ run'[r].todo[id] > 0 \/ run'[r].rows[id] > 0
                        \/ stored'[id] > 0
      BY DEF BatchOK
    <2>1. r # s /\ run'[r] = run[r]
      BY <1>1, IdleIsRequest, NoMessagesIsBatch
    <2>2. stored[id] > 0 => stored'[id] > 0  BY <1>0, CommitRows
    <2> QED  BY <2>1, <2>2 DEF IInv, BatchOK
  <1>5. ~overlapped => \A r \in Sessions : run'[r].boxes = {} /\ run'[r].rows = NoMessages
    BY <1>1, IdleIsRequest DEF IInv, AloneOK, IdleOK
  <1>7. NothingTwice'
    <2> SUFFICES ASSUME ~overlapped
                 PROVE  /\ \A a \in Addresses : ~Twice(mailbox'[a])
                        /\ \A id \in Ids : ~Twice(stored'[id])
      BY DEF NothingTwice, Twice, Commit
    <2>1. ASSUME NEW a \in Addresses PROVE ~Twice(mailbox'[a])
      <3>1. CASE a \in run[s].boxes
        BY <3>1, <1>0, CommitRows DEF IInv, NewOK, Twice
      <3>2. CASE a \notin run[s].boxes
        BY <3>2, <1>0, CommitRows DEF IInv, NothingTwice
      <3> QED  BY <3>1, <3>2
    <2>2. ASSUME NEW id \in Ids PROVE ~Twice(stored'[id])
      BY <1>0, CommitRows DEF IInv, NewOK, Rows
    <2> QED  BY <2>1, <2>2
  <1>6. NewOK'
    <2> SUFFICES ASSUME ~overlapped, NEW r \in Sessions
                 PROVE  /\ \A a \in run'[r].boxes : mailbox'[a] = 0
                        /\ \A id \in Ids : ~Twice(stored'[id] + run'[r].rows[id])
      BY DEF NewOK, Rows, Twice, Commit
    <2>1. \A id \in Ids : /\ ~Twice(stored'[id]) /\ stored'[id] \in Nat
                          /\ run'[r].rows[id] = 0
      BY <1>0, <1>5, <1>7, CommitRows, NoMessagesIsBatch DEF NothingTwice, Twice, Commit
    <2> QED  BY <1>5, <2>1 DEF Twice
  <1> QED  BY <1>2, <1>3, <1>4, <1>6, <1>7 DEF IInv

\* What a request has fetched is stored when it commits.
LEMMA FinishStores ==
  ASSUME IInv, NEW s \in Sessions, Finish(s), NEW id \in Ids, run[s].batch[id] > 0
  PROVE  stored'[id] > 0
  <1>1. TypeOK /\ Commit(s) /\ run[s].todo = NoMessages  BY DEF IInv, Finish
  <1>2. run[s].rows[id] > 0 \/ stored[id] > 0
    BY <1>1, NoMessagesIsBatch DEF IInv, BatchOK
  <1> QED  BY <1>1, <1>2, CommitRows

-----------------------------------------------------------------------------

LEMMA InitIInv == Init => IInv
  <1> SUFFICES ASSUME Init PROVE IInv  OBVIOUS
  <1>1. \A s \in Sessions : run[s] = Idle  BY DEF Init
  <1>2. NoAccount \in Account /\ NoAccount.status # "connected"
    BY DEF NoAccount, Account
  <1>3. TypeOK
    <2>1. run \in [Sessions -> Request] /\ account \in [Users -> Account]
      BY <1>2, IdleIsRequest DEF Init
    <2>2. mailbox \in [Addresses -> Nat] /\ stored \in [Ids -> Nat]
      BY NoMessagesIsBatch DEF Init
    <2>3. issued \in 0..MaxIssued /\ seed \in [Workers -> 1..issued]
      BY MailAssumption DEF Init, Workers
    <2> QED  BY <2>1, <2>2, <2>3 DEF Init, TypeOK
  <1>4. ConnectedOK /\ BatchOK /\ IdleOK /\ AloneOK
    BY <1>1, <1>2, IdleIsRequest, NoMessagesIsBatch
       DEF Init, ConnectedOK, ShownConnected, BatchOK, IdleOK, AloneOK
  <1>5. NothingTwice /\ NewOK
    BY <1>1, IdleIsRequest, NoMessagesIsBatch
       DEF Init, NothingTwice, Twice, NewOK, Rows
  <1> QED  BY <1>3, <1>4, <1>5 DEF IInv

LEMMA NextIInv == IInv /\ [Next]_vars => IInv'
  <1> SUFFICES ASSUME IInv, [Next]_vars PROVE IInv'  OBVIOUS
  <1>1. CASE UNCHANGED vars
    BY <1>1 DEF vars, IInv, TypeOK, ConnectedOK, ShownConnected, BatchOK, IdleOK,
                AloneOK, NewOK, NothingTwice, Twice, Rows
  <1>2. CASE Accounts  BY <1>2, AccountsStep
  <1>3. ASSUME NEW w \in Workers, Restart(w) PROVE IInv'  BY <1>3, RestartStep
  <1>4. ASSUME NEW s \in Sessions, Step(s) PROVE IInv'
    <2>1. CASE BeginSync(s)  BY <2>1, BeginSyncStep
    <2>2. CASE Fetch(s)  BY <2>2, FetchStep
    <2>3. CASE FetchFails(s)  BY <2>3, CommitStep DEF FetchFails
    <2>4. ASSUME NEW id \in Ids, Ingest(s, id) PROVE IInv'  BY <2>4, IngestStep
    <2>5. ASSUME NEW m \in Messages, Webhook(s, m) PROVE IInv'  BY <2>5, WebhookStep
    <2>6. CASE Finish(s)  BY <2>6, CommitStep DEF Finish
    <2>7. CASE Rollback(s)  BY <2>7, RollbackStep
    <2> QED  BY <1>4, <2>1, <2>2, <2>3, <2>4, <2>5, <2>6, <2>7 DEF Step
  <1> QED  BY <1>1, <1>2, <1>3, <1>4 DEF Next

LEMMA InductiveInvariant == Spec => []IInv
  BY InitIInv, NextIInv, PTL DEF Spec

\* The variables keep their types, for any number of users, messages and
\* requests (models/m365_operative.py, models/m365_account.py).
THEOREM TypeCorrect == Spec => []TypeOK
  BY InductiveInvariant, PTL DEF IInv

\* As long as no two requests overlap, no mailbox and no message has two rows
\* (M365OperativeService.ensure_mailboxes and _process_raw_message).
THEOREM NothingIsTwice == Spec => []NothingTwice
  BY InductiveInvariant, PTL DEF IInv

\* An account that is shown as connected and is active has all that
\* _get_imap_account asks for (M365AccountService).
THEOREM ConnectedAreUsed == Spec => []ActiveIsUsed
  <1>1. IInv => ActiveIsUsed
    BY DEF IInv, ConnectedOK, ActiveIsUsed, Usable
  <1> QED  BY <1>1, InductiveInvariant, PTL

\* A request that commits has stored every message that it fetched, whatever
\* other requests do meanwhile (M365OperativeService.sync_inbox).
THEOREM NoMessageIsLost == Spec => BatchIsStored
  <1> DEFINE A == \A s \in Sessions :
                    Finish(s) =>
                      \A id \in Ids : run[s].batch[id] > 0 => stored'[id] > 0
  <1>1. IInv /\ [Next]_vars => [A]_vars
    BY FinishStores
  <1> QED  BY <1>1, InductiveInvariant, PTL DEF Spec, BatchIsStored
=============================================================================
