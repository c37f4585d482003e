-------------------------------- MODULE Mail --------------------------------
(***************************************************************************)
(* The mailboxes and messages of Microsoft 365 of a tenant: users connect  *)
(* and disconnect their mailboxes, and synchronizations and webhooks store *)
(* the messages that are not stored yet.                                   *)
(*                                                                         *)
(* A request inserts rows that the others see when it commits.  No         *)
(* constraint keeps a mailbox or a message from being inserted twice;      *)
(* looking for a row that is there twice raises an error.  What a message  *)
(* says, how it is classified and what users do with it are left out.      *)
(***************************************************************************)
EXTENDS Integers

CONSTANTS Users, Sessions,
          UserOf,       \* who makes the requests of a session
          NWorkers,     \* server processes
          WorkerOf,     \* the one that serves a session
          Addresses,
          AddressOf,    \* the address that a user connects
          Monitored,    \* addresses of the settings
          Source,       \* where mail comes from without a connected mailbox
          Messages,
          Anonymous,    \* messages without Message-ID
          MaxCopies,    \* how often a mailbox may list the same message
          MaxIssued     \* bound on the seeds and identities there ever are

ASSUME MailAssumption ==
  /\ UserOf \in [Sessions -> Users]
  /\ AddressOf \in [Users -> Addresses]
  /\ Monitored \subseteq Addresses
  /\ Source \in {"graph", "demo", "none"}
  /\ Anonymous \subseteq Messages
  /\ MaxCopies \in Nat \ {0}
  /\ MaxIssued \in Nat /\ NWorkers \in 1..MaxIssued
  /\ WorkerOf \in [Sessions -> 1..NWorkers]

Workers == 1..NWorkers

(* external_message_id: the Message-ID, or an identity made up by whoever  *)
(* reads the message.                                                      *)
Ids == Messages \X (0..MaxIssued)

(* How often each identity is in a batch.                                  *)
Batch == [Ids -> 0..MaxCopies]
NoMessages == [id \in Ids |-> 0]

Account == [status   : {"not_connected", "prepared", "connected"},
            imap     : BOOLEAN,      \* connection_mode
            password : BOOLEAN,
            active   : BOOLEAN]

NoAccount == [status |-> "not_connected", imap |-> FALSE,
              password |-> FALSE, active |-> FALSE]

VARIABLES
  account,     \* NoAccount: no row
  exists,      \* users who have a row
  mailbox,     \* number of rows of an address
  stored,      \* number of rows of a message
  seed,        \* what the hash of each server process makes of messages
  issued,      \* seeds and identities made up so far
  run,         \* what each session is doing
  overlapped   \* auxiliary: two requests have been under way at once

vars == <<account, exists, mailbox, stored, seed, issued, run, overlapped>>

Request == [pc    : {"none", "fetch", "ingest"},
            boxes : SUBSET Addresses,     \* inserted, not committed
            batch : Batch,                \* what was fetched
            todo  : Batch,
            rows  : [Ids -> Nat]]         \* inserted, not committed

Idle == [pc |-> "none", boxes |-> {}, batch |-> NoMessages,
         todo |-> NoMessages, rows |-> NoMessages]

TypeOK ==
  /\ account \in [Users -> Account]
  /\ exists \subseteq Users
  /\ mailbox \in [Addresses -> Nat]
  /\ stored \in [Ids -> Nat]
  /\ issued \in 0..MaxIssued /\ seed \in [Workers -> 1..issued]
  /\ run \in [Sessions -> Request]
  /\ overlapped \in BOOLEAN

Init ==
  /\ account = [u \in Users |-> NoAccount]
  /\ exists = {}
  /\ mailbox = [a \in Addresses |-> 0]
  /\ stored = NoMessages
  /\ seed = [w \in Workers |-> w] /\ issued = NWorkers
  /\ run = [s \in Sessions |-> Idle]
  /\ overlapped = FALSE

-----------------------------------------------------------------------------
(* Accounts *)

accounts == <<account, exists>>
mail == <<mailbox, stored, seed, issued, run, overlapped>>

SetAccount(u, a) ==
  /\ account' = [account EXCEPT ![u] = a]
  /\ exists' = exists \cup {u}
  /\ UNCHANGED mail

(* prepare_account keeps the mode and the password of a row. *)
Prepare(u) ==
  SetAccount(u, [account[u] EXCEPT !.status = "prepared", !.active = TRUE])

(* connect_imap: only a new row is made active. *)
Connect(u) ==
  SetAccount(u, [status |-> "connected", imap |-> TRUE, password |-> TRUE,
                 active |-> u \notin exists \/ account[u].active])

DisconnectRenamed(u) ==
  /\ u \in exists
  /\ SetAccount(u, [account[u] EXCEPT !.status = "disconnected",
                                      !.imap = FALSE, !.password = FALSE])

DisconnectKeepingStatus(u) ==
  /\ u \in exists
  /\ SetAccount(u, [account[u] EXCEPT !.password = FALSE])

Disconnect(u) ==
  /\ u \in exists
  /\ SetAccount(u, [account[u] EXCEPT !.status = "not_connected",
                                      !.imap = FALSE, !.password = FALSE])

(* delete_account keeps the row. *)
Delete(u) == u \in exists /\ SetAccount(u, NoAccount)

(* What the page of the account shows. *)
ShownConnected(u) == account[u].imap /\ account[u].status = "connected"

(* What a synchronization requires: _get_imap_account. *)
Usable(u) == ShownConnected(u) /\ account[u].active /\ account[u].password

-----------------------------------------------------------------------------
(* Synchronizations and webhooks *)

Twice(n) == n > 1

Start(s, request) ==
  /\ run[s].pc = "none"
  /\ run' = [run EXCEPT ![s] = request]
  /\ overlapped' = (overlapped \/ \E r \in Sessions : run[r].pc # "none")
  /\ UNCHANGED <<accounts, mailbox, stored, seed>>

Wanted(s) ==
  Monitored \cup IF Usable(UserOf[s]) THEN {AddressOf[UserOf[s]]} ELSE {}

(* sync_inbox up to the flush of ensure_mailboxes. *)
BeginSync(s) ==
  /\ \A a \in Wanted(s) : ~Twice(mailbox[a])
  /\ Start(s, [Idle EXCEPT !.pc    = "fetch",
                           !.boxes = {a \in Wanted(s) : mailbox[a] = 0}])
  /\ UNCHANGED issued

(* A hash of the message, which every server process seeds anew. *)
Identity(s, m) ==
  IF m \in Anonymous THEN <<m, seed[WorkerOf[s]]>> ELSE <<m, 0>>

Continue(s, request) ==
  /\ run' = [run EXCEPT ![s] = request]
  /\ UNCHANGED <<accounts, mailbox, stored, seed, issued, overlapped>>

(* The last messages of the mailbox that is connected by now, of what      *)
(* Graph answers, of the demonstration; some may be there more than once.  *)
Fetched(s, copies) ==
  [id \in Ids |-> IF id = Identity(s, id[1]) THEN copies[id[1]] ELSE 0]

Fetch(s) ==
  /\ run[s].pc = "fetch"
  /\ Usable(UserOf[s]) \/ Source # "none"
  /\ \E copies \in [Messages -> 0..MaxCopies] :
       Continue(s, [run[s] EXCEPT !.pc    = "ingest",
                                  !.batch = Fetched(s, copies),
                                  !.todo  = Fetched(s, copies)])

(* What _get_by_external finds: what is committed, and what the request    *)
(* itself has inserted, since every insertion is flushed.                  *)
RowsUnflushed(s, id) == stored[id]

Rows(s, id) == stored[id] + run[s].rows[id]

(* _process_raw_message: what is stored already is skipped. *)
StopAtKnown(s, id) ==
  /\ run[s].pc = "ingest" /\ run[s].todo[id] > 0 /\ ~Twice(Rows(s, id))
  /\ Continue(s, IF Rows(s, id) > 0
                   THEN [run[s] EXCEPT !.todo = NoMessages]
                   ELSE [run[s] EXCEPT !.todo[id] = @ - 1,
                                       !.rows[id] = @ + 1])

Ingest(s, id) ==
  /\ run[s].pc = "ingest" /\ run[s].todo[id] > 0 /\ ~Twice(Rows(s, id))
  /\ Continue(s, [run[s] EXCEPT !.todo[id] = @ - 1,
                                !.rows[id] = IF Rows(s, id) > 0 THEN @
                                                               ELSE @ + 1])

(* ingest_webhook makes up an identity for every message without one. *)
Webhook(s, m) ==
  LET id == IF m \in Anonymous THEN <<m, issued'>> ELSE <<m, 0>>
      batch == [NoMessages EXCEPT ![id] = 1]
  IN  /\ issued' = IF m \in Anonymous THEN issued + 1 ELSE issued
      /\ issued' <= MaxIssued
      /\ Start(s, [Idle EXCEPT !.pc = "ingest", !.batch = batch,
                               !.todo = batch])

End(s) == run' = [run EXCEPT ![s] = Idle]

Commit(s) ==
  /\ mailbox' = [a \in Addresses |->
                   mailbox[a] + IF a \in run[s].boxes THEN 1 ELSE 0]
  /\ stored' = [id \in Ids |-> stored[id] + run[s].rows[id]]
  /\ End(s)
  /\ UNCHANGED <<accounts, seed, issued, overlapped>>

Finish(s) == run[s].pc = "ingest" /\ run[s].todo = NoMessages /\ Commit(s)

(* The mailbox does not answer, or nothing is connected: the rows of the   *)
(* mailboxes stay.                                                         *)
FetchFails(s) ==
  /\ run[s].pc = "fetch"
  /\ Usable(UserOf[s]) \/ Source = "none"
  /\ Commit(s)

(* A message that is stored twice, or an error of the database. *)
Rollback(s) ==
  /\ run[s].pc # "none"
  /\ End(s)
  /\ UNCHANGED <<accounts, mailbox, stored, seed, issued, overlapped>>

(* A server process starts again, with another seed of hash(); its         *)
(* requests are gone.                                                      *)
Restart(w) ==
  /\ issued < MaxIssued
  /\ issued' = issued + 1
  /\ seed' = [seed EXCEPT ![w] = issued']
  /\ run' = [s \in Sessions |-> IF WorkerOf[s] = w THEN Idle ELSE run[s]]
  /\ UNCHANGED <<accounts, mailbox, stored, overlapped>>

-----------------------------------------------------------------------------

Accounts ==
  \E u \in Users : Prepare(u) \/ Connect(u) \/ Disconnect(u) \/ Delete(u)

Step(s) ==
  \/ BeginSync(s)
  \/ Fetch(s)
  \/ FetchFails(s)
  \/ \E id \in Ids : Ingest(s, id)
  \/ \E m \in Messages : Webhook(s, m)
  \/ Finish(s)
  \/ Rollback(s)

Next ==
  \/ Accounts
  \/ \E w \in Workers : Restart(w)
  \/ \E s \in Sessions : Step(s)

Spec == Init /\ [][Next]_vars

-----------------------------------------------------------------------------
(* Properties *)

(* Whatever synchronizations, webhooks, errors and restarts follow each    *)
(* other, and although a batch may hold a message more than once, no       *)
(* mailbox and no external_message_id gets a second row, which would make  *)
(* ensure_mailboxes or _get_by_external fail for ever, as long as no two   *)
(* requests overlap.                                                       *)
NothingTwice ==
  ~overlapped => /\ \A a \in Addresses : ~Twice(mailbox[a])
                 /\ \A id \in Ids : ~Twice(stored[id])

(* A synchronization or webhook that commits leaves every message that it  *)
(* fetched stored, whatever other requests do meanwhile: none is lost      *)
(* because another one was known or another request was about to store it. *)
BatchIsStored ==
  [][\A s \in Sessions :
       Finish(s) =>
         \A id \in Ids : run[s].batch[id] > 0 => stored'[id] > 0]_vars

(* An account that is shown as connected and was not deleted before is one *)
(* that synchronizations use, after any sequence of prepare, connect and   *)
(* disconnect.                                                             *)
ActiveIsUsed ==
  \A u \in Users : ShownConnected(u) /\ account[u].active => Usable(u)

(* test_operative_sync_uses_imap_when_connected: a synchronization uses    *)
(* the mailbox of a user that is connected.                                *)
ConnectedIsUsed == \A u \in Users : ShownConnected(u) => Usable(u)
=============================================================================
