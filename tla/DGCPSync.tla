------------------------------ MODULE DGCPSync ------------------------------
(***************************************************************************)
(* Importing the processes of the DGCP portal.  Every server process runs  *)
(* its own scheduler, which looks for due schedules every five minutes;    *)
(* users may ask for a synchronization of their tenant at any time.        *)
(*                                                                         *)
(* One run has one database session and commits once, at its very end.     *)
(* Until then the rows it has flushed are locked for the others, and those *)
(* it has only added are unknown even to its own queries (autoflush=False).*)
(* A flush that breaks a unique constraint leaves the session unusable:    *)
(* run_sync fails again when it refreshes its job, the loop over tenants   *)
(* ends, and everything the run wrote is rolled back.                      *)
(*                                                                         *)
(* A flush takes all its locks at once.  Processes are abstracted to their *)
(* codes; classification, scores and payloads are left out.                *)
(***************************************************************************)
EXTENDS Integers, FiniteSets

CONSTANTS Tenants, Codes,
          Expired,     \* codes whose deadline has passed
          Workers,     \* server processes, each with a scheduler
          Users,       \* requests for a manual synchronization
          MaxPages,    \* pages per run
          Overlap,     \* may a page repeat codes of an earlier page?
          Unreliable,  \* tenants whose downloads may fail forever
          MaxCrashes,  \* bound on crashes of server processes
          NoTenant,
          Schedule     \* stands for the schedule row among locked rows

Sessions == Workers \cup Users

ASSUME SyncAssumption ==
  /\ IsFiniteSet(Codes)
  /\ Expired \subseteq Codes /\ Schedule \notin Codes
  /\ Unreliable \subseteq Tenants /\ NoTenant \notin Tenants
  /\ MaxPages \in Nat \ {0} /\ MaxCrashes \in Nat
  /\ Overlap \in BOOLEAN

VARIABLES
  stored,    \* codes of the committed opportunities of each tenant
  counted,   \* sum of created_count over the committed jobs of each tenant
  schedule,  \* committed schedule row: none yet, waiting, or due
  enabled,   \* is_enabled of the schedule
  run,       \* the runs
  crashes

vars == <<stored, counted, schedule, enabled, run, crashes>>

(* What a run has flushed for one tenant, none when it has not. *)
Flushed == [outcome : {"none", "completed", "failed"},
            locks   : SUBSET (Codes \cup {Schedule}),
            added   : SUBSET Codes,
            created : Nat]

NotFlushed == [outcome |-> "none", locks |-> {}, added |-> {}, created |-> 0]

(* The synchronization of one tenant, up to its flush. *)
Job == [tenant      : Tenants \cup {NoTenant},
        page        : 1..(MaxPages + 1),  \* the next one
        outcome     : {"completed", "failed"},
        rows        : SUBSET Codes,  \* opportunities to write
        added       : SUBSET Codes,  \* those that are new
        created     : Nat,
        repeated    : BOOLEAN,       \* a code was added twice
        newSchedule : BOOLEAN]       \* no schedule row was found

NewJob(t) == [tenant |-> t, page |-> 1, outcome |-> "completed", rows |-> {},
              added |-> {}, created |-> 0, repeated |-> FALSE,
              newSchedule |-> FALSE]

Run == [pc   : {"idle", "next", "page", "schedule", "flush"},
        todo : SUBSET Tenants,
        job  : Job,
        done : [Tenants -> Flushed]]

Idle == [pc |-> "idle", todo |-> {}, job |-> NewJob(NoTenant),
         done |-> [t \in Tenants |-> NotFlushed]]

TypeOK ==
  /\ stored \in [Tenants -> SUBSET Codes]
  /\ counted \in [Tenants -> Nat]
  /\ schedule \in [Tenants -> {"none", "waiting", "due"}]
  /\ enabled \in [Tenants -> BOOLEAN]
  /\ run \in [Sessions -> Run]
  /\ crashes \in 0..MaxCrashes

Init ==
  /\ stored = [t \in Tenants |-> {}]
  /\ counted = [t \in Tenants |-> 0]
  /\ schedule = [t \in Tenants |-> "none"]
  /\ enabled = [t \in Tenants |-> TRUE]
  /\ run = [s \in Sessions |-> Idle]
  /\ crashes = 0

committed == <<stored, counted, schedule, enabled>>

-----------------------------------------------------------------------------
(* Schedules *)

(* The requests of a user wait for a run that has written the schedule. *)
Unlocked(t) == \A s \in Sessions : Schedule \notin run[s].done[t].locks

(* get_sync_schedule creates the schedule when there is none. *)
CreateSchedule(t) ==
  /\ schedule[t] = "none" /\ Unlocked(t)
  /\ schedule' = [schedule EXCEPT ![t] = "waiting"]
  /\ UNCHANGED <<stored, counted, enabled, run, crashes>>

(* So does update_sync_schedule; a new interval counts from now. *)
UpdateSchedule(t, on, newInterval) ==
  /\ Unlocked(t)
  /\ enabled' = [enabled EXCEPT ![t] = on]
  /\ schedule' = [schedule EXCEPT
                    ![t] = IF newInterval \/ @ = "none" THEN "waiting" ELSE @]
  /\ UNCHANGED <<stored, counted, run, crashes>>

(* The time next_run_at is reached. *)
Elapse(t) ==
  /\ schedule[t] = "waiting"
  /\ schedule' = [schedule EXCEPT ![t] = "due"]
  /\ UNCHANGED <<stored, counted, enabled, run, crashes>>

-----------------------------------------------------------------------------
(* Runs *)

Due(t) == schedule[t] = "due" /\ enabled[t]

Begin(s, tenants) ==
  /\ run[s].pc = "idle"
  /\ tenants # {}
  /\ run' = [run EXCEPT ![s] = [Idle EXCEPT !.pc = "next", !.todo = tenants]]
  /\ UNCHANGED <<committed, crashes>>

(* _run_due_syncs: no instance of the job starts while one is running. *)
Tick(w) == Begin(w, {t \in Tenants : Due(t)})

Request(u, t) == Begin(u, {t})

Rollback(s) == run' = [run EXCEPT ![s] = Idle]

Crash(s) ==
  /\ run[s].pc # "idle" /\ crashes < MaxCrashes
  /\ crashes' = crashes + 1
  /\ Rollback(s)
  /\ UNCHANGED committed

(* The schedules were selected in no particular order. *)
StartJob(s, t) ==
  /\ run[s].pc = "next" /\ t \in run[s].todo
  /\ run' = [run EXCEPT ![s].pc   = "page",
                        ![s].todo = @ \ {t},
                        ![s].job  = NewJob(t)]
  /\ UNCHANGED <<committed, crashes>>

(* A regression of MorePages: max_pages is not observed. *)
MorePagesUnlimited(job, last) == ~last

(* The loop over the pages ends with the last one, or after max_pages. *)
MorePages(job, last) == ~last /\ job.page < MaxPages

(* _upsert_proceso of the records of a page, all of them looked up among   *)
(* the committed opportunities.                                            *)
Upserted(job, content) ==
  LET new == content \ (stored[job.tenant] \cup Expired)
  IN  [job EXCEPT !.page     = @ + 1,
                  !.rows     = @ \cup new \cup (content \cap stored[job.tenant]),
                  !.added    = @ \cup new,
                  !.created  = @ + Cardinality(new),
                  !.repeated = @ \/ new \cap job.added # {}]

Fetch(s, content, last) ==
  /\ run[s].pc = "page"
  /\ Overlap \/ content \cap run[s].job.rows = {}
  /\ run' = [run EXCEPT
       ![s].pc  = IF MorePages(run[s].job, last) THEN "page" ELSE "schedule",
       ![s].job = Upserted(@, content)]
  /\ UNCHANGED <<committed, crashes>>

(* A regression of FetchFails: the exception ends the run. *)
FetchFailsUncaught(s) ==
  /\ run[s].pc = "page"
  /\ Rollback(s)
  /\ UNCHANGED <<committed, crashes>>

(* The portal does not answer: the job has failed, the run goes on. *)
FetchFails(s) ==
  /\ run[s].pc = "page"
  /\ run' = [run EXCEPT ![s].pc = "flush", ![s].job.outcome = "failed"]
  /\ UNCHANGED <<committed, crashes>>

(* _update_schedule_last_run looks the schedule up. *)
FindSchedule(s) ==
  /\ run[s].pc = "schedule"
  /\ run' = [run EXCEPT ![s].pc = "flush",
       ![s].job.newSchedule = schedule[run[s].job.tenant] = "none"]
  /\ UNCHANGED <<committed, crashes>>

-----------------------------------------------------------------------------
(* Flush and commit *)

(* The rows that the flush of a job writes. *)
Locks(job) ==
  job.rows \cup {x \in {Schedule} : job.outcome = "completed"}

WaitsFor(s, q) ==
  /\ run[s].pc = "flush" /\ q # s
  /\ Locks(run[s].job) \cap run[q].done[run[s].job.tenant].locks # {}

Blocked(s) == \E q \in Sessions : WaitsFor(s, q)

(* A unique constraint is broken: the code was committed by another run    *)
(* since this one looked for it, or was added twice; or so was the schedule *)
Conflict(s) ==
  LET job == run[s].job
  IN  \/ job.repeated
      \/ job.added \cap stored[job.tenant] # {}
      \/ /\ job.newSchedule /\ schedule[job.tenant] # "none"
         /\ job.outcome = "completed"

(* A regression of Flush: nothing keeps a code from being added twice. *)
FlushUnchecked(s) ==
  LET job == run[s].job
  IN  /\ run[s].pc = "flush"
      /\ ~Blocked(s)
      /\ run' = [run EXCEPT ![s].pc = "next",
           ![s].done[job.tenant] = [outcome |-> job.outcome,
                                    locks   |-> Locks(job),
                                    added   |-> job.added,
                                    created |-> job.created],
           ![s].job = NewJob(NoTenant)]
      /\ UNCHANGED <<committed, crashes>>

Flush(s) ==
  LET job == run[s].job
  IN  /\ run[s].pc = "flush"
      /\ ~Blocked(s) /\ ~Conflict(s)
      /\ run' = [run EXCEPT ![s].pc = "next",
           ![s].done[job.tenant] = [outcome |-> job.outcome,
                                    locks   |-> Locks(job),
                                    added   |-> job.added,
                                    created |-> job.created],
           ![s].job = NewJob(NoTenant)]
      /\ UNCHANGED <<committed, crashes>>

FlushFails(s) ==
  /\ run[s].pc = "flush"
  /\ ~Blocked(s) /\ Conflict(s)
  /\ Rollback(s)
  /\ UNCHANGED <<committed, crashes>>

(* The database breaks a cycle of waiting sessions by failing one of them. *)
DeadlockVictim(s) ==
  /\ \E cycle \in SUBSET Sessions :
       /\ s \in cycle
       /\ \A q \in cycle : \E p \in cycle : WaitsFor(q, p)
  /\ Rollback(s)
  /\ UNCHANGED <<committed, crashes>>

(* A regression of Commit: a failed job postpones the next run as well. *)
CommitPostponing(s) ==
  LET done == run[s].done
  IN  /\ run[s].pc = "next" /\ run[s].todo = {}
      /\ stored' = [t \in Tenants |-> stored[t] \cup done[t].added]
      /\ counted' = [t \in Tenants |-> counted[t] + done[t].created]
      /\ schedule' = [t \in Tenants |-> IF done[t].outcome # "none"
                                        THEN "waiting" ELSE schedule[t]]
      /\ Rollback(s)
      /\ UNCHANGED <<enabled, crashes>>

Commit(s) ==
  LET done == run[s].done
  IN  /\ run[s].pc = "next" /\ run[s].todo = {}
      /\ stored' = [t \in Tenants |-> stored[t] \cup done[t].added]
      /\ counted' = [t \in Tenants |-> counted[t] + done[t].created]
      /\ schedule' = [t \in Tenants |-> IF done[t].outcome = "completed"
                                        THEN "waiting" ELSE schedule[t]]
      /\ run' = [run EXCEPT ![s] = Idle]
      /\ UNCHANGED <<enabled, crashes>>

-----------------------------------------------------------------------------

FetchAny(s) ==
  \E content \in SUBSET Codes, last \in BOOLEAN : Fetch(s, content, last)

Proceed(s) ==
  \/ \E t \in Tenants : StartJob(s, t)
  \/ FetchAny(s) \/ FetchFails(s)
  \/ FindSchedule(s)
  \/ Flush(s) \/ FlushFails(s) \/ DeadlockVictim(s)
  \/ Commit(s)

Next ==
  \/ \E t \in Tenants :
       \/ CreateSchedule(t) \/ Elapse(t)
       \/ \E on, newInterval \in BOOLEAN : UpdateSchedule(t, on, newInterval)
       \/ \E u \in Users : Request(u, t)
  \/ \E w \in Workers : Tick(w)
  \/ \E s \in Sessions : Proceed(s) \/ Crash(s)

Spec == Init /\ [][Next]_vars

(* The scheduler of each process fires again and again, a started run goes *)
(* on (every download has a timeout), who waits for a lock gets it when it *)
(* is released (the database serves them in order), and a download of a    *)
(* reliable tenant that is tried again and again succeeds some time.       *)
Fairness ==
  /\ \A w \in Workers : WF_vars(Tick(w))
  /\ \A s \in Sessions : /\ WF_vars(Proceed(s))
                          /\ SF_vars(Flush(s) \/ FlushFails(s))
  /\ \A s \in Sessions, t \in Tenants \ Unreliable, p \in 1..MaxPages :
       SF_vars(/\ run[s].job.tenant = t /\ run[s].job.page = p
               /\ FetchAny(s))

FairSpec == Spec /\ Fairness

-----------------------------------------------------------------------------
(* Properties *)

(* The created_count of the committed jobs adds up to the opportunities    *)
(* there are: no run that overlaps another, repeats a code, fails halfway  *)
(* or is rolled back counts an opportunity twice or leaves one uncounted.  *)
CountsExact == \A t \in Tenants : counted[t] = Cardinality(stored[t])

(* A due schedule is put off only by a completed synchronization of its    *)
(* tenant or by its user: after a failure the next tick tries again.       *)
FailedStaysDue ==
  [][\A t \in Tenants :
       schedule[t] = "due" /\ schedule'[t] # "due" =>
         \/ \E on \in BOOLEAN : UpdateSchedule(t, on, TRUE)
         \/ \E s \in Sessions :
              run[s].done[t].outcome = "completed" /\ run'[s] = Idle]_vars

Portal == INSTANCE Imports

(* Runs that overlap, wait for each other, share tenants and fail act like *)
(* imports that happen one at a time, each for all of its tenants at once. *)
RunsAreImports == Portal!Spec

(* A due tenant is synchronized in the end, or disabled or put off by its  *)
(* user: neither other tenants whose downloads always fail nor the         *)
(* schedulers of the other processes starve it.                            *)
DueIsServed ==
  \A t \in Tenants \ Unreliable : Due(t) ~> ~Due(t)
=============================================================================
