--------------------------- MODULE DGCPSyncProofs ---------------------------
(***************************************************************************)
(* Proofs about DGCPSync, for any tenants, codes, server processes,        *)
(* requests, pages and crashes.                                            *)
(*                                                                         *)
(* The committed counters are exact because what a run holds is sound: its *)
(* flushed counters are those of the rows it added, it has locked these    *)
(* rows, none of them is stored yet, and no other run has locked them.     *)
(* For the same reasons overlapping runs implement Imports, one at a time. *)
(***************************************************************************)
EXTENDS DGCPSync, FiniteSetTheorems, TLAPS

-----------------------------------------------------------------------------
(* The inductive invariant *)

(* What a run has flushed for a tenant can be committed next to the codes  *)
(* that are there.                                                         *)
Committable(f, there) ==
  /\ f.created = Cardinality(f.added)
  /\ f.added \subseteq f.locks
  /\ f.added \cap there = {}

(* What a run may hold, as far as its type and the counters depend on it. *)
Sound(r) ==
  /\ r.pc \in {"page", "schedule", "flush"} => r.job.tenant \in Tenants
  /\ r.pc = "page" => r.job.page <= MaxPages
  /\ r.job.added \subseteq r.job.rows
  /\ ~r.job.repeated => r.job.created = Cardinality(r.job.added)
  /\ \A t \in Tenants : Committable(r.done[t], stored[t])

Apart(r, q) ==
  \A t \in Tenants : r.done[t].locks \cap q.done[t].locks = {}

Exclusive == \A s, q \in Sessions : s # q => Apart(run[s], run[q])

IInv ==
  /\ TypeOK
  /\ CountsExact
  /\ \A s \in Sessions : Sound(run[s])
  /\ Exclusive

-----------------------------------------------------------------------------
(* Runs *)

(* A set of codes is finite. *)
LEMMA FiniteCodes ==
  ASSUME NEW S \in SUBSET Codes
  PROVE  IsFiniteSet(S) /\ Cardinality(S) \in Nat
BY SyncAssumption, FS_Subset, FS_CardinalityType

(* The size of a union of disjoint sets of codes. *)
LEMMA DisjointUnion ==
  ASSUME NEW S \in SUBSET Codes, NEW T \in SUBSET Codes, S \cap T = {}
  PROVE  Cardinality(S \cup T) = Cardinality(S) + Cardinality(T)
<1>1. IsFiniteSet(S) /\ IsFiniteSet(T)
  BY FiniteCodes
<1>2. Cardinality(S) \in Nat /\ Cardinality(T) \in Nat
        /\ Cardinality(S \cap T) = 0
  BY FiniteCodes, FS_EmptySet
<1>3. Cardinality(S \cup T)
        = Cardinality(S) + Cardinality(T) - Cardinality(S \cap T)
  BY <1>1, FS_Union
<1> DEFINE c == Cardinality(S)
           d == Cardinality(T)
           e == Cardinality(S \cap T)
<1> HIDE DEF c, d, e
<1>4. c + d - e = c + d
  BY <1>2 DEF c, d, e
<1>5. QED  BY <1>3, <1>4 DEF c, d, e

(* A new job has added and counted nothing. *)
LEMMA NewJobType ==
  ASSUME NEW t \in Tenants \cup {NoTenant}
  PROVE  /\ NewJob(t) \in Job
         /\ NewJob(t).added = {} /\ NewJob(t).created = 0
         /\ NewJob(t).tenant = t /\ NewJob(t).page = 1
BY SyncAssumption DEF NewJob, Job

(* Assigning to the fields of a job leaves it a job. *)
LEMMA JobExcept ==
  ASSUME NEW job \in Job, NEW p \in 1..(MaxPages + 1),
         NEW rows \in SUBSET Codes, NEW added \in SUBSET Codes,
         NEW n \in Nat, NEW b \in BOOLEAN
  PROVE  [job EXCEPT !.page = p, !.rows = rows, !.added = added,
                     !.created = n, !.repeated = b] \in Job
BY DEF Job

(* None of the fields but these changes with the records of a page. *)
LEMMA UpsertedFields ==
  ASSUME NEW job \in Job, NEW content
  PROVE  LET new  == content \ (stored[job.tenant] \cup Expired)
             job2 == Upserted(job, content)
         IN  /\ job2.tenant = job.tenant
             /\ job2.page = job.page + 1
             /\ job2.rows = job.rows \cup new
                              \cup (content \cap stored[job.tenant])
             /\ job2.added = job.added \cup new
             /\ job2.created = job.created + Cardinality(new)
             /\ job2.repeated = (job.repeated \/ new \cap job.added # {})
BY DEF Upserted, Job

LEMMA NotFlushedType ==
  /\ NotFlushed \in Flushed
  /\ NotFlushed.created = 0 /\ NotFlushed.added = {} /\ NotFlushed.locks = {}
BY DEF NotFlushed, Flushed

(* An idle run is sound, and apart from every other. *)
LEMMA IdleSound ==
  /\ Idle \in Run
  /\ Sound(Idle)
  /\ \A q \in Run : Apart(Idle, q)
<1>1. Idle \in Run
  BY NewJobType, NotFlushedType DEF Idle, Run
<1>2. \A t \in Tenants : Idle.done[t] = NotFlushed
  BY DEF Idle
<1>3. Sound(Idle)
  BY <1>2, NewJobType, NotFlushedType, FS_EmptySet
  DEF Idle, Sound, Committable
<1>4. \A q \in Run : Apart(Idle, q)
  BY <1>2, NotFlushedType DEF Apart
<1>5. QED  BY <1>1, <1>3, <1>4

(* A step of one run that commits nothing keeps the invariant when the run *)
(* stays sound and apart from the others.                                  *)
LEMMA RunStep ==
  ASSUME IInv, NEW s \in Sessions, NEW r \in Run,
         run' = [run EXCEPT ![s] = r],
         UNCHANGED committed, crashes' \in 0..MaxCrashes,
         Sound(r), \A q \in Sessions \ {s} : Apart(r, run[q])
  PROVE  IInv'
<1>1. /\ run \in [Sessions -> Run] /\ run'[s] = r
      /\ \A q \in Sessions \ {s} : run'[q] = run[q]
  BY DEF IInv, TypeOK
<1>2. TypeOK'
  BY DEF IInv, TypeOK, committed
<1>3. CountsExact'
  BY DEF IInv, CountsExact, committed
<1>4. \A q \in Sessions : Sound(run[q])'
  <2> SUFFICES ASSUME NEW q \in Sessions PROVE Sound(run[q])'
    OBVIOUS
  <2>1. Sound(run'[q])
    BY <1>1 DEF IInv
  <2>2. QED  BY <2>1 DEF Sound, Committable, committed
<1>5. Exclusive'
  <2> SUFFICES ASSUME NEW p \in Sessions, NEW q \in Sessions, p # q
               PROVE  Apart(run'[p], run'[q])
    BY DEF Exclusive, Apart
  <2>1. CASE p = s
    BY <2>1, <1>1
  <2>2. CASE q = s
    BY <2>2, <1>1 DEF Apart
  <2>3. CASE p # s /\ q # s
    BY <2>3, <1>1 DEF IInv, Exclusive
  <2>4. QED  BY <2>1, <2>2, <2>3
<1>6. QED  BY <1>2, <1>3, <1>4, <1>5 DEF IInv

-----------------------------------------------------------------------------
(* One lemma per action *)

(* A run that is given up leaves nothing behind. *)
LEMMA RollbackStep ==
  ASSUME IInv, NEW s \in Sessions, Rollback(s),
         UNCHANGED committed, crashes' \in 0..MaxCrashes
  PROVE  IInv'
<1>1. \A q \in Sessions : run[q] \in Run
  BY DEF IInv, TypeOK
<1>2. QED  BY <1>1, IdleSound, RunStep DEF Rollback

LEMMA BeginStep ==
  ASSUME IInv, NEW s \in Sessions, NEW tenants \in SUBSET Tenants,
         Begin(s, tenants)
  PROVE  IInv'
<1> DEFINE r == [Idle EXCEPT !.pc = "next", !.todo = tenants]
<1>1. r \in Run /\ r.pc = "next" /\ r.job = Idle.job /\ r.done = Idle.done
  BY IdleSound DEF Run, Idle
<1> HIDE DEF r
<1>2. Sound(r)
  BY <1>1, IdleSound DEF Sound
<1>3. \A q \in Sessions \ {s} : Apart(r, run[q])
  BY <1>1, IdleSound DEF Apart, IInv, TypeOK
<1>4. run' = [run EXCEPT ![s] = r] /\ UNCHANGED <<committed, crashes>>
  BY DEF Begin, r
<1>5. QED  BY <1>1, <1>2, <1>3, <1>4, RunStep DEF IInv, TypeOK

LEMMA StartJobStep ==
  ASSUME IInv, NEW s \in Sessions, NEW t \in Tenants, StartJob(s, t)
  PROVE  IInv'
<1> DEFINE r == [run[s] EXCEPT !.pc = "page", !.todo = @ \ {t},
                               !.job = NewJob(t)]
<1>1. run[s] \in Run /\ Sound(run[s])
  BY DEF IInv, TypeOK
<1>2. /\ r \in Run /\ r.pc = "page" /\ r.job = NewJob(t)
      /\ r.done = run[s].done
  BY <1>1, NewJobType DEF Run
<1>3. run' = [run EXCEPT ![s] = r] /\ UNCHANGED <<committed, crashes>>
  BY DEF StartJob
<1> HIDE DEF r
<1>4. Sound(r)
  <2>1. /\ r.job.tenant = t /\ r.job.page = 1 /\ r.job.added = {}
        /\ r.job.created = 0
    BY <1>2, NewJobType
  <2>2. r.job.page <= MaxPages /\ r.job.created = Cardinality(r.job.added)
    BY <2>1, FS_EmptySet, SyncAssumption
  <2>3. QED  BY <1>1, <1>2, <2>1, <2>2 DEF Sound
<1>5. \A q \in Sessions \ {s} : Apart(r, run[q])
  BY <1>2 DEF Apart, IInv, Exclusive
<1>6. QED  BY <1>2, <1>3, <1>4, <1>5, RunStep DEF IInv, TypeOK

(* Counting a page adds its new codes once, or the job has repeated one. *)
LEMMA FetchStep ==
  ASSUME IInv, NEW s \in Sessions, NEW content \in SUBSET Codes,
         NEW last \in BOOLEAN, Fetch(s, content, last)
  PROVE  IInv'
<1> DEFINE job == run[s].job
           new == content \ (stored[job.tenant] \cup Expired)
           job2 == Upserted(job, content)
           r == [run[s] EXCEPT
              !.pc  = IF MorePages(job, last) THEN "page" ELSE "schedule",
              !.job = job2]
<1>1. run[s] \in Run /\ Sound(run[s]) /\ run[s].pc = "page" /\ job \in Job
  BY DEF IInv, TypeOK, Fetch, Run
<1>2. new \in SUBSET Codes /\ Cardinality(new) \in Nat
  BY FiniteCodes
<1>3. run' = [run EXCEPT ![s] = r] /\ UNCHANGED <<committed, crashes>>
  BY DEF Fetch
<1>4. /\ job2.tenant = job.tenant
      /\ job2.page = job.page + 1
      /\ job2.rows = job.rows \cup new \cup (content \cap stored[job.tenant])
      /\ job2.added = job.added \cup new
      /\ job2.created = job.created + Cardinality(new)
      /\ job2.repeated = (job.repeated \/ new \cap job.added # {})
  BY <1>1, UpsertedFields
<1>5. job2 \in Job
  <2>1. job.page + 1 \in 1..(MaxPages + 1)
    BY <1>1, SyncAssumption DEF Sound, Job
  <2>2. job.created + Cardinality(new) \in Nat
    BY <1>1, <1>2 DEF Job
  <2>3. /\ job.rows \cup new \cup (content \cap stored[job.tenant])
             \in SUBSET Codes
        /\ job.added \cup new \in SUBSET Codes
    BY <1>1, <1>2 DEF Job
  <2> HIDE DEF job
  <2>4. QED  BY <1>1, <2>1, <2>2, <2>3, JobExcept DEF Upserted
<1> HIDE DEF new, job2
<1>6. /\ r \in Run /\ r.job = job2 /\ r.done = run[s].done
      /\ r.pc = "page" => job.page < MaxPages
  BY <1>1, <1>5 DEF Run, MorePages
<1> HIDE DEF r
<1>7. ~job2.repeated => job2.created = Cardinality(job2.added)
  <2>1. ~job2.repeated => /\ job.added \cap new = {}
                          /\ job.created = Cardinality(job.added)
    BY <1>1, <1>4 DEF Sound
  <2>2. job.added \in SUBSET Codes
    BY <1>1 DEF Job
  <2>3. QED  BY <1>2, <1>4, <2>1, <2>2, DisjointUnion
<1>8. r.pc = "page" => r.job.page <= MaxPages
  BY <1>1, <1>4, <1>6, SyncAssumption DEF Job
<1>9. Sound(r)
  BY <1>1, <1>4, <1>6, <1>7, <1>8 DEF Sound
<1>10. \A q \in Sessions \ {s} : Apart(r, run[q])
  BY <1>6 DEF Apart, IInv, Exclusive
<1>11. QED  BY <1>3, <1>6, <1>9, <1>10, RunStep DEF IInv, TypeOK

LEMMA FetchFailsStep ==
  ASSUME IInv, NEW s \in Sessions, FetchFails(s)
  PROVE  IInv'
<1> DEFINE job2 == [run[s].job EXCEPT !.outcome = "failed"]
           r == [run[s] EXCEPT !.pc = "flush", !.job = job2]
<1>1. run[s] \in Run /\ Sound(run[s]) /\ run[s].pc = "page"
        /\ run[s].job \in Job
  BY DEF IInv, TypeOK, FetchFails, Run
<1>2. run' = [run EXCEPT ![s] = r] /\ UNCHANGED <<committed, crashes>>
  BY DEF FetchFails
<1>3. /\ job2 \in Job /\ job2.tenant = run[s].job.tenant
      /\ job2.rows = run[s].job.rows /\ job2.added = run[s].job.added
      /\ job2.created = run[s].job.created
      /\ job2.repeated = run[s].job.repeated
  BY <1>1 DEF Job
<1> HIDE DEF job2
<1>4. /\ r \in Run /\ r.pc = "flush" /\ r.job = job2
      /\ r.done = run[s].done
  BY <1>1, <1>3 DEF Run
<1> HIDE DEF r
<1>5. Sound(r)
  BY <1>1, <1>3, <1>4 DEF Sound
<1>6. \A q \in Sessions \ {s} : Apart(r, run[q])
  BY <1>4 DEF Apart, IInv, Exclusive
<1>7. QED  BY <1>2, <1>4, <1>5, <1>6, RunStep DEF IInv, TypeOK

LEMMA FindScheduleStep ==
  ASSUME IInv, NEW s \in Sessions, FindSchedule(s)
  PROVE  IInv'
<1> DEFINE none == schedule[run[s].job.tenant] = "none"
           job2 == [run[s].job EXCEPT !.newSchedule = none]
           r == [run[s] EXCEPT !.pc = "flush", !.job = job2]
<1>1. run[s] \in Run /\ Sound(run[s]) /\ run[s].pc = "schedule"
        /\ run[s].job \in Job
  BY DEF IInv, TypeOK, FindSchedule, Run
<1>2. run' = [run EXCEPT ![s] = r] /\ UNCHANGED <<committed, crashes>>
  BY DEF FindSchedule
<1>3. none \in BOOLEAN
  OBVIOUS
<1> HIDE DEF none
<1>4. /\ job2 \in Job /\ job2.tenant = run[s].job.tenant
      /\ job2.rows = run[s].job.rows /\ job2.added = run[s].job.added
      /\ job2.created = run[s].job.created
      /\ job2.repeated = run[s].job.repeated
  BY <1>1, <1>3 DEF Job
<1> HIDE DEF job2
<1>5. /\ r \in Run /\ r.pc = "flush" /\ r.job = job2
      /\ r.done = run[s].done
  BY <1>1, <1>4 DEF Run
<1> HIDE DEF r
<1>6. Sound(r)
  BY <1>1, <1>4, <1>5 DEF Sound
<1>7. \A q \in Sessions \ {s} : Apart(r, run[q])
  BY <1>5 DEF Apart, IInv, Exclusive
<1>8. QED  BY <1>2, <1>5, <1>6, <1>7, RunStep DEF IInv, TypeOK

(* What is flushed is locked, not stored yet and counted exactly, or the   *)
(* flush would have been blocked or would have broken a constraint.        *)
LEMMA FlushStep ==
  ASSUME IInv, NEW s \in Sessions, Flush(s)
  PROVE  IInv'
<1> DEFINE job == run[s].job
           f == [outcome |-> job.outcome, locks |-> Locks(job),
                 added |-> job.added, created |-> job.created]
           r == [run[s] EXCEPT !.pc = "next", !.done[job.tenant] = f,
                               !.job = NewJob(NoTenant)]
<1>1. /\ run[s] \in Run /\ Sound(run[s]) /\ run[s].pc = "flush"
      /\ job \in Job /\ job.tenant \in Tenants
      /\ run[s].done \in [Tenants -> Flushed]
  BY DEF IInv, TypeOK, Flush, Run, Sound
<1>2. run' = [run EXCEPT ![s] = r] /\ UNCHANGED <<committed, crashes>>
  BY DEF Flush
<1>3. ~Blocked(s) /\ ~Conflict(s)
  BY DEF Flush
<1>4. f \in Flushed
  BY <1>1 DEF Flushed, Job, Locks
<1>5. Committable(f, stored[job.tenant])
  <2>1. ~job.repeated /\ job.added \cap stored[job.tenant] = {}
    BY <1>3 DEF Conflict
  <2>2. QED  BY <1>1, <2>1 DEF Sound, Committable, Locks
<1>6. \A q \in Sessions \ {s} :
        f.locks \cap run[q].done[job.tenant].locks = {}
  BY <1>1, <1>3 DEF Blocked, WaitsFor
<1> HIDE DEF f
<1>7. /\ r \in Run /\ r.pc = "next" /\ r.job = NewJob(NoTenant)
      /\ r.done = [run[s].done EXCEPT ![job.tenant] = f]
  BY <1>1, <1>4, NewJobType DEF Run
<1> HIDE DEF r
<1>8. \A t \in Tenants :
        r.done[t] = IF t = job.tenant THEN f ELSE run[s].done[t]
  BY <1>1, <1>7, ZenonT(60)
<1>9. Sound(r)
  <2>1. ASSUME NEW t \in Tenants
        PROVE  Committable(r.done[t], stored[t])
    <3>1. CASE t = job.tenant  BY <1>5, <1>8, <3>1
    <3>2. CASE t # job.tenant
      <4>1. r.done[t] = run[s].done[t]  BY <1>8, <3>2
      <4>2. Committable(run[s].done[t], stored[t])  BY <1>1 DEF Sound
      <4>3. QED  BY <4>1, <4>2
    <3>3. QED  BY <3>1, <3>2
  <2>2. r.job.added = {} /\ r.job.created = 0
    BY <1>7 DEF NewJob
  <2>3. r.job.created = Cardinality(r.job.added)
    BY <2>2, FS_EmptySet, ZenonT(60)
  <2>4. QED  BY <1>7, <2>1, <2>2, <2>3 DEF Sound
<1>10. \A q \in Sessions \ {s} : Apart(r, run[q])
  BY <1>6, <1>8 DEF Apart, IInv, Exclusive
<1>11. QED  BY <1>2, <1>7, <1>9, <1>10, RunStep DEF IInv, TypeOK

(* A commit stores rows that no other run has locked, so the others stay   *)
(* sound, and counts them exactly because none was stored before.          *)
LEMMA CommitStep ==
  ASSUME IInv, NEW s \in Sessions, Commit(s)
  PROVE  IInv'
<1> DEFINE done == run[s].done
<1>1. /\ run[s] \in Run /\ Sound(run[s]) /\ done \in [Tenants -> Flushed]
      /\ stored \in [Tenants -> SUBSET Codes]
      /\ counted \in [Tenants -> Nat]
      /\ run \in [Sessions -> Run]
  BY DEF IInv, TypeOK, Run
<1>2. /\ stored' = [t \in Tenants |-> stored[t] \cup done[t].added]
      /\ counted' = [t \in Tenants |-> counted[t] + done[t].created]
      /\ run' = [run EXCEPT ![s] = Idle]
      /\ UNCHANGED <<enabled, crashes>>
  BY DEF Commit
<1>3. \A t \in Tenants : /\ done[t].added \in SUBSET Codes
                          /\ done[t].created \in Nat
  BY <1>1 DEF Flushed
<1>4. TypeOK'
  <2>1. stored' \in [Tenants -> SUBSET Codes]
    BY <1>1, <1>2, <1>3
  <2>2. counted' \in [Tenants -> Nat]
    BY <1>1, <1>2, <1>3
  <2>3. schedule' \in [Tenants -> {"none", "waiting", "due"}]
    BY DEF Commit, IInv, TypeOK
  <2>4. run' \in [Sessions -> Run]
    BY <1>1, <1>2, IdleSound
  <2>5. QED  BY <1>2, <2>1, <2>2, <2>3, <2>4 DEF IInv, TypeOK
<1>5. CountsExact'
  <2> SUFFICES ASSUME NEW t \in Tenants
               PROVE  counted'[t] = Cardinality(stored'[t])
    BY DEF CountsExact
  <2>1. /\ stored[t] \cap done[t].added = {}
        /\ done[t].created = Cardinality(done[t].added)
    BY <1>1 DEF Sound, Committable
  <2>2. Cardinality(stored[t] \cup done[t].added)
          = Cardinality(stored[t]) + Cardinality(done[t].added)
    BY <1>1, <1>3, <2>1, DisjointUnion
  <2>3. counted[t] = Cardinality(stored[t])
    BY DEF IInv, CountsExact
  <2>4. QED  BY <1>2, <2>1, <2>2, <2>3
<1>6. /\ run'[s] = Idle
      /\ \A q \in Sessions \ {s} : run'[q] = run[q]
  BY <1>1, <1>2
<1>7. \A q \in Sessions : Sound(run[q])'
  <2> SUFFICES ASSUME NEW q \in Sessions, NEW t \in Tenants
               PROVE  Committable(run'[q].done[t], stored'[t])
    BY <1>1, <1>6, IdleSound DEF Sound, IInv
  <2>1. CASE q = s
    BY <2>1, <1>6, NotFlushedType, FS_EmptySet DEF Committable, Idle
  <2>2. CASE q # s
    <3>1. /\ Committable(run[q].done[t], stored[t])
          /\ Committable(done[t], stored[t])
      BY DEF IInv, Sound
    <3>2. run[q].done[t].locks \cap done[t].locks = {}
      BY <2>2 DEF IInv, Exclusive, Apart
    <3>3. run[q].done[t].added \cap stored'[t] = {}
      BY <1>2, <3>1, <3>2 DEF Committable
    <3>4. QED  BY <1>6, <2>2, <3>1, <3>3 DEF Committable
  <2>3. QED  BY <2>1, <2>2
<1>8. Exclusive'
  <2> SUFFICES ASSUME NEW p \in Sessions, NEW q \in Sessions, p # q
               PROVE  Apart(run'[p], run'[q])
    BY DEF Exclusive, Apart
  <2>1. CASE p = s
    BY <2>1, <1>1, <1>6, IdleSound
  <2>2. CASE q = s
    BY <2>2, <1>1, <1>6, IdleSound DEF Apart
  <2>3. CASE p # s /\ q # s
    BY <2>3, <1>6 DEF IInv, Exclusive
  <2>4. QED  BY <2>1, <2>2, <2>3
<1>9. QED  BY <1>4, <1>5, <1>7, <1>8 DEF IInv

(* The schedules are not counted. *)
LEMMA ScheduleStep ==
  ASSUME IInv, UNCHANGED <<stored, counted, run, crashes>>,
         schedule' \in [Tenants -> {"none", "waiting", "due"}],
         enabled' \in [Tenants -> BOOLEAN]
  PROVE  IInv'
<1>1. TypeOK' /\ CountsExact' /\ Exclusive'
  BY DEF IInv, TypeOK, CountsExact, Exclusive, Apart
<1>2. \A s \in Sessions : Sound(run[s])'
  BY DEF IInv, Sound
<1>3. QED  BY <1>1, <1>2 DEF IInv

-----------------------------------------------------------------------------
(* Theorems *)

LEMMA InitIInv == Init => IInv
<1> SUFFICES ASSUME Init PROVE IInv
  OBVIOUS
<1>1. TypeOK
  BY IdleSound, SyncAssumption DEF Init, TypeOK
<1>2. CountsExact
  BY FS_EmptySet DEF Init, CountsExact
<1>3. (\A s \in Sessions : Sound(run[s])) /\ Exclusive
  BY IdleSound DEF Init, Exclusive
<1>4. QED  BY <1>1, <1>2, <1>3 DEF IInv

LEMMA NextIInv == IInv /\ [Next]_vars => IInv'
<1> SUFFICES ASSUME IInv, [Next]_vars PROVE IInv'
  OBVIOUS
<1> USE DEF committed
<1>1. schedule \in [Tenants -> {"none", "waiting", "due"}]
        /\ enabled \in [Tenants -> BOOLEAN] /\ crashes \in 0..MaxCrashes
  BY DEF IInv, TypeOK
<1>2. ASSUME NEW t \in Tenants, CreateSchedule(t) PROVE IInv'
  BY <1>1, <1>2, ScheduleStep DEF CreateSchedule
<1>3. ASSUME NEW t \in Tenants, NEW on \in BOOLEAN, NEW newInterval \in BOOLEAN,
             UpdateSchedule(t, on, newInterval)
      PROVE  IInv'
  BY <1>1, <1>3, ScheduleStep DEF UpdateSchedule
<1>4. ASSUME NEW t \in Tenants, Elapse(t) PROVE IInv'
  BY <1>1, <1>4, ScheduleStep DEF Elapse
<1>5. ASSUME NEW t \in Tenants, NEW u \in Users, Request(u, t) PROVE IInv'
  BY <1>5, BeginStep DEF Request, Sessions
<1>6. ASSUME NEW w \in Workers, Tick(w) PROVE IInv'
  BY <1>6, BeginStep DEF Tick, Sessions
<1>7. ASSUME NEW s \in Sessions, Crash(s) PROVE IInv'
  <2>1. crashes' \in 0..MaxCrashes
    BY <1>1, <1>7, SyncAssumption DEF Crash
  <2>2. QED  BY <1>7, <2>1, RollbackStep DEF Crash
<1>8. ASSUME NEW s \in Sessions, Proceed(s) PROVE IInv'
  <2>1. ASSUME NEW t \in Tenants, StartJob(s, t) PROVE IInv'
    BY <2>1, StartJobStep
  <2>2. CASE FetchAny(s)
    BY <2>2, FetchStep DEF FetchAny
  <2>3. CASE FetchFails(s)
    BY <2>3, FetchFailsStep
  <2>4. CASE FindSchedule(s)
    BY <2>4, FindScheduleStep
  <2>5. CASE Flush(s)
    BY <2>5, FlushStep
  <2>6. CASE FlushFails(s)
    BY <1>1, <2>6, RollbackStep DEF FlushFails
  <2>7. CASE DeadlockVictim(s)
    BY <1>1, <2>7, RollbackStep DEF DeadlockVictim
  <2>8. CASE Commit(s)
    BY <2>8, CommitStep
  <2>9. QED
    BY <1>8, <2>1, <2>2, <2>3, <2>4, <2>5, <2>6, <2>7, <2>8 DEF Proceed
<1>9. CASE UNCHANGED vars
  <2>1. UNCHANGED <<stored, counted, schedule, enabled, run, crashes>>
    BY <1>9 DEF vars
  <2>2. QED  BY <1>1, <2>1, ScheduleStep
<1>10. QED
  BY <1>2, <1>3, <1>4, <1>5, <1>6, <1>7, <1>8, <1>9 DEF Next

LEMMA Invariance == Spec => []IInv
BY InitIInv, NextIInv, PTL DEF Spec

(* The variables keep their types: in particular a run asks for no page    *)
(* beyond max_pages, and flushes only for tenants it was started for.      *)
THEOREM TypeCorrect == Spec => []TypeOK
<1>1. IInv => TypeOK
  BY DEF IInv
<1>2. QED  BY Invariance, <1>1, PTL

(* The counters of the committed jobs of run_sync are exact however many   *)
(* schedulers and users synchronize the same tenants at the same time,     *)
(* whatever pages repeat, and whoever is rolled back.                      *)
THEOREM CountsAreExact == Spec => []CountsExact
<1>1. IInv => CountsExact
  BY DEF IInv
<1>2. QED  BY Invariance, <1>1, PTL

-----------------------------------------------------------------------------
(* A due schedule is put off only by its user or by the commit of a        *)
(* completed job: no failure, rollback or crash makes its tenant wait for  *)
(* another interval.                                                       *)
THEOREM FailuresStayDue == Spec => FailedStaysDue
<1>1. IInv /\ [Next]_vars =>
        [\A t \in Tenants :
           schedule[t] = "due" /\ schedule'[t] # "due" =>
             \/ \E on \in BOOLEAN : UpdateSchedule(t, on, TRUE)
             \/ \E s \in Sessions :
                  run[s].done[t].outcome = "completed" /\ run'[s] = Idle]_vars
  <2> SUFFICES ASSUME IInv, Next, NEW t \in Tenants,
                      schedule[t] = "due", schedule'[t] # "due"
               PROVE  \/ \E on \in BOOLEAN : UpdateSchedule(t, on, TRUE)
                      \/ \E s \in Sessions :
                           /\ run[s].done[t].outcome = "completed"
                           /\ run'[s] = Idle
    BY DEF vars
  <2> USE DEF committed
  <2>1. schedule \in [Tenants -> {"none", "waiting", "due"}]
          /\ run \in [Sessions -> Run]
    BY DEF IInv, TypeOK
  <2>2. PICK u \in Tenants :
          \/ CreateSchedule(u) \/ Elapse(u)
          \/ \E on, newInterval \in BOOLEAN :
               UpdateSchedule(u, on, newInterval)
          \/ \E s \in Sessions : Commit(s)
    BY DEF Next, Request, Tick, Begin, Crash, Proceed, StartJob,
           FetchAny, Fetch, FetchFails, FindSchedule, Flush, FlushFails,
           DeadlockVictim
  <2>3. CASE CreateSchedule(u)
    BY <2>1, <2>3 DEF CreateSchedule
  <2>4. ASSUME NEW on \in BOOLEAN, NEW newInterval \in BOOLEAN,
               UpdateSchedule(u, on, newInterval)
        PROVE  UpdateSchedule(t, on, TRUE)
    <3>1. u = t /\ newInterval
      BY <2>1, <2>4 DEF UpdateSchedule
    <3>2. QED  BY <2>4, <3>1
  <2>5. CASE Elapse(u)
    BY <2>1, <2>5 DEF Elapse
  <2>6. CASE \E s \in Sessions : Commit(s)
    BY <2>1, <2>6 DEF Commit
  <2>7. QED  BY <2>2, <2>3, <2>4, <2>5, <2>6
<1>2. QED  BY Invariance, <1>1, PTL DEF Spec, FailedStaysDue

-----------------------------------------------------------------------------
(* Overlapping runs are imports that happen one at a time: what a run      *)
(* holds is open as well as sound, so that its commit is an Import.        *)

Open(r) ==
  /\ r.job.added \cap Expired = {}
  /\ \A t \in Tenants : r.done[t].added \cap Expired = {}

NoneExpired == \A s \in Sessions : Open(run[s])

LEMMA OpenMoves ==
  ASSUME IInv, NoneExpired, NEW s \in Sessions, NEW r, Open(r),
         run' = [run EXCEPT ![s] = r]
  PROVE  NoneExpired'
<1>1. run \in [Sessions -> Run]  BY DEF IInv, TypeOK
<1>2. \A q \in Sessions : run'[q] = IF q = s THEN r ELSE run[q]  BY <1>1
<1>3. QED  BY <1>2 DEF NoneExpired, Open

LEMMA IdleOpen == Open(Idle)
<1>1. Idle.job.added = {} /\ \A t \in Tenants : Idle.done[t].added = {}
  BY NewJobType, NotFlushedType DEF Idle
<1>2. QED  BY <1>1 DEF Open

LEMMA OpenStep ==
  ASSUME IInv, NoneExpired, NEW s \in Sessions, Proceed(s)
  PROVE  NoneExpired'
<1>1. /\ run[s] \in Run /\ Sound(run[s]) /\ Open(run[s])
      /\ run[s].job \in Job /\ run[s].done \in [Tenants -> Flushed]
  BY DEF IInv, TypeOK, NoneExpired, Run
<1>2. ASSUME NEW t \in Tenants, StartJob(s, t) PROVE NoneExpired'
  <2> DEFINE r == [run[s] EXCEPT !.pc = "page", !.todo = @ \ {t},
                                 !.job = NewJob(t)]
  <2>1. r.job = NewJob(t) /\ r.done = run[s].done  BY <1>1 DEF Run
  <2>2. run' = [run EXCEPT ![s] = r]  BY <1>2 DEF StartJob
  <2> HIDE DEF r
  <2>3. Open(r)  BY <1>1, <2>1, NewJobType DEF Open
  <2>4. QED  BY <2>2, <2>3, OpenMoves
<1>3. ASSUME NEW content \in SUBSET Codes, NEW last \in BOOLEAN,
             Fetch(s, content, last)
      PROVE  NoneExpired'
  <2> DEFINE job2 == Upserted(run[s].job, content)
             r == [run[s] EXCEPT
                !.pc  = IF MorePages(run[s].job, last) THEN "page" ELSE "schedule",
                !.job = job2]
  <2>1. job2.added = run[s].job.added \cup
          (content \ (stored[run[s].job.tenant] \cup Expired))
    BY <1>1, UpsertedFields
  <2>2. run' = [run EXCEPT ![s] = r]  BY <1>3 DEF Fetch
  <2> HIDE DEF job2
  <2>3. r.job = job2 /\ r.done = run[s].done  BY <1>1 DEF Run
  <2> HIDE DEF r
  <2>4. Open(r)  BY <1>1, <2>1, <2>3 DEF Open
  <2>5. QED  BY <2>2, <2>4, OpenMoves
<1>4. ASSUME NEW job2, run' = [run EXCEPT ![s].pc = "flush", ![s].job = job2],
             job2.added = run[s].job.added
      PROVE  NoneExpired'
  <2> DEFINE r == [run[s] EXCEPT !.pc = "flush", !.job = job2]
  <2>1. r.job = job2 /\ r.done = run[s].done  BY <1>1 DEF Run
  <2>2. run' = [run EXCEPT ![s] = r]  BY <1>4
  <2> HIDE DEF r
  <2>3. Open(r)  BY <1>1, <1>4, <2>1 DEF Open
  <2>4. QED  BY <2>2, <2>3, OpenMoves
<1>5. CASE FetchFails(s)
  <2> DEFINE job2 == [run[s].job EXCEPT !.outcome = "failed"]
  <2>1. job2.added = run[s].job.added  BY <1>1 DEF Job
  <2>2. run' = [run EXCEPT ![s].pc = "flush", ![s].job = job2]
    BY <1>5 DEF FetchFails
  <2> HIDE DEF job2
  <2>3. QED  BY <1>4, <2>1, <2>2
<1>6. CASE FindSchedule(s)
  <2> DEFINE none == schedule[run[s].job.tenant] = "none"
             job2 == [run[s].job EXCEPT !.newSchedule = none]
  <2>1. run' = [run EXCEPT ![s].pc = "flush", ![s].job = job2]
    BY <1>6 DEF FindSchedule
  <2> HIDE DEF none
  <2>2. job2.added = run[s].job.added  BY <1>1 DEF Job
  <2> HIDE DEF job2
  <2>3. QED  BY <1>4, <2>1, <2>2
<1>7. CASE Flush(s)
  <2> DEFINE job == run[s].job
             f == [outcome |-> job.outcome, locks |-> Locks(job),
                   added |-> job.added, created |-> job.created]
             r == [run[s] EXCEPT !.pc = "next", !.done[job.tenant] = f,
                                 !.job = NewJob(NoTenant)]
  <2>1. run' = [run EXCEPT ![s] = r]  BY <1>7 DEF Flush
  <2>2. f.added = run[s].job.added  OBVIOUS
  <2> HIDE DEF f
  <2>3. /\ r.job = NewJob(NoTenant)
        /\ r.done = [run[s].done EXCEPT ![job.tenant] = f]
    BY <1>1 DEF Run
  <2> HIDE DEF r
  <2>4. r.job.added = {}  BY <2>3, NewJobType
  <2>5. \A t \in Tenants : r.done[t] = f \/ r.done[t] = run[s].done[t]
    BY <1>1, <2>3, ZenonT(60)
  <2>6. Open(r)  BY <1>1, <2>2, <2>4, <2>5 DEF Open
  <2>7. QED  BY <2>1, <2>6, OpenMoves
<1>8. CASE FlushFails(s) \/ DeadlockVictim(s) \/ Commit(s)
  BY <1>8, IdleOpen, OpenMoves
     DEF FlushFails, DeadlockVictim, Commit, Rollback
<1>9. QED
  BY <1>2, <1>3, <1>5, <1>6, <1>7, <1>8 DEF Proceed, FetchAny

LEMMA CommitImports ==
  ASSUME IInv, NoneExpired, NEW s \in Sessions, Commit(s)
  PROVE  Portal!Next
<1> DEFINE done == run[s].done
           new  == [t \in Tenants |-> done[t].added]
           completed == {t \in Tenants : done[t].outcome = "completed"}
<1>1. Sound(run[s]) /\ Open(run[s]) /\ done \in [Tenants -> Flushed]
  BY DEF IInv, TypeOK, NoneExpired, Run
<1>2. \A t \in Tenants : /\ done[t].added \subseteq Codes \ Expired
                         /\ done[t].added \cap stored[t] = {}
                         /\ done[t].created = Cardinality(done[t].added)
  BY <1>1 DEF Sound, Committable, Open, Flushed
<1>3. new \in [Tenants -> SUBSET (Codes \ Expired)]  BY <1>2
<1>4. \A S : Portal!Cardinality(S) = Cardinality(S)
  BY DEF Portal!Cardinality, Cardinality
<1>5. counted' = [t \in Tenants |-> counted[t] + Cardinality(new[t])]
  <2>1. counted' = [t \in Tenants |-> counted[t] + done[t].created]
    BY DEF Commit
  <2>2. \A t \in Tenants : done[t].created = Cardinality(new[t])  BY <1>2
  <2> HIDE DEF done, new
  <2>3. QED  BY <2>1, <2>2
<1>6. stored' = [t \in Tenants |-> stored[t] \cup new[t]]  BY DEF Commit
<1>7. schedule' = [t \in Tenants |-> IF t \in completed THEN "waiting"
                                                        ELSE schedule[t]]
  BY DEF Commit
<1>8. \A t \in Tenants : new[t] \cap stored[t] = {}  BY <1>2
<1>9. completed \in SUBSET Tenants /\ enabled' = enabled  BY DEF Commit
<1> HIDE DEF done, new, completed
<1>10. Portal!Import(new, completed)
  BY <1>4, <1>5, <1>6, <1>7, <1>8, <1>9 DEF Portal!Import
<1>11. QED  BY <1>3, <1>9, <1>10 DEF Portal!Next

LEMMA ImportStep ==
  IInv /\ NoneExpired /\ [Next]_vars =>
    NoneExpired' /\ [Portal!Next]_(Portal!portal)
<1> SUFFICES ASSUME IInv, NoneExpired, [Next]_vars
             PROVE  NoneExpired' /\ [Portal!Next]_(Portal!portal)
  OBVIOUS
<1> USE DEF committed
<1>1. /\ schedule \in [Tenants -> {"none", "waiting", "due"}]
      /\ enabled \in [Tenants -> BOOLEAN]
  BY DEF IInv, TypeOK
<1>2. ASSUME run' = run PROVE NoneExpired'
  BY <1>2 DEF NoneExpired, Open
<1>3. ASSUME UNCHANGED committed PROVE UNCHANGED Portal!portal
  BY <1>3 DEF Portal!portal
<1>4. ASSUME NEW t \in Tenants, CreateSchedule(t)
      PROVE  NoneExpired' /\ [Portal!Next]_(Portal!portal)
  <2>1. enabled' = [enabled EXCEPT ![t] = enabled[t]] /\ enabled[t] \in BOOLEAN
    BY <1>1, <1>4 DEF CreateSchedule
  <2>2. schedule'[t] # "none"  BY <1>1, <1>4 DEF CreateSchedule
  <2>3. Portal!Settle(t)
    BY <1>4, <2>1, <2>2 DEF CreateSchedule, Portal!Settle
  <2>4. QED  BY <1>2, <1>4, <2>3 DEF CreateSchedule, Portal!Next
<1>5. ASSUME NEW t \in Tenants, NEW on \in BOOLEAN, NEW newInterval \in BOOLEAN,
             UpdateSchedule(t, on, newInterval)
      PROVE  NoneExpired' /\ [Portal!Next]_(Portal!portal)
  <2>1. schedule' \in {schedule, [schedule EXCEPT ![t] = "waiting"]}
        /\ schedule'[t] # "none"
    BY <1>1, <1>5 DEF UpdateSchedule
  <2>2. Portal!Settle(t)
    BY <1>5, <2>1 DEF UpdateSchedule, Portal!Settle
  <2>3. QED  BY <1>2, <1>5, <2>2 DEF UpdateSchedule, Portal!Next
<1>6. ASSUME NEW t \in Tenants, Elapse(t)
      PROVE  NoneExpired' /\ [Portal!Next]_(Portal!portal)
  BY <1>2, <1>6 DEF Elapse, Portal!Elapse, Portal!Next
<1>7. ASSUME NEW s \in Sessions, NEW tenants, Begin(s, tenants)
      PROVE  NoneExpired' /\ [Portal!Next]_(Portal!portal)
  <2> DEFINE r == [Idle EXCEPT !.pc = "next", !.todo = tenants]
  <2>1. r.job = Idle.job /\ r.done = Idle.done  BY DEF Idle
  <2>2. run' = [run EXCEPT ![s] = r]  BY <1>7 DEF Begin
  <2> HIDE DEF r
  <2>3. Open(r)  BY <2>1, IdleOpen DEF Open
  <2>4. QED  BY <1>3, <1>7, <2>2, <2>3, OpenMoves DEF Begin
<1>8. ASSUME NEW s \in Sessions, Crash(s)
      PROVE  NoneExpired' /\ [Portal!Next]_(Portal!portal)
  BY <1>3, <1>8, IdleOpen, OpenMoves DEF Crash, Rollback
<1>9. ASSUME NEW s \in Sessions, Proceed(s)
      PROVE  NoneExpired' /\ [Portal!Next]_(Portal!portal)
  <2>1. NoneExpired'  BY <1>9, OpenStep
  <2>2. CASE Commit(s)  BY <2>1, <2>2, CommitImports
  <2>3. CASE UNCHANGED committed  BY <1>3, <2>1, <2>3
  <2>4. QED
    BY <1>9, <2>2, <2>3
       DEF Proceed, StartJob, FetchAny, Fetch, FetchFails, FindSchedule, Flush,
           FlushFails, DeadlockVictim
<1>10. CASE UNCHANGED vars
  BY <1>2, <1>3, <1>10 DEF vars
<1>11. QED
  BY <1>4, <1>5, <1>6, <1>7, <1>8, <1>9, <1>10
     DEF Next, Request, Tick, Sessions

(* However many schedulers and users run it at once, the synchronization   *)
(* implements Imports: every commit of run_due_syncs or run_sync is one    *)
(* import, for all of its tenants, of open processes that were not there,  *)
(* each counted once; whatever fails, waits or is rolled back is nothing.  *)
THEOREM RunsAreAtomic == Spec => RunsAreImports
<1>1. Init => NoneExpired /\ Portal!Init
  <2>1. Init => NoneExpired  BY IdleOpen DEF Init, NoneExpired
  <2>2. Init => Portal!Init  BY DEF Init, Portal!Init
  <2>3. QED  BY <2>1, <2>2
<1>2. QED
  BY <1>1, Invariance, ImportStep, PTL DEF Spec, RunsAreImports, Portal!Spec
=============================================================================
