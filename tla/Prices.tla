------------------------------- MODULE Prices -------------------------------
(***************************************************************************)
(* The price lists of the suppliers (price_list_indexer.py): files in a    *)
(* folder that people change at any time, and for each path the versions   *)
(* that were indexed, of which one should be current.  POST /prices/sync   *)
(* indexes the whole folder in one transaction; two requests may overlap.  *)
(*                                                                         *)
(* A file row and its products are one record here.  The products of a     *)
(* version are what the file held when it was parsed (content); hash is    *)
(* what the file held when it was hashed, a moment earlier.                *)
(***************************************************************************)
EXTENDS Naturals, FiniteSets

CONSTANTS
    NPaths,     \* number of paths; the folder is processed in sorted order
    Contents,   \* what a file may hold
    Broken,     \* contents that parse to errors and no rows
    Absent,     \* there is no file
    NoVersion,  \* no row was found
    Sessions,   \* requests that may overlap
    MaxSyncs,   \* bound: synchronizations that are started
    MaxWrites   \* bound: changes of the folder

ASSUME PricesAssumption ==
    /\ NPaths \in Nat /\ MaxSyncs \in Nat /\ MaxWrites \in Nat
    /\ Broken \subseteq Contents /\ Absent \notin Contents

Paths == 1 .. NPaths

VARIABLES
    disk,       \* what each path holds
    rows,       \* committed versions
    sess,       \* the synchronization of each request
    syncs,      \* synchronizations started so far
    writes,     \* changes of the folder so far
    overlapped, \* history: two synchronizations ran at the same time
    disturbed   \* history: synchronizations that met a change of the folder

vars == <<disk, rows, sess, syncs, writes, overlapped, disturbed>>

\* A version: who indexed it, and whether it is current (its row and its
\* products, which change together).
Version ==
    [sync : 1 .. MaxSyncs, path : Paths, version : Nat \ {0},
     hash : Contents, content : Contents, current : BOOLEAN]

ASSUME NoVersionAssumption == NoVersion \notin Version

\* old and new are what the transaction has written: versions it replaces and
\* adds.
Session ==
    [pc : {"idle", "next", "parse", "replace"}, sync : 0 .. MaxSyncs,
     todo : SUBSET Paths, path : Paths \cup {0}, hash : Contents \cup {Absent},
     content : Contents \cup {Absent}, existing : Version \cup {NoVersion},
     old : SUBSET Version, new : SUBSET Version]

Idle ==
    [pc |-> "idle", sync |-> 0, todo |-> {}, path |-> 0, hash |-> Absent,
     content |-> Absent, existing |-> NoVersion, old |-> {}, new |-> {}]

Init ==
    /\ disk \in [Paths -> Contents \cup {Absent}]
    /\ rows = {}
    /\ sess = [s \in Sessions |-> Idle]
    /\ syncs = 0 /\ writes = 0
    /\ overlapped = FALSE /\ disturbed = {}

-----------------------------------------------------------------------------
\* The folder is synchronized from outside (a network drive).
WriteFile(p, c) ==
    /\ writes < MaxWrites
    /\ disk[p] # c
    /\ disk' = [disk EXCEPT ![p] = c]
    /\ writes' = writes + 1
    /\ disturbed' = disturbed \cup {sess[s].sync : s \in {t \in Sessions : sess[t].pc # "idle"}}
    /\ UNCHANGED <<rows, sess, syncs, overlapped>>

Start(s) ==
    /\ sess[s].pc = "idle"
    /\ syncs < MaxSyncs
    /\ syncs' = syncs + 1
    /\ sess' = [sess EXCEPT ![s] =
         [Idle EXCEPT !.pc = "next", !.sync = syncs + 1,
                      !.todo = {p \in Paths : disk[p] # Absent}]]
    /\ overlapped' = (overlapped \/ \E t \in Sessions \ {s} : sess[t].pc # "idle")
    /\ UNCHANGED <<disk, rows, writes, disturbed>>

\* get_db rolls back: nothing of the synchronization is kept.
Rollback(s) ==
    /\ sess' = [sess EXCEPT ![s] = Idle]
    /\ UNCHANGED <<disk, rows, syncs, writes, overlapped, disturbed>>

\* A bug for comparison: the order in which the folder happens to be listed.
FirstListed(s, p) ==
    /\ p \in sess[s].todo
    /\ \A q \in sess[s].todo : IF sess[s].sync % 2 = 0 THEN q <= p ELSE p <= q

First(s, p) == p \in sess[s].todo /\ \A q \in sess[s].todo : p <= q

\* The versions that _base_query lets search, compare and get_product see.
Current(p) == {r \in rows : r.path = p /\ r.current}

\* A bug for comparison: a path that was indexed is not indexed again.
KnownPath(p) == Current(p) # {}

Unchanged(p) == \E r \in Current(p) : r.hash = disk[p]

\* The file is hashed and its current version looked up (scalar_one_or_none:
\* two current versions are an exception, see LookUpFails).
LookUp(s, p) ==
    /\ sess[s].pc = "next" /\ First(s, p)
    /\ disk[p] # Absent
    /\ Cardinality(Current(p)) <= 1
    /\ sess' = [sess EXCEPT ![s] =
         IF Unchanged(p)
         THEN [sess[s] EXCEPT !.todo = sess[s].todo \ {p}]
         ELSE [sess[s] EXCEPT !.pc = "parse", !.path = p, !.hash = disk[p],
                              !.existing = IF Current(p) = {} THEN NoVersion
                                           ELSE CHOOSE r \in Current(p) : TRUE]]
    /\ UNCHANGED <<disk, rows, syncs, writes, overlapped, disturbed>>

LookUpFails(s, p) ==
    /\ sess[s].pc = "next" /\ First(s, p)
    /\ disk[p] = Absent \/ Cardinality(Current(p)) > 1
    /\ Rollback(s)

SameRow(r, q) == r.sync = q.sync /\ r.path = q.path

\* The UPDATE of a row waits while another transaction has updated it.
RowFree(s, r) ==
    \A t \in Sessions \ {s} : \A q \in sess[t].old : ~SameRow(q, r)

\* The path is done; old and new are what the transaction has written so far.
Done(s, old, new) ==
    [sess[s] EXCEPT !.pc = "next", !.todo = sess[s].todo \ {sess[s].path},
                    !.path = 0, !.hash = Absent, !.content = Absent,
                    !.existing = NoVersion, !.old = old, !.new = new]

Replaced(s) == sess[s].old \cup ({sess[s].existing} \ {NoVersion})

\* A bug for comparison: the first version has no predecessor to count from.
NewVersionFromZero(s) ==
    [sync |-> sess[s].sync, path |-> sess[s].path,
     version |-> IF sess[s].existing = NoVersion THEN 0 ELSE sess[s].existing.version + 1,
     hash |-> sess[s].hash, content |-> sess[s].content,
     current |-> TRUE]

\* A bug for comparison: every version is numbered 1.
NewVersionUnnumbered(s) ==
    [sync |-> sess[s].sync, path |-> sess[s].path, version |-> 1,
     hash |-> sess[s].hash, content |-> sess[s].content,
     current |-> TRUE]

NewVersion(s) ==
    [sync |-> sess[s].sync, path |-> sess[s].path,
     version |-> IF sess[s].existing = NoVersion THEN 1 ELSE sess[s].existing.version + 1,
     hash |-> sess[s].hash, content |-> sess[s].content,
     current |-> TRUE]

\* A bug for comparison: the old version is switched off before the file is
\* known to have rows.
ParseReplacingFirst(s) ==
    LET readable == disk[sess[s].path] \in Contents \ Broken IN
    /\ sess[s].pc = "parse"
    /\ ~readable /\ sess[s].existing # NoVersion => RowFree(s, sess[s].existing)
    /\ sess' = [sess EXCEPT ![s] =
         IF readable THEN [sess[s] EXCEPT !.pc = "replace", !.content = disk[sess[s].path]]
         ELSE Done(s, Replaced(s), sess[s].new)]
    /\ UNCHANGED <<disk, rows, syncs, writes, overlapped, disturbed>>

\* The file is read again, and what is read now is parsed.  With errors and no
\* rows (or gone by now) the old version stays.
Parse(s) ==
    /\ sess[s].pc = "parse"
    /\ sess' = [sess EXCEPT ![s] =
         IF disk[sess[s].path] \in Contents \ Broken
         THEN [sess[s] EXCEPT !.pc = "replace", !.content = disk[sess[s].path]]
         ELSE Done(s, sess[s].old, sess[s].new)]
    /\ UNCHANGED <<disk, rows, syncs, writes, overlapped, disturbed>>

\* The old version is switched off, once no other transaction has it, and what
\* was parsed is added under the hash that was computed before.
Replace(s) ==
    /\ sess[s].pc = "replace"
    /\ sess[s].existing # NoVersion => RowFree(s, sess[s].existing)
    /\ sess' = [sess EXCEPT ![s] = Done(s, Replaced(s), sess[s].new \cup {NewVersion(s)})]
    /\ UNCHANGED <<disk, rows, syncs, writes, overlapped, disturbed>>

\* The row and its products are switched off.
SwitchedOff(r) == [r EXCEPT !.current = FALSE]

Written(s) ==
    {IF \E q \in sess[s].old : SameRow(q, r) THEN SwitchedOff(r) ELSE r : r \in rows}
        \cup sess[s].new

Commit(s) ==
    /\ sess[s].pc = "next" /\ sess[s].todo = {}
    /\ rows' = Written(s)
    /\ sess' = [sess EXCEPT ![s] = Idle]
    /\ UNCHANGED <<disk, syncs, writes, overlapped, disturbed>>

\* An exception (a file that disappears before it is stat'ed, a lost
\* connection) or the death of the server process.
Abort(s) == sess[s].pc # "idle" /\ Rollback(s)

Proceed(s) ==
    \/ \E p \in Paths : LookUp(s, p) \/ LookUpFails(s, p)
    \/ Parse(s) \/ Replace(s) \/ Commit(s)

Next ==
    \/ \E p \in Paths, c \in Contents \cup {Absent} : WriteFile(p, c)
    \/ \E s \in Sessions : Start(s) \/ Proceed(s) \/ Abort(s)

Spec == Init /\ [][Next]_vars

\* A started request goes on; a lock that is released again and again is
\* granted some time, since PostgreSQL queues those who wait for it.
Fairness == \A s \in Sessions : SF_vars(Proceed(s))

FairSpec == Spec /\ Fairness

-----------------------------------------------------------------------------
TypeOK ==
    /\ disk \in [Paths -> Contents \cup {Absent}]
    /\ rows \subseteq Version
    /\ sess \in [Sessions -> Session]
    /\ syncs \in 0 .. MaxSyncs /\ writes \in 0 .. MaxWrites
    /\ overlapped \in BOOLEAN /\ disturbed \subseteq 1 .. MaxSyncs

\* Once a path has a version on offer it always has one, however many
\* synchronizations overlap, whatever becomes of the file, whatever fails.
\* (An empty CSV is a version without products; an Excel file without rows is
\* broken.)
PricesStay == [][\A p \in Paths : Current(p) # {} => Current(p)' # {}]_vars

\* As long as no two synchronizations overlap, at most one version of a path is
\* on offer, and it is the newest.  (Two that overlap both insert a current
\* version; every later lookup then fails.)
OneVersionOffered ==
    ~overlapped =>
        \A r \in rows : r.current => \A q \in rows : q.path = r.path => q = r \/ q.version < r.version

\* r holds the products of content c.  A file may change between its hash and
\* its parsing: a version that was indexed then may hold other products than its
\* hash says, and is taken for unchanged when the file is as it was hashed again.
HoldsProducts(r, c) == r.content = c \/ r.sync \in disturbed

\* A synchronization that neither overlaps another nor meets a change of the
\* folder leaves on offer, for every readable file, a version of what the file
\* holds, with its products unless it was indexed while the folder changed.
SyncCatchesUp ==
    [][\A s \in Sessions :
         Commit(s) /\ sess[s].sync \notin disturbed /\ ~overlapped =>
            \A p \in Paths : disk[p] \in Contents \ Broken =>
                \E r \in Current(p)' : r.hash = disk[p] /\ HoldsProducts(r, disk[p])]_vars

\* s waits to replace a version that t has replaced and not committed.
WaitsFor(s, t) ==
    /\ sess[s].pc = "replace" /\ sess[s].existing # NoVersion /\ t # s
    /\ \E q \in sess[t].old : SameRow(q, sess[s].existing)

\* However many synchronizations overlap, they never wait for each other in a
\* circle: of any that wait one waits for none of the others.
NoCircularWait ==
    \A waiting \in SUBSET Sessions : waiting # {} =>
        \E s \in waiting : \A t \in waiting : ~WaitsFor(s, t)

\* No synchronization waits for ever: the paths are locked in one order.
SyncsEnd == \A s \in Sessions : sess[s].pc # "idle" ~> sess[s].pc = "idle"
=============================================================================
