---------------------------- MODULE PricesProofs ----------------------------
(***************************************************************************)
(* Proofs about Prices, for any number of paths, of requests and of        *)
(* synchronizations: the variables keep their types, a path never loses    *)
(* its prices, without overlap one version of a path is on offer and every *)
(* readable file is caught up with, and overlapping synchronizations never *)
(* wait for each other in a circle.                                        *)
(***************************************************************************)
EXTENDS Prices, WellFoundedInduction, TLAPS

-----------------------------------------------------------------------------
(* The inductive invariant, in parts.                                      *)

\* What a running synchronization holds in its hands.
RunningOK ==
    \A s \in Sessions :
        /\ sess[s].pc # "idle" => sess[s].sync # 0
        /\ sess[s].pc \in {"parse", "replace"} =>
             /\ sess[s].path \in sess[s].todo
             /\ sess[s].hash # Absent
             /\ sess[s].existing # NoVersion => sess[s].existing.path = sess[s].path
        /\ sess[s].pc = "replace" => sess[s].content # Absent

\* Whatever a transaction switches off it replaces.
ReplacedOK ==
    \A s \in Sessions : \A q \in sess[s].old :
        \E n \in sess[s].new : n.path = q.path

\* What a transaction adds is current.
AddedOK == \A s \in Sessions : \A n \in sess[s].new : n.current

\* A path that has versions has a current one.
KeptOK == \A r \in rows : Current(r.path) # {}

\* Without overlap, a single synchronization runs; whoever is idle holds nothing.
AloneOK ==
    ~overlapped =>
        \A s, t \in Sessions : sess[s].pc # "idle" /\ sess[t].pc # "idle" => s = t

IdleOK ==
    \A s \in Sessions : sess[s].pc = "idle" => sess[s].old = {} /\ sess[s].new = {}

\* Without overlap, what was looked up is the only current version of its path.
FoundOK ==
    ~overlapped =>
        \A s \in Sessions : sess[s].pc \in {"parse", "replace"} =>
            /\ sess[s].existing = NoVersion => Current(sess[s].path) = {}
            /\ sess[s].existing # NoVersion => sess[s].existing \in Current(sess[s].path)

\* Without overlap, what a transaction adds is newer than every version of its
\* path and replaces the current one; it adds one version to a path at most,
\* and none to a path that is still to do.
NewestOK ==
    ~overlapped =>
        \A s \in Sessions : \A n \in sess[s].new :
            /\ n.path \notin sess[s].todo
            /\ \A m \in sess[s].new : m.path = n.path => m = n
            /\ \A r \in rows : r.path = n.path =>
                 /\ r.version < n.version
                 /\ r.current => \E q \in sess[s].old : SameRow(q, r)

IInv ==
    /\ TypeOK /\ RunningOK /\ ReplacedOK /\ AddedOK /\ KeptOK
    /\ AloneOK /\ IdleOK /\ FoundOK /\ NewestOK /\ OneVersionOffered

-----------------------------------------------------------------------------
USE DEF Paths

\* The rows that a transaction finds and adds have the fields of a version.
LEMMA VersionFields ==
    ASSUME NEW r \in Version
    PROVE  /\ r.sync \in 1 .. MaxSyncs /\ r.path \in Paths /\ r.version \in Nat \ {0}
           /\ r.hash \in Contents /\ r.content \in Contents /\ r.current \in BOOLEAN
           /\ r # NoVersion
  BY NoVersionAssumption DEF Version

LEMMA SwitchedOffIsVersion ==
    ASSUME NEW r \in Version
    PROVE  /\ SwitchedOff(r) \in Version
           /\ SwitchedOff(r).path = r.path /\ SwitchedOff(r).version = r.version
           /\ SwitchedOff(r).sync = r.sync /\ ~SwitchedOff(r).current
  BY DEF Version, SwitchedOff

\* What a step of s leaves alone, and the sessions after it.
LEMMA SessionAfter ==
    ASSUME TypeOK, NEW s \in Sessions, NEW X, sess' = [sess EXCEPT ![s] = X]
    PROVE  /\ sess'[s] = X
           /\ \A t \in Sessions \ {s} : sess'[t] = sess[t]
           /\ X \in Session => sess' \in [Sessions -> Session]
  BY DEF TypeOK

LEMMA IdleIsSession == Idle \in Session
  BY PricesAssumption DEF Idle, Session

LEMMA SessionFields ==
    ASSUME TypeOK, NEW s \in Sessions
    PROVE  /\ sess[s].pc \in {"idle", "next", "parse", "replace"} /\ sess[s].sync \in 0 .. MaxSyncs
           /\ sess[s].todo \subseteq Paths /\ sess[s].path \in Paths \cup {0}
           /\ sess[s].hash \in Contents \cup {Absent}
           /\ sess[s].content \in Contents \cup {Absent}
           /\ sess[s].existing \in Version \cup {NoVersion}
           /\ sess[s].old \subseteq Version /\ sess[s].new \subseteq Version
  BY DEF TypeOK, Session

LEMMA CurrentIsVersion ==
    ASSUME TypeOK, NEW p, NEW r \in Current(p)
    PROVE  r \in Version /\ r \in rows /\ r.path = p /\ r.current
  BY DEF TypeOK, Current

\* The version that a transaction adds.
LEMMA NewVersionOK ==
    ASSUME TypeOK, RunningOK, NEW s \in Sessions, sess[s].pc = "replace"
    PROVE  /\ NewVersion(s) \in Version
           /\ NewVersion(s).path = sess[s].path /\ NewVersion(s).current
           /\ NewVersion(s).version = IF sess[s].existing = NoVersion THEN 1
                                      ELSE sess[s].existing.version + 1
  <1>1. /\ sess[s].sync \in 1 .. MaxSyncs /\ sess[s].path \in Paths
        /\ sess[s].hash \in Contents /\ sess[s].content \in Contents
    BY SessionFields, PricesAssumption DEF RunningOK
  <1>2. sess[s].existing # NoVersion => sess[s].existing.version \in Nat
    BY SessionFields, VersionFields
  <1>3. (IF sess[s].existing = NoVersion THEN 1 ELSE sess[s].existing.version + 1) \in Nat \ {0}
    BY <1>2
  <1> QED  BY <1>1, <1>3 DEF NewVersion, Version

\* The record of a session that is done with a path.
LEMMA DoneIsSession ==
    ASSUME TypeOK, NEW s \in Sessions, NEW o \in SUBSET Version, NEW n \in SUBSET Version
    PROVE  /\ Done(s, o, n) \in Session
           /\ Done(s, o, n).pc = "next" /\ Done(s, o, n).sync = sess[s].sync
           /\ Done(s, o, n).todo = sess[s].todo \ {sess[s].path}
           /\ Done(s, o, n).old = o /\ Done(s, o, n).new = n
  BY DEF TypeOK, Session, Done

-----------------------------------------------------------------------------
(* Types.                                                                  *)

LEMMA RollbackType ==
    ASSUME TypeOK, NEW s \in Sessions, Rollback(s) PROVE TypeOK'
  <1>1. sess' \in [Sessions -> Session]
    BY SessionAfter, IdleIsSession DEF Rollback
  <1> QED  BY <1>1 DEF TypeOK, Rollback

LEMMA TypeStep ==
    ASSUME TypeOK, RunningOK, [Next]_vars PROVE TypeOK'
  <1> USE PricesAssumption
  <1>1. ASSUME NEW p \in Paths, NEW c \in Contents \cup {Absent}, WriteFile(p, c)
        PROVE  TypeOK'
    <2>1. \A s \in Sessions : sess[s].pc # "idle" => sess[s].sync \in 1 .. MaxSyncs
      BY SessionFields DEF RunningOK
    <2>2. disturbed' \subseteq 1 .. MaxSyncs
      BY <1>1, <2>1 DEF WriteFile, TypeOK
    <2> QED  BY <1>1, <2>2 DEF WriteFile, TypeOK
  <1>2. ASSUME NEW s \in Sessions, Start(s) PROVE TypeOK'
    <2> DEFINE T == {p \in Paths : disk[p] # Absent}
    <2>1. syncs + 1 \in 0 .. MaxSyncs /\ T \in SUBSET Paths
      BY <1>2 DEF Start, TypeOK
    <2>2. sess' \in [Sessions -> Session]
      <3> DEFINE X == [Idle EXCEPT !.pc = "next", !.sync = syncs + 1, !.todo = T]
      <3>1. sess' = [sess EXCEPT ![s] = X]  BY <1>2 DEF Start
      <3>2. X \in Session
        <4> HIDE DEF T
        <4> QED  BY <2>1, IdleIsSession DEF Session
      <3> HIDE DEF X
      <3> QED  BY <3>1, <3>2, SessionAfter
    <2> QED  BY <1>2, <2>2 DEF Start, TypeOK
  <1>3. ASSUME NEW s \in Sessions, NEW p \in Paths, LookUp(s, p) PROVE TypeOK'
    <2> DEFINE e == IF Current(p) = {} THEN NoVersion ELSE CHOOSE r \in Current(p) : TRUE
               X == IF Unchanged(p)
                    THEN [sess[s] EXCEPT !.todo = sess[s].todo \ {p}]
                    ELSE [sess[s] EXCEPT !.pc = "parse", !.path = p, !.hash = disk[p],
                                         !.existing = e]
    <2>1. e \in Version \cup {NoVersion}
      BY CurrentIsVersion
    <2>2. disk[p] \in Contents \cup {Absent}
      BY DEF TypeOK
    <2>3. X \in Session
      <3> HIDE DEF e
      <3> QED  BY <2>1, <2>2 DEF TypeOK, Session
    <2>4. sess' = [sess EXCEPT ![s] = X]
      BY <1>3 DEF LookUp
    <2>5. sess' \in [Sessions -> Session]
      BY <2>3, <2>4, SessionAfter
    <2> QED  BY <1>3, <2>5 DEF LookUp, TypeOK
  <1>4. ASSUME NEW s \in Sessions, NEW p \in Paths, LookUpFails(s, p) PROVE TypeOK'
    BY <1>4, RollbackType DEF LookUpFails
  <1>5. ASSUME NEW s \in Sessions, Parse(s) PROVE TypeOK'
    <2> DEFINE X == [sess[s] EXCEPT !.pc = "replace", !.content = disk[sess[s].path]]
               Y == Done(s, sess[s].old, sess[s].new)
    <2>1. sess' = [sess EXCEPT ![s] =
            IF disk[sess[s].path] \in Contents \ Broken THEN X ELSE Y]
      BY <1>5 DEF Parse
    <2>2. disk[sess[s].path] \in Contents \ Broken => X \in Session
      BY SessionFields DEF TypeOK, Session
    <2>3. Y \in Session
      BY SessionFields, DoneIsSession
    <2> HIDE DEF X, Y
    <2>4. sess' \in [Sessions -> Session]
      BY <2>1, <2>2, <2>3, SessionAfter
    <2> QED  BY <1>5, <2>4 DEF Parse, TypeOK
  <1>9. ASSUME NEW s \in Sessions, Replace(s) PROVE TypeOK'
    <2>1. Replaced(s) \subseteq Version /\ sess[s].new \cup {NewVersion(s)} \subseteq Version
      BY <1>9, NewVersionOK, SessionFields DEF Replace, Replaced
    <2>2. sess' \in [Sessions -> Session]
      <3> DEFINE X == Done(s, Replaced(s), sess[s].new \cup {NewVersion(s)})
      <3>1. sess' = [sess EXCEPT ![s] = X]  BY <1>9 DEF Replace
      <3>2. X \in Session  BY <2>1, DoneIsSession
      <3> HIDE DEF X
      <3> QED  BY <3>1, <3>2, SessionAfter
    <2> QED  BY <1>9, <2>2 DEF Replace, TypeOK
  <1>6. ASSUME NEW s \in Sessions, Commit(s) PROVE TypeOK'
    <2>1. rows' \subseteq Version
      BY <1>6, SwitchedOffIsVersion, SessionFields DEF Commit, Written, TypeOK
    <2>2. sess' \in [Sessions -> Session]
      BY <1>6, SessionAfter, IdleIsSession DEF Commit
    <2> QED  BY <1>6, <2>1, <2>2 DEF Commit, TypeOK
  <1>7. ASSUME NEW s \in Sessions, Abort(s) PROVE TypeOK'
    BY <1>7, RollbackType DEF Abort
  <1>8. CASE UNCHANGED vars
    BY <1>8 DEF vars, TypeOK
  <1> QED
    BY <1>1, <1>2, <1>3, <1>4, <1>5, <1>6, <1>7, <1>8, <1>9 DEF Next, Proceed

-----------------------------------------------------------------------------
(* What each action does to the record of its session.                     *)

LEMMA IdleFields ==
    /\ Idle.pc = "idle" /\ Idle.sync = 0 /\ Idle.todo = {} /\ Idle.old = {}
    /\ Idle.new = {} /\ Idle.existing = NoVersion
  BY DEF Idle

LEMMA LookUpEffect ==
    ASSUME TypeOK, NEW s \in Sessions, NEW p \in Paths, LookUp(s, p)
    PROVE  /\ \A t \in Sessions \ {s} : sess'[t] = sess[t]
           /\ sess'[s].sync = sess[s].sync
           /\ sess'[s].old = sess[s].old /\ sess'[s].new = sess[s].new
           /\ \/ sess'[s].pc = "next" /\ sess'[s].todo = sess[s].todo \ {p}
              \/ /\ sess'[s].pc = "parse" /\ sess'[s].todo = sess[s].todo
                 /\ sess'[s].path = p /\ sess'[s].hash = disk[p]
                 /\ \/ Current(p) = {} /\ sess'[s].existing = NoVersion
                    \/ Current(p) # {} /\ sess'[s].existing \in Current(p)
  <1> DEFINE e == IF Current(p) = {} THEN NoVersion ELSE CHOOSE r \in Current(p) : TRUE
             X == [sess[s] EXCEPT !.todo = sess[s].todo \ {p}]
             Y == [sess[s] EXCEPT !.pc = "parse", !.path = p, !.hash = disk[p],
                                  !.existing = e]
  <1>1. \/ Current(p) = {} /\ e = NoVersion
        \/ Current(p) # {} /\ e \in Current(p)
    OBVIOUS
  <1>2. sess' = [sess EXCEPT ![s] = IF Unchanged(p) THEN X ELSE Y]
    BY DEF LookUp
  <1> HIDE DEF e
  <1>3. /\ \A t \in Sessions \ {s} : sess'[t] = sess[t]
        /\ sess'[s] = X \/ sess'[s] = Y
    <2> HIDE DEF X, Y
    <2> QED  BY <1>2 DEF TypeOK
  <1>4. sess[s].pc = "next"  BY DEF LookUp
  <1>5. CASE sess'[s] = X
    BY <1>3, <1>4, <1>5 DEF TypeOK, Session
  <1>6. CASE sess'[s] = Y
    BY <1>1, <1>3, <1>6 DEF TypeOK, Session
  <1> QED  BY <1>3, <1>5, <1>6

\* A file with rows is in hand with what it holds now, else the path is done.
LEMMA ParseEffect ==
    ASSUME TypeOK, NEW s \in Sessions, Parse(s)
    PROVE  /\ \A t \in Sessions \ {s} : sess'[t] = sess[t]
           /\ sess'[s].sync = sess[s].sync
           /\ sess'[s].old = sess[s].old /\ sess'[s].new = sess[s].new
           /\ \/ /\ disk[sess[s].path] \notin Contents \ Broken
                 /\ sess'[s].pc = "next"
                 /\ sess'[s].todo = sess[s].todo \ {sess[s].path}
              \/ /\ disk[sess[s].path] \in Contents \ Broken
                 /\ sess'[s].pc = "replace" /\ sess'[s].todo = sess[s].todo
                 /\ sess'[s].path = sess[s].path /\ sess'[s].hash = sess[s].hash
                 /\ sess'[s].existing = sess[s].existing
                 /\ sess'[s].content = disk[sess[s].path]
  <1> DEFINE X == [sess[s] EXCEPT !.pc = "replace", !.content = disk[sess[s].path]]
             Y == Done(s, sess[s].old, sess[s].new)
  <1>1. sess' = [sess EXCEPT ![s] =
          IF disk[sess[s].path] \in Contents \ Broken THEN X ELSE Y]
    BY DEF Parse
  <1>2. /\ X.pc = "replace" /\ X.content = disk[sess[s].path]
        /\ X.sync = sess[s].sync /\ X.todo = sess[s].todo /\ X.path = sess[s].path
        /\ X.hash = sess[s].hash /\ X.existing = sess[s].existing
        /\ X.old = sess[s].old /\ X.new = sess[s].new
    BY DEF TypeOK, Session
  <1>3. /\ Y.pc = "next" /\ Y.sync = sess[s].sync
        /\ Y.todo = sess[s].todo \ {sess[s].path}
        /\ Y.old = sess[s].old /\ Y.new = sess[s].new
    BY SessionFields, DoneIsSession
  <1> HIDE DEF X, Y
  <1>4. sess'[s] = IF disk[sess[s].path] \in Contents \ Broken THEN X ELSE Y
    BY <1>1, SessionAfter
  <1>5. \A t \in Sessions \ {s} : sess'[t] = sess[t]
    BY <1>1, SessionAfter
  <1> QED  BY <1>2, <1>3, <1>4, <1>5

LEMMA ReplaceEffect ==
    ASSUME TypeOK, RunningOK, NEW s \in Sessions, Replace(s)
    PROVE  /\ \A t \in Sessions \ {s} : sess'[t] = sess[t]
           /\ sess'[s].pc = "next" /\ sess'[s].sync = sess[s].sync
           /\ sess'[s].todo = sess[s].todo \ {sess[s].path}
           /\ sess'[s].old = Replaced(s)
           /\ sess'[s].new = sess[s].new \cup {NewVersion(s)}
  <1> DEFINE o == Replaced(s)
             n == sess[s].new \cup {NewVersion(s)}
             X == Done(s, o, n)
  <1>1. o \in SUBSET Version /\ n \in SUBSET Version
    BY NewVersionOK, SessionFields DEF Replace, Replaced
  <1>2. sess' = [sess EXCEPT ![s] = X]  BY DEF Replace
  <1> HIDE DEF o, n
  <1>3. /\ X.pc = "next" /\ X.sync = sess[s].sync
        /\ X.todo = sess[s].todo \ {sess[s].path} /\ X.old = o /\ X.new = n
    BY <1>1, DoneIsSession
  <1> HIDE DEF X
  <1>4. sess'[s] = X /\ \A t \in Sessions \ {s} : sess'[t] = sess[t]
    BY <1>2, SessionAfter
  <1> QED  BY <1>3, <1>4 DEF o, n

LEMMA StartEffect ==
    ASSUME TypeOK, NEW s \in Sessions, Start(s)
    PROVE  /\ \A t \in Sessions \ {s} : sess'[t] = sess[t]
           /\ sess'[s].pc = "next" /\ sess'[s].sync = syncs + 1
           /\ sess'[s].old = {} /\ sess'[s].new = {}
  <1> DEFINE X == [Idle EXCEPT !.pc = "next", !.sync = syncs + 1,
                               !.todo = {p \in Paths : disk[p] # Absent}]
  <1>1. sess' = [sess EXCEPT ![s] = X]  BY DEF Start
  <1>2. X.pc = "next" /\ X.sync = syncs + 1 /\ X.old = {} /\ X.new = {}
    BY DEF Idle
  <1> HIDE DEF X
  <1> QED  BY <1>1, <1>2, SessionAfter

-----------------------------------------------------------------------------
(* Each action preserves the invariant.                                    *)

LEMMA WriteFileStep ==
    ASSUME IInv, NEW p \in Paths, NEW c \in Contents \cup {Absent}, WriteFile(p, c)
    PROVE  IInv'
  <1> USE DEF IInv
  <1>1. rows' = rows /\ overlapped' = overlapped /\ \A q : Current(q)' = Current(q)
    BY DEF WriteFile, Current
  <1>2. TypeOK'
    <2>1. Next  BY DEF Next
    <2> QED  BY <2>1, TypeStep
  <1>3. sess' = sess  BY DEF WriteFile
  <1>4. RunningOK' /\ ReplacedOK' /\ AddedOK' /\ IdleOK' /\ AloneOK'
    BY <1>1, <1>3 DEF RunningOK, ReplacedOK, AddedOK, IdleOK, AloneOK
  <1>5. FoundOK' /\ NewestOK' /\ KeptOK' /\ OneVersionOffered'
    BY <1>1, <1>3 DEF FoundOK, NewestOK, KeptOK, OneVersionOffered, SameRow
  <1> QED  BY <1>2, <1>4, <1>5

LEMMA RollbackStep ==
    ASSUME IInv, NEW s \in Sessions, Rollback(s) PROVE IInv'
  <1> USE DEF IInv
  <1>1. rows' = rows /\ overlapped' = overlapped /\ \A q : Current(q)' = Current(q)
    BY DEF Rollback, Current
  <1>2. TypeOK'  BY RollbackType
  <1>3. sess'[s] = Idle /\ \A t \in Sessions \ {s} : sess'[t] = sess[t]
    BY SessionAfter DEF Rollback
  <1>4. RunningOK' /\ ReplacedOK' /\ AddedOK'
    BY <1>1, <1>3, IdleFields DEF RunningOK, ReplacedOK, AddedOK
  <1>6. IdleOK' /\ AloneOK'
    BY <1>1, <1>3, IdleFields DEF IdleOK, AloneOK
  <1>5. FoundOK' /\ NewestOK' /\ KeptOK' /\ OneVersionOffered'
    BY <1>1, <1>3, IdleFields DEF FoundOK, NewestOK, KeptOK, OneVersionOffered, SameRow
  <1> QED  BY <1>2, <1>4, <1>5, <1>6

LEMMA StartStep ==
    ASSUME IInv, NEW s \in Sessions, Start(s) PROVE IInv'
  <1> USE DEF IInv
  <1>1. rows' = rows /\ \A q : Current(q)' = Current(q)
    BY DEF Start, Current
  <1>2. TypeOK'
    <2>1. Next  BY DEF Next
    <2> QED  BY <2>1, TypeStep
  <1>3. /\ \A t \in Sessions \ {s} : sess'[t] = sess[t]
        /\ sess'[s].pc = "next" /\ sess'[s].sync = syncs + 1
        /\ sess'[s].old = {} /\ sess'[s].new = {}
    BY StartEffect
  <1>4. /\ ~overlapped' => ~overlapped
        /\ ~overlapped' => \A t \in Sessions \ {s} : sess[t].pc = "idle"
    BY DEF Start, TypeOK
  <1>5. RunningOK' /\ ReplacedOK' /\ AddedOK' /\ IdleOK'
    BY <1>3 DEF RunningOK, ReplacedOK, AddedOK, IdleOK, TypeOK
  <1>6. AloneOK'
    BY <1>3, <1>4 DEF AloneOK
  <1>7. FoundOK' /\ NewestOK' /\ KeptOK' /\ OneVersionOffered'
    BY <1>1, <1>3, <1>4 DEF FoundOK, NewestOK, KeptOK, OneVersionOffered, SameRow
  <1> QED  BY <1>2, <1>5, <1>6, <1>7

LEMMA LookUpStep ==
    ASSUME IInv, NEW s \in Sessions, NEW p \in Paths, LookUp(s, p) PROVE IInv'
  <1> USE DEF IInv
  <1>1. rows' = rows /\ overlapped' = overlapped /\ \A q : Current(q)' = Current(q)
    BY DEF LookUp, Current
  <1>2. TypeOK'
    <2>1. Next  BY DEF Next, Proceed
    <2> QED  BY <2>1, TypeStep
  <1>3. /\ \A t \in Sessions \ {s} : sess'[t] = sess[t]
        /\ sess'[s].sync = sess[s].sync
        /\ sess'[s].old = sess[s].old /\ sess'[s].new = sess[s].new
        /\ \/ sess'[s].pc = "next" /\ sess'[s].todo = sess[s].todo \ {p}
           \/ /\ sess'[s].pc = "parse" /\ sess'[s].todo = sess[s].todo
              /\ sess'[s].path = p /\ sess'[s].hash = disk[p]
              /\ \/ Current(p) = {} /\ sess'[s].existing = NoVersion
                 \/ Current(p) # {} /\ sess'[s].existing \in Current(p)
    BY LookUpEffect
  <1>4. sess[s].pc = "next" /\ p \in sess[s].todo /\ disk[p] # Absent
    BY DEF LookUp, First
  <1>5. \A r \in Current(p) : r # NoVersion /\ r.path = p
    BY CurrentIsVersion, VersionFields
  <1>6. RunningOK'
    <2> SUFFICES ASSUME NEW t \in Sessions
                 PROVE  /\ sess'[t].pc # "idle" => sess'[t].sync # 0
                        /\ sess'[t].pc \in {"parse", "replace"} =>
                             /\ sess'[t].path \in sess'[t].todo
                             /\ sess'[t].hash # Absent
                             /\ sess'[t].existing # NoVersion =>
                                  sess'[t].existing.path = sess'[t].path
                        /\ sess'[t].pc = "replace" => sess'[t].content # Absent
      BY DEF RunningOK
    <2>1. CASE t # s  BY <1>3, <2>1 DEF RunningOK
    <2>2. CASE t = s  BY <1>3, <1>4, <1>5, <2>2 DEF RunningOK
    <2> QED  BY <2>1, <2>2
  <1>7. ReplacedOK' /\ AddedOK'
    BY <1>3 DEF ReplacedOK, AddedOK
  <1>8. IdleOK' /\ AloneOK'
    BY <1>1, <1>3, <1>4 DEF IdleOK, AloneOK
  <1>9. FoundOK'
    <2> SUFFICES ASSUME ~overlapped, NEW t \in Sessions,
                        sess'[t].pc \in {"parse", "replace"}
                 PROVE  /\ sess'[t].existing = NoVersion => Current(sess'[t].path) = {}
                        /\ sess'[t].existing # NoVersion =>
                             sess'[t].existing \in Current(sess'[t].path)
      BY <1>1 DEF FoundOK
    <2>1. CASE t # s  BY <1>3, <2>1 DEF FoundOK
    <2>2. CASE t = s  BY <1>3, <1>5, <2>2
    <2> QED  BY <2>1, <2>2
  <1>10. NewestOK' /\ KeptOK' /\ OneVersionOffered'
    BY <1>1, <1>3 DEF NewestOK, KeptOK, OneVersionOffered, SameRow
  <1> QED  BY <1>2, <1>6, <1>7, <1>8, <1>9, <1>10

LEMMA ParseStep ==
    ASSUME IInv, NEW s \in Sessions, Parse(s) PROVE IInv'
  <1> USE DEF IInv
  <1>1. rows' = rows /\ overlapped' = overlapped /\ \A q : Current(q)' = Current(q)
    BY DEF Parse, Current
  <1>2. TypeOK'
    <2>1. Next  BY DEF Next, Proceed
    <2> QED  BY <2>1, TypeStep
  <1>3. /\ \A t \in Sessions \ {s} : sess'[t] = sess[t]
        /\ sess'[s].sync = sess[s].sync
        /\ sess'[s].old = sess[s].old /\ sess'[s].new = sess[s].new
        /\ \/ /\ sess'[s].pc = "next"
              /\ sess'[s].todo = sess[s].todo \ {sess[s].path}
           \/ /\ sess'[s].pc = "replace" /\ sess'[s].todo = sess[s].todo
              /\ sess'[s].path = sess[s].path /\ sess'[s].hash = sess[s].hash
              /\ sess'[s].existing = sess[s].existing
              /\ sess'[s].content \in Contents
    BY ParseEffect
  <1>4. sess[s].pc = "parse"  BY DEF Parse
  <1>5. RunningOK'
    <2> SUFFICES ASSUME NEW t \in Sessions
                 PROVE  /\ sess'[t].pc # "idle" => sess'[t].sync # 0
                        /\ sess'[t].pc \in {"parse", "replace"} =>
                             /\ sess'[t].path \in sess'[t].todo
                             /\ sess'[t].hash # Absent
                             /\ sess'[t].existing # NoVersion =>
                                  sess'[t].existing.path = sess'[t].path
                        /\ sess'[t].pc = "replace" => sess'[t].content # Absent
      BY DEF RunningOK
    <2>1. CASE t # s  BY <1>3, <2>1 DEF RunningOK
    <2>2. CASE t = s  BY <1>3, <1>4, <2>2, PricesAssumption DEF RunningOK
    <2> QED  BY <2>1, <2>2
  <1>6. ReplacedOK' /\ AddedOK' /\ IdleOK' /\ AloneOK'
    BY <1>1, <1>3, <1>4 DEF ReplacedOK, AddedOK, IdleOK, AloneOK
  <1>7. FoundOK'
    <2> SUFFICES ASSUME ~overlapped, NEW t \in Sessions,
                        sess'[t].pc \in {"parse", "replace"}
                 PROVE  /\ sess'[t].existing = NoVersion => Current(sess'[t].path) = {}
                        /\ sess'[t].existing # NoVersion =>
                             sess'[t].existing \in Current(sess'[t].path)
      BY <1>1 DEF FoundOK
    <2>1. CASE t # s  BY <1>3, <2>1 DEF FoundOK
    <2>2. CASE t = s  BY <1>3, <1>4, <2>2 DEF FoundOK
    <2> QED  BY <2>1, <2>2
  <1>8. NewestOK' /\ KeptOK' /\ OneVersionOffered'
    BY <1>1, <1>3 DEF NewestOK, KeptOK, OneVersionOffered, SameRow
  <1> QED  BY <1>2, <1>5, <1>6, <1>7, <1>8

LEMMA ReplaceStep ==
    ASSUME IInv, NEW s \in Sessions, Replace(s) PROVE IInv'
  <1> USE DEF IInv
  <1>1. rows' = rows /\ overlapped' = overlapped /\ \A q : Current(q)' = Current(q)
    BY DEF Replace, Current
  <1>2. TypeOK'
    <2>1. Next  BY DEF Next, Proceed
    <2> QED  BY <2>1, TypeStep
  <1> DEFINE p == sess[s].path
             n == NewVersion(s)
             e == sess[s].existing
  <1>3. /\ \A t \in Sessions \ {s} : sess'[t] = sess[t]
        /\ sess'[s].pc = "next" /\ sess'[s].sync = sess[s].sync
        /\ sess'[s].todo = sess[s].todo \ {p}
        /\ sess'[s].old = sess[s].old \cup ({e} \ {NoVersion})
        /\ sess'[s].new = sess[s].new \cup {n}
    BY ReplaceEffect DEF Replaced
  <1>4. /\ sess[s].pc = "replace" /\ p \in sess[s].todo
        /\ e # NoVersion => e.path = p
    BY DEF Replace, RunningOK
  <1>5. /\ n \in Version /\ n.path = p /\ n.current
        /\ n.version = IF e = NoVersion THEN 1 ELSE e.version + 1
    BY <1>4, NewVersionOK
  <1> HIDE DEF n, p, e
  <1>6. RunningOK'
    <2> SUFFICES ASSUME NEW t \in Sessions
                 PROVE  /\ sess'[t].pc # "idle" => sess'[t].sync # 0
                        /\ sess'[t].pc \in {"parse", "replace"} =>
                             /\ sess'[t].path \in sess'[t].todo
                             /\ sess'[t].hash # Absent
                             /\ sess'[t].existing # NoVersion =>
                                  sess'[t].existing.path = sess'[t].path
                        /\ sess'[t].pc = "replace" => sess'[t].content # Absent
      BY DEF RunningOK
    <2>1. CASE t # s  BY <1>3, <2>1 DEF RunningOK
    <2>2. CASE t = s  BY <1>3, <1>4, <2>2 DEF RunningOK
    <2> QED  BY <2>1, <2>2
  <1>7. ReplacedOK' /\ AddedOK'
    <2>1. ASSUME NEW t \in Sessions, NEW q \in sess'[t].old
          PROVE  \E m \in sess'[t].new : m.path = q.path
      <3>1. CASE t # s  BY <1>3, <2>1, <3>1 DEF ReplacedOK
      <3>2. CASE t = s /\ q \in sess[s].old  BY <1>3, <3>2 DEF ReplacedOK
      <3>3. CASE t = s /\ q \notin sess[s].old  BY <1>3, <1>4, <1>5, <2>1, <3>3
      <3> QED  BY <3>1, <3>2, <3>3
    <2>2. ASSUME NEW t \in Sessions, NEW m \in sess'[t].new PROVE m.current
      BY <1>3, <1>5, <2>2 DEF AddedOK
    <2> QED  BY <2>1, <2>2 DEF ReplacedOK, AddedOK
  <1>8. IdleOK' /\ AloneOK'
    BY <1>1, <1>3, <1>4 DEF IdleOK, AloneOK
  <1>9. FoundOK' /\ KeptOK' /\ OneVersionOffered'
    BY <1>1, <1>3 DEF FoundOK, KeptOK, OneVersionOffered
  <1>10. NewestOK'
    <2> SUFFICES ASSUME ~overlapped, NEW t \in Sessions, NEW m \in sess'[t].new
                 PROVE  /\ m.path \notin sess'[t].todo
                        /\ \A k \in sess'[t].new : k.path = m.path => k = m
                        /\ \A r \in rows : r.path = m.path =>
                             /\ r.version < m.version
                             /\ r.current => \E q \in sess'[t].old : SameRow(q, r)
      BY <1>1 DEF NewestOK, SameRow
    <2>1. CASE t # s  BY <1>3, <2>1 DEF NewestOK
    <2>3. ASSUME t = s,
                 sess'[s].old = sess[s].old \cup ({e} \ {NoVersion}),
                 sess'[s].new = sess[s].new \cup {n}
          PROVE  /\ m.path \notin sess'[t].todo
                 /\ \A k \in sess'[t].new : k.path = m.path => k = m
                 /\ \A r \in rows : r.path = m.path =>
                      /\ r.version < m.version
                      /\ r.current => \E q \in sess'[t].old : SameRow(q, r)
      <3>1. \A k \in sess[s].new : k.path # p /\ k.path \notin sess[s].todo
        BY <1>4 DEF NewestOK
      <3>2. m.path \notin sess'[t].todo
        BY <1>3, <1>5, <2>3, <3>1
      <3>3. \A k \in sess'[t].new : k.path = m.path => k = m
        BY <1>5, <2>3, <3>1 DEF NewestOK
      <3>4. ASSUME NEW r \in rows, r.path = m.path
            PROVE  /\ r.version < m.version
                   /\ r.current => \E q \in sess'[t].old : SameRow(q, r)
        <4>1. CASE m \in sess[s].new
          BY <2>3, <3>4, <4>1 DEF NewestOK
        <4>2. CASE m = n
          <5>1. r.path = p  BY <1>5, <2>3, <3>4, <4>2
          <5>2. Current(p) # {}  BY <5>1 DEF KeptOK
          <5>3. e # NoVersion /\ e \in Current(p)
            BY <1>4, <5>2 DEF FoundOK, e, p
          <5>4. e \in rows /\ e.current /\ e.path = p /\ e \in Version
            BY <5>3, CurrentIsVersion
          <5>5. r = e \/ r.version < e.version
            BY <5>1, <5>4 DEF OneVersionOffered
          <5>6. r \in Version /\ r.version \in Nat /\ e.version \in Nat
            BY <5>4, VersionFields DEF TypeOK
          <5>7. r.version < m.version
            BY <1>5, <2>3, <4>2, <5>3, <5>5, <5>6
          <5>8. ASSUME r.current PROVE r = e
            <6>1. e = r \/ e.version < r.version
              BY <5>1, <5>4, <5>8 DEF OneVersionOffered
            <6> QED  BY <5>5, <5>6, <6>1
          <5> QED  BY <2>3, <5>3, <5>7, <5>8 DEF SameRow
        <4> QED  BY <2>3, <4>1, <4>2
      <3> QED  BY <3>2, <3>3, <3>4
    <2> QED  BY <1>3, <2>1, <2>3
  <1> QED  BY <1>2, <1>6, <1>7, <1>8, <1>9, <1>10

\* After a commit a row is new, or was there and is as before, or was there and
\* is switched off.
LEMMA CommitRows ==
    ASSUME TypeOK, NEW s \in Sessions, Commit(s)
    PROVE  /\ sess[s].new \subseteq rows'
           /\ \A r \in rows : (\A q \in sess[s].old : ~SameRow(q, r)) => r \in rows'
           /\ \A r \in rows : (\E q \in sess[s].old : SameRow(q, r)) => SwitchedOff(r) \in rows'
           /\ \A x \in rows' : x \notin sess[s].new =>
                \E r \in rows :
                    \/ x = r /\ \A q \in sess[s].old : ~SameRow(q, r)
                    \/ x = SwitchedOff(r)
  BY DEF Commit, Written

\* The prices of a path stay: what is switched off is replaced.
LEMMA CommitKeeps ==
    ASSUME TypeOK, ReplacedOK, AddedOK, NEW s \in Sessions, Commit(s),
           NEW r \in rows, r.current
    PROVE  Current(r.path)' # {}
  <1>1. CASE \A q \in sess[s].old : ~SameRow(q, r)
    <2>1. r \in rows'  BY <1>1, CommitRows
    <2> QED  BY <2>1 DEF Current
  <1>2. CASE \E q \in sess[s].old : SameRow(q, r)
    <2>1. PICK q \in sess[s].old : SameRow(q, r)  BY <1>2
    <2>2. PICK n \in sess[s].new : n.path = q.path  BY DEF ReplacedOK
    <2>3. n \in rows' /\ n.current /\ n.path = r.path
      BY <2>1, <2>2, CommitRows DEF AddedOK, SameRow
    <2> QED  BY <2>3 DEF Current
  <1> QED  BY <1>1, <1>2

LEMMA CommitStep ==
    ASSUME IInv, NEW s \in Sessions, Commit(s) PROVE IInv'
  <1> USE DEF IInv
  <1>1. overlapped' = overlapped  BY DEF Commit
  <1>2. TypeOK'
    <2>1. Next  BY DEF Next, Proceed
    <2> QED  BY <2>1, TypeStep
  <1>3. sess'[s] = Idle /\ \A t \in Sessions \ {s} : sess'[t] = sess[t]
    BY SessionAfter DEF Commit
  <1>4. sess[s].pc = "next"  BY DEF Commit
  <1>5. RunningOK' /\ ReplacedOK' /\ AddedOK'
    BY <1>3, IdleFields DEF RunningOK, ReplacedOK, AddedOK
  <1>6. IdleOK' /\ AloneOK'
    BY <1>1, <1>3, IdleFields DEF IdleOK, AloneOK
  <1>7. \A x \in rows' : \/ x \in sess[s].new
                         \/ \E r \in rows : x.path = r.path
    BY CommitRows, SwitchedOffIsVersion DEF TypeOK
  <1>8. KeptOK'
    <2> SUFFICES ASSUME NEW x \in rows' PROVE Current(x.path)' # {}
      BY DEF KeptOK
    <2>1. CASE x \in sess[s].new
      BY <2>1 DEF AddedOK, Current
    <2>2. ASSUME NEW r \in rows, x.path = r.path PROVE Current(x.path)' # {}
      <3>1. PICK c \in Current(r.path) : TRUE  BY DEF KeptOK
      <3>2. c \in rows /\ c.current /\ c.path = x.path  BY <2>2 DEF Current
      <3> QED  BY <3>2, CommitKeeps
    <2> QED  BY <1>7, <2>1, <2>2
  <1>9. ~overlapped => \A t \in Sessions : sess'[t].pc = "idle" /\ sess'[t].new = {}
    BY <1>3, <1>4, IdleFields, SessionFields DEF AloneOK, IdleOK
  <1>10. FoundOK' /\ NewestOK'
    <2>1. FoundOK'
      <3> SUFFICES ASSUME ~overlapped PROVE \A t \in Sessions : sess'[t].pc \notin {"parse", "replace"}
        BY <1>1 DEF FoundOK
      <3> QED  BY <1>9
    <2>2. NewestOK'
      <3> SUFFICES ASSUME ~overlapped PROVE \A t \in Sessions : sess'[t].new = {}
        BY <1>1 DEF NewestOK
      <3> QED  BY <1>9
    <2> QED  BY <2>1, <2>2
  <1>11. OneVersionOffered'
    <2> SUFFICES ASSUME ~overlapped, NEW x \in rows', x.current, NEW y \in rows', y.path = x.path
                 PROVE  y = x \/ y.version < x.version
      BY <1>1 DEF OneVersionOffered
    <2>1. \/ y \in sess[s].new
          \/ \E r \in rows : y.path = r.path /\ y.version = r.version /\ (y = r \/ y = SwitchedOff(r))
      BY CommitRows, SwitchedOffIsVersion DEF TypeOK
    <2>2. CASE x \in sess[s].new
      BY <2>1, <2>2 DEF NewestOK
    <2>3. CASE x \notin sess[s].new
      <3>1. PICK r \in rows : \/ x = r /\ \A q \in sess[s].old : ~SameRow(q, r)
                              \/ x = SwitchedOff(r)
        BY <2>3, CommitRows
      <3>2. x = r /\ \A q \in sess[s].old : ~SameRow(q, r)
        BY <3>1, SwitchedOffIsVersion DEF TypeOK
      <3>3. y \notin sess[s].new
        BY <3>2 DEF NewestOK
      <3>4. PICK w \in rows : /\ y.path = w.path /\ y.version = w.version
                              /\ \/ y = w
                                 \/ y = SwitchedOff(w) /\ \E q \in sess[s].old : SameRow(q, w)
        <4>1. PICK w \in rows : \/ y = w /\ \A q \in sess[s].old : ~SameRow(q, w)
                                \/ y = SwitchedOff(w) /\ \E q \in sess[s].old : SameRow(q, w)
          BY <3>3 DEF Commit, Written
        <4> QED  BY <4>1, SwitchedOffIsVersion DEF TypeOK
      <3>5. w = x \/ w.version < x.version
        BY <3>2, <3>4 DEF OneVersionOffered
      <3>6. w = x => y = x
        BY <3>2, <3>4
      <3> QED  BY <3>4, <3>5, <3>6
    <2> QED  BY <2>2, <2>3
  <1> QED  BY <1>2, <1>5, <1>6, <1>8, <1>10, <1>11

-----------------------------------------------------------------------------
LEMMA InitIInv == Init => IInv
  <1> SUFFICES ASSUME Init PROVE IInv  OBVIOUS
  <1>1. \A s \in Sessions : sess[s] = Idle  BY DEF Init
  <1>2. TypeOK
    <2>1. sess \in [Sessions -> Session]  BY IdleIsSession DEF Init
    <2>2. 0 \in 0 .. MaxSyncs /\ 0 \in 0 .. MaxWrites  BY PricesAssumption
    <2> QED  BY <2>1, <2>2 DEF Init, TypeOK
  <1>3. RunningOK /\ ReplacedOK /\ AddedOK /\ AloneOK /\ IdleOK
    BY <1>1, IdleFields DEF RunningOK, ReplacedOK, AddedOK, AloneOK, IdleOK
  <1>4. KeptOK /\ FoundOK /\ NewestOK /\ OneVersionOffered
    BY <1>1, IdleFields DEF Init, KeptOK, FoundOK, NewestOK, OneVersionOffered
  <1> QED  BY <1>2, <1>3, <1>4 DEF IInv

LEMMA NextIInv == IInv /\ [Next]_vars => IInv'
  <1> SUFFICES ASSUME IInv, [Next]_vars PROVE IInv'  OBVIOUS
  <1>1. CASE UNCHANGED vars
    BY <1>1 DEF vars, IInv, TypeOK, RunningOK, ReplacedOK, AddedOK, KeptOK, AloneOK,
                IdleOK, FoundOK, NewestOK, OneVersionOffered, Current, SameRow
  <1>2. CASE \E p \in Paths, c \in Contents \cup {Absent} : WriteFile(p, c)
    BY <1>2, WriteFileStep
  <1>3. ASSUME NEW s \in Sessions, Start(s) \/ Proceed(s) \/ Abort(s) PROVE IInv'
    <2>1. CASE Start(s)  BY <2>1, StartStep
    <2>2. ASSUME NEW p \in Paths, LookUp(s, p) PROVE IInv'  BY <2>2, LookUpStep
    <2>3. ASSUME NEW p \in Paths, LookUpFails(s, p) PROVE IInv'
      BY <2>3, RollbackStep DEF LookUpFails
    <2>4. CASE Parse(s)  BY <2>4, ParseStep
    <2>7. CASE Replace(s)  BY <2>7, ReplaceStep
    <2>5. CASE Commit(s)  BY <2>5, CommitStep
    <2>6. CASE Abort(s)  BY <2>6, RollbackStep DEF Abort
    <2> QED  BY <1>3, <2>1, <2>2, <2>3, <2>4, <2>5, <2>6, <2>7 DEF Proceed
  <1> QED  BY <1>1, <1>2, <1>3 DEF Next

LEMMA InductiveInvariant == Spec => []IInv
  BY InitIInv, NextIInv, PTL DEF Spec

\* The variables keep their types, for any number of paths and requests
\* (PriceListFile, PriceListIndexer.sync).
THEOREM TypeCorrect == Spec => []TypeOK
  BY InductiveInvariant, PTL DEF IInv

\* As long as no two synchronizations overlap, one version of a path is on
\* offer and it is the newest (the is_current flags of PriceListIndexer.sync).
THEOREM OneVersion == Spec => []OneVersionOffered
  BY InductiveInvariant, PTL DEF IInv

\* A path on offer stays on offer, whatever overlaps, fails or disappears.
THEOREM PricesNeverVanish == Spec => PricesStay
  <1> DEFINE A == \A p \in Paths : Current(p) # {} => Current(p)' # {}
  <1>1. IInv /\ [Next]_vars => [A]_vars
    <2> SUFFICES ASSUME IInv, [Next]_vars, NEW p \in Paths, Current(p) # {}
                 PROVE  Current(p)' # {}
      OBVIOUS
    <2>1. CASE rows' = rows
      BY <2>1 DEF Current
    <2>2. ASSUME NEW s \in Sessions, Commit(s) PROVE Current(p)' # {}
      <3>1. PICK r \in rows : r.path = p /\ r.current  BY DEF Current
      <3> QED  BY <2>2, <3>1, CommitKeeps DEF IInv
    <2>3. rows' = rows \/ \E s \in Sessions : Commit(s)
      BY DEF Next, vars, WriteFile, Start, Proceed, LookUp, LookUpFails, Parse, Replace, Abort,
             Rollback
    <2> QED  BY <2>1, <2>2, <2>3
  <1> QED  BY <1>1, InductiveInvariant, PTL DEF Spec, PricesStay

-----------------------------------------------------------------------------
(* What a version holds.                                                   *)

\* A version whose synchronization met no change of the folder holds the
\* products of its hash, however many synchronizations overlapped.
HonestOK ==
    /\ \A r \in rows : HoldsProducts(r, r.hash)
    /\ \A s \in Sessions : \A n \in sess[s].new : HoldsProducts(n, n.hash)
    /\ \A s \in Sessions : sess[s].sync \notin disturbed =>
         /\ sess[s].pc \in {"parse", "replace"} => sess[s].hash = disk[sess[s].path]
         /\ sess[s].pc = "replace" => sess[s].content = sess[s].hash

LEMMA HonestInit == Init => HonestOK
  BY IdleFields DEF Init, HonestOK

LEMMA HonestStep ==
    ASSUME IInv, HonestOK, [Next]_vars PROVE HonestOK'
  <1> USE DEF IInv
  <1>1. ASSUME NEW p \in Paths, NEW c, WriteFile(p, c) PROVE HonestOK'
    <2>1. /\ rows' = rows /\ sess' = sess /\ disturbed \subseteq disturbed'
          /\ \A s \in Sessions : sess[s].pc # "idle" => sess[s].sync \in disturbed'
      BY <1>1 DEF WriteFile
    <2> QED  BY <2>1 DEF HonestOK, HoldsProducts
  <1>2. ASSUME NEW s \in Sessions, Start(s) PROVE HonestOK'
    <2>1. UNCHANGED <<disk, rows, disturbed>>  BY <1>2 DEF Start
    <2>2. /\ \A t \in Sessions \ {s} : sess'[t] = sess[t]
          /\ sess'[s].pc = "next" /\ sess'[s].new = {}
      BY <1>2, StartEffect
    <2> QED  BY <2>1, <2>2 DEF HonestOK, HoldsProducts
  <1>3. ASSUME NEW s \in Sessions, NEW p \in Paths, LookUp(s, p) PROVE HonestOK'
    <2>1. UNCHANGED <<disk, rows, disturbed>>  BY <1>3 DEF LookUp
    <2>2. /\ \A t \in Sessions \ {s} : sess'[t] = sess[t]
          /\ sess'[s].new = sess[s].new
          /\ \/ sess'[s].pc = "next"
             \/ /\ sess'[s].pc = "parse" /\ sess'[s].path = p
                /\ sess'[s].hash = disk[p]
      BY <1>3, LookUpEffect
    <2> QED  BY <2>1, <2>2 DEF HonestOK, HoldsProducts
  <1>4. ASSUME NEW s \in Sessions, Parse(s) PROVE HonestOK'
    <2>1. UNCHANGED <<disk, rows, disturbed>> /\ sess[s].pc = "parse"
      BY <1>4 DEF Parse
    <2>2. /\ \A t \in Sessions \ {s} : sess'[t] = sess[t]
          /\ sess'[s].sync = sess[s].sync /\ sess'[s].new = sess[s].new
          /\ \/ sess'[s].pc = "next"
             \/ /\ sess'[s].pc = "replace" /\ sess'[s].path = sess[s].path
                /\ sess'[s].hash = sess[s].hash
                /\ sess'[s].content = disk[sess[s].path]
      BY <1>4, ParseEffect
    <2> QED  BY <2>1, <2>2 DEF HonestOK, HoldsProducts
  <1>5. ASSUME NEW s \in Sessions, Replace(s) PROVE HonestOK'
    <2>1. UNCHANGED <<disk, rows, disturbed>> /\ sess[s].pc = "replace"
      BY <1>5 DEF Replace
    <2>2. /\ \A t \in Sessions \ {s} : sess'[t] = sess[t]
          /\ sess'[s].pc = "next" /\ sess'[s].new = sess[s].new \cup {NewVersion(s)}
      BY <1>5, ReplaceEffect
    <2>3. /\ NewVersion(s).sync = sess[s].sync /\ NewVersion(s).hash = sess[s].hash
          /\ NewVersion(s).content = sess[s].content
      BY DEF NewVersion
    <2>4. HoldsProducts(NewVersion(s), NewVersion(s).hash)
      BY <2>1, <2>3 DEF HonestOK, HoldsProducts
    <2> QED  BY <2>1, <2>2, <2>4 DEF HonestOK, HoldsProducts
  <1>6. ASSUME NEW s \in Sessions, Rollback(s) PROVE HonestOK'
    <2>1. UNCHANGED <<disk, rows, disturbed>>  BY <1>6 DEF Rollback
    <2>2. sess'[s] = Idle /\ \A t \in Sessions \ {s} : sess'[t] = sess[t]
      BY <1>6, SessionAfter DEF Rollback
    <2> QED  BY <2>1, <2>2, IdleFields DEF HonestOK, HoldsProducts
  <1>7. ASSUME NEW s \in Sessions, Commit(s) PROVE HonestOK'
    <2>1. UNCHANGED <<disk, disturbed>>  BY <1>7 DEF Commit
    <2>2. sess'[s] = Idle /\ \A t \in Sessions \ {s} : sess'[t] = sess[t]
      BY <1>7, SessionAfter DEF Commit
    <2>3. \A r \in rows : /\ SwitchedOff(r).sync = r.sync
                         /\ SwitchedOff(r).hash = r.hash
                         /\ SwitchedOff(r).content = r.content
      BY DEF TypeOK, Version, SwitchedOff
    <2>4. \A x \in rows' : x.content = x.hash \/ x.sync \in disturbed
      BY <1>7, <2>3, CommitRows DEF HonestOK, HoldsProducts
    <2> QED  BY <2>1, <2>2, <2>4, IdleFields DEF HonestOK, HoldsProducts
  <1>8. CASE UNCHANGED vars
    BY <1>8 DEF vars, HonestOK, HoldsProducts
  <1> QED
    BY <1>1, <1>2, <1>3, <1>4, <1>5, <1>6, <1>7, <1>8
    DEF Next, Proceed, LookUpFails, Abort

LEMMA HonestAlways == Spec => []HonestOK
  BY InductiveInvariant, HonestInit, HonestStep, PTL DEF Spec

-----------------------------------------------------------------------------
(* A synchronization that nothing has disturbed.                           *)

\* The version on offer of p is that of the file, and s has not replaced it.
UpToDate(s, p) ==
    \E r \in Current(p) : r.hash = disk[p] /\ \A q \in sess[s].old : ~SameRow(q, r)

\* s replaces what is on offer of p by what is in the file.
Refreshed(s, p) == \E n \in sess[s].new : n.path = p /\ n.hash = disk[p]

\* Every readable file is still to do, up to date or refreshed.
CaughtUp ==
    ~overlapped =>
        \A s \in Sessions : sess[s].pc # "idle" /\ sess[s].sync \notin disturbed =>
            \A p \in Paths : disk[p] \in Contents \ Broken =>
                p \in sess[s].todo \/ UpToDate(s, p) \/ Refreshed(s, p)

\* A file that is not taken up is unchanged.
LEMMA LookUpSkips ==
    ASSUME TypeOK, NEW s \in Sessions, NEW p \in Paths, LookUp(s, p)
    PROVE  sess'[s].pc = "next" => Unchanged(p)
  <1> DEFINE e == IF Current(p) = {} THEN NoVersion ELSE CHOOSE r \in Current(p) : TRUE
             X == [sess[s] EXCEPT !.todo = sess[s].todo \ {p}]
             Y == [sess[s] EXCEPT !.pc = "parse", !.path = p, !.hash = disk[p],
                                  !.existing = e]
  <1>1. sess' = [sess EXCEPT ![s] = IF Unchanged(p) THEN X ELSE Y]
    BY DEF LookUp
  <1> HIDE DEF e
  <1>2. Y.pc = "parse"  BY DEF TypeOK, Session
  <1> HIDE DEF X, Y
  <1>3. sess'[s] = IF Unchanged(p) THEN X ELSE Y  BY <1>1, SessionAfter
  <1> QED  BY <1>2, <1>3

LEMMA CaughtUpInit == Init => CaughtUp
  BY IdleFields DEF Init, CaughtUp

LEMMA CaughtUpStep ==
    ASSUME IInv, HonestOK, CaughtUp, [Next]_vars PROVE CaughtUp'
  <1> USE DEF IInv
  <1>1. ASSUME NEW p \in Paths, NEW c, WriteFile(p, c) PROVE CaughtUp'
    <2>1. \A s \in Sessions : sess'[s].pc # "idle" => sess'[s].sync \in disturbed'
      BY <1>1 DEF WriteFile
    <2> QED  BY <2>1 DEF CaughtUp
  <1>2. ASSUME NEW s \in Sessions, Start(s) PROVE CaughtUp'
    <2>1. /\ ~overlapped' => \A t \in Sessions \ {s} : sess'[t].pc = "idle"
          /\ sess'[s].pc = "next"
      BY <1>2, StartEffect DEF Start, TypeOK
    <2>2. /\ UNCHANGED <<disk, disturbed>>
          /\ sess'[s].todo = {p \in Paths : disk[p] # Absent}
      <3> DEFINE T == {p \in Paths : disk[p] # Absent}
                 X == [Idle EXCEPT !.pc = "next", !.sync = syncs + 1, !.todo = T]
      <3>1. sess' = [sess EXCEPT ![s] = X] /\ UNCHANGED <<disk, disturbed>>
        BY <1>2 DEF Start
      <3>2. X.todo = T
        <4> HIDE DEF T
        <4> QED  BY DEF Idle
      <3> HIDE DEF X
      <3> QED  BY <3>1, <3>2, SessionAfter
    <2> QED  BY <2>1, <2>2, PricesAssumption DEF CaughtUp
  <1>3. ASSUME NEW s \in Sessions, NEW p \in Paths, LookUp(s, p) PROVE CaughtUp'
    <2>1. /\ \A t \in Sessions \ {s} : sess'[t] = sess[t]
          /\ sess'[s].sync = sess[s].sync
          /\ sess'[s].old = sess[s].old /\ sess'[s].new = sess[s].new
          /\ \/ sess'[s].pc = "next" /\ sess'[s].todo = sess[s].todo \ {p}
             \/ /\ sess'[s].pc = "parse" /\ sess'[s].todo = sess[s].todo
                /\ sess'[s].path = p /\ sess'[s].hash = disk[p]
      BY <1>3, LookUpEffect
    <2>2. sess'[s].pc = "next" => Unchanged(p)
      BY <1>3, LookUpSkips
    <2>3. /\ UNCHANGED <<disk, overlapped, disturbed>> /\ \A q : Current(q)' = Current(q)
          /\ sess[s].pc = "next" /\ p \in sess[s].todo
      BY <1>3 DEF LookUp, First, Current
    <2>4. ASSUME ~overlapped, sess'[s].pc = "next" PROVE UpToDate(s, p)
      <3>1. PICK r \in Current(p) : r.hash = disk[p]  BY <2>2, <2>4 DEF Unchanged
      <3>2. \A q \in sess[s].old : q.path # p
        BY <2>3, <2>4 DEF ReplacedOK, NewestOK
      <3> QED  BY <3>1, <3>2, CurrentIsVersion DEF UpToDate, SameRow
    <2>5. \A q : Refreshed(s, q) => Refreshed(s, q)'
      BY <2>1, <2>3 DEF Refreshed
    <2>6. \A q : UpToDate(s, q) => UpToDate(s, q)'
      BY <2>1, <2>3 DEF UpToDate, SameRow
    <2>7. \A t \in Sessions \ {s}, q \in Paths :
            (UpToDate(t, q) => UpToDate(t, q)') /\ (Refreshed(t, q) => Refreshed(t, q)')
      BY <2>1, <2>3 DEF UpToDate, Refreshed, SameRow
    <2> QED  BY <2>1, <2>2, <2>3, <2>4, <2>5, <2>6, <2>7 DEF CaughtUp
  <1>4. ASSUME NEW s \in Sessions, Rollback(s) \/ Commit(s) PROVE CaughtUp'
    <2>1. sess'[s] = Idle /\ (\A t \in Sessions \ {s} : sess'[t] = sess[t])
          /\ UNCHANGED <<overlapped, disturbed>>
      BY <1>4, SessionAfter DEF Rollback, Commit
    <2>2. sess[s].pc = "idle" => UNCHANGED <<rows, disk>>
      BY <1>4 DEF Rollback, Commit
    <2> SUFFICES ASSUME ~overlapped', NEW t \in Sessions, sess'[t].pc # "idle"
                 PROVE  sess[s].pc = "idle" /\ t # s
      BY <2>1, <2>2 DEF CaughtUp, UpToDate, Refreshed, SameRow, Current
    <2> QED  BY <2>1, IdleFields DEF AloneOK
  <1>5. ASSUME NEW s \in Sessions, Parse(s) PROVE CaughtUp'
    <2>1. /\ \A t \in Sessions \ {s} : sess'[t] = sess[t]
          /\ sess'[s].sync = sess[s].sync
          /\ sess'[s].old = sess[s].old /\ sess'[s].new = sess[s].new
          /\ \/ /\ disk[sess[s].path] \notin Contents \ Broken
                /\ sess'[s].todo = sess[s].todo \ {sess[s].path}
             \/ sess'[s].todo = sess[s].todo
      BY <1>5, ParseEffect
    <2>2. /\ UNCHANGED <<disk, overlapped, disturbed>> /\ \A q : Current(q)' = Current(q)
          /\ sess[s].pc = "parse"
      BY <1>5 DEF Parse, Current
    <2>3. \A t \in Sessions, q \in Paths :
            (UpToDate(t, q) => UpToDate(t, q)') /\ (Refreshed(t, q) => Refreshed(t, q)')
      BY <2>1, <2>2 DEF UpToDate, Refreshed, SameRow
    <2> QED  BY <2>1, <2>2, <2>3 DEF CaughtUp
  <1>7. ASSUME NEW s \in Sessions, Replace(s) PROVE CaughtUp'
    <2>1. /\ \A t \in Sessions \ {s} : sess'[t] = sess[t]
          /\ sess'[s].sync = sess[s].sync
          /\ sess'[s].todo = sess[s].todo \ {sess[s].path}
          /\ sess'[s].old = Replaced(s)
          /\ sess'[s].new = sess[s].new \cup {NewVersion(s)}
      BY <1>7, ReplaceEffect
    <2>2. /\ UNCHANGED <<disk, overlapped, disturbed>> /\ \A q : Current(q)' = Current(q)
          /\ sess[s].pc = "replace"
          /\ sess[s].existing # NoVersion => sess[s].existing.path = sess[s].path
      BY <1>7 DEF Replace, Current, RunningOK
    <2>3. NewVersion(s).path = sess[s].path /\ NewVersion(s).hash = sess[s].hash
      BY DEF NewVersion
    <2>4. \A q : Refreshed(s, q) => Refreshed(s, q)'
      BY <2>1, <2>2 DEF Refreshed
    <2>5. ASSUME NEW q \in Paths, UpToDate(s, q), q # sess[s].path
          PROVE  UpToDate(s, q)'
      <3>1. PICK r \in Current(q) : r.hash = disk[q] /\ \A o \in sess[s].old : ~SameRow(o, r)
        BY <2>5 DEF UpToDate
      <3>2. \A o \in sess'[s].old : ~SameRow(o, r)
        BY <2>1, <2>2, <2>5, <3>1, CurrentIsVersion DEF SameRow, Replaced
      <3> QED  BY <2>2, <3>1, <3>2 DEF UpToDate, SameRow
    <2>6. \A t \in Sessions \ {s}, q \in Paths :
            (UpToDate(t, q) => UpToDate(t, q)') /\ (Refreshed(t, q) => Refreshed(t, q)')
      BY <2>1, <2>2 DEF UpToDate, Refreshed, SameRow
    <2>7. ASSUME sess[s].sync \notin disturbed, NEW q \in Paths, q = sess[s].path
          PROVE  Refreshed(s, q)'
      <3>1. NewVersion(s).hash = disk[sess[s].path]
        BY <2>2, <2>3, <2>7 DEF HonestOK
      <3> QED  BY <2>1, <2>2, <2>3, <2>7, <3>1 DEF Refreshed
    <2> QED  BY <2>1, <2>2, <2>4, <2>5, <2>6, <2>7 DEF CaughtUp
  <1>6. CASE UNCHANGED vars
    BY <1>6 DEF vars, CaughtUp, UpToDate, Refreshed, SameRow, Current
  <1> QED
    BY <1>1, <1>2, <1>3, <1>4, <1>5, <1>6, <1>7 DEF Next, Proceed, LookUpFails, Abort

LEMMA CaughtUpAlways == Spec => []CaughtUp
  BY InductiveInvariant, HonestAlways, CaughtUpInit, CaughtUpStep, PTL DEF Spec

\* A synchronization that neither overlaps another nor meets a change of the
\* folder leaves every readable file with a version on offer that has its hash
\* and, unless the version was indexed while the folder changed, its products.
THEOREM SyncsCatchUp == Spec => SyncCatchesUp
  <1> DEFINE A == \A s \in Sessions :
                    Commit(s) /\ sess[s].sync \notin disturbed /\ ~overlapped =>
                      \A p \in Paths : disk[p] \in Contents \ Broken =>
                        \E r \in Current(p)' :
                            r.hash = disk[p] /\ HoldsProducts(r, disk[p])
  <1>1. IInv /\ HonestOK /\ CaughtUp => [A]_vars
    <2> SUFFICES ASSUME IInv, HonestOK, CaughtUp, NEW s \in Sessions, Commit(s),
                        sess[s].sync \notin disturbed, ~overlapped,
                        NEW p \in Paths, disk[p] \in Contents \ Broken
                 PROVE  \E r \in Current(p)' : r.hash = disk[p] /\ HoldsProducts(r, disk[p])
      OBVIOUS
    <2>1. UpToDate(s, p) \/ Refreshed(s, p)
      BY DEF Commit, CaughtUp, IInv
    <2>2. CASE UpToDate(s, p)
      <3>1. PICK r \in Current(p) : /\ r.hash = disk[p]
                                    /\ \A q \in sess[s].old : ~SameRow(q, r)
        BY <2>2 DEF UpToDate
      <3>2. r \in Current(p)'  BY <3>1, CommitRows DEF Current, IInv
      <3>3. HoldsProducts(r, disk[p])  BY <3>1 DEF Current, HonestOK
      <3> QED  BY <3>1, <3>2, <3>3
    <2>3. CASE Refreshed(s, p)
      <3>1. PICK n \in sess[s].new : n.path = p /\ n.hash = disk[p]
        BY <2>3 DEF Refreshed
      <3>2. n \in Current(p)'  BY <3>1, CommitRows DEF Current, IInv, AddedOK
      <3>3. HoldsProducts(n, disk[p])  BY <3>1 DEF HonestOK
      <3> QED  BY <3>1, <3>2, <3>3
    <2> QED  BY <2>1, <2>2, <2>3
  <1> QED  BY <1>1, InductiveInvariant, HonestAlways, CaughtUpAlways, PTL DEF SyncCatchesUp

-----------------------------------------------------------------------------
\* The paths are locked in one order.  What a transaction has replaced lies
\* before all that it has still to do, so who waits is behind whom it waits for.

InOrder ==
    \A s \in Sessions :
        /\ \A q \in sess[s].old, p \in sess[s].todo : q.path < p
        /\ sess[s].pc \in {"parse", "replace"} =>
             \A p \in sess[s].todo : sess[s].path <= p

LEMMA OrderStep == IInv /\ InOrder /\ [Next]_vars => InOrder'
<1> SUFFICES ASSUME IInv, InOrder, [Next]_vars PROVE InOrder'
  OBVIOUS
<1>0. TypeOK /\ RunningOK  BY DEF IInv
<1>1. ASSUME NEW s \in Sessions, NEW X, sess' = [sess EXCEPT ![s] = X],
             \A q \in X.old, p \in X.todo : q.path < p,
             X.pc \in {"parse", "replace"} => \A p \in X.todo : X.path <= p
      PROVE  InOrder'
  <2>1. sess'[s] = X /\ \A t \in Sessions \ {s} : sess'[t] = sess[t]
    BY <1>0, <1>1, SessionAfter
  <2>2. QED  BY <1>1, <2>1 DEF InOrder
<1>2. ASSUME NEW s \in Sessions, sess' = [sess EXCEPT ![s] = Idle] PROVE InOrder'
  <2>1. Idle.old = {} /\ Idle.pc = "idle"  BY DEF Idle
  <2>2. QED  BY <1>1, <1>2, <2>1
<1>3. ASSUME NEW p \in Paths, NEW c \in Contents \cup {Absent}, WriteFile(p, c)
      PROVE  InOrder'
  BY <1>3 DEF WriteFile, InOrder
<1>4. ASSUME NEW s \in Sessions, Start(s) PROVE InOrder'
  <2> DEFINE X == [Idle EXCEPT !.pc = "next", !.sync = syncs + 1,
                               !.todo = {p \in Paths : disk[p] # Absent}]
  <2>1. X.old = {} /\ X.pc = "next"  BY DEF Idle
  <2>2. sess' = [sess EXCEPT ![s] = X]  BY <1>4 DEF Start
  <2> HIDE DEF X
  <2>3. QED  BY <1>1, <2>1, <2>2
<1>5. ASSUME NEW s \in Sessions, NEW p \in Paths, LookUp(s, p) PROVE InOrder'
  <2> DEFINE X == IF Unchanged(p)
         THEN [sess[s] EXCEPT !.todo = sess[s].todo \ {p}]
         ELSE [sess[s] EXCEPT !.pc = "parse", !.path = p, !.hash = disk[p],
                              !.existing = IF Current(p) = {} THEN NoVersion
                                           ELSE CHOOSE r \in Current(p) : TRUE]
  <2>1. /\ sess' = [sess EXCEPT ![s] = X] /\ sess[s].pc = "next"
        /\ \A q \in sess[s].todo : p <= q
    BY <1>5 DEF LookUp, First
  <2>2. sess[s] \in Session  BY <1>0 DEF TypeOK
  <2>3. /\ X.old = sess[s].old /\ X.todo \subseteq sess[s].todo
        /\ X.pc \in {"parse", "replace"} => X.path = p
    <3>1. CASE Unchanged(p)  BY <2>1, <2>2, <3>1 DEF Session
    <3>2. CASE ~Unchanged(p)  BY <2>2, <3>2 DEF Session
    <3>3. QED  BY <3>1, <3>2
  <2> HIDE DEF X
  <2>4. \A q \in X.old, t \in X.todo : q.path < t  BY <2>3 DEF InOrder
  <2>5. X.pc \in {"parse", "replace"} => \A t \in X.todo : X.path <= t  BY <2>1, <2>3
  <2>6. QED  BY <1>1, <2>1, <2>4, <2>5
<1>6. ASSUME NEW s \in Sessions, Parse(s) PROVE InOrder'
  <2>1. /\ sess[s].pc = "parse"
        /\ \A t \in Sessions \ {s} : sess'[t] = sess[t]
        /\ sess'[s].old = sess[s].old /\ sess'[s].todo \subseteq sess[s].todo
        /\ \/ sess'[s].pc = "next"
           \/ sess'[s].pc = "replace" /\ sess'[s].path = sess[s].path
    BY <1>0, <1>6, ParseEffect DEF Parse
  <2>2. QED  BY <2>1 DEF InOrder
<1>10. ASSUME NEW s \in Sessions, Replace(s) PROVE InOrder'
  <2>1. /\ sess[s].path \in sess[s].todo /\ sess[s].todo \subseteq Paths
        /\ \A t \in sess[s].todo : sess[s].path <= t
        /\ sess[s].existing # NoVersion => sess[s].existing.path = sess[s].path
    BY <1>0, <1>10, SessionFields DEF Replace, RunningOK, InOrder
  <2>2. /\ \A t \in Sessions \ {s} : sess'[t] = sess[t]
        /\ sess'[s].pc = "next" /\ sess'[s].old = Replaced(s)
        /\ sess'[s].todo = sess[s].todo \ {sess[s].path}
    BY <1>0, <1>10, ReplaceEffect
  <2>3. \A t \in sess'[s].todo : sess[s].path < t
    BY <2>1, <2>2, PricesAssumption
  <2>4. \A q \in sess'[s].old : q \in sess[s].old \/ q.path = sess[s].path
    BY <2>1, <2>2 DEF Replaced
  <2>5. \A q \in sess'[s].old, t \in sess'[s].todo : q.path < t
    BY <2>2, <2>3, <2>4 DEF InOrder
  <2>6. QED  BY <2>2, <2>5 DEF InOrder
<1>7. ASSUME NEW s \in Sessions,
             Abort(s) \/ Commit(s) \/ \E p \in Paths : LookUpFails(s, p)
      PROVE  InOrder'
  BY <1>2, <1>7 DEF Abort, Commit, LookUpFails, Rollback
<1>8. CASE UNCHANGED vars
  BY <1>8 DEF vars, InOrder
<1>9. QED
  BY <1>3, <1>4, <1>5, <1>6, <1>7, <1>8, <1>10 DEF Next, Proceed

\* Any paths have a last one.
LEMMA LastPath ==
    ASSUME NEW T, T \subseteq Paths, T # {}
    PROVE  \E x \in T : \A y \in T : y <= x
<1> DEFINE R == OpToRel(<, Nat)
           U == {NPaths - t : t \in T}
<1>1. NPaths \in Nat  BY PricesAssumption
<1>2. \A t \in T : t \in Nat /\ NPaths - t \in Nat
  BY <1>1
<1>3. U \subseteq Nat /\ U # {}  BY <1>2
<1>4. IsWellFoundedOn(R, Nat)  BY NatLessThanWellFounded
<1>5. \A x, y \in Nat : y < x => <<y, x>> \in R  BY DEF OpToRel
<1> HIDE DEF R
<1>6. PICK u \in U : \A v \in U : ~(<<v, u>> \in R)
  <2> HIDE DEF U
  <2>1. QED  BY <1>3, <1>4, WFMin
<1>7. PICK x \in T : u = NPaths - x  OBVIOUS
<1>8. ASSUME NEW y \in T PROVE y <= x
  <2>1. NPaths - y \in U /\ ~(<<NPaths - y, u>> \in R)  BY <1>6
  <2>2. ~(NPaths - y < NPaths - x)  BY <1>2, <1>5, <1>7, <2>1
  <2>3. QED  BY <1>1, <1>2, <2>2
<1>9. QED  BY <1>8

LEMMA WaitsAhead ==
    ASSUME IInv, InOrder, NEW s \in Sessions, NEW t \in Sessions, WaitsFor(s, t),
           sess[t].pc = "replace"
    PROVE  sess[s].path < sess[t].path
<1>1. PICK q \in sess[t].old : SameRow(q, sess[s].existing)  BY DEF WaitsFor
<1>2. q.path = sess[s].path  BY <1>1 DEF WaitsFor, SameRow, IInv, RunningOK
<1>3. sess[t].path \in sess[t].todo  BY DEF IInv, RunningOK
<1>4. QED  BY <1>2, <1>3 DEF InOrder

LEMMA NoCircle == IInv /\ InOrder => NoCircularWait
<1> SUFFICES ASSUME IInv, InOrder, NEW waiting \in SUBSET Sessions, waiting # {},
                    \A s \in waiting : \E t \in waiting : WaitsFor(s, t)
             PROVE  FALSE
  BY DEF NoCircularWait
<1>1. \A s \in waiting : sess[s].pc = "replace" /\ sess[s].path \in Paths
  <2> TAKE s \in waiting
  <2>1. sess[s].pc = "replace"  BY DEF WaitsFor
  <2>2. QED  BY <2>1, SessionFields DEF IInv, RunningOK
<1> DEFINE T == {sess[s].path : s \in waiting}
<1>2. T \subseteq Paths /\ T # {}  BY <1>1
<1>3. PICK x \in T : \A y \in T : y <= x
  <2> HIDE DEF T
  <2>1. QED  BY <1>2, LastPath
<1>4. PICK s \in waiting : x = sess[s].path  OBVIOUS
<1>5. PICK t \in waiting : WaitsFor(s, t)  OBVIOUS
<1>6. sess[s].path < sess[t].path /\ sess[t].path <= sess[s].path
  BY <1>1, <1>3, <1>4, <1>5, WaitsAhead
<1>7. sess[s].path \in Nat /\ sess[t].path \in Nat  BY <1>1, PricesAssumption
<1>8. QED  BY <1>6, <1>7

\* No number of overlapping synchronizations of any number of paths deadlocks:
\* they lock the versions that they replace in the sorted order of the paths.
THEOREM NoDeadlock == Spec => []NoCircularWait
<1>1. Init => InOrder  BY IdleFields DEF Init, InOrder, Idle
<1>2. Spec => []InOrder
  BY <1>1, OrderStep, InductiveInvariant, PTL DEF Spec
<1>3. QED  BY <1>2, InductiveInvariant, NoCircle, PTL
=============================================================================
