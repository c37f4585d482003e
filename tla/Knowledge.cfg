\* Two synchronizations of one document that is replaced as days pass.
CONSTANTS
  s1 = s1
  s2 = s2
  p1 = p1
  p2 = p2
  old = old
  new = new
  Absent = Absent
  Undated = Undated
  Sessions = {s1, s2}
  Paths = {p1}
  Corporate = {}
  Versions = {old, new}
  Naming = {new}
  UntilOf <- MCUntilOf
  MaxDay = 1
  MaxEdits = 3
  MaxSyncs = 3
  Warning = 0
SPECIFICATION Spec
SYMMETRY MCSymmetry
INVARIANTS
  TypeOK
  AlertsAreRaised
  OneAlertOfAType
  SyncRepairs
\* Everything has happened after the last synchronization.
CHECK_DEADLOCK FALSE
