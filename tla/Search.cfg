\* Two searches that overlap, one invalidation.
CONSTANTS
  s1 = s1
  s2 = s2
  c1 = c1
  c2 = c2
  NoOne = NoOne
  Sessions = {s1, s2}
  Companies = {c1}
  Filters = {"all"}
  ResponseTTL = 1
  SliceTTL <- MCSliceTTL
  SyncInterval = 1
  Patience = 1
  MaxTime = 3
  MaxVersion = 1
SPECIFICATION Spec
SYMMETRY MCSymmetry
INVARIANTS
  TypeOK
  IndexAsOldAsItSays
  InvalidationHolds
PROPERTIES
  AnswersAreFresh
\* Time ends at MaxTime, and with it what may happen.
CHECK_DEADLOCK FALSE
