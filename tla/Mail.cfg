\* Overlapping synchronizations and webhooks, errors and a restart.
CONSTANTS
  s1 = s1
  s2 = s2
  u1 = u1
  a1 = a1
  m1 = m1
  m2 = m2
  Users = {u1}
  Sessions = {s1, s2}
  UserOf <- MCUserOf
  NWorkers = 2
  WorkerOf <- MCWorkerOf
  Addresses = {a1}
  AddressOf <- MCAddressOf
  Monitored = {a1}
  Source = "graph"
  Messages = {m1, m2}
  Anonymous = {m2}
  MaxCopies = 2
  MaxIssued = 3
SPECIFICATION Spec
INVARIANTS
  TypeOK
  NothingTwice
  ActiveIsUsed
PROPERTIES
  BatchIsStored
