\* Two processes and two tenants; pages may repeat codes, one of which is
\* over, and one process may crash.
CONSTANTS
  t1 = t1
  t2 = t2
  c1 = c1
  c2 = c2
  w1 = w1
  w2 = w2
  u1 = u1
  NoTenant = NoTenant
  Schedule = Schedule
  Tenants = {t1, t2}
  Codes = {c1, c2}
  Expired = {c2}
  Workers = {w1, w2}
  Users = {}
  MaxPages = 2
  Overlap = TRUE
  Unreliable = {}
  MaxCrashes = 1
SPECIFICATION Spec
SYMMETRY MCSymmetry
INVARIANTS
  TypeOK
PROPERTIES
  FailedStaysDue
  RunsAreImports
