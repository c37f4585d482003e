\* One scheduler, a user, and a tenant whose downloads may fail for ever.
CONSTANTS
  t1 = t1
  t2 = t2
  c1 = c1
  c2 = c2
  w1 = w1
  w2 = w2
  u1 = u1
  NoTenant = NoTenant
  Schedule = Schedule
  Tenants = {t1, t2}
  Codes = {c1, c2}
  Expired = {c2}
  Workers = {w1}
  Users = {u1}
  MaxPages = 1
  Overlap = FALSE
  Unreliable = {t1}
  MaxCrashes = 0
SPECIFICATION FairSpec
PROPERTIES
  DueIsServed
