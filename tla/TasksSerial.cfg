\* One user, one request at a time; two tasks may be created.
CONSTANTS
  s1 = s1
  s2 = s2
  u1 = u1
  u2 = u2
  i1 = i1
  d1 = d1
  NoUser = NoUser
  NoTask = NoTask
  Nothing = Nothing
  Users = {u1}
  Sessions = {s1}
  UserOf <- MCUserOf
  Items = {i1}
  Drafts = {d1}
  MaxTasks = 2
  Ops = {"create", "update", "due", "delete", "requirement", "economic", "draft"}
  Values = {"pendiente", "completada"}
  Dues = {"soon"}
SPECIFICATION Spec
INVARIANTS
  TypeOK
  DueNoticeOnce
  DraftOwnsItsTask
PROPERTIES
  OneActiveTask
CHECK_DEADLOCK FALSE
