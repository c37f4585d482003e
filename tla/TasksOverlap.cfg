\* Two users with overlapping requests about one task.
CONSTANTS
  s1 = s1
  s2 = s2
  u1 = u1
  u2 = u2
  i1 = i1
  d1 = d1
  NoUser = NoUser
  NoTask = NoTask
  Nothing = Nothing
  Users = {u1, u2}
  Sessions = {s1, s2}
  UserOf <- MCUserOf
  Items = {i1}
  Drafts = {d1}
  MaxTasks = 1
  Ops = {"create", "update", "bulk", "delete"}
  Values = {"pendiente", "completada"}
  Dues = {"never"}
SPECIFICATION Spec
INVARIANTS
  AssigneeIsTold
  CompletionIsStamped
CHECK_DEADLOCK FALSE
