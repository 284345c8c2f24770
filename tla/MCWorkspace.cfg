SPECIFICATION AllSpec
CONSTANTS
  None = None
  Gone = Gone
  u1 = u1
  u2 = u2
  Users = {u1, u2}
  Member <- Roles2
  Docs = {d1, d2}
  Edits = {e1, e2}
  Requests = {r1, r2}
  MaxBegun = 4
  MaxMade = 1
  Todos = {t1}
  todo0 = todo0
  done = done
  Defaults <- TwoColumns
  Names = {todo0, done}
  MaxJobs = 3
SYMMETRY Symm
INVARIANTS
  DocumentsKept
  NothingMissed
  RoleIsLastGiven
  ListedOpens
  BoardsOrdered
  TodoFits
CHECK_DEADLOCK FALSE
