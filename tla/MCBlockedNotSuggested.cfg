SPECIFICATION Spec
CONSTANTS
  None = None
  Users = {u1, u2, u3}
  Moves = {m1}
  MaxMoved = 5
INVARIANT BlockedNotSuggested
CHECK_DEADLOCK FALSE
