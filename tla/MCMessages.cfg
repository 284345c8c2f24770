SPECIFICATION Spec
CONSTANTS
  Users = {u1, u2}
  Consumers = {c1, c2}
  MaxMsgs = 2
  MaxEvents = 2
SYMMETRY Symm
INVARIANTS
  CountedExactlyOnce
  NewsIsCounted
  PreviewIsLast
CHECK_DEADLOCK FALSE
