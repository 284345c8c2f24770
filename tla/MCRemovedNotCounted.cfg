SPECIFICATION Spec
CONSTANTS
  Users = {u1, u2}
  Consumers = {c1}
  MaxMsgs = 1
  MaxEvents = 1
INVARIANTS
  RemovedNotCounted
CHECK_DEADLOCK FALSE
