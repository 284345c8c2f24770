SPECIFICATION AllSpec
CONSTANTS
  Sockets = {s1}
  Sweepers = {w1, w2}
  Faulty = {s1}
  Blips = {s1}
  MaxCrashes = 1
  None = None
  Instances = {i1, i2}
  Docs = {d1}
  Keys = {k1}
  Fields = {f1}
  MaxWrites = 1
INVARIANTS
  CleanExit
PROPERTIES
  PresenceHeals
  Heals
CHECK_DEADLOCK FALSE
