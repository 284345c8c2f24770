SPECIFICATION Spec
CONSTANTS
  Instances = {i1, i2}
  Docs = {d1, d2}
  Keys = {k1}
  Fields = {f1}
  Queries <- Lookups
  None = None
  RedisFails = FALSE
  MaxWrites = 2
INVARIANT FindsItsDocument
CHECK_DEADLOCK FALSE
