SPECIFICATION Spec
CONSTANTS
  None = None
  Users = {u1, u2}
  Right <- Answers
  Multiple = {1}
  Papers <- TwoPapers
  Ids = {"own", "oid"}
  Subs = {s1, s2}
  MaxSubs = 2
SYMMETRY Symm
INVARIANTS SubmittedIsKept
CHECK_DEADLOCK FALSE
