SPECIFICATION AllSpec
CONSTANTS
  None = None
  Users = {u1, u2}
  Requests = {r1, r2}
  MaxRooms = 2
  MaxMedia = 4
  MaxEvents = 7
  Guests = {g1, g2, g3}
  FirstRole = "member"
  NewRoles = {"admin", "guest"}
  MaxSteps = 3
  MaxAsked = 3
  Docs = {"doc"}
  Files = {"file"}
  Msgs = {"msg"}
  Texts = {"long", "other", "x"}
  Short = {"x"}
  MaxFaults = 1
  Learners = {"learner"}
  Cards = {1, 2}
  MaxWorks = 4
SYMMETRY Symm
INVARIANTS
  EmptyIsTimed
  JoinedStay
  OpenIsHeld
  AdminKept
  SetsFollow
  LastWordIsRemoved
  FoundByLastText
  DecksAddUp
PROPERTIES
  DeletesNobody
CHECK_DEADLOCK FALSE
