SPECIFICATION AllSpec
CONSTANTS
  Users = {u1}
  Rooms = {r1}
  Cap = 1
  Limit = 1
  MaxSeq = 3
  MaxFaults = 1
  Asks = {a1, a2, a3}
  Spoken = {a3}
  Voices = {v1}
  Nobody = Nobody
  MaxChunks = 1
  MaxAskFaults = 1
  Names = {"a", "b"}
  MaxTries = 2
  MaxTime = 1
  MaxPutFaults = 3
  alice = alice
  bob = bob
  phone = phone
  People = {alice, bob}
  Devices = {phone, laptop, tablet}
  DeviceOwner <- TwoOwners
  Mode = "sfu"
  Calls = {c1, c2}
  Slots = {a1, a2}
  MaxCalls = 2
SYMMETRY Symm
INVARIANTS
  SkipsOnlyTheLate
  TranscribedOnce
  OpensItsFile
  DevicesAgree
PROPERTIES
  CutIsFlagged
CHECK_DEADLOCK FALSE
