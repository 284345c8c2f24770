SPECIFICATION AllSpec
CONSTANTS
  None = None
  Clients = {c1, c2}
  Devices = {d1}
  Requests = {r1, r2}
  MaxBegun = 3
  MaxFaults = 2
  alice = alice
  bob = bob
  Users = {alice, bob}
  MaxMoved = 5
  Right <- Answers
  Multiple = {1}
  Papers <- TwoPapers
  Ids = {"own", "oid"}
  MaxSubs = 4
  Docs = {doc}
  Keys = {key}
  Fields = {field}
  MaxWrites = 2
  phone = phone
  laptop = laptop
  Sockets = {phone, laptop}
  DeviceOwner <- OneEach
  Calls = {c1, c2}
  Slots = {r1, r2}
  MaxEvents = 3
SYMMETRY Symm
INVARIANTS
  TokensMirrored
  FriendsAgree
  LastCounts
  StaleIsExplained
  MarkersFollow
PROPERTIES
  NoSecondLife
  LiveNotMissed
CHECK_DEADLOCK FALSE
