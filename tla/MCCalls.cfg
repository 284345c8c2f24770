SPECIFICATION AllSpec
CONSTANTS
  None = None
  alice = alice
  bob = bob
  Users = {alice, bob}
  Requests = {r1, r2}
  phone = phone
  laptop = laptop
  Sockets = {phone, laptop}
  DeviceOwner <- OneEach
  Calls = {c1, c2}
  Slots = {t1, t2}
  MaxEvents = 2
INVARIANTS
  EndedLoggedOnce
  DesertedIsClosed
  LeaverHadJoined
PROPERTIES
  RingEnds
  TellsTheStory
  DesertedGetsClosed
CHECK_DEADLOCK FALSE
