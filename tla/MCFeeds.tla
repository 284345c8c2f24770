-------------------------------- MODULE MCFeeds --------------------------------
(* Instances of the change feed, of the AI service's requests, of the files of a  *)
(* room and of a user's devices in a call, which share no state: each behaviour is *)
(* of one of them.                                                                *)
EXTENDS ChangeFeed, TLC

CONSTANTS Asks, Spoken, Voices, Nobody, MaxChunks, MaxAskFaults,
          Names, MaxTries, MaxTime, MaxPutFaults,
          People, Devices, DeviceOwner, Mode, Calls, Slots, MaxCalls,
          alice, bob, phone

VARIABLES ask, transcript, made, earlier, unsaved, askFaults

VARIABLES att, object, up, late, clock, crowded, twins, deleted, putFaults

VARIABLES status, endedAt, inCall, callSock, invites, jobs, present, index, lock,
          flags, online, holds, task, calls, met, cut, asked

VARIABLE part

\* Three requests, which may all be for one voice message; one of them is for no other.
Model == INSTANCE Assistant WITH
  None <- Nobody, MaxFaults <- MaxAskFaults, faults <- askFaults

\* Two files with names of which one is the other's, and an id for them to share. The
\* instances share model values: TLC permutes few of them.
Store == INSTANCE Attachments WITH
  None <- Nobody, Uploads <- Slots, Ids <- Voices, MaxFaults <- MaxPutFaults, faults <- putFaults

\* Alice has a phone; Bob, the rest of the devices.
TwoOwners == [s \in Devices |-> IF s = phone THEN alice ELSE bob]

\* The chat service may fail to answer.
Gateway == INSTANCE CallGateway WITH
  None <- Nobody, Users <- People, Sockets <- Devices, Owner <- DeviceOwner,
  MaxEvents <- MaxCalls, RoomsAtDrop <- BOOLEAN, GrpcFails <- TRUE,
  parts <- present, up <- online, events <- calls

ASSUME ModelAssumption == Model!ConstantsAssumption
ASSUME StoreAssumption == Store!ConstantsAssumption
ASSUME GatewayAssumption == Gateway!ConstantsAssumption

-------------------------------------------------------------------------------
model == <<ask, transcript, made, earlier, unsaved, askFaults>>
store == <<att, object, up, late, clock, crowded, twins, deleted, putFaults>>
devices == <<status, endedAt, inCall, callSock, invites, jobs, present, index, lock,
             flags, online, holds, task, calls, met, cut, asked>>
allVars == <<vars, model, store, devices, part>>

\* A part at rest has no state.
ModelRests ==
  /\ ask = 0 /\ transcript = 0 /\ made = 0 /\ earlier = 0 /\ unsaved = 0 /\ askFaults = 0
StoreRests ==
  /\ att = 0 /\ object = 0 /\ up = 0 /\ late = 0 /\ clock = 0
  /\ crowded = 0 /\ twins = 0 /\ deleted = 0 /\ putFaults = 0
GatewayRests ==
  /\ status = 0 /\ endedAt = 0 /\ inCall = 0 /\ callSock = 0 /\ invites = 0
  /\ jobs = 0 /\ present = 0 /\ index = 0 /\ lock = 0 /\ flags = 0 /\ online = 0
  /\ holds = 0 /\ task = 0 /\ calls = 0
  /\ met = 0 /\ cut = 0 /\ asked = 0

AllInit ==
  /\ part \in {"changes", "assistant", "files", "devices"}
  /\ Init
  /\ IF part = "assistant" THEN Model!Init ELSE ModelRests
  /\ IF part = "files" THEN Store!Init ELSE StoreRests
  /\ IF part = "devices" THEN Gateway!Init ELSE GatewayRests

AllNext ==
  \/ part = "changes" /\ Next /\ UNCHANGED <<model, store, devices, part>>
  \/ part = "assistant" /\ Model!Next /\ UNCHANGED <<vars, store, devices, part>>
  \/ part = "files" /\ Store!Next /\ UNCHANGED <<vars, model, devices, part>>
  \/ part = "devices" /\ Gateway!Next /\ UNCHANGED <<vars, model, store, part>>

AllSpec == AllInit /\ [][AllNext]_allVars

Symm == Permutations(Slots)

-------------------------------------------------------------------------------
(* The properties of the parts. *)

\* Every variable has a value of its type, and a pull skips only what was written
\* late (change-feed.service.ts, getChanges).
SkipsOnlyTheLate == TypeOK /\ HiddenOnlyIfLate

\* A voice message whose text is saved is not transcribed again
\* (ai.service.ts, transcribeAttachment).
TranscribedOnce == part = "assistant" => Model!TypeOK /\ Model!TranscribedOnce

\* What is listed as uploaded can be opened, and is the file that was sent
\* (filesystem.service.ts, uploadFileForRoom).
OpensItsFile == part = "files" => Store!TypeOK /\ Store!OpensItsFile

\* The participant sets and the reverse index agree, and one device of a user
\* shows a call (call.gateway.ts, addCallParticipant and claimCallSocket).
DevicesAgree == part = "devices" => Gateway!Lockstep /\ Gateway!OneDevice
===============================================================================
