-------------------------------- MODULE MCRooms --------------------------------
(* Instances of the SFU's media rooms, of the chat service's rooms, of the search  *)
(* index and of the flashcards, which share no state: each behaviour is one's.   *)
EXTENDS SfuRooms, TLC

CONSTANTS Guests, FirstRole, NewRoles, MaxSteps, MaxAsked,
          Docs, Files, Msgs, Texts, Short, MaxFaults, Learners, Cards, MaxWorks

VARIABLES room, members, pair, rooms, warm, synced, queued, feed, asked, steps,
          mixed, feedMixed, unled

VARIABLES index, last, shown, task, met, failed, sought, faults

VARIABLES deck, total, card, known, work, vague, worked

VARIABLE part

AllOps == {"create", "leave", "kick", "add", "role", "edit", "pin", "clear", "connect"}

\* The instances share model values: TLC permutes few of them.
Chat == INSTANCE Rooms WITH
  Users <- Guests, Ops <- AllOps, MaxEvents <- MaxSteps, jobs <- queued,
  req <- asked, events <- steps

Index == INSTANCE Embeddings WITH
  Jobs <- Requests, job <- task, crossed <- met, asked <- sought

Flash == INSTANCE Flashcards WITH Decks <- Users, Works <- Requests

ASSUME InstancesAssumption ==
  Chat!ConstantsAssumption /\ Index!ConstantsAssumption /\ Flash!ConstantsAssumption

-------------------------------------------------------------------------------
chat == <<room, members, pair, rooms, warm, synced, queued, feed, asked, steps,
          mixed, feedMixed, unled>>
search == <<index, last, shown, task, met, failed, sought, faults>>
flash == <<deck, total, card, known, work, vague, worked>>
allVars == <<vars, chat, search, flash, part>>

\* A part at rest has no state.
ChatRests ==
  /\ room = 0 /\ members = 0 /\ pair = 0 /\ rooms = 0 /\ warm = 0 /\ synced = 0
  /\ queued = 0 /\ feed = 0 /\ asked = 0 /\ steps = 0 /\ mixed = 0 /\ feedMixed = 0
  /\ unled = 0
IndexRests ==
  /\ index = 0 /\ last = 0 /\ shown = 0 /\ task = 0 /\ met = 0 /\ failed = 0
  /\ sought = 0 /\ faults = 0
FlashRests ==
  /\ deck = 0 /\ total = 0 /\ card = 0 /\ known = 0 /\ work = 0 /\ vague = 0
  /\ worked = 0

AllInit ==
  /\ part \in {"sfu", "chat", "search", "cards"}
  /\ Init
  /\ IF part = "chat" THEN Chat!Init ELSE ChatRests
  /\ IF part = "search" THEN Index!Init ELSE IndexRests
  /\ IF part = "cards" THEN Flash!Init ELSE FlashRests

AllNext ==
  \/ part = "sfu" /\ Next /\ UNCHANGED <<chat, search, flash, part>>
  \/ part = "chat" /\ Chat!Next /\ UNCHANGED <<vars, search, flash, part>>
  \/ part = "search" /\ Index!Next /\ UNCHANGED <<vars, chat, flash, part>>
  \/ part = "cards" /\ Flash!Next /\ UNCHANGED <<vars, chat, search, part>>

AllSpec == AllInit /\ [][AllNext]_allVars

Symm == Permutations(Users) \union Permutations(Requests) \union Permutations(Guests)

-------------------------------------------------------------------------------
(* The properties of the parts. *)

\* A group that has members keeps an admin, unless the last was demoted or a request
\* acted on an outdated copy (rooms.service.ts, leaveRoom and removeMembers).
AdminKept == part = "chat" => Chat!AdminKept

\* Every variable has a value of its type, and ROOM_MEMBERS and USER_ROOMS follow the
\* room's document (rooms.service.ts, the sAdd, sRem and queued jobs of each handler).
SetsFollow == part = "chat" =>
  Chat!TypeOK /\ Chat!SetFollowsRoom /\ Chat!LoadedRoomsAreComplete

\* Who is out of the room was last told so (rooms.service.ts, emitRoomRemoved).
LastWordIsRemoved == part = "chat" => Chat!LastWordIsRemoved

\* A room is not deleted under its members (rooms.service.ts, leaveRoom).
DeletesNobody == Chat!DeletesNobody

\* Search finds a document or a file by its last text alone, unless two requests about
\* it met, and always by one (embedding.service.ts, createEmbedding).
FoundByLastText == part = "search" =>
  Index!TypeOK /\ Index!SearchedUnderLastText /\ Index!NeverLost

\* A deck's number is that of its cards, and its progress tells of each card once
\* (flashcard.service.ts, syncDeckTotalCards and getDeckProgressStats).
DecksAddUp == part = "cards" => Flash!TypeOK /\ Flash!TotalIsCount /\ Flash!ProgressAddsUp
===============================================================================
