# Verification of app-nest-be

TLA+ models of the concurrent core of this backend (NestJS services around
MongoDB, Redis, Kafka, Bull and mediasoup), the TLC runs that check them on small
instances, and TLAPS proofs for every instance. Paths below are relative to the
repository (`src/` here); `PROJECT.json` maps every definition to its lines.

    tlc -workers 2 -config MCRooms.cfg MCRooms     # a run; PROJECT.json lists them
    tlapm SfuRoomsProofs.tla                       # the proofs of a module

## 1. The system

Nine Node processes behind an API gateway. REST requests enter `api-gateway`,
WebSocket events `socket`; both forward them over gRPC to `auth`, `chat`,
`filesystem`, `learning`, `ai`, `notification` and, for media, `sfu`. Services tell
each other what happened over Kafka (at least once, ordered within a partition), run
delayed work on Bull queues, and reach clients through Redis: sockets of every
gateway instance share rooms by the Redis adapter. MongoDB holds 17 collections.
None of the flows below uses a Mongo transaction or a Redis script: each is a
sequence of single commands with an `await` between them, and every await is a place
where another request, another process or a crash may come in. RedisService catches
every error and answers with an empty value, so a failed command looks like a key
that is not there.

| component | state it keeps | operations | correct when | status |
|---|---|---|---|---|
| Call record (`chat/handle-chat`) | `CallHistories`: members' statuses, `ended_at`; room log | requestCall, acceptCall, endCall | the end of a call is announced once; a deserted call gets closed; nobody who was not in it "leaves" | modelled: CallHistory |
| Presence (`socket/ws/presence`) | `USER_ONLINE`, `SOCKET_ALIVE` | connect, register, heartbeat, unregister, cron sweep | a clean drop leaves nothing; ghosts go, live sockets come back | modelled: Presence |
| Call gateway (`socket/call`) | `USER_IN_CALL`, `USER_CALL_SOCKET`, pending invites, participant sets with a reverse index, accept locks, auto-miss jobs | call:request, accept, join, end, toggles, disconnect, auto-miss | markers never lock a user out; the sets mirror each other; ringing ends; one device per call | partly: CallGateway |
| Change feed (`chat/change-feed`) | `CHANGE_SEQ`, `UserChangeEvents`, topic OUTBOX_APPEND, dirty set | nextSeq, publish, consume, trim, TTL, pull | a client that pulls above its cursor misses nothing it is not told to resync for | modelled: ChangeFeed |
| Entity cache (`libs/db/cache`) | L1 map per process, L2 entries, reverse index, subscriber | getOrLoad, invalidate, expiry, reconnect | no copy of an old document survives an invalidation | modelled: EntityCache |
| Messages (`chat/handle-chat`) | `Messages`, `MSG_PROCESSED`, `UNREAD`, `UNREAD_DIRTY`, `RoomsUsersState`, `RoomsState` | create, tail, markReadUpTo, hide, delete, flush | every message counts once; a badge loses no news; the preview is the last message | partly: MessageTail |
| Rooms (`chat/rooms`) | `Rooms.room_members`, `ROOM_MEMBERS`, `USER_ROOMS`, `USER_ROOMS_SYNCED`, sync jobs | create, add, kick, leave, change role, edit, pin, clear, connect | document, sets and feed agree on who is a member; a group keeps an admin | partly: Rooms |
| SFU (`sfu/room`, `sfu/transport`) | rooms, participants, transports, producers, consumers, pending closes of one process | join, transport, produce, consume, leave, close | who joined stays in an open room; what nobody holds is closed | partly: SfuRooms |
| Sessions (`auth/auth.service`) | `Keys`, `REFRESH_TOKEN` blacklist, `USER_FCM_TOKENS` | login, refresh, three logouts, start-up resync | a spent pair has no second life; the push mirror follows the sessions | partly: Sessions |
| Friendship (`chat/social`) | `Friendships`, one document per pair; private rooms | request, accept, reject, remove, block, open; suggestions | friends both said yes and have their room; nobody blocked is suggested | modelled: Friendship |
| Documents, doc gateway (`filesystem/documents`, `socket/doc`) | documents with entries of users and a Yjs snapshot; socket rooms | create, open, edit, save, share, unshare, show, copy, delete | an answered save is kept; an open editor misses nothing; roles follow the owner | partly: Documents |
| File storage (`filesystem`) | `Attachments`, object store | upload with retries, list, delete | what is listed as uploaded opens and is the file that was sent | partly: Attachments |
| Learning (`learning`) | projects with columns, todos; quizzes with results; decks, cards, progress | CRUD, reorder, submit, clone, count | columns stay in order; a todo is in one; the leaderboard and the counts tell the truth | partly: Boards, Quizzes, Flashcards |
| AI: assistant (`ai/google.provider`, `ai.service`) | transcripts | seven kinds of request, at once or streamed; transcription | a voice message whose text is saved is not transcribed again | partly: Assistant |
| AI: usage records (`ai/ai-log-use`) | `AIUsageLogs`, its topic | write, report | | not modelled: written by the call they tell of, each by itself |
| AI: embeddings (`ai/embedding.service`) | `AIEmbeddings` under a unique hash | embed messages, documents, files; search | search finds an item by its last text, and always by one | partly: Embeddings |
| One-time passwords, profile, search (`auth`) | `Otps`, `Users` | sendOtp, verifyOtp, register, updateProfile | an OTP is used once; one account per address | not modelled |
| Edge auth (middlewares, cookies, socket guard) | none | verify, sign | | the blacklist check is in Sessions |
| Chat gateway (`socket/chat`) | none of its own | relays to `chat` | | its presence and rebuild calls are in Presence, Rooms |
| Notifications | `Notifications` | push, mail, in-app | | not modelled: external deliveries |
| Message query pipeline (`Pipeline/getMsg.ts`) | none | paging, visibility | | not modelled: one aggregation that reads |
| Speech-to-text relay | subscriptions in one process | subscribe, audio | | not modelled |
| REST controllers; Redis, Kafka, gRPC plumbing; DTOs; scripts | none | | | inside the actions that use them |

How the modelled components meet: the call gateway asks the chat service to accept
and end calls (CallGateway has the call record as `status` and `endedAt`, reduced to
what CallHistory's requests leave behind when they are not interleaved); messages,
rooms and reads publish changes (ChangeFeed; in Rooms each user's last one is
`feed`); connect handlers of the chat gateway drive Presence and the rebuild of
`USER_ROOMS`; every lookup of a room or user goes through EntityCache; notifications
read the push tokens that Sessions mirrors.

What is hard here and where it is handled:

  - interleaving at awaits: one action per command everywhere (two requests at a time
    in CallHistory, Rooms, SfuRooms, Sessions, Friendship, Documents, Boards, Quizzes,
    Flashcards; readers and writers of all instances in EntityCache);
  - at-least-once delivery, moves of a partition, restarts: ChangeFeed, MessageTail,
    Embeddings (unordered: its events have no key); events that are lost because nobody
    waits for them: Embeddings, Attachments;
  - crashes: Presence, MessageTail, SfuRooms (a media worker), Sessions; failed reads:
    Presence; failed reads and writes: EntityCache, ChangeFeed, MessageTail (its calls of
    Redis, those whose error RedisService swallows included, and of MongoDB), Attachments,
    Rooms (requests that die), Sessions;
  - timers and late answers: the auto-miss job and gRPC timeouts (CallGateway), the
    pending close and the worker's answers (SfuRooms), TTLs (Presence, EntityCache,
    ChangeFeed), retried and late puts (Attachments), callers that give up (Assistant);
  - things that must happen: a deserted call closes, ringing ends, ghosts go, caches
    heal.

PROJECT.json lists each hazard at its line with the properties that cover it.

## 2. The modules

Conventions. A module has the state of its component as VARIABLES, one action per
await (what the code does between two awaits is one step: Node runs it without
interruption), `req`, `task`, `proc` and the like for the handlers in progress and
the locals they carry over awaits, and `hist`, `late`, `unled`, `unsure`... for history
variables, which no guard reads. Redis commands that are issued in one tick on one
connection are one step. Names of actions are those of the code's functions, or of
the command. A definition marked `Mutant` is a plausible bug of the definition that
follows; it is never used by a specification, and each property was seen to fail with
its mutant.

**CallHistory** is one call's document. `RequestCall` creates it with a set of members;
`AcceptRead/Start/Log` and `EndRead/Flip/Refetch/Stamp/Log` are the steps of AcceptCall and
EndCall (handle-chat.service.ts): read, flip one member, re-read, set `ended_at` if it
is still unset, log. A request carries its copy of the statuses.

**Presence** is one user: `online` is the set, `alive` the per-socket keys, `proc`
what register or a sweeper's cleanup is doing, `unreg` and `beat` the two other
handlers of a socket. Faulty readers may get an empty answer; Blips are sockets whose
heartbeat may be later than the TTL.

**CallGateway** composes the /call gateway, its Bull jobs and the effect of the gRPC
requests on the call record. A task is a running handler: its queue of steps follows the
handler's awaits, which **CallScripts** lists. `holds` is what a client shows, from the
answers and events it got. Three history variables say of which calls the safety
properties speak: `met` are those that had two handlers at once, `cut` those that had one
beside a handleDisconnect, `asked` those that were requested. Relays that keep no state
are left out.

**ChangeFeed** has the counter, the topic with its offsets, the consumer (write rows, mark
dirty), the trim job, the TTL, the paged pull and the client's cursor. A change is
addressed to a set of users and may carry a compaction mark (room of a new message).
A number is taken and published in two steps, so numbers arrive out of order. A user's rows
stand in the order of their last write; a page is the set of the changes in it.
`Restart` rewinds the consumer to any offset from the last certain commit on.

**EntityCache** has each process's L1 with its subscriber connection, the shared L2 and
the index of keys by document id. A copy is `[doc, old, risky]`: *old* when the
document was written since it was loaded, *risky* (history) when it was set while a write
or invalidation was under way, or a Redis command about it failed.

**MessageTail** is one room. `queue`/`position`/`owner` are the Kafka partition, keyed by
room; `tail[c]` is handleMessagePersisted in a process: check the mark, set it, the
recipients' counts, then the preview, the sender's state and the dirty marks in
parallel. Each of these calls may fail: a pipeline of counts may add to some badges only, or
to none, and the tail goes on, since RedisService swallows the error (`CountFails`). A mark
may run out. `read`, `recount`, `deleting` and `flush` are the other writers of a badge.

**Rooms** is one group. `room` is the array of members with roles in joining order; the sets
in Redis, the queued jobs and each user's last change event are kept beside it by every
request in its own order. A request works with the copy (`view`) it has read and the
model keeps the copy.

**SfuRooms** is one call's room in the media server. Everything a handler does without
waiting for a mediasoup worker is one step; what waits (`createRouter`, transports,
producers, consumers) is filed when the answer arrives, in whatever room is then
registered. Room objects and media are numbered in the order they are created. `inside`
(history) are the users who were told that they joined the registered room and have not left.

**Sessions** is one user's device sessions: `keys` the Keys documents by clientId,
`black` the blacklist in Redis, `push` the mirror of the push tokens, `pairs` the session
of every token pair issued so far, by jti (None: from before the sessions). `Flush` is Redis
coming back without its data, `Abort` a request that dies with its process.

**CallStory** is the promise of a call: it is made, joined, left by those who joined, over
once, and its end told once. CallHistory implements it (`Story`, with `phase`, `joined` and
`told` computed from the record), as a property of the run calls and as a theorem.

**Friendship** has a Friendships document per pair (`bond`), the private rooms (`talk`) and the
requests in progress (`move`): a request reads the document and, in a later step, writes what
it has decided; an accept writes, makes the room, and takes its write back if the room
fails. `strays` are the documents that a block without a pair inserts. `Suggested` is the
aggregation of getFriendSuggestions.

**Documents** has the documents (owner, visibility, the entries of each user in order,
snapshot), one socket per user with the document in its editor, and requests of REST and
of the /doc gateway that read, check and write. Content is a set of edits: Yjs merges by union.

**Boards** keeps Mongoose's semantics of saving an array: a push is always stored, a
replacement or a field only if the version is the one read. Columns are numbered after a stable
sort, as the code's. A todo is checked against a project that may change before it is written;
without one the default project is looked for, twice if its first column is asked for as well.
Two history variables say which todos may be in no column: `loose`, if since it was checked a
column was dropped, renamed or moved or the board deleted, and `split`, if it was last written
by an update that names its project or its status alone, when the other half was no longer the
one it had been checked with.

**Quizzes** is one quiz under its two names; `Grade` is the code's marking, compared with the
definition of a right answer by LastCounts. `lost` (history) are the users whose last
submission was written under a name that was not the quiz_id stored then. **Flashcards** counts
a deck's cards after each change as the code does, and has the progress as the code's
aggregation computes it.

**Attachments** is the upload of files to a room: record (found under the client's id, or
made), put with its retries and timeouts, mark as uploaded or failed, event. A write of the
record may fail, having been done or not; the event may be lost, which nobody is told. An
object may be deleted, which its record does not know. **Assistant** has a request from the
gateway to the model and back, for each kind what it refuses and whether it streams, and the
transcript of a voice attachment.

**Embeddings** has the index by the hash of a text, and the requests that screen, delete, look
up, embed and insert; a file is summarised first and its room sent the summary. An item is saved
and its event sent in two steps, and the event, or that of a summary, may be lost. Requests
come redelivered, in any order, and beside each other.

The modules named MC... give instances. TLC checks a behaviour of one part at a time: `part` is
chosen at the start, and the others stay at rest, without a state, so that the parts add up
instead of multiplying. This is sound because the parts share no variable; what it leaves out
are the compositions, which are modelled within one module where the code has them. Parts share
some model values, as constants of different meaning (`Requests` serve as every part's
requests), which keeps the symmetry group small: TLC permutes all of a state for each element
of it. Users, items, roles and bounds of an instance are CONSTANTS of the MC module with the
assumptions of the part's own module, and their values stand in the .cfg, so that the theorems
of section 4 are about all of them. What an MC module fixes is the fork of the code it is
about: the gateway's media mode in MCCalls and MCServices, and whether gRPC fails (in MCFeeds
only).

## 3. What the runs check

| run | parts and instances | distinct states | shows |
|---|---|---|---|
| calls | call record: 2 users, 2 requests; call gateway: a device each, 2 group calls, 2 client events, 2 handlers at once | 73,208 | EndedLoggedOnce, DesertedIsClosed, LeaverHadJoined, TellsTheStory (refinement); under fairness DesertedGetsClosed, RingEnds |
| expiry | presence: 1 socket with late heartbeats and failing reads, 2 sweepers, 1 crash; entity cache: 2 processes, 1 document, 1 write, failing Redis | 156,737 | CleanExit; under fairness PresenceHeals (ghosts are pruned, a heartbeat heals), Heals |
| feeds | change feed: 1 user, 3 changes, cap 1, pages of 1, 1 fault; assistant: 3 requests, 1 of them for a voice message only, 1 fault; uploads: 2 files, 2 names, 1 id, 3 faults; call gateway: a user with a device and one with two, 2 calls, 2 client events, 2 handlers at once, failing gRPC | 2,386,181 | SkipsOnlyTheLate, CutIsFlagged, TranscribedOnce, OpensItsFile, DevicesAgree (Lockstep, OneDevice) |
| messages | 2 users, 2 processes, 2 messages, 2 events | 2,034,567 | CountedExactlyOnce (CountedOnce, TailRuns), NewsIsCounted, PreviewIsLast |
| rooms | media room: 2 users, 2 waiting handlers, 2 room objects, 4 media, 7 events; group: 3 users, 2 requests at a time, 3 weighted events; search: a document, a file and a message, 3 texts, 3 requests, 1 fault; decks: 2 decks, 2 cards, 4 requests | 723,439 | EmptyIsTimed, OpenIsHeld, JoinedStay; AdminKept, SetsFollow (SetFollowsRoom, LoadedRoomsAreComplete), LastWordIsRemoved, DeletesNobody; FoundByLastText (SearchedUnderLastText, NeverLost), DecksAddUp (TotalIsCount, ProgressAddsUp) |
| services | sessions: 2 sessions, 1 push token, 3 requests, 2 faults; friends: 2 users, 5 requests; quiz: 2 users, 4 submissions, both names; entity cache: 2 processes, 2 writes, failing Redis; call gateway: a device each, 2 group calls, 3 client events, 2 handlers at once | 793,934 | TokensMirrored, NoSecondLife, FriendsAgree (Consent, AcceptedHaveRoom), LastCounts, StaleIsExplained, MarkersFollow (NoPhantomInvite, NotLockedOut), LiveNotMissed |
| workspace | documents: 2 users (a member and a guest of the room), a document and a copy, 2 edits, 4 requests; boards: 2 projects, 1 todo, 3 requests | 833,701 | DocumentsKept (SavesAreKept), NothingMissed, RoleIsLastGiven, ListedOpens, BoardsOrdered (KeepsAColumn, NumberedInOrder), TodoFits |
| cache_peer_key | entity cache: 2 documents, 1 key | violation | FindsItsDocument |
| hidden_still_counted | messages: 1 process, 1 message, 1 event | violation | RemovedNotCounted |
| blocked_not_suggested | friends: 3 users | violation | BlockedNotSuggested |
| submission_under_id | quiz: 2 submissions, both names | violation | SubmittedIsKept |
| docs_out_of_order | search: 1 document, 2 texts, 3 requests | violation | HarmlessOrder |

The violations are explained in section 5. The TypeOK of each part is a conjunct of one of the
properties named, but for those of the call record, of Presence and of the media room (in
calls, expiry and rooms), which are theorems only (TypeCorrect); the gateway's and the entity
cache's are checked in services, and not again in calls, feeds and expiry. Two requests of a
component run at a time unless said otherwise. Runs with a SYMMETRY check no liveness. Deadlock
is not checked: every model ends when its bounds are used up, and the real system may be idle.

Why the bounds are enough for what the properties say, and what they leave out:

  - *call record*: a property speaks of two racing requests and of the users they are about.
    With a third user, "others are still in the call" differs from "nobody is": 333,240
    states without the story, and the proofs remove the bound.
  - *call gateway*: two calls let a user be invited to one and be in another; one user's
    two devices hand one call to each other; two handlers run at once. The properties
    speak of each call whose own handlers never met (`met`; for the participant sets, nor
    ran beside a handleDisconnect, `cut`), whatever the handlers of other calls do
    meanwhile: two handlers of one call do break them, as section 5 lists. OneDevice
    speaks of a call that is the only one requested (`asked`), since ending another call
    takes its members' markers away. A handoff takes two events (a request from one device,
    a join from the other); the properties hold as well with four events and one handler at
    a time (267,881 states), and with three, two handlers and one call (349,124).
  - *presence*: users share no key and sockets of a user only meet in the set; two
    sweepers make one act on what the other has changed. CleanExit is proved for any
    number of sockets.
  - *change feed*: cap, page and fault bounds of 1 with 3 changes reach compaction,
    capping, paging, late arrivals and redelivery. With two faults the model has
    8,414,398 states and the properties hold; the run keeps one to stay short, and the
    proofs remove the bounds.
  - *entity cache*: two processes are reader and writer on each side of a lost message; a
    second write makes an invalidation overtake another. Heals needs one.
  - *messages*: a redelivery or a move beside the running tail, with one more message for the
    order.
  - *group*: three users are two admins and a member (or kicker, kicked and adder).
  - *media room*: two room objects are needed for a handler that outlives its room.
  - *sessions*: three requests are a refresh of a pair from before, the reuse of the spent pair
    and one that interferes, or a login, a refresh and the reuse. With four and one fault there
    are 574,628 states, with five 4,852,169, and the properties hold.
  - *friends*: a document is about two users, and five requests are an ask, two answers that
    cross, and what either does next; only the suggestions need a third user.
  - *documents*: making one, and three requests: two saves that overlap and an open, or the
    owner's change of a role beside a first visit; a copy is the second document.
  - *boards, decks*: the second project or deck is where a todo or card moves to.
  - *quiz*: two questions, of one and of several answers, and two papers, one of which
    answers the second question wrong: a retake changes the mark. The quiz is asked for under
    both its names.
  - *search*: three requests are two about one item and one about another that says the same;
    one text is too short to be embedded.
  - *assistant, uploads*: three requests, all of which may be for one voice message (one is
    for nothing else): two that meet and one that comes after; two files that share a name or
    a record; faults are what makes a call fail, a write be done or not, a put be late.

### Fairness

`WF_vars(Continue(r))` (CallHistory), of the handlers in Presence, of tasks in CallGateway,
reads and invalidations in EntityCache: a request once begun is served to its end, which is
what the Node event loop does with a chain of awaits; no client is assumed to send anything.
Presence adds the heartbeats of a connected client (it runs on a timer), the cron, and the
TTL of the key of a socket that is gone. CallGateway takes *strong* fairness of `RunJob`: a
due Bull job stays in the queue and gets a worker even if all are busy at times (`Slots` is
a bound of the model). EntityCache has the TTLs of L1 and L2 entries. MCCalls and MCExpiry
state the same fairness of each part; it asks nothing of a part that is not the behaviour's,
since there no action that it names is enabled (or, for presence, since the part is a
conjunct of the action). Safety runs state no fairness.

## 4. What is proved

For every value of the constants (users, requests, sockets, documents, bounds); each proof
assumes only the assumptions on the constants that the modules state and TLC evaluates.
Each theorem is of the specification that a run checks: its own, or `AllSpec` of the MC
module whose property it states. An invariant `...Inv` is inductive: it holds at first, each
step keeps it (one lemma per action, or per group of actions that do alike), and it implies
the property. Every invariant and every action property of the passing runs is stated by a
theorem. TLC ran the inductive invariants of the documents, the boards, the change feed, the
quiz and the call gateway on instances like those of the runs.

| module | theorem | states |
|---|---|---|
| CallHistoryProofs | TypeCorrect, EndIsAnnouncedOnce, DesertedCallIsClosed, OnlyJoinersLeave, CallImplementsItsStory | EndedLoggedOnce, DesertedIsClosed, LeaverHadJoined, TellsTheStory |
| PresenceProofs | TypeCorrect, CleanDisconnect | CleanExit |
| MessageTailProofs | TypeCorrect, TailRunsOnce, ResetsSwallowNothing, LastTailWins | CountedExactlyOnce, NewsIsCounted, PreviewIsLast |
| RoomsProofs | GroupIsLed, SetsAreRight, LastWordTold, NobodyDeleted, FoundUnderLastText, DecksCountRight | AdminKept, SetsFollow, LastWordIsRemoved, DeletesNobody, FoundByLastText, DecksAddUp |
| SfuRoomsProofs | Invariance, TypeCorrect, EmptyRoomIsTimed, OpenMediaAreHeld, JoinerStays | EmptyIsTimed, OpenIsHeld, JoinedStay |
| FeedsProofs | ListedFilesOpen, TranscribedByOneCall, PullsSkipOnlyTheLate, DeletionsAreFlagged, SetsAndIndexAgree, OneDeviceShowsTheCall | OpensItsFile, TranscribedOnce, SkipsOnlyTheLate, CutIsFlagged, DevicesAgree |
| ServicesProofs | TypeCorrect, SpentPairsStayDead, PushTokensFollow, FriendsSaidYes, StaleExplained, LastPaperCounts, MarkersAndInvitesFollow, TimerSparesParticipants | NoSecondLife, TokensMirrored, FriendsAgree, StaleIsExplained, LastCounts, MarkersFollow, LiveNotMissed |
| WorkspaceProofs | SavesAreKeptAlways, EditorsMissNothing, RoleFollowsTheOwner, ListedDocumentsOpen, BoardsStayOrdered, TodosKeepTheirColumn | DocumentsKept, NothingMissed, RoleIsLastGiven, ListedOpens, BoardsOrdered, TodoFits |

The properties are not inductive: each needs to know what the requests in progress have read.

**Call record.** EndedLoggedOnce: a request that has won the update of `ended_at` and not
logged yet must be the only one. `WinnerInv` says so: at most one request has won, and none
once the end is in the log. LeaverHadJoined needs `JoinInv`: not only the statuses in the
document but also the copy of the old status that an end request carries are those of people
who joined. CallImplementsItsStory shows the refinement: StoryBegins maps the initial states,
StoryGoesOn each step to a step of CallStory or to none, under the invariant and `MadeInv`
(before the call is made, nothing is told and nobody is in it). DesertedIsClosed rests on the
re-read after the flip: whichever of the racing leavers flips last re-reads a call that is
empty.

**Presence.** `Progress(s)` relates how far unregister has come to what is left of the
socket, for a socket that dropped with no handler running; the sweep can only remove, so it
does no harm.

**Messages.** CountedOnce: `OnceInv` says that a guarded message has at most one tail between
its mark and its count and none once it is counted; a mark that runs out makes its message
`unguarded`. TailRuns: `RunInv` says that what is marked was handled (is counted, is in a tail,
or is `torn`: its tail was cut off, or its count or a later write failed) and that every
message is handled, on its way to the topic, or still to come from it, which is where the
rewinding of a moved partition matters. NewsIsCounted needs `NewsInv`, the count of the
messages after the last reset against the badge, at every moment and not only at rest.
PreviewIsLast needs `PreviewInv`: as long as no tail began beside another, the one that runs is
past its mark the last.

**Rooms.** `Shape` ties a request's step to what it carries, `Fresh` says that nobody else
is at work until the room is made. AdminKept: `LeadInv` (unless a leaver's copy was outdated
or somebody listed twice, `unled`: a room without admin has a request about to promote, and
one that is about to delete the room leaves nobody in it). SetsFollow: `Apart` (two requests
write one user's entries only if the history says so) and `SetInv`, which says for each user
whose entries one request holds what that request has done so far (`Keeps`), and for each
user whom none holds that the sets follow. LastWordIsRemoved: `FeedInv`, the same of what a
user has been told. DeletesNobody follows from what `LeadInv` says of such a request.

**SFU.** OpenIsHeld needs `StreamInv` (as long as the transport a stream waits for is open on
the room's router, its user is in the room and holds it), which closes the window between
the check and the worker's answer, and `BornInv` (no medium belongs to a router that is not
created yet), which says that a new room starts without media. `WaitInv` ties a waiting
handler to its user and transport. JoinerStays: who joined is a participant from the join's
answer on, with or without a transport; whatever removes participants (a leave, a crash, a
room that a second first join puts in place) takes him out of `inside` too, and the pending
close finds him (`JoinedStep`).

**Files and assistant.** OpensItsFile: `StoreInv` says of each upload what it owns of its record
and key (`Owns`), of each record that its file is the one it names, and that two uploads
share a key or a record only if that is in doubt (`Apart`); puts that are still to arrive
are of the key of the upload they came from. A file is where its put left it (`Stores`,
`Listed`) unless somebody deleted the object; a record whose write may have failed is not
counted on. TranscribedOnce: `ModelInv`. A text that was given, saved and answered is there
(`TextStays`); the requests that were over when one was made are over (`Past`); so one that
got past the look at the transcript has none of them behind it whose text was saved
(`Fresh`).

**Change feed.** `FeedInv` needs no fact about the order in which numbers are published.
SkipsOnlyTheLate: a change below a client's cursor that the client has not seen is below the
highest ever written (`BelowTop`), so that a write of it is late; and a row under one of the
page that is being answered is on the page, seen, or late (`Passed`), which is why the
cursor may go to the page's last row. CutIsFlagged: before any redelivery, as long as
nothing came late, a user's rows stand in the order of their numbers and retention takes
them from the low end (`InOrder`), so every row that was deleted is below every row that
is left; that each number is published once (`PublishedOnce`) excludes a second row.

**Sessions.** A pair is *dead* when its session's document, or Redis for a pair from before the
sessions, refuses it, and *gone* when it is dead or a failure is on record for it. Every step
is `Stable`: it issues pairs, makes or ends documents and adds to what is recorded, so a dead
pair stays dead. The one step that could break this is the upsert of a refresh, which may
make a document: `NewIdInv` (the clientId of a request that makes one belongs to no pair and
to no other request) and `Passed` (a refresh that has passed the document has one) exclude
it. `Records` follows a refresh or logout from write to write until its pair is gone, hence
`EndedInv` (a pair that was answered for is gone), and `Late` follows a request that began
after its pair had ended: it never passes the document. TokensMirrored: `MirrorInv` says that a
token that was not put out of step belongs to one session and has one request at a time, which
has got as far with it as `Owned` says.

**Friendship.** `SocialInv`: what a request read of its pair still holds when it writes, unless
requests crossed (`StillSo`); who asked wants the other, friends want each other, and have
their room or an accept that is midway (`Wanted`, `Housed`).

**Entity cache.** `CacheInv`: a clean copy in L2, in an L1 or in a lookup's hands is found
under every id by the next invalidation (`Untouched`), or by a lookup that is about to record
it; a copy that merely aged is about to be deleted or dropped by an invalidation under way, or
its key is in the inbox of the process (`WillDelete`, `WillDrop`).

**Documents.** `DocsInv` = `TypeOK`, `Made` (a request and a socket know only documents that
were made), `Saving` (what a lone save has merged is in its copy when it writes), `Showing`
(what a user is owed is in the editor, in the copy on its way to it, or still ahead in the
document) and `Sharing` (what an owner's request has read of the user's entries still
stands, unless two requests were about that user).

**Boards.** `KanbanInv`: a project's columns have different ids, and a column that is to be
added has an id no other has (`Named`); what a column request has read is, as long as it may
save it, what the project still has, id by id (`Columned`); the default project is there
(`DefaultThere`); and a fresh check is of a column that its project still has (`Placed`).
KeepsAColumn needs all of the first two: a delete that read two columns writes one back only
if nobody wrote meanwhile. TodoFits needs the last: project and status of a todo are the ones
it was checked with, unless an update that names one of them crossed another (`split`).

**Decks.** `DeckInv`: unless a deck's count is `vague`, a request that has counted its cards
has the number they still are, and a deck nobody is at work on has the total of its cards
(`Right`); a progress row is found by user and card, of which there is one (so what is
learnt never exceeds what is there).

**Search.** `SearchInv`: an item whose requests never met has one request at a time, which has
removed and stored what its step says (`Lone`), and at rest it is found under its last text
(`Found`); any item is left with some vector or with a request that is about to store one
(`Kept`).

**Quiz.** `QuizInv`: a submission has marked its own paper (`Graded`), and a user whose
submissions did not cross, and whose last one was not written under a name that is not the
stored one (`lost`), has one result, of the last paper and with its marks (`Single`).
`GradedRight` compares the marks with the reference definition: if no question is answered
twice, they are the number of the questions answered right.

**Call gateway.** Any users, devices, calls, events and handlers at once; the invariants are
about one call each. Of a call outside `met` at most one handler runs (`Alone`). `CallInv`
ties its markers and invites to it: a marker is of a user who is in the call, or whose end of
it the running handler is about to clear (`Marked`); an invite after the end is about to be
removed (`Phantom`); nobody who is in the call has one but while accepting (`Invited`); and
the handler's place in its script says what the call record has of its user (`Serves`). What
the handlers of other calls and the disconnects do to such a call is at most to clear a
marker or drop a job (`CallUntouched`), which keeps all of that. `Orderly` is about a call
outside `met` and `cut`. `Sets`: its participants and the reverse index agree but for a user
between a sweep's first and last write (`Sweeping`), and what a sweep or an end has counted
is still so (`Counts`); a sweep of one disconnect may run beside those of others. `Show`, if
no other call was requested (`Only`): a device that shows the call is connected and is the
one USER_CALL_SOCKET names, and a handler's copy of USER_CALL_SOCKET is the present one
(`Holds`).

What the proofs corrected in the models. An inductive invariant that failed, or a lemma
that was false, showed where a model said too little or too much:

  - MessageTail: `last` names the message of the last tail past its mark, which the preview's
    property is about; a tail that stops between is `torn`.
  - Rooms: a member that is listed twice counts among what may leave a group unled, and
    what the feed says of a user is tied to the requests that tell, so its exceptions are per
    user.
  - Friendship: removing must not forget what others had read when nothing was deleted.
  - Documents keep the entries of each user in order, which is all the code looks up.
  - Boards sort by their own definition: `SortSeq` promises nothing about equal keys, where
    the code's sort is stable.
  - ChangeFeed selects a user's rows by position and a page as the set of its changes;
    selecting from and sorting sequences by recursion could not be reasoned about. The
    states are the same.
  - CallGateway: a bound of one handler at a time was a premise of the first proofs; the
    history variables say of which calls the properties hold however many run.
  - CallGateway: the arms of EndCall's choice of a member's new status overlapped where a call
    is cancelled by its only participant; the code takes the first, as the definition does now.
  - Quizzes: the leaderboard is a set of ranked results in which equals keep their order, not
    a sorted sequence.
  - `None` and `Gone` have to differ from the values they stand beside; the modules' assumptions
    say so.

### Only model-checked

  - *Liveness* (DesertedGetsClosed, RingEnds, PresenceHeals, Heals): fairness and ENABLED are
    out of reach of the prover.
  - Out of the prover's reach in general: what a recursive definition computes for every
    input. No module that is proved about declares one.

## 5. What the models show beyond the properties

Five disagreements between the code and what its documents or comments say are runs:

  - **cache_peer_key**: `room-cache.repository.ts:42` caches a private room under the peer's
    id, which is not the room's: two users with one peer share the key.
  - **hidden_still_counted**: a badge may count a message that its user has hidden or that
    was deleted, when the recount meets the message's tail, against the comment of
    handleDeleteForUser.
  - **blocked_not_suggested**: `blockFriend` upserts with an `$or` filter, from which MongoDB
    takes no fields: blocking someone without a document stores a block of nobody, and the
    suggestions, which promise to drop the blocked, propose them.
  - **submission_under_id**: `submitQuizz` finds a quiz under its `_id` and stores the result
    under `quiz_id` alone: the submission is answered with a score and lost.
  - **docs_out_of_order**: kafka.topic.ts calls it harmless that embedding events are handled
    out of order; two saves of a document leave search with both texts or with the older.

The properties above carry exceptions ("unless late", "risky", "torn", "unled", "unsure",
"split", "lost"). Each stands for a behaviour of the code that the model has, in which what
the property says does not hold; what is in this list was seen in such a behaviour or, where it
says so, read in the code. Several properties except the very race their hazard names, since
the code loses it: they say what holds up to it and that nothing else breaks. The note of a
hazard in PROJECT.json says which. By component:

*Call gateway* (`call.gateway.ts`), with two handlers of a call at a time: the auto-miss job reads
invite and participants, and a callee who joins before its EndCall is flipped to missed
(l. 693, against l. 669); SCARD and DEL of an emptied set race an SADD (l. 527, 467);
invites are stored after call:request is emitted, so a fast decline leaves a phantom
invite (l. 1193); two devices both pass claimCallSocket (l. 293); the wipe of a call in
which nobody is "started" deletes markers that belong to another call (l. 1789); call:join
never adds a participant (l. 1587 against 668); the accept lock stays when AcceptCall fails
(l. 1352); a timed-out AcceptCall that was carried out is auto-missed later; handleDisconnect
looks for rooms Socket.IO has left already (l. 917).

*Presence*: register adds the member before its alive key exists (l. 123); on a page
refresh the new socket counts the old one as present and announces nothing, while the old
one's late unregister announces offline, although l. 40 says broadcasts fire on transitions.

*Change feed*: a number is taken before the awaits that precede its publication
(handle-chat.service.ts:402), so a lower row may arrive below a cursor and is never pulled,
although kafka.topic.ts:13 keeps one partition for the order; retention that removes
every row leaves none to compare with, so no resync is asked for; `oldest` and the page
are two reads; the dirty mark set between the trim's sMembers and sRem is lost; a replay
lowers the high-water mark of a room; an unordered bulkWrite that fails for some users
loses their rows.

*Messages*: MSG_PROCESSED is a GET and a SET (l. 624), not the "Set NX + TTL" of
RedisKey.ts:85, and the mark runs out after a day; a count that fails is swallowed by
RedisService (redis.service.ts:387), and the marked message is in no badge; the tail of a
message that was read already counts it again; the tail of a
sender's older message moves last_read_at back (l. 676) and resets the badge without a dirty
mark (l. 679); a flush that meets a change between its hGetAll and sRem writes the old value
although unread-flush.service.ts:18 calls running twice harmless; messages are dispatched in
another order than they are created, so the preview may go back.

*Rooms*: the pair-id entry that checkExistedMemberRoom primes (l. 1408) is never removed,
so one who left still passes the gate; concurrent adds push a member twice (l. 1773
says idempotent); two last admins that leave together, or the demotion of the last,
leave a group without admin; a leave from an outdated copy deletes a group somebody was
just added to; a kick cleans Redis only for those its copy holds; a queued USER_ROOMS job
puts a removed member's room back; a USER_ROOMS that holds one later-added room is never
rebuilt; the processor's comment on Bull retries does not hold, as pipelineSAdd swallows
errors.

*SFU*: two first joiners each create a router, and the second room replaces the first;
a transport answered after its user's leave files the user again, as a participant nobody
removes; CloseProducer leaves the closed producer in the map; a first join under the
room's other id splits the call; a late leave of an old device removes the new one;
who joined a room that a second first join replaced is a participant of none.

*Sessions*: `tkn_jit` holds only pairs that are spent already, so logoutDevice and
logoutAllDevices blacklist no live one: access tokens live until they expire, only refresh
fails; two refreshes of one pair at a time both succeed; a pair from before the sessions
gets a new session each time Redis has forgotten it; logoutAllDevices' delKey drops the
push token of a login that came after its update; two sessions with one push token silence
each other; a login whose Keys.create fails is answered with a pair that cannot be
refreshed; the start-up resync only adds.

*Friendship* (`social.service.ts`): an accept reads a pending request and then updates
without a condition, so a removal or block in between is undone (`crossed`); a request
overwrites accepted, rejected and blocked states, a block by the other included (l. 114);
the route that lists the blocked passes `_id` while documents hold `usr_id`, so the list is
always empty (gateway-social.controller.ts:246).

*Documents*: saves that overlap overwrite each other's edits, since a snapshot is merged
with one that was read before (l. 563, `parallel`); the first visit of a public document
pushes an entry beside the owner's share (`blurred`), and only a user's first entry counts;
a socket whose document was not opened stays in the document's socket room.

*Learning*: a push of a column does not look at the version, so it may repeat a number
(`torn`); dropping or renaming a column leaves its todos without one (`loose`); two updates of
one todo that cross, one of which writes the project and the other the status, each check the
half the other replaces, and leave it in no column (todo.service.ts:230-247, `split`); the
default project made on behalf of a todo has no members; updateFlashcardDeckById and
updateFlashcardById do not count the cards anew although flashcard.service.ts:28-33 says every
change does (`vague`); a submission under `_id` is answered and written nowhere (`lost`), and
two submissions of one user at a time leave two results, or the one written last (`both`).

*Files*: two files of one batch whose names reduce to the same share timestamp and hence key,
and the later overwrites the earlier (filesystem.service.ts:107); a put that timed out may
still be carried out, after a retry under the same key; marking a record as failed may fail
itself (filesystem.service.ts:204) and leave it as processing, or as uploaded, while the sender
is told an error; an event that does not reach Kafka is swallowed (utils.ts:317-346), and the
upload is answered all the same; deleteFile leaves the record of what it deletes, listed as
uploaded; a file sent again under the id of a record keeps the old transcript. Kafka redelivery
of processLinks stores a link twice (read, not modelled).

*Assistant*: two transcriptions of one message at a time both ask the model and overwrite each
other, although the gateway calls the route idempotent (gateway-ai.controller.ts:571); a
transcript that cannot be saved is answered and asked for again; a streamed summary without a
file still asks the model. Read, not modelled: a stream that breaks leaves no usage record, and
realtime speech is billed by other rates than calculateAicost.

*Embeddings*: a text's hash is unique over all rooms, so the same text said in a second room
or document gets no vector; the events that ask for a vector or tell of a summary may be
lost, and nobody asks again; deleted and recalled messages keep theirs (deleteVectorChat has
no caller) and are still found.

*Calls*: two accepts of one member at a time both log `call.joined`
(handle-chat.service.ts:1503).

## 6. Not modelled, and the plan

Not modelled: one-time passwords, registration and profiles (single documents behind unique
indexes; the next module to write); the HMAC and cookies of the edge (pure functions);
notifications (external deliveries); the usage records of AI calls (each is emitted with the
answer it tells of, by an emit nobody waits for); getMsg.ts (one aggregation that reads and keeps
nothing: its paging could be operators compared with a reference definition); the
speech-to-text relay (subscriptions in the memory of one process); controllers and relays
without state. Parts left out of a modelled component are in its note in PROJECT.json.

Order of what is worth doing next:

 1. **Registration**: one-time passwords, temporary tokens, unique accounts.
 2. Abstract specifications: a set of members with roles for Rooms without failures; a
    ledger of spent pairs for Sessions; a reliable feed for ChangeFeed with publication
    in order.
 3. **MessageQuery**: paging and visibility as operators.
