------------------------------- MODULE MessageTail -------------------------------
(***************************************************************************)
(* The messages of one room and its unread counts: createMessage,          *)
(* markReadUpTo, handleDeleteForUser and handleDelete of                   *)
(* handle-chat.service.ts, the MESSAGE_PERSISTED consumer that runs the    *)
(* tail of createMessage, and unread-flush.service.ts.                     *)
(*                                                                         *)
(* The records of a room share a Kafka partition.  Its owner runs the tail *)
(* of one record after the other, but a handler that outlives its session  *)
(* goes on beside the next owner's.  A message is its place in the order   *)
(* of creation, and a point in time the number of messages created by      *)
(* then.  Reads of the room and user caches decide nothing here.           *)
(***************************************************************************)
EXTENDS Integers, Sequences, FiniteSets

CONSTANTS Users,       \* members of the room
          Consumers,   \* chat service processes, all in the consumer group
          MaxMsgs,     \* bound: messages
          MaxEvents    \* bound: resends, reads, hides and deletes, flushes,
                       \* moves of the partition, crashes, failures and marks that
                       \* run out, together;
                       \* a delete, with its recount per member, counts as two

ASSUME ConstantsAssumption ==
  /\ Consumers # {}
  /\ MaxMsgs \in Nat /\ MaxEvents \in Nat

VARIABLES log,        \* sender of each message, in order of createdAt
          hidden,     \* messages each user does not see: deleted, or hidden
          sending,    \* messages written whose MESSAGE_PERSISTED is not sent
          queue,      \* records of the partition from the committed offset on
          position,   \* of these, the records the owner has taken
          owner,      \* consumer that owns the partition
          tail,       \* handleMessagePersisted in each consumer
          processed,  \* MSG_PROCESSED
          unread,     \* UNREAD of each user, in Redis
          dirty,      \* UNREAD_DIRTY
          state,      \* RoomsUsersState of each user, in Mongo
          preview,    \* last_message_id of RoomsState; 0: none
          read,       \* markReadUpTo of each user
          recount,    \* recomputeUnreadForUserRoom of each user
          deleting,   \* message handleDelete is about to mark deleted; 0: none
          flush,      \* flush in each process
          events,     \* events so far
          hist        \* history: see History

vars == <<log, hidden, sending, queue, position, owner, tail, processed, unread,
          dirty, state, preview, read, recount, deleting, flush, events, hist>>

Msgs == 1..MaxMsgs

Counts == Nat

TailState ==
  [pc : {"idle", "mark", "count", "write"}, msg : 0..MaxMsgs,
   left : SUBSET {"preview", "pointer", "badge"}]   \* writes to come

ReadState == [left : SUBSET {"pointer", "badge", "dirty"}, at : 0..MaxMsgs]

RecountState ==
  [pc : {"idle", "pointer", "count", "write"}, held : 0..MaxMsgs]

FlushState ==
  [pc : {"idle", "read", "write", "clear"},
   batch : SUBSET Users, got : SUBSET Users,   \* members, and those read so far
   value : [Users -> Counts]]

UserState == [at : 0..MaxMsgs,     \* last_read_at
              count : Counts]      \* unread_count

History ==
  [counted : [Msgs -> Counts],     \* times the message's tail counted it
   unguarded : SUBSET Msgs,        \* a tail went on that MSG_PROCESSED did not guard
   torn : SUBSET Msgs,             \* tail never sent, cut off, or with a failed
                                   \* count or write
   since : [Users -> 0..MaxMsgs],  \* messages created when the badge was last reset
   last : 0..MaxMsgs,              \* message of the last tail past its mark
   beside : BOOLEAN]               \* a tail began beside another

IdleTail == [pc |-> "idle", msg |-> 0, left |-> {}]

NoRead == [left |-> {}, at |-> 0]

NoRecount == [pc |-> "idle", held |-> 0]

NoFlush == [pc |-> "idle", batch |-> {}, got |-> {}, value |-> [u \in Users |-> 0]]

TypeOK ==
  /\ log \in Seq(Users) /\ Len(log) <= MaxMsgs
  /\ hidden \in [Users -> SUBSET Msgs]
  /\ sending \subseteq 1..Len(log)
  /\ queue \in Seq(1..Len(log)) /\ position \in 0..Len(queue)
  /\ owner \in Consumers
  /\ tail \in [Consumers -> TailState]
  /\ processed \subseteq 1..Len(log)
  /\ unread \in [Users -> Counts] /\ dirty \subseteq Users
  /\ state \in [Users -> UserState] /\ preview \in 0..Len(log)
  /\ read \in [Users -> ReadState]
  /\ recount \in [Users -> RecountState] /\ deleting \in 0..Len(log)
  /\ flush \in [Consumers -> FlushState]
  /\ events \in 0..MaxEvents
  /\ hist \in History

Init ==
  /\ log = <<>> /\ sending = {} /\ hidden = [u \in Users |-> {}]
  /\ queue = <<>> /\ position = 0 /\ owner \in Consumers
  /\ tail = [c \in Consumers |-> IdleTail] /\ processed = {}
  /\ unread = [u \in Users |-> 0] /\ dirty = {}
  /\ state = [u \in Users |-> [at |-> 0, count |-> 0]] /\ preview = 0
  /\ read = [u \in Users |-> NoRead]
  /\ recount = [u \in Users |-> NoRecount] /\ deleting = 0
  /\ flush = [f \in Consumers |-> NoFlush]
  /\ events = 0
  /\ hist = [counted |-> [m \in Msgs |-> 0], unguarded |-> {}, torn |-> {},
             since |-> [u \in Users |-> 0], last |-> 0, beside |-> FALSE]

messages == <<log, hidden, sending>>
topic == <<queue, position, owner>>
consumer == <<tail, processed>>
redis == <<unread, dirty>>
mongo == <<state, preview>>
calls == <<read, recount, deleting>>

\* The bounded events.
Event == events < MaxEvents /\ events' = events + 1

-------------------------------------------------------------------------------
(* createMessage *)

\* The upsert of a new id.
Create(u) ==
  /\ Len(log) < MaxMsgs
  /\ log' = Append(log, u)
  /\ sending' = sending \union {Len(log) + 1}
  /\ UNCHANGED <<hidden, topic, consumer, redis, mongo, calls, flush, events, hist>>

\* A client that got no answer sends the message again under its id: the upsert
\* keeps createdAt, and the rest of the handler runs again.
Resend(m) ==
  /\ Event
  /\ m \notin sending
  /\ sending' = sending \union {m}
  /\ UNCHANGED <<log, hidden, topic, consumer, redis, mongo, calls, flush, hist>>

\* The awaits between the upsert and this take any time; then the record goes to
\* the room's partition.
Dispatch(m) ==
  /\ m \in sending
  /\ sending' = sending \ {m}
  /\ queue' = Append(queue, m)
  /\ UNCHANGED <<log, hidden, position, owner, consumer, redis, mongo, calls, flush,
                 events, hist>>

\* The dispatch fails, which is swallowed, or the process dies before it.
LoseDispatch(m) ==
  /\ Event
  /\ m \in sending
  /\ sending' = sending \ {m}
  /\ hist' = [hist EXCEPT !.torn = @ \union {m}]
  /\ UNCHANGED <<log, hidden, topic, consumer, redis, mongo, calls, flush>>

-------------------------------------------------------------------------------
(* The consumer *)

\* handleMessagePersisted up to getData: the tail of a message that is already
\* marked ends here.
Skip(c) ==
  /\ owner = c /\ tail[c].pc = "idle" /\ position < Len(queue)
  /\ queue[position + 1] \in processed
  /\ position' = position + 1
  /\ UNCHANGED <<messages, queue, owner, consumer, redis, mongo, calls, flush, events, hist>>

\* Another goes on, and so does one whose mark could not be read.
Check(c) ==
  LET m == queue[position + 1]
      busy == {d \in Consumers : tail[d].pc # "idle"} IN
  /\ owner = c /\ c \notin busy /\ position < Len(queue)
  /\ IF m \in processed THEN Event ELSE UNCHANGED events
  /\ position' = position + 1
  /\ tail' = [tail EXCEPT ![c] = [pc |-> "mark", msg |-> m, left |-> {}]]
  /\ hist' = [hist EXCEPT
       !.unguarded = IF m \in processed \/ \E d \in busy : tail[d].msg = m
                     THEN @ \union {m} ELSE @,
       !.beside = @ \/ busy # {}]
  /\ UNCHANGED <<messages, queue, owner, processed, redis, mongo, calls, flush>>

\* Mutant: the mark is forgotten.
MarkNothing(c) ==
  /\ tail[c].pc = "mark"
  /\ tail' = [tail EXCEPT ![c].pc = "count"]
  /\ hist' = [hist EXCEPT !.last = tail[c].msg]
  /\ UNCHANGED <<messages, topic, processed, redis, mongo, calls, flush, events>>

\* setData swallows a failure.
MarkProcessed(c) ==
  LET m == tail[c].msg IN
  /\ tail[c].pc = "mark"
  /\ tail' = [tail EXCEPT ![c].pc = "count"]
  /\ \/ /\ processed' = processed \union {m}
        /\ hist' = [hist EXCEPT !.last = m]
        /\ UNCHANGED events
     \/ /\ Event
        /\ hist' = [hist EXCEPT !.unguarded = @ \union {m}, !.last = m]
        /\ UNCHANGED processed
  /\ UNCHANGED <<messages, topic, redis, mongo, calls, flush>>

\* The mark lasts a day: then the record of the message is new again.
MarkExpires(m) ==
  /\ Event
  /\ m \in processed
  /\ processed' = processed \ {m}
  /\ hist' = [hist EXCEPT !.unguarded = @ \union {m}]
  /\ UNCHANGED <<messages, topic, tail, redis, mongo, calls, flush>>

Others(m) == Users \ {log[m]}

AllWrites == {"preview", "pointer", "badge"}

\* pipelineHIncrBy has added to the badges of us, and the tail goes on.
Add(c, us) ==
  /\ tail[c].pc = "count"
  /\ unread' = [u \in Users |-> IF u \in us THEN unread[u] + 1 ELSE unread[u]]
  /\ tail' = [tail EXCEPT ![c].pc = "write", ![c].left = AllWrites]
  /\ UNCHANGED <<messages, topic, processed, mongo, calls, flush>>

\* The members other than the sender, with their marks.
Count(c) ==
  LET m == tail[c].msg IN
  /\ Add(c, Others(m))
  /\ dirty' = dirty \union Others(m)
  /\ hist' = [hist EXCEPT !.counted[m] = @ + 1]
  /\ UNCHANGED events

\* A failure is swallowed, whichever commands of the pipeline came through.
CountFails(c) ==
  LET m == tail[c].msg IN
  /\ Event
  /\ tail[c].pc = "count"
  /\ \E us \in SUBSET Others(m) :
       /\ Add(c, us)
       /\ hist' = [hist EXCEPT !.counted[m] = IF us = {} THEN @ ELSE @ + 1,
                               !.torn = @ \union {m}]
  /\ dirty' \in {dirty, dirty \union Others(m)}

\* The find of the members to notify throws: the record is done all the same.
FindThrows(c) ==
  /\ Event
  /\ tail[c].left = AllWrites
  /\ tail' = [tail EXCEPT ![c] = IdleTail]
  /\ hist' = [hist EXCEPT !.torn = @ \union {tail[c].msg}]
  /\ UNCHANGED <<messages, topic, processed, redis, mongo, calls, flush>>

\* Write w of the allSettled is over; after the last one the handler returns.
Settle(c, w) ==
  LET rest == tail[c].left \ {w} IN
  /\ w \in tail[c].left
  /\ tail' = [tail EXCEPT ![c] = IF rest = {} THEN IdleTail
                                 ELSE [tail[c] EXCEPT !.left = rest]]

\* Mutant: the message is written only where the room has none ($setOnInsert).
WriteFirstPreview(c) ==
  /\ Settle(c, "preview")
  /\ preview' = IF preview = 0 THEN tail[c].msg ELSE preview
  /\ UNCHANGED <<messages, topic, processed, redis, state, calls, flush, events, hist>>

\* RoomsState: last_message_id.
WritePreview(c) ==
  /\ Settle(c, "preview")
  /\ preview' = tail[c].msg
  /\ UNCHANGED <<messages, topic, processed, redis, state, calls, flush, events, hist>>

\* RoomsUsersState of the sender, who has read up to the message.
WritePointer(c) ==
  LET m == tail[c].msg IN
  /\ Settle(c, "pointer")
  /\ state' = [state EXCEPT ![log[m]] = [at |-> m, count |-> 0]]
  /\ UNCHANGED <<messages, topic, processed, redis, preview, calls, flush, events, hist>>

\* Mutant: the badge of every member is reset.
WriteAllBadges(c) ==
  LET u == log[tail[c].msg] IN
  /\ Settle(c, "badge")
  /\ unread' = [v \in Users |-> 0]
  /\ hist' = [hist EXCEPT !.since[u] = Len(log)]
  /\ UNCHANGED <<messages, topic, processed, dirty, mongo, calls, flush, events>>

\* UNREAD of the sender, without a mark.
WriteBadge(c) ==
  LET u == log[tail[c].msg] IN
  /\ Settle(c, "badge")
  /\ unread' = [unread EXCEPT ![u] = 0]
  /\ hist' = [hist EXCEPT !.since[u] = Len(log)]
  /\ UNCHANGED <<messages, topic, processed, dirty, mongo, calls, flush, events>>

\* allSettled goes on over a write that fails.
WriteFails(c) ==
  /\ Event
  /\ \E w \in AllWrites : Settle(c, w)
  /\ hist' = [hist EXCEPT !.torn = @ \union {tail[c].msg}]
  /\ UNCHANGED <<messages, topic, processed, redis, mongo, calls, flush>>

Commit ==
  /\ position > 0 /\ tail[owner].pc = "idle"
  /\ queue' = SubSeq(queue, position + 1, Len(queue))
  /\ position' = 0
  /\ UNCHANGED <<messages, owner, consumer, redis, mongo, calls, flush, events, hist>>

\* The partition goes to another consumer, which starts from the committed offset;
\* the handler of the old owner goes on.
Rebalance(c) ==
  /\ Event /\ c # owner
  /\ owner' = c /\ position' = 0
  /\ UNCHANGED <<messages, queue, consumer, redis, mongo, calls, flush, hist>>

\* A process dies, with its tail, its flush and the calls it was serving.
Crash(c) ==
  /\ Event
  /\ tail' = [tail EXCEPT ![c] = IdleTail]
  /\ hist' = [hist EXCEPT !.torn = @ \union {m \in Msgs : tail[c].msg = m /\ tail[c].pc # "mark"}]
  /\ IF owner = c THEN owner' \in Consumers /\ position' = 0
                  ELSE UNCHANGED <<owner, position>>
  /\ flush' = [flush EXCEPT ![c] = NoFlush]
  /\ \/ UNCHANGED calls
     \/ /\ read' = [u \in Users |-> NoRead]
        /\ recount' = [u \in Users |-> NoRecount] /\ deleting' = 0
  /\ UNCHANGED <<messages, queue, processed, redis, mongo>>

-------------------------------------------------------------------------------
(* markReadUpTo: four writes in parallel, of which MessageReads repeats the    *)
(* pointer of RoomsUsersState.                                                 *)

MarkRead(u) ==
  /\ Event
  /\ log # <<>> /\ read[u].left = {}
  /\ read' = [read EXCEPT ![u] = [left |-> {"pointer", "badge", "dirty"}, at |-> Len(log)]]
  /\ UNCHANGED <<messages, topic, consumer, redis, mongo, recount, deleting, flush, hist>>

Answered(u, w) ==
  /\ w \in read[u].left
  /\ read' = [read EXCEPT ![u].left = @ \ {w}]

ReadPointer(u) ==
  /\ Answered(u, "pointer")
  /\ state' = [state EXCEPT ![u] = [at |-> read[u].at, count |-> 0]]
  /\ UNCHANGED <<messages, topic, consumer, redis, preview, recount, deleting, flush, events,
                 hist>>

ReadBadge(u) ==
  /\ Answered(u, "badge")
  /\ unread' = [unread EXCEPT ![u] = 0]
  /\ hist' = [hist EXCEPT !.since[u] = Len(log)]
  /\ UNCHANGED <<messages, topic, consumer, dirty, mongo, recount, deleting, flush, events>>

ReadDirty(u) ==
  /\ Answered(u, "dirty")
  /\ dirty' = dirty \union {u}
  /\ UNCHANGED <<messages, topic, consumer, unread, mongo, recount, deleting, flush, events,
                 hist>>

-------------------------------------------------------------------------------
(* handleDeleteForUser, handleDelete and their recomputeUnreadForUserRoom       *)

\* Bound: one hide or delete at a time.
Recounting == deleting # 0 \/ \E u \in Users : recount[u].pc # "idle"

\* handleDeleteForUser: the hide is written before the recount.
Hide(u, m) ==
  /\ Event /\ ~Recounting
  /\ hidden' = [hidden EXCEPT ![u] = @ \union {m}]
  /\ recount' = [recount EXCEPT ![u].pc = "pointer"]
  /\ UNCHANGED <<log, sending, topic, consumer, redis, mongo, read, deleting, flush, hist>>

\* handleDelete, by the sender or an admin: the update of the message and the
\* recounts of all members run in parallel.
Delete(m) ==
  /\ events + 2 <= MaxEvents /\ events' = events + 2
  /\ ~Recounting
  /\ deleting' = m
  /\ recount' = [u \in Users |-> [NoRecount EXCEPT !.pc = "pointer"]]
  /\ UNCHANGED <<messages, topic, consumer, redis, mongo, read, flush, hist>>

DeleteMessage ==
  /\ deleting # 0
  /\ hidden' = [u \in Users |-> hidden[u] \union {deleting}]
  /\ deleting' = 0
  /\ UNCHANGED <<log, sending, topic, consumer, redis, mongo, read, recount, flush,
                 events, hist>>

RecountPointer(u) ==
  /\ recount[u].pc = "pointer"
  /\ recount' = [recount EXCEPT ![u] = [pc |-> "count", held |-> state[u].at]]
  /\ UNCHANGED <<messages, topic, consumer, redis, mongo, read, deleting, flush, events, hist>>

\* The messages of others that u sees and that came after point t.
Unseen(u, t) == {m \in t + 1 .. Len(log) : log[m] # u /\ m \notin hidden[u]}

RecountMessages(u) ==
  /\ recount[u].pc = "count"
  /\ recount' = [recount EXCEPT ![u] =
                   [pc |-> "write", held |-> Cardinality(Unseen(u, recount[u].held))]]
  /\ UNCHANGED <<messages, topic, consumer, redis, mongo, read, deleting, flush, events, hist>>

\* The result goes to Mongo alone.
RecountWrite(u) ==
  /\ recount[u].pc = "write"
  /\ state' = [state EXCEPT ![u].count = recount[u].held]
  /\ recount' = [recount EXCEPT ![u] = NoRecount]
  /\ UNCHANGED <<messages, topic, consumer, redis, preview, read, deleting, flush, events, hist>>

\* One of the writes in parallel, or a recount, fails: the others go on.
CallFails ==
  /\ Event
  /\ \/ /\ \E u \in Users, w \in {"pointer", "badge", "dirty"} : Answered(u, w)
        /\ UNCHANGED <<recount, deleting>>
     \/ /\ \E u \in Users : /\ recount[u].pc # "idle"
                            /\ recount' = [recount EXCEPT ![u] = NoRecount]
        /\ UNCHANGED <<read, deleting>>
     \/ /\ deleting # 0 /\ deleting' = 0
        /\ UNCHANGED <<read, recount>>
  /\ UNCHANGED <<messages, topic, consumer, redis, mongo, flush, hist>>

-------------------------------------------------------------------------------
(* UnreadFlushService.flush *)

\* The guard of running, and sMembers.
FlushStart(f) ==
  /\ Event
  /\ flush[f].pc = "idle" /\ dirty # {}
  /\ flush' = [flush EXCEPT ![f] = [NoFlush EXCEPT !.pc = "read", !.batch = dirty]]
  /\ UNCHANGED <<messages, topic, consumer, redis, mongo, calls, hist>>

\* hGetAll of one user after the other; one that fails reads as 0.
FlushRead(f, u) ==
  /\ flush[f].pc = "read" /\ u \in flush[f].batch \ flush[f].got
  /\ \E n \in {0, unread[u]} :
       LET got == flush[f].got \union {u} IN
       /\ flush' = [flush EXCEPT ![f].got = got, ![f].value[u] = n,
                                 ![f].pc = IF got = flush[f].batch THEN "write" ELSE "read"]
       /\ IF n = unread[u] THEN UNCHANGED events ELSE Event
  /\ UNCHANGED <<messages, topic, consumer, redis, mongo, calls, hist>>

\* The unordered bulkWrite for the users ok.
Mirror(f, ok) ==
  state' = [u \in Users |-> IF u \in ok THEN [state[u] EXCEPT !.count = flush[f].value[u]]
                            ELSE state[u]]

FlushWrite(f) ==
  /\ flush[f].pc = "write"
  /\ Mirror(f, flush[f].batch)
  /\ flush' = [flush EXCEPT ![f].pc = "clear"]
  /\ UNCHANGED <<messages, topic, consumer, redis, preview, calls, events, hist>>

\* A failure ends the flush before its sRem, or that fails.
FlushFails(f) ==
  /\ Event
  /\ flush[f].pc \in {"write", "clear"}
  /\ \E ok \in SUBSET flush[f].batch : Mirror(f, IF flush[f].pc = "clear" THEN {} ELSE ok)
  /\ flush' = [flush EXCEPT ![f] = NoFlush]
  /\ UNCHANGED <<messages, topic, consumer, redis, preview, calls, hist>>

\* sRem, and running is false again.
FlushClear(f) ==
  /\ flush[f].pc = "clear"
  /\ dirty' = dirty \ flush[f].batch
  /\ flush' = [flush EXCEPT ![f] = NoFlush]
  /\ UNCHANGED <<messages, topic, consumer, unread, mongo, calls, events, hist>>

-------------------------------------------------------------------------------

RunTail(c) ==
  \/ Skip(c) \/ Check(c) \/ MarkProcessed(c) \/ Count(c) \/ CountFails(c) \/ FindThrows(c)
  \/ WritePreview(c) \/ WritePointer(c) \/ WriteBadge(c) \/ WriteFails(c)

RunRead(u) == ReadPointer(u) \/ ReadBadge(u) \/ ReadDirty(u)

RunRecount(u) == RecountPointer(u) \/ RecountMessages(u) \/ RecountWrite(u)

RunFlush(f) ==
  \/ FlushStart(f) \/ FlushWrite(f) \/ FlushFails(f) \/ FlushClear(f)
  \/ \E u \in Users : FlushRead(f, u)

Next ==
  \/ \E u \in Users : Create(u) \/ MarkRead(u) \/ RunRead(u) \/ RunRecount(u)
  \/ \E m \in 1..Len(log) : \/ Resend(m) \/ Dispatch(m) \/ LoseDispatch(m) \/ Delete(m)
                            \/ MarkExpires(m)
                            \/ \E u \in Users : Hide(u, m)
  \/ DeleteMessage \/ CallFails
  \/ \E c \in Consumers : RunTail(c) \/ Rebalance(c) \/ Crash(c)
  \/ Commit
  \/ \E f \in Consumers : RunFlush(f)

Spec == Init /\ [][Next]_vars

-------------------------------------------------------------------------------
(* Properties *)

\* "Each message runs its tail once": however often its record comes back, no
\* message adds to a badge twice, unless its mark could not be read or written, ran
\* out, or came too late for a second tail that had checked already.
CountedOnce == \A m \in Msgs : hist.counted[m] <= 1 \/ m \in hist.unguarded

\* Nothing is under way but a flush.
Settled ==
  /\ sending = {} /\ position = Len(queue)
  /\ \A c \in Consumers : tail[c].pc = "idle"
  /\ \A u \in Users : read[u].left = {}

\* The other half of the MSG_PROCESSED guard: the mark turns nothing away that no
\* tail has counted.  Excepted are the messages whose record was never sent, whose
\* tail was cut off, or whose pipeline or later write failed.
TailRuns ==
  Settled => \A m \in 1..Len(log) : hist.counted[m] > 0 \/ m \in hist.torn

\* Every variable has a value of its type, a message is counted once, and none is
\* marked and then dropped (handle-chat.service.ts, handleMessagePersisted).
CountedExactlyOnce == TypeOK /\ CountedOnce /\ TailRuns

\* No reset swallows news: messages of others that came after the badge was last
\* reset are in it, but for those that a failure tore.
NewsIsCounted ==
  Settled => \A u \in Users :
    Cardinality({m \in hist.since[u] + 1 .. Len(log) : log[m] # u /\ m \notin hist.torn})
      <= unread[u]

\* "The tail processes a room in order": the room's preview ends up at the message
\* of the last tail, unless that was cut off, a write or the count of it failed, or
\* tails ran side by side.
PreviewIsLast ==
  Settled /\ ~hist.beside /\ hist.last \notin hist.torn => preview = hist.last

\* handleDeleteForUser's recompute "reconciles the $inc-based counter which does
\* not subtract hidden messages": no badge, which is what GetRooms answers, counts
\* more than the messages of others that the user sees.
RemovedNotCounted ==
  Settled /\ ~Recounting =>
    \A u \in Users : unread[u] <= Cardinality(Unseen(u, 0))
===============================================================================
