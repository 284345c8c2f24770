-------------------------------- MODULE SfuRooms --------------------------------
(***************************************************************************)
(* One call room of the media server: sfu-room.service.ts,                 *)
(* sfu-transport.service.ts and the router registry of sfu.service.ts,     *)
(* behind the gRPC controller.                                             *)
(*                                                                         *)
(* The server is one Node process with its state in memory, so a handler   *)
(* runs without interruption up to an await; every await is a request to   *)
(* a mediasoup worker, and other handlers and the close timer run          *)
(* meanwhile.  A room object and its router are one number: they are       *)
(* created together, and a room created twice at a time has two.  Media    *)
(* objects (transports, producers, consumers) belong to mediasoup.         *)
(***************************************************************************)
EXTENDS Naturals, FiniteSets

CONSTANTS Users,
          Requests,    \* bound: handlers waiting for a worker at a time
          None,
          MaxRooms,    \* bound: room objects ever created
          MaxMedia,    \* bound: media objects ever created
          MaxEvents    \* bound: requests and crashes

ASSUME ConstantsAssumption ==
  /\ MaxRooms \in Nat /\ MaxMedia \in Nat /\ MaxEvents \in Nat
  /\ None \notin Users

Rooms == 1..MaxRooms
Media == 1..MaxMedia

VARIABLES reg,       \* rooms.get(roomId); 0: no entry
          routers,   \* open routers
          parts,     \* participants of each room object
          held,      \* transports, producers and consumers kept for each of them
          timer,     \* pendingCloses has the room
          media,     \* the media objects created so far
          open,      \* of these, the open ones
          req,       \* handlers waiting for a worker
          born,      \* rooms created so far
          inside,    \* history: users who joined the registered room and have not left
          events

vars == <<reg, routers, parts, held, timer, media, open, req, born, inside, events>>

\* up: the transport of a producer or consumer; src: the producer of a consumer.
Object == [kind : {"transport", "producer", "consumer"}, user : Users, router : Rooms,
           up : 0..MaxMedia, src : 0..MaxMedia]

Request == [pc : {"idle", "router", "transport", "file", "produce", "consume"},
            user : Users \union {None},
            room : 0..MaxRooms,     \* room of a transport to be
            on : 0..MaxMedia,       \* transport, or the new transport
            src : 0..MaxMedia]      \* producer to consume

Idle == [pc |-> "idle", user |-> None, room |-> 0, on |-> 0, src |-> 0]

Made == DOMAIN media

RoomsOK ==
  /\ reg \in 0..MaxRooms /\ born \in 0..MaxRooms /\ reg <= born
  /\ routers \subseteq 1..born
  /\ parts \in [Rooms -> SUBSET Users]
  /\ held \in [Rooms -> [Users -> SUBSET Media]]
  /\ timer \in BOOLEAN

MediaOK ==
  /\ \E n \in 0..MaxMedia : media \in [1..n -> Object]
  /\ open \subseteq Made

WaitersOK ==
  /\ req \in [Requests -> Request]
  /\ \A r \in Requests : req[r].pc \in {"transport", "file"} => req[r].room # 0

StateOK == RoomsOK /\ MediaOK /\ WaitersOK /\ events \in 0..MaxEvents

TypeOK == StateOK /\ inside \subseteq Users

Init ==
  /\ reg = 0 /\ born = 0 /\ routers = {}
  /\ parts = [m \in Rooms |-> {}]
  /\ held = [m \in Rooms |-> [u \in Users |-> {}]]
  /\ timer = FALSE
  /\ media = [o \in 1..0 |-> None] /\ open = {}
  /\ req = [r \in Requests |-> Idle]
  /\ inside = {}
  /\ events = 0

-------------------------------------------------------------------------------
(* mediasoup *)

\* What closes with the objects S: producers and consumers with their transport,
\* consumers with their producer.
Closing(S) ==
  LET below == S \union {o \in Made : media[o].up \in S}
  IN below \union {o \in Made : media[o].src \in below}

OnRouter(m) == {o \in Made : media[o].router = m}

\* A worker answers with a new object of user u.
Create(kind, u, m, up, src) ==
  LET o == Cardinality(Made) + 1 IN
  /\ o <= MaxMedia
  /\ media' = [p \in 1..o |-> IF p = o THEN [kind |-> kind, user |-> u, router |-> m,
                                             up |-> up, src |-> src]
                              ELSE media[p]]
  /\ open' = open \union {o}

-------------------------------------------------------------------------------
(* Requests *)

Registered == IF reg = 0 THEN {} ELSE parts[reg]

\* getParticipant(roomId, u)'s objects of a kind.
HeldBy(u, kind) ==
  IF u \in Registered THEN {o \in held[reg][u] : media[o].kind = kind} ELSE {}

Event == events < MaxEvents /\ events' = events + 1

Wait(r, q) == req[r] = Idle /\ req' = [req EXCEPT ![r] = q]

Answer(r) == req' = [req EXCEPT ![r] = Idle]

\* Mutant: the objects of an earlier visit are forgotten instead of closed.
EnterAfresh(m, u) ==
  /\ parts' = [parts EXCEPT ![m] = @ \union {u}]
  /\ held' = [held EXCEPT ![m][u] = {}]
  /\ UNCHANGED open

\* joinRoom, once it has the room: a fresh participant, the old objects closed.
Enter(m, u) ==
  /\ open' = open \ Closing(held[m][u])
  /\ parts' = [parts EXCEPT ![m] = @ \union {u}]
  /\ held' = [held EXCEPT ![m][u] = {}]

\* JoinRoom, up to the worker if the room is to be created.
JoinRoom(r, u) ==
  /\ Event
  /\ timer' = FALSE
  /\ IF reg = 0
     THEN /\ Wait(r, [Idle EXCEPT !.pc = "router", !.user = u])
          /\ UNCHANGED <<parts, held, open, inside>>
     ELSE Enter(reg, u) /\ inside' = inside \union {u} /\ UNCHANGED req
  /\ UNCHANGED <<reg, routers, media, born>>

\* createRoom after createRouter: whatever was registered meanwhile is replaced.
RouterCreated(r) ==
  LET m == born + 1 IN
  /\ req[r].pc = "router" /\ m <= MaxRooms
  /\ born' = m /\ reg' = m /\ routers' = routers \union {m}
  /\ Enter(m, req[r].user)
  /\ inside' = {req[r].user}
  /\ Answer(r)
  /\ UNCHANGED <<timer, media, events>>

\* Mutant: every leave of the room's last participant disarms the timer again.
ArmForgotten(m, left) == timer' = FALSE

\* leaveRoom: schedulePendingClose.
Arm(m, left) == timer' = (timer \/ left = {})

\* LeaveRoom: of a signal, of a device that took over, or of a disconnect.
LeaveRoom(u) ==
  LET left == parts[reg] \ {u} IN
  /\ Event
  /\ reg # 0
  /\ IF u \in parts[reg]
     THEN /\ open' = open \ Closing(held[reg][u])
          /\ parts' = [parts EXCEPT ![reg] = left]
          /\ held' = [held EXCEPT ![reg][u] = {}]
     ELSE UNCHANGED <<open, parts, held>>
  /\ Arm(reg, left)
  /\ inside' = inside \ {u}
  /\ UNCHANGED <<reg, routers, media, req, born>>

\* Mutant: the timer trusts that joinRoom would have cancelled it.
EmptyUnchecked == reg # 0

\* schedulePendingClose: the check in the timer.
Empty == reg # 0 /\ parts[reg] = {}

\* The grace period is over.
TimerFires ==
  /\ timer
  /\ timer' = FALSE
  /\ IF Empty
     THEN reg' = 0 /\ routers' = routers \ {reg} /\ open' = open \ OnRouter(reg)
     ELSE UNCHANGED <<reg, routers, open>>
  /\ UNCHANGED <<parts, held, media, req, born, inside, events>>

-------------------------------------------------------------------------------
(* Media: each handler looks the room up, waits for the worker, and files what   *)
(* it got in the room registered by then.                                        *)

\* Mutant: createWebRtcTransport goes on without its room.
RoomAssumed == TRUE

\* createWebRtcTransport: getRoom.
RoomFound == reg # 0

CreateTransport(r, u) ==
  /\ Event
  /\ RoomFound
  /\ Wait(r, [Idle EXCEPT !.pc = "transport", !.user = u, !.room = reg])
  /\ UNCHANGED <<reg, routers, parts, held, timer, media, open, born, inside>>

\* The transport is there, unless its router was closed; its bit rate comes next.
TransportCreated(r) ==
  LET q == req[r] IN
  /\ q.pc = "transport"
  /\ IF q.room \in routers
     THEN /\ Create("transport", q.user, q.room, 0, 0)
          /\ req' = [req EXCEPT ![r].pc = "file", ![r].on = Cardinality(Made) + 1]
     ELSE Answer(r) /\ UNCHANGED <<media, open>>
  /\ UNCHANGED <<reg, routers, parts, held, timer, born, inside, events>>

\* addTransport: a user without an entry gets one, even one who has just left.
FileTransport(r) ==
  LET q == req[r] IN
  /\ q.pc = "file"
  /\ IF reg # 0
     THEN /\ parts' = [parts EXCEPT ![reg] = @ \union {q.user}]
          /\ held' = [held EXCEPT ![reg][q.user] = @ \union {q.on}]
     ELSE UNCHANGED <<parts, held>>
  /\ Answer(r)
  /\ UNCHANGED <<reg, routers, timer, media, open, born, inside, events>>

\* produce
Produce(r, u, t) ==
  /\ Event
  /\ t \in HeldBy(u, "transport")
  /\ Wait(r, [Idle EXCEPT !.pc = "produce", !.user = u, !.on = t])
  /\ UNCHANGED <<reg, routers, parts, held, timer, media, open, born, inside>>

\* consume: the producer is in the room's maps and canConsume knows it.
Consume(r, u, t, p) ==
  /\ Event
  /\ t \in HeldBy(u, "transport")
  /\ p \in open /\ media[p].router = reg
  /\ \E v \in Users : p \in HeldBy(v, "producer")
  /\ Wait(r, [Idle EXCEPT !.pc = "consume", !.user = u, !.on = t, !.src = p])
  /\ UNCHANGED <<reg, routers, parts, held, timer, media, open, born, inside>>

\* The producer or consumer is there, unless its transport or source was closed;
\* addProducer and addConsumer refuse a user without an entry.
StreamCreated(r) ==
  LET q == req[r] IN
  /\ q.pc \in {"produce", "consume"}
  /\ IF q.on \in open /\ q.src \in open \union {0}
     THEN /\ Create(IF q.pc = "produce" THEN "producer" ELSE "consumer", q.user,
                    media[q.on].router, q.on, q.src)
          /\ held' = IF q.user \in Registered
                     THEN [held EXCEPT ![reg][q.user] = @ \union {Cardinality(Made) + 1}]
                     ELSE held
     ELSE UNCHANGED <<media, open, held>>
  /\ Answer(r)
  /\ UNCHANGED <<reg, routers, parts, timer, born, inside, events>>

\* closeProducer: the closed producer stays in the map.
CloseProducer(u, p) ==
  /\ Event
  /\ p \in HeldBy(u, "producer")
  /\ open' = open \ Closing({p})
  /\ UNCHANGED <<reg, routers, parts, held, timer, media, req, born, inside>>

\* A worker refuses, or dies with the process: died, then exit and a new process.
Refuse(r) ==
  /\ req[r].pc \notin {"idle", "file"}
  /\ Answer(r)
  /\ UNCHANGED <<reg, routers, parts, held, timer, media, open, born, inside, events>>

Crash ==
  /\ Event
  /\ reg' = 0 /\ routers' = {} /\ open' = {} /\ timer' = FALSE
  /\ parts' = [m \in Rooms |-> {}]
  /\ held' = [m \in Rooms |-> [u \in Users |-> {}]]
  /\ req' = [r \in Requests |-> Idle]
  /\ inside' = {}
  /\ UNCHANGED <<media, born>>

Continue(r) == RouterCreated(r) \/ TransportCreated(r) \/ FileTransport(r) \/ StreamCreated(r)

\* A signal of u's client that waits for a worker.
Signal(r, u) ==
  \/ JoinRoom(r, u) \/ CreateTransport(r, u)
  \/ \E t \in Made : Produce(r, u, t) \/ \E p \in Made : Consume(r, u, t, p)

Next ==
  \/ \E r \in Requests : \/ Continue(r) \/ Refuse(r)
                        \/ \E u \in Users : Signal(r, u)
  \/ \E u \in Users : LeaveRoom(u) \/ \E p \in Made : CloseProducer(u, p)
  \/ TimerFires \/ Crash

Spec == Init /\ [][Next]_vars

-------------------------------------------------------------------------------
(* Properties *)

\* A join that succeeded holds: who joined and has not left, with or without a
\* transport yet, is a participant of the registered room, and its router is open,
\* whatever close was pending when he came and whatever answers come late.  Only a
\* room that a second join was creating at the same time takes its place.
JoinedStay ==
  /\ inside \subseteq Registered
  /\ reg # 0 => reg \in routers

\* An emptied room does not stay for ever: its close is pending.
EmptyIsTimed == reg # 0 /\ parts[reg] = {} => timer

\* Nothing goes on sending or receiving that no participant answers for: what is
\* open on the room's router is in somebody's maps, or a handler is filing it.
OpenIsHeld ==
  \A o \in open :
    media[o].router = reg =>
      \/ \E u \in parts[reg] : o \in held[reg][u]
      \/ \E r \in Requests : req[r].pc = "file" /\ req[r].on = o
===============================================================================
