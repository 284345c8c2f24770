---------------------------- MODULE SfuRoomsProofs ----------------------------
(***************************************************************************)
(* Proofs about SfuRooms, for any sets of users and of handlers and any    *)
(* bounds.                                                                 *)
(***************************************************************************)
EXTENDS SfuRooms, FiniteSetTheorems, TLAPS

\* What a handler waits with: it knows its user, and its transport exists.
WaitInv ==
  /\ \A r \in Requests : req[r].pc # "idle" => req[r].user \in Users
  /\ \A r \in Requests : req[r].pc \in {"file", "produce", "consume"} => req[r].on \in Made

\* The transport a stream waits for, if it is open on the room's router, is held
\* by the handler's user.
StreamInv ==
  \A r \in Requests :
    /\ req[r].pc \in {"produce", "consume"}
    /\ req[r].on \in open /\ media[req[r].on].router = reg
    => req[r].user \in parts[reg] /\ req[r].on \in held[reg][req[r].user]

\* Nobody has media on a router that is yet to be created.
BornInv == \A o \in Made : media[o].router <= born

IInv == StateOK /\ WaitInv /\ BornInv /\ EmptyIsTimed /\ JoinedStay /\ StreamInv /\ OpenIsHeld

-------------------------------------------------------------------------------
(* The media table *)

\* The objects are numbered as they come.
LEMMA MadeCount ==
  ASSUME MediaOK
  PROVE  /\ Cardinality(Made) \in 0..MaxMedia
         /\ Made = 1..Cardinality(Made)
         /\ media \in [1..Cardinality(Made) -> Object]
<1>1. PICK n \in 0..MaxMedia : media \in [1..n -> Object]
  BY DEF MediaOK
<1>2. n \in Nat /\ Made = 1..n
  BY <1>1, ConstantsAssumption DEF Made
<1>3. Cardinality(1..n) = n
  <2>1. 1 \in Int /\ n \in Int
    BY <1>2
  <2>2. Cardinality(1..n) = IF 1 > n THEN 0 ELSE n - 1 + 1
    BY <2>1, FS_Interval
  <2>3. QED
    BY <1>2, <2>2
<1>4. QED
  BY <1>1, <1>2, <1>3

\* A new object has the next number, and the others keep what they were.
LEMMA CreateAdds ==
  ASSUME MediaOK,
         NEW kind \in {"transport", "producer", "consumer"}, NEW u \in Users,
         NEW m \in Rooms, NEW up \in 0..MaxMedia, NEW src \in 0..MaxMedia,
         Create(kind, u, m, up, src)
  PROVE  LET o == Cardinality(Made) + 1 IN
         /\ o \in Media /\ o \notin Made
         /\ Made' = Made \union {o}
         /\ media'[o].router = m
         /\ \A p \in Made : media'[p] = media[p]
         /\ open' = open \union {o}
         /\ MediaOK'
<1> DEFINE n == Cardinality(Made)
           o == n + 1
           new == [kind |-> kind, user |-> u, router |-> m, up |-> up, src |-> src]
<1>1. n \in 0..MaxMedia /\ Made = 1..n /\ media \in [1..n -> Object]
  BY MadeCount
<1>2. o <= MaxMedia /\ open' = open \union {o}
  BY DEF Create
<1>3. media' = [p \in 1..o |-> IF p = o THEN new ELSE media[p]]
  BY DEF Create
<1>4. new \in Object
  BY DEF Object
<1> HIDE DEF n
<1>5. o \in Media /\ o \notin Made /\ o \in 0..MaxMedia
  BY <1>1, <1>2, ConstantsAssumption DEF Media
<1>6. \A p \in 1..o : p = o \/ p \in 1..n
  BY <1>1
<1>7. Made' = 1..o
  BY <1>3 DEF Made
<1>8. 1..o = (1..n) \union {o}
  BY <1>1
<1> HIDE DEF new
<1>9. \A p \in 1..o : (IF p = o THEN new ELSE media[p]) \in Object
  BY <1>1, <1>4, <1>6
<1>10. media' \in [1..o -> Object]
  BY <1>3, <1>9
<1>11. media'[o] = new
  BY <1>3, <1>8
<1>12. \A p \in Made : media'[p] = media[p]
  BY <1>1, <1>3, <1>5, <1>8
<1>13. new.router = m
  BY DEF new
<1>14. MediaOK'
  BY <1>1, <1>2, <1>5, <1>7, <1>8, <1>10 DEF MediaOK
<1>15. QED
  BY <1>1, <1>2, <1>5, <1>7, <1>8, <1>11, <1>12, <1>13, <1>14 DEF n

\* Entering or leaving closes all that the user had in the room.
LEMMA ClosingCovers == ASSUME NEW S PROVE S \subseteq Closing(S)
  BY DEF Closing

-------------------------------------------------------------------------------
(* Types *)

NoneHeld == [m \in Rooms |-> [u \in Users |-> {}]]

LEMMA NoneHeldType == NoneHeld \in [Rooms -> [Users -> SUBSET Media]]
<1>1. \A m \in Rooms : [u \in Users |-> {}] \in [Users -> SUBSET Media]
  OBVIOUS
<1>2. QED
  BY <1>1 DEF NoneHeld

LEMMA InitIInv == Init => IInv
<1> SUFFICES ASSUME Init PROVE IInv
  OBVIOUS
<1>1. Made = {} /\ MediaOK
  <2>1. 1..0 = {} /\ 0 \in 0..MaxMedia
    BY ConstantsAssumption
  <2>2. media \in [1..0 -> Object] /\ Made = {} /\ open = {}
    BY <2>1 DEF Init, Made
  <2>3. QED
    BY <2>1, <2>2 DEF MediaOK
<1>2. RoomsOK /\ events \in 0..MaxEvents
  <2>1. held \in [Rooms -> [Users -> SUBSET Media]] /\ parts \in [Rooms -> SUBSET Users]
    BY NoneHeldType DEF Init, NoneHeld
  <2>2. /\ reg \in 0..MaxRooms /\ born \in 0..MaxRooms /\ reg <= born
        /\ routers \subseteq 1..born /\ timer \in BOOLEAN /\ events \in 0..MaxEvents
    <3>1. reg = 0 /\ born = 0 /\ routers = {} /\ timer = FALSE /\ events = 0
      BY DEF Init
    <3>2. timer \in BOOLEAN
      BY <3>1
    <3>3. QED
      BY <3>1, <3>2, ConstantsAssumption
  <2>3. QED
    BY <2>1, <2>2 DEF RoomsOK
<1>3. WaitersOK
  <2>1. Idle \in Request /\ Idle.pc = "idle"
    BY ConstantsAssumption DEF Idle, Request
  <2>2. QED
    BY <2>1 DEF Init, WaitersOK
<1>4. WaitInv /\ StreamInv
  BY DEF Init, WaitInv, StreamInv, Idle
<1>5. BornInv /\ EmptyIsTimed /\ JoinedStay /\ OpenIsHeld
  BY <1>1 DEF Init, BornInv, EmptyIsTimed, JoinedStay, OpenIsHeld
<1>6. QED
  BY <1>1, <1>2, <1>3, <1>4, <1>5 DEF IInv, StateOK

LEMMA IdleType == Idle \in Request /\ Idle.pc = "idle"
  BY ConstantsAssumption DEF Idle, Request

\* A handler that goes on to wait with q.
LEMMA WaiterType ==
  ASSUME WaitersOK, NEW r \in Requests, NEW q \in Request,
         req' = [req EXCEPT ![r] = q],
         q.pc \in {"transport", "file"} => q.room # 0
  PROVE  WaitersOK'
  BY DEF WaitersOK

\* A handler that answers.
LEMMA AnswerType ==
  ASSUME WaitersOK, NEW r \in Requests, Answer(r)
  PROVE  WaitersOK'
  BY IdleType, WaiterType DEF Answer

LEMMA EnterType ==
  ASSUME RoomsOK, NEW m \in Rooms, NEW u \in Users, Enter(m, u)
  PROVE  /\ parts' \in [Rooms -> SUBSET Users]
         /\ held' \in [Rooms -> [Users -> SUBSET Media]]
         /\ open' \subseteq open
  BY DEF RoomsOK, Enter

\* Requests and crashes are counted up to their bound.
LEMMA EventType == events \in 0..MaxEvents /\ Event => events' \in 0..MaxEvents
  BY ConstantsAssumption DEF Event

\* The worker answered a handler whose transport and source are still open.
StreamMade(r) == req[r].on \in open /\ req[r].src \in open \union {0}

\* A stream is filed with its user, if they are in the room.
LEMMA StreamFacts ==
  ASSUME StateOK, WaitInv, NEW r \in Requests, StreamCreated(r), StreamMade(r)
  PROVE  LET o == Cardinality(Made) + 1
             u == req[r].user
             m == media[req[r].on].router
         IN /\ o \in Media /\ o \notin Made /\ Made' = Made \union {o}
            /\ media'[o].router = m /\ \A p \in Made : media'[p] = media[p]
            /\ open' = open \union {o} /\ MediaOK'
            /\ u \in Users /\ m \in Rooms
            /\ held' = IF u \in Registered
                       THEN [held EXCEPT ![reg][u] = @ \union {o}] ELSE held
            /\ held' \in [Rooms -> [Users -> SUBSET Media]]
<1> DEFINE q == req[r]
           kind == IF q.pc = "produce" THEN "producer" ELSE "consumer"
           o == Cardinality(Made) + 1
<1>1. /\ Create(kind, q.user, media[q.on].router, q.on, q.src)
      /\ held' = IF q.user \in Registered
                 THEN [held EXCEPT ![reg][q.user] = @ \union {o}] ELSE held
      /\ q.pc \in {"produce", "consume"}
  BY DEF StreamCreated, StreamMade
<1>2. q \in Request
  BY DEF StateOK, WaitersOK
<1>3. /\ kind \in {"transport", "producer", "consumer"} /\ q.user \in Users
      /\ q.on \in 0..MaxMedia /\ q.src \in 0..MaxMedia
  BY <1>1, <1>2 DEF WaitInv, Request
<1>4. media[q.on].router \in Rooms
  <2>1. q.on \in Made
    BY DEF StreamMade, StateOK, MediaOK
  <2>2. media[q.on] \in Object
    BY <2>1, MadeCount DEF StateOK
  <2>3. QED
    BY <2>2 DEF Object
<1> HIDE DEF kind
<1>5. /\ o \in Media /\ o \notin Made /\ Made' = Made \union {o}
      /\ media'[o].router = media[q.on].router /\ \A p \in Made : media'[p] = media[p]
      /\ open' = open \union {o} /\ MediaOK'
  BY <1>1, <1>3, <1>4, CreateAdds DEF StateOK
<1> HIDE DEF q, o
<1>6. q.user \in Registered => reg \in Rooms
  BY ConstantsAssumption DEF Registered, StateOK, RoomsOK, Rooms
<1>7. held' \in [Rooms -> [Users -> SUBSET Media]]
  BY <1>1, <1>3, <1>5, <1>6 DEF StateOK, RoomsOK
<1>8. QED
  BY <1>1, <1>3, <1>4, <1>5, <1>7 DEF q, o

\* The worker answered a handler whose router is still open.
TransportMade(r) == req[r].room \in routers

\* The new transport is on the router the handler found.
LEMMA TransportFacts ==
  ASSUME StateOK, WaitInv, NEW r \in Requests, TransportCreated(r), TransportMade(r)
  PROVE  LET o == Cardinality(Made) + 1
         IN /\ o \in Media /\ o \notin Made /\ Made' = Made \union {o}
            /\ media'[o].router = req[r].room /\ req[r].room \in 1..born
            /\ \A p \in Made : media'[p] = media[p]
            /\ open' = open \union {o} /\ MediaOK'
            /\ req' = [req EXCEPT ![r] = [@ EXCEPT !.pc = "file", !.on = o]]
<1>1. /\ Create("transport", req[r].user, req[r].room, 0, 0)
      /\ req' = [req EXCEPT ![r].pc = "file", ![r].on = Cardinality(Made) + 1]
      /\ req[r].pc = "transport"
  BY DEF TransportCreated, TransportMade
<1>2. req[r].user \in Users /\ req[r].room \in Rooms /\ 0 \in 0..MaxMedia /\ req[r].room \in 1..born
  BY <1>1, ConstantsAssumption DEF TransportMade, WaitInv, StateOK, RoomsOK, Rooms
<1>3. QED
  BY <1>1, <1>2, CreateAdds DEF StateOK, WaitersOK

LEMMA TypeStep == StateOK /\ WaitInv /\ [Next]_vars => StateOK'
<1> SUFFICES ASSUME StateOK, WaitInv, [Next]_vars PROVE StateOK'
  OBVIOUS
<1> USE DEF StateOK
<1>0. reg # 0 => reg \in Rooms
  BY ConstantsAssumption DEF RoomsOK, Rooms
<1>1. ASSUME NEW r \in Requests, NEW u \in Users, JoinRoom(r, u) PROVE StateOK'
  <2>1. events' \in 0..MaxEvents
    BY <1>1, EventType DEF JoinRoom
  <2>2. CASE reg = 0
    <3> DEFINE q == [Idle EXCEPT !.pc = "router", !.user = u]
    <3>1. q \in Request /\ q.pc = "router"
      BY IdleType DEF Request
    <3>2. req' = [req EXCEPT ![r] = q] /\ UNCHANGED <<parts, held, open>>
      BY <1>1, <2>2 DEF JoinRoom, Wait
    <3> HIDE DEF q
    <3>3. WaitersOK'
      BY <3>1, <3>2, WaiterType
    <3>4. RoomsOK' /\ MediaOK'
      BY <1>1, <3>2 DEF JoinRoom, RoomsOK, MediaOK, Made
    <3>5. QED
      BY <2>1, <3>3, <3>4
  <2>3. CASE reg # 0
    <3>1. Enter(reg, u) /\ UNCHANGED req
      BY <1>1, <2>3 DEF JoinRoom
    <3>2. /\ parts' \in [Rooms -> SUBSET Users]
          /\ held' \in [Rooms -> [Users -> SUBSET Media]]
          /\ open' \subseteq open
      BY <1>0, <2>3, <3>1, EnterType
    <3>3. RoomsOK' /\ MediaOK' /\ WaitersOK'
      BY <1>1, <3>1, <3>2 DEF JoinRoom, RoomsOK, MediaOK, Made, WaitersOK
    <3>4. QED
      BY <2>1, <3>3
  <2>4. QED
    BY <2>2, <2>3
<1>2. ASSUME NEW r \in Requests, RouterCreated(r) PROVE StateOK'
  <2>1. req[r].user \in Users /\ born + 1 \in Rooms
    BY <1>2, ConstantsAssumption DEF RouterCreated, WaitInv, RoomsOK, Rooms
  <2>2. /\ parts' \in [Rooms -> SUBSET Users]
        /\ held' \in [Rooms -> [Users -> SUBSET Media]]
        /\ open' \subseteq open
    BY <1>2, <2>1, EnterType DEF RouterCreated
  <2>3. WaitersOK'
    BY <1>2, AnswerType DEF RouterCreated
  <2>4. /\ born' = born + 1 /\ reg' = born + 1 /\ routers' = routers \union {born + 1}
        /\ UNCHANGED <<timer, media, events>>
    BY <1>2 DEF RouterCreated
  <2>5. /\ reg' \in 0..MaxRooms /\ born' \in 0..MaxRooms /\ reg' <= born'
        /\ routers' \subseteq 1..born'
    BY <2>1, <2>4, ConstantsAssumption DEF RoomsOK, Rooms
  <2>6. RoomsOK' /\ MediaOK'
    BY <2>2, <2>4, <2>5 DEF RoomsOK, MediaOK, Made
  <2>7. QED
    BY <2>3, <2>4, <2>6
<1>3. ASSUME NEW u \in Users, LeaveRoom(u) PROVE StateOK'
  <2>1. reg \in Rooms /\ events' \in 0..MaxEvents
    BY <1>0, <1>3, EventType DEF LeaveRoom
  <2>2. open' \subseteq open /\ UNCHANGED <<reg, routers, media, req, born>>
    BY <1>3 DEF LeaveRoom
  <2>3. /\ parts' \in [Rooms -> SUBSET Users]
        /\ held' \in [Rooms -> [Users -> SUBSET Media]]
    BY <1>3, <2>1 DEF LeaveRoom, RoomsOK
  <2>4. timer' \in BOOLEAN
    BY <1>3 DEF LeaveRoom, Arm, RoomsOK
  <2>5. RoomsOK' /\ MediaOK' /\ WaitersOK'
    BY <2>2, <2>3, <2>4 DEF RoomsOK, MediaOK, Made, WaitersOK
  <2>6. QED
    BY <2>1, <2>5
<1>4. CASE TimerFires
  <2>1. RoomsOK'
    <3>1. /\ reg' \in {0, reg} /\ routers' \subseteq routers /\ timer' = FALSE
          /\ UNCHANGED <<parts, held, born>>
      BY <1>4 DEF TimerFires
    <3>2. reg' \in 0..MaxRooms /\ reg' <= born'
      BY <3>1, ConstantsAssumption DEF RoomsOK
    <3>3. QED
      BY <3>1, <3>2 DEF RoomsOK
  <2>2. MediaOK' /\ WaitersOK' /\ events' = events
    BY <1>4 DEF TimerFires, MediaOK, Made, WaitersOK
  <2>3. QED
    BY <2>1, <2>2
<1>5. ASSUME NEW r \in Requests, NEW u \in Users, CreateTransport(r, u) PROVE StateOK'
  <2> DEFINE q == [Idle EXCEPT !.pc = "transport", !.user = u, !.room = reg]
  <2>1. reg \in 0..MaxRooms /\ reg # 0
    BY <1>5 DEF CreateTransport, RoomFound, RoomsOK
  <2>2. q \in Request /\ q.room = reg
    BY <2>1, IdleType DEF Request
  <2>3. req' = [req EXCEPT ![r] = q]
    BY <1>5 DEF CreateTransport, Wait
  <2> HIDE DEF q
  <2>4. WaitersOK'
    BY <2>1, <2>2, <2>3, WaiterType
  <2>5. RoomsOK' /\ MediaOK' /\ events' \in 0..MaxEvents
    BY <1>5, EventType DEF CreateTransport, RoomsOK, MediaOK, Made
  <2>6. QED
    BY <2>4, <2>5
<1>6. ASSUME NEW r \in Requests, TransportCreated(r) PROVE StateOK'
  <2>1. RoomsOK' /\ events' = events
    BY <1>6 DEF TransportCreated, RoomsOK
  <2>2. CASE req[r].room \in routers
    <3> DEFINE o == Cardinality(Made) + 1
               q == [req[r] EXCEPT !.pc = "file", !.on = o]
    <3>1. /\ Create("transport", req[r].user, req[r].room, 0, 0)
          /\ req' = [req EXCEPT ![r].pc = "file", ![r].on = o]
          /\ req[r].pc = "transport"
      BY <1>6, <2>2 DEF TransportCreated
    <3>2. req[r].user \in Users /\ req[r].room \in Rooms /\ 0 \in 0..MaxMedia
      BY <2>2, <3>1, ConstantsAssumption DEF WaitInv, RoomsOK, Rooms
    <3>3. o \in Media /\ MediaOK'
      BY <3>1, <3>2, CreateAdds
    <3>4. o \in 0..MaxMedia
      BY <3>3, ConstantsAssumption DEF Media
    <3>5. req[r] \in Request /\ req[r].room # 0
      BY <3>1 DEF WaitersOK
    <3> HIDE DEF o
    <3>6. q \in Request /\ q.room = req[r].room
      BY <3>4, <3>5 DEF Request
    <3>7. req' = [req EXCEPT ![r] = q]
      BY <3>1 DEF WaitersOK
    <3> HIDE DEF q
    <3>8. WaitersOK'
      BY <3>5, <3>6, <3>7, WaiterType
    <3>9. QED
      BY <2>1, <3>3, <3>8
  <2>3. CASE req[r].room \notin routers
    <3>1. WaitersOK' /\ UNCHANGED <<media, open>>
      BY <1>6, <2>3, AnswerType DEF TransportCreated
    <3>2. QED
      BY <2>1, <3>1 DEF MediaOK, Made
  <2>4. QED
    BY <2>2, <2>3
<1>7. ASSUME NEW r \in Requests, FileTransport(r) PROVE StateOK'
  <2>1. req[r].user \in Users /\ req[r].on \in Media
    <3>1. req[r].pc = "file"
      BY <1>7 DEF FileTransport
    <3>2. req[r].on \in Made
      BY <3>1 DEF WaitInv
    <3>3. Made \subseteq Media
      BY MadeCount, ConstantsAssumption DEF Media
    <3>4. QED
      BY <3>1, <3>2, <3>3 DEF WaitInv
  <2>2. /\ parts' \in [Rooms -> SUBSET Users]
        /\ held' \in [Rooms -> [Users -> SUBSET Media]]
    <3>1. CASE reg # 0
      <4> DEFINE u == req[r].user
                 o == req[r].on
      <4>1. /\ parts' = [parts EXCEPT ![reg] = @ \union {u}]
            /\ held' = [held EXCEPT ![reg][u] = @ \union {o}]
        BY <1>7, <3>1 DEF FileTransport
      <4>2. u \in Users /\ o \in Media /\ reg \in Rooms
        BY <1>0, <2>1, <3>1
      <4> HIDE DEF u, o
      <4>3. QED
        BY <4>1, <4>2 DEF RoomsOK
    <3>2. CASE reg = 0
      BY <1>7, <3>2 DEF FileTransport, RoomsOK
    <3>3. QED
      BY <3>1, <3>2
  <2>3. RoomsOK' /\ MediaOK' /\ events' = events
    BY <1>7, <2>2 DEF FileTransport, RoomsOK, MediaOK, Made
  <2>4. WaitersOK'
    BY <1>7, AnswerType DEF FileTransport
  <2>5. QED
    BY <2>3, <2>4
<1>8. ASSUME NEW r \in Requests, NEW u \in Users, NEW t \in Made, Produce(r, u, t)
      PROVE StateOK'
  <2> DEFINE q == [Idle EXCEPT !.pc = "produce", !.user = u, !.on = t]
  <2>1. t \in 0..MaxMedia
    BY MadeCount, ConstantsAssumption
  <2>2. q \in Request /\ q.pc = "produce"
    BY <2>1, IdleType DEF Request
  <2>3. req' = [req EXCEPT ![r] = q]
    BY <1>8 DEF Produce, Wait
  <2> HIDE DEF q
  <2>4. WaitersOK'
    BY <2>2, <2>3, WaiterType
  <2>5. RoomsOK' /\ MediaOK' /\ events' \in 0..MaxEvents
    BY <1>8, EventType DEF Produce, RoomsOK, MediaOK, Made
  <2>6. QED
    BY <2>4, <2>5
<1>9. ASSUME NEW r \in Requests, NEW u \in Users, NEW t \in Made, NEW p \in Made,
             Consume(r, u, t, p)
      PROVE StateOK'
  <2> DEFINE q == [Idle EXCEPT !.pc = "consume", !.user = u, !.on = t, !.src = p]
  <2>1. t \in 0..MaxMedia /\ p \in 0..MaxMedia
    BY MadeCount, ConstantsAssumption
  <2>2. q \in Request /\ q.pc = "consume"
    BY <2>1, IdleType DEF Request
  <2>3. req' = [req EXCEPT ![r] = q]
    BY <1>9 DEF Consume, Wait
  <2> HIDE DEF q
  <2>4. WaitersOK'
    BY <2>2, <2>3, WaiterType
  <2>5. RoomsOK' /\ MediaOK' /\ events' \in 0..MaxEvents
    BY <1>9, EventType DEF Consume, RoomsOK, MediaOK, Made
  <2>6. QED
    BY <2>4, <2>5
<1>10. ASSUME NEW r \in Requests, StreamCreated(r) PROVE StateOK'
  <2>1. WaitersOK'
    BY <1>10, AnswerType DEF StreamCreated
  <2>2. UNCHANGED <<reg, routers, parts, timer, born, events>>
    BY <1>10 DEF StreamCreated
  <2>3. CASE StreamMade(r)
    BY <2>1, <2>2, <2>3, <1>10, StreamFacts DEF RoomsOK
  <2>4. CASE ~StreamMade(r)
    BY <1>10, <2>1, <2>2, <2>4 DEF StreamCreated, StreamMade, RoomsOK, MediaOK, Made
  <2>5. QED
    BY <2>3, <2>4
<1>11. ASSUME NEW u \in Users, NEW p \in Made, CloseProducer(u, p) PROVE StateOK'
  BY <1>11, EventType DEF CloseProducer, RoomsOK, MediaOK, Made, WaitersOK
<1>12. ASSUME NEW r \in Requests, Refuse(r) PROVE StateOK'
  BY <1>12, AnswerType DEF Refuse, RoomsOK, MediaOK, Made
<1>13. CASE Crash
  <2>1. WaitersOK'
    BY <1>13, IdleType DEF Crash, WaitersOK
  <2>2. MediaOK' /\ events' \in 0..MaxEvents
    BY <1>13, EventType DEF Crash, MediaOK, Made
  <2>3. RoomsOK'
    <3>1. held' \in [Rooms -> [Users -> SUBSET Media]] /\ parts' \in [Rooms -> SUBSET Users]
      BY <1>13, NoneHeldType DEF Crash, NoneHeld
    <3>2. /\ reg' = 0 /\ born' = born /\ routers' = {} /\ timer' = FALSE
      BY <1>13 DEF Crash
    <3>3. reg' \in 0..MaxRooms /\ reg' <= born'
      BY <3>2, ConstantsAssumption DEF RoomsOK
    <3>4. QED
      BY <3>1, <3>2, <3>3 DEF RoomsOK
  <2>4. QED
    BY <2>1, <2>2, <2>3
<1>14. CASE UNCHANGED vars
  BY <1>14 DEF vars, RoomsOK, MediaOK, WaitersOK, Made
<1>15. QED
  BY <1>1, <1>2, <1>3, <1>4, <1>5, <1>6, <1>7, <1>8, <1>9, <1>10, <1>11, <1>12, <1>13,
     <1>14 DEF Next, Continue, Signal

-------------------------------------------------------------------------------
(* The room and its timer *)

\* Whoever empties the room arms the timer, and whoever disarms it fills or
\* removes the room.
LEMMA EmptyStep == StateOK /\ WaitInv /\ EmptyIsTimed /\ [Next]_vars => EmptyIsTimed'
<1> SUFFICES ASSUME StateOK, WaitInv, EmptyIsTimed, [Next]_vars PROVE EmptyIsTimed'
  OBVIOUS
<1> USE DEF EmptyIsTimed
<1>0. /\ reg # 0 => reg \in Rooms
      /\ parts \in [Rooms -> SUBSET Users]
  BY ConstantsAssumption DEF StateOK, RoomsOK, Rooms
<1>1. ASSUME NEW r \in Requests, NEW u \in Users, JoinRoom(r, u) PROVE EmptyIsTimed'
  <2>1. CASE reg = 0
    BY <1>1, <2>1 DEF JoinRoom
  <2>2. CASE reg # 0
    BY <1>0, <1>1, <2>2 DEF JoinRoom, Enter
  <2>3. QED
    BY <2>1, <2>2
<1>2. ASSUME NEW r \in Requests, RouterCreated(r) PROVE EmptyIsTimed'
  <2>1. born + 1 \in Rooms
    BY <1>2, ConstantsAssumption DEF RouterCreated, StateOK, RoomsOK, Rooms
  <2>2. reg' = born + 1 /\ parts' = [parts EXCEPT ![born + 1] = @ \union {req[r].user}]
    BY <1>2 DEF RouterCreated, Enter
  <2>3. QED
    BY <1>0, <2>1, <2>2
<1>3. ASSUME NEW u \in Users, LeaveRoom(u) PROVE EmptyIsTimed'
  <2>1. reg \in Rooms /\ reg' = reg /\ timer' = (timer \/ parts[reg] \ {u} = {})
    BY <1>0, <1>3 DEF LeaveRoom, Arm
  <2>2. parts'[reg] = parts[reg] \ {u}
    BY <1>0, <1>3, <2>1 DEF LeaveRoom
  <2>3. QED
    BY <2>1, <2>2
<1>4. CASE TimerFires
  BY <1>4 DEF TimerFires, Empty
<1>5. ASSUME NEW r \in Requests, FileTransport(r) PROVE EmptyIsTimed'
  <2>1. CASE reg = 0
    BY <1>5, <2>1 DEF FileTransport
  <2>2. CASE reg # 0
    BY <1>0, <1>5, <2>2 DEF FileTransport
  <2>3. QED
    BY <2>1, <2>2
<1>6. ASSUME NEW r \in Requests, NEW u \in Users, Signal(r, u), ~JoinRoom(r, u)
      PROVE EmptyIsTimed'
  <2>1. UNCHANGED <<reg, parts, timer>>
    BY <1>6 DEF Signal, CreateTransport, Produce, Consume
  <2>2. QED
    BY <2>1
<1>7. ASSUME NEW r \in Requests, TransportCreated(r) \/ StreamCreated(r) \/ Refuse(r)
      PROVE EmptyIsTimed'
  BY <1>7 DEF TransportCreated, StreamCreated, Refuse
<1>8. ASSUME NEW u \in Users, NEW p \in Made, CloseProducer(u, p) PROVE EmptyIsTimed'
  BY <1>8 DEF CloseProducer
<1>9. CASE Crash
  BY <1>9 DEF Crash
<1>10. CASE UNCHANGED vars
  BY <1>10 DEF vars
<1>11. QED
  BY <1>1, <1>2, <1>3, <1>4, <1>5, <1>6, <1>7, <1>8, <1>9, <1>10 DEF Next, Continue

\* Who enters finds the registered room open or registers one; only an empty room, with
\* nobody inside, loses its router.
LEMMA JoinedStep == StateOK /\ WaitInv /\ JoinedStay /\ [Next]_vars => JoinedStay'
<1> SUFFICES ASSUME StateOK, WaitInv, JoinedStay, [Next]_vars PROVE JoinedStay'
  OBVIOUS
<1> USE DEF JoinedStay, Registered
<1>0. /\ reg # 0 => reg \in Rooms
      /\ parts \in [Rooms -> SUBSET Users]
  BY ConstantsAssumption DEF StateOK, RoomsOK, Rooms
<1>1. ASSUME NEW r \in Requests, NEW u \in Users, JoinRoom(r, u) PROVE JoinedStay'
  <2>1. CASE reg = 0
    BY <1>1, <2>1 DEF JoinRoom
  <2>2. CASE reg # 0
    <3>1. /\ reg' = reg /\ routers' = routers /\ inside' = inside \union {u}
          /\ parts' = [parts EXCEPT ![reg] = @ \union {u}]
      BY <1>1, <2>2 DEF JoinRoom, Enter
    <3>2. parts'[reg] = parts[reg] \union {u}
      BY <1>0, <2>2, <3>1
    <3>3. QED
      BY <2>2, <3>1, <3>2
  <2>3. QED
    BY <2>1, <2>2
<1>2. ASSUME NEW r \in Requests, RouterCreated(r) PROVE JoinedStay'
  <2>1. born + 1 \in Rooms /\ born + 1 # 0
    BY <1>2, ConstantsAssumption DEF RouterCreated, StateOK, RoomsOK, Rooms
  <2>2. /\ reg' = born + 1 /\ routers' = routers \union {born + 1}
        /\ inside' = {req[r].user}
        /\ parts' = [parts EXCEPT ![born + 1] = @ \union {req[r].user}]
    BY <1>2 DEF RouterCreated, Enter
  <2>3. QED
    BY <1>0, <2>1, <2>2
<1>3. ASSUME NEW u \in Users, LeaveRoom(u) PROVE JoinedStay'
  <2>1. reg \in Rooms /\ reg' = reg /\ routers' = routers /\ inside' = inside \ {u}
    BY <1>0, <1>3 DEF LeaveRoom
  <2>2. parts'[reg] = parts[reg] \ {u}
    BY <1>0, <1>3, <2>1 DEF LeaveRoom
  <2>3. QED
    BY <1>3, <2>1, <2>2 DEF LeaveRoom
<1>4. CASE TimerFires
  <2>1. CASE Empty
    <3>1. reg # 0 /\ inside = {} /\ inside' = inside /\ reg' = 0
      BY <1>4, <2>1 DEF TimerFires, Empty
    <3>2. QED
      BY <3>1
  <2>2. CASE ~Empty
    BY <1>4, <2>2 DEF TimerFires
  <2>3. QED
    BY <2>1, <2>2
<1>5. ASSUME NEW r \in Requests, FileTransport(r) PROVE JoinedStay'
  <2>1. UNCHANGED <<reg, routers, inside>>
    BY <1>5 DEF FileTransport
  <2>2. CASE reg = 0
    BY <2>1, <2>2
  <2>3. CASE reg # 0
    <3>1. parts' = [parts EXCEPT ![reg] = @ \union {req[r].user}]
      BY <1>5, <2>3 DEF FileTransport
    <3>2. parts'[reg] = parts[reg] \union {req[r].user}
      BY <1>0, <2>3, <3>1
    <3>3. QED
      BY <2>1, <2>3, <3>2
  <2>4. QED
    BY <2>2, <2>3
<1>6. ASSUME NEW r \in Requests, NEW u \in Users, Signal(r, u), ~JoinRoom(r, u)
      PROVE JoinedStay'
  <2>1. UNCHANGED <<reg, parts, routers, inside>>
    BY <1>6 DEF Signal, CreateTransport, Produce, Consume
  <2>2. QED
    BY <2>1
<1>7. ASSUME NEW r \in Requests, TransportCreated(r) \/ StreamCreated(r) \/ Refuse(r)
      PROVE JoinedStay'
  <2>1. UNCHANGED <<reg, parts, routers, inside>>
    BY <1>7 DEF TransportCreated, StreamCreated, Refuse
  <2>2. QED
    BY <2>1
<1>8. ASSUME NEW u \in Users, NEW p \in Made, CloseProducer(u, p) PROVE JoinedStay'
  <2>1. UNCHANGED <<reg, parts, routers, inside>>
    BY <1>8 DEF CloseProducer
  <2>2. QED
    BY <2>1
<1>9. CASE Crash
  BY <1>9 DEF Crash
<1>10. CASE UNCHANGED vars
  BY <1>10 DEF vars
<1>11. QED
  BY <1>1, <1>2, <1>3, <1>4, <1>5, <1>6, <1>7, <1>8, <1>9, <1>10 DEF Next, Continue

LEMMA RouterType == ASSUME StateOK, NEW o \in Made PROVE media[o].router \in Rooms
<1>1. media[o] \in Object
  BY MadeCount DEF StateOK
<1>2. QED
  BY <1>1 DEF Object

LEMMA WaitStep == StateOK /\ WaitInv /\ [Next]_vars => WaitInv'
<1> SUFFICES ASSUME StateOK, WaitInv, [Next]_vars PROVE WaitInv'
  OBVIOUS
<1>0. req \in [Requests -> Request]
  BY DEF StateOK, WaitersOK
<1> USE DEF WaitInv
<1>1. ASSUME NEW r \in Requests, NEW u \in Users, JoinRoom(r, u) PROVE WaitInv'
  <2>1. media' = media /\ (UNCHANGED req \/ Wait(r, [Idle EXCEPT !.pc = "router", !.user = u]))
    BY <1>1 DEF JoinRoom
  <2>2. QED
    BY <1>0, <2>1 DEF Wait, Idle, Made
<1>2. ASSUME NEW r \in Requests, RouterCreated(r) \/ FileTransport(r) \/ Refuse(r)
      PROVE WaitInv'
  BY <1>0, <1>2 DEF RouterCreated, FileTransport, Refuse, Answer, Idle, Made
<1>3. ASSUME NEW r \in Requests, NEW u \in Users, CreateTransport(r, u) PROVE WaitInv'
  BY <1>0, <1>3 DEF CreateTransport, Wait, Idle, Made
<1>4. ASSUME NEW r \in Requests, NEW u \in Users, NEW t \in Made, Produce(r, u, t)
      PROVE WaitInv'
  BY <1>0, <1>4 DEF Produce, Wait, Idle, Made
<1>5. ASSUME NEW r \in Requests, NEW u \in Users, NEW t \in Made, NEW p \in Made,
             Consume(r, u, t, p)
      PROVE WaitInv'
  BY <1>0, <1>5 DEF Consume, Wait, Idle, Made
<1>6. ASSUME NEW r \in Requests, TransportCreated(r) PROVE WaitInv'
  <2>1. CASE req[r].room \in routers
    <3>1. /\ TransportMade(r) /\ req[r].pc = "transport"
          /\ req' = [req EXCEPT ![r].pc = "file", ![r].on = Cardinality(Made) + 1]
      BY <1>6, <2>1 DEF TransportCreated, TransportMade
    <3>2. Made' = Made \union {Cardinality(Made) + 1}
      BY <1>6, <3>1, TransportFacts
    <3>3. QED
      BY <1>0, <3>1, <3>2 DEF Request
  <2>2. CASE req[r].room \notin routers
    BY <1>0, <1>6, <2>2 DEF TransportCreated, Answer, Idle, Made
  <2>3. QED
    BY <2>1, <2>2
<1>7. ASSUME NEW r \in Requests, StreamCreated(r) PROVE WaitInv'
  <2>1. Answer(r) /\ Made \subseteq Made'
    <3>1. CASE StreamMade(r)
      BY <1>7, <3>1, StreamFacts DEF StreamCreated
    <3>2. CASE ~StreamMade(r)
      BY <1>7, <3>2 DEF StreamCreated, StreamMade, Made
    <3>3. QED
      BY <3>1, <3>2
  <2>2. QED
    BY <1>0, <2>1 DEF Answer, Idle
<1>8. CASE TimerFires \/ \E u \in Users : LeaveRoom(u) \/ \E p \in Made : CloseProducer(u, p)
  BY <1>8 DEF TimerFires, LeaveRoom, CloseProducer, Made
<1>9. CASE Crash
  BY <1>9 DEF Crash, Idle
<1>10. CASE UNCHANGED vars
  BY <1>10 DEF vars, Made
<1>11. QED
  BY <1>1, <1>2, <1>3, <1>4, <1>5, <1>6, <1>7, <1>8, <1>9, <1>10 DEF Next, Continue, Signal

-------------------------------------------------------------------------------
(* What is open is held *)

LEMMA BornStep == StateOK /\ WaitInv /\ BornInv /\ [Next]_vars => BornInv'
<1> SUFFICES ASSUME StateOK, WaitInv, BornInv, [Next]_vars PROVE BornInv'
  OBVIOUS
<1>0. born \in Nat
  BY ConstantsAssumption DEF StateOK, RoomsOK
<1> USE DEF BornInv
<1>1. ASSUME NEW r \in Requests, RouterCreated(r) PROVE BornInv'
  <2>1. born' = born + 1 /\ media' = media
    BY <1>1 DEF RouterCreated
  <2>2. \A o \in Made : media[o].router \in Nat
    BY RouterType, ConstantsAssumption DEF Rooms
  <2>3. QED
    BY <1>0, <2>1, <2>2 DEF Made
<1>2. ASSUME NEW r \in Requests, TransportCreated(r) PROVE BornInv'
  <2>1. born' = born
    BY <1>2 DEF TransportCreated
  <2>2. CASE TransportMade(r)
    <3> DEFINE o == Cardinality(Made) + 1
    <3>1. /\ Made' = Made \union {o} /\ \A p \in Made : media'[p] = media[p]
          /\ media'[o].router \in 1..born
      BY <1>2, <2>2, TransportFacts
    <3> HIDE DEF o
    <3>2. QED
      BY <1>0, <2>1, <3>1
  <2>3. CASE ~TransportMade(r)
    BY <1>2, <2>1, <2>3 DEF TransportCreated, TransportMade, Made
  <2>4. QED
    BY <2>2, <2>3
<1>3. ASSUME NEW r \in Requests, StreamCreated(r) PROVE BornInv'
  <2>1. born' = born
    BY <1>3 DEF StreamCreated
  <2>2. CASE StreamMade(r)
    <3>1. req[r].on \in Made
      BY <2>2 DEF StreamMade, StateOK, MediaOK
    <3> DEFINE o == Cardinality(Made) + 1
    <3>2. /\ Made' = Made \union {o} /\ \A p \in Made : media'[p] = media[p]
          /\ media'[o].router = media[req[r].on].router
      BY <1>3, <2>2, StreamFacts
    <3> HIDE DEF o
    <3>3. QED
      BY <2>1, <3>1, <3>2
  <2>3. CASE ~StreamMade(r)
    BY <1>3, <2>1, <2>3 DEF StreamCreated, StreamMade, Made
  <2>4. QED
    BY <2>2, <2>3
<1>4. ASSUME UNCHANGED <<born, media>> PROVE BornInv'
  BY <1>4 DEF Made
<1>5. ASSUME NEW r \in Requests, FileTransport(r) \/ Refuse(r) PROVE UNCHANGED <<born, media>>
  BY <1>5 DEF FileTransport, Refuse
<1>6. ASSUME NEW r \in Requests, NEW u \in Users, Signal(r, u) PROVE UNCHANGED <<born, media>>
  BY <1>6 DEF Signal, JoinRoom, CreateTransport, Produce, Consume
<1>7. ASSUME TimerFires \/ Crash \/ \E u \in Users : LeaveRoom(u) \/ \E p \in Made : CloseProducer(u, p)
      PROVE UNCHANGED <<born, media>>
  BY <1>7 DEF TimerFires, Crash, LeaveRoom, CloseProducer
<1>8. ASSUME UNCHANGED vars PROVE UNCHANGED <<born, media>>
  BY <1>8 DEF vars
<1>9. QED
  BY <1>1, <1>2, <1>3, <1>4, <1>5, <1>6, <1>7, <1>8 DEF Next, Continue

\* Steps that open nothing, and close what they take out of the room's maps.
LEMMA HeldKept ==
  ASSUME OpenIsHeld, StreamInv, reg' = reg,
         \A o \in open' : o \in open /\ media'[o] = media[o],
         \A o \in open' : \A v \in parts[reg] :
           o \in held[reg][v] => v \in parts'[reg] /\ o \in held'[reg][v],
         \A r \in Requests :
           \/ req'[r] = req[r]
           \/ /\ req[r].pc # "file"
              /\ req'[r].pc \in {"produce", "consume"} =>
                   req'[r].user \in parts'[reg] /\ req'[r].on \in held'[reg][req'[r].user]
  PROVE  OpenIsHeld' /\ StreamInv'
<1>1. ASSUME NEW o \in open', media'[o].router = reg'
      PROVE  \/ \E u \in parts'[reg'] : o \in held'[reg'][u]
             \/ \E r \in Requests : req'[r].pc = "file" /\ req'[r].on = o
  <2>1. o \in open /\ media[o].router = reg
    BY <1>1
  <2>2. CASE \E u \in parts[reg] : o \in held[reg][u]
    <3>1. PICK u \in parts[reg] : o \in held[reg][u]
      BY <2>2
    <3>2. u \in parts'[reg] /\ o \in held'[reg][u]
      BY <3>1
    <3>3. reg' = reg
      OBVIOUS
    <3>4. u \in parts'[reg'] /\ o \in held'[reg'][u]
      BY <3>2, <3>3
    <3>5. QED
      BY <3>4
  <2>3. CASE \E r \in Requests : req[r].pc = "file" /\ req[r].on = o
    <3>1. PICK r \in Requests : req[r].pc = "file" /\ req[r].on = o
      BY <2>3
    <3>2. req'[r] = req[r]
      BY <3>1
    <3>3. QED
      BY <3>1, <3>2
  <2>4. QED
    BY <2>1, <2>2, <2>3 DEF OpenIsHeld
<1>2. ASSUME NEW r \in Requests, req'[r].pc \in {"produce", "consume"},
             req'[r].on \in open', media'[req'[r].on].router = reg'
      PROVE  req'[r].user \in parts'[reg'] /\ req'[r].on \in held'[reg'][req'[r].user]
  <2>1. CASE req'[r] = req[r]
    BY <1>2, <2>1 DEF StreamInv
  <2>2. CASE req'[r] # req[r]
    BY <1>2, <2>2
  <2>3. QED
    BY <2>1, <2>2
<1>3. OpenIsHeld'
  BY <1>1 DEF OpenIsHeld
<1>4. StreamInv'
  BY <1>2 DEF StreamInv
<1>5. QED
  BY <1>3, <1>4

\* No handler's medium is on the room's router: the room is gone or new.
LEMMA NobodysRouter ==
  ASSUME \A o \in open' : media'[o].router # reg'
  PROVE  OpenIsHeld' /\ StreamInv'
<1>1. OpenIsHeld'
  BY DEF OpenIsHeld
<1>2. StreamInv'
  BY DEF StreamInv
<1>3. QED
  BY <1>1, <1>2

LEMMA HeldStep == IInv /\ [Next]_vars => (OpenIsHeld /\ StreamInv)'
<1> SUFFICES ASSUME IInv, [Next]_vars PROVE OpenIsHeld' /\ StreamInv'
  OBVIOUS
<1>0. StateOK /\ WaitInv /\ BornInv /\ OpenIsHeld /\ StreamInv
  BY DEF IInv
<1>a. /\ reg # 0 => reg \in Rooms
      /\ parts \in [Rooms -> SUBSET Users]
      /\ held \in [Rooms -> [Users -> SUBSET Media]]
      /\ req \in [Requests -> Request]
      /\ open \subseteq Made
  BY <1>0, ConstantsAssumption DEF StateOK, RoomsOK, MediaOK, WaitersOK, Rooms
<1>b. \A o \in Made : media[o].router \in Rooms /\ media[o].router # 0
  BY <1>0, RouterType DEF Rooms
<1>1. ASSUME NEW r \in Requests, NEW u \in Users, JoinRoom(r, u)
      PROVE OpenIsHeld' /\ StreamInv'
  <2>1. CASE reg = 0
    <3>1. UNCHANGED <<reg, open, media>>
      BY <1>1, <2>1 DEF JoinRoom
    <3>2. QED
      BY <1>a, <1>b, <2>1, <3>1, NobodysRouter
  <2>2. CASE reg # 0
    <3>1. /\ open' = open \ Closing(held[reg][u])
          /\ parts' = [parts EXCEPT ![reg] = @ \union {u}]
          /\ held' = [held EXCEPT ![reg][u] = {}]
          /\ UNCHANGED <<reg, media, req>>
      BY <1>1, <2>2 DEF JoinRoom, Enter
    <3>2. \A o \in open' : o \in open /\ o \notin held[reg][u]
      BY <3>1, ClosingCovers
    <3>3. \A o \in open' : \A v \in parts[reg] :
            o \in held[reg][v] => v \in parts'[reg] /\ o \in held'[reg][v]
      BY <1>a, <2>2, <3>1, <3>2
    <3>4. QED
      BY <1>0, <3>1, <3>2, <3>3, HeldKept
  <2>3. QED
    BY <2>1, <2>2
<1>2. ASSUME NEW r \in Requests, RouterCreated(r) PROVE OpenIsHeld' /\ StreamInv'
  <2>1. reg' = born + 1 /\ media' = media /\ open' \subseteq open
    BY <1>2 DEF RouterCreated, Enter
  <2>2. \A o \in Made : media[o].router <= born /\ born \in Nat
    BY <1>0, ConstantsAssumption DEF BornInv, StateOK, RoomsOK
  <2>3. \A o \in Made : media[o].router # born + 1
    BY <2>2
  <2>4. QED
    BY <1>a, <2>1, <2>3, NobodysRouter
<1>3. ASSUME NEW u \in Users, LeaveRoom(u) PROVE OpenIsHeld' /\ StreamInv'
  <2>1. reg \in Rooms /\ UNCHANGED <<reg, media, req>>
    BY <1>3, <1>a DEF LeaveRoom
  <2>2. CASE u \in parts[reg]
    <3>1. /\ open' = open \ Closing(held[reg][u])
          /\ parts' = [parts EXCEPT ![reg] = parts[reg] \ {u}]
          /\ held' = [held EXCEPT ![reg][u] = {}]
      BY <1>3, <2>2 DEF LeaveRoom
    <3>2. \A o \in open' : o \in open /\ o \notin held[reg][u]
      BY <3>1, ClosingCovers
    <3>3. \A o \in open' : \A v \in parts[reg] :
            o \in held[reg][v] => v \in parts'[reg] /\ o \in held'[reg][v]
      BY <1>a, <2>1, <3>1, <3>2
    <3>4. QED
      BY <1>0, <2>1, <3>2, <3>3, HeldKept
  <2>3. CASE u \notin parts[reg]
    <3>1. UNCHANGED <<open, parts, held>>
      BY <1>3, <2>3 DEF LeaveRoom
    <3>2. QED
      BY <1>0, <2>1, <3>1, HeldKept
  <2>4. QED
    BY <2>2, <2>3
<1>4. CASE TimerFires
  <2>1. CASE Empty
    <3>1. reg' = 0 /\ media' = media /\ open' \subseteq open
      BY <1>4, <2>1 DEF TimerFires
    <3>2. QED
      BY <1>a, <1>b, <3>1, NobodysRouter
  <2>2. CASE ~Empty
    <3>1. UNCHANGED <<reg, open, parts, held, media, req>>
      BY <1>4, <2>2 DEF TimerFires
    <3>2. QED
      BY <1>0, <3>1, HeldKept
  <2>3. QED
    BY <2>1, <2>2
<1>5. ASSUME NEW r \in Requests, NEW u \in Users, CreateTransport(r, u)
      PROVE OpenIsHeld' /\ StreamInv'
  <2>1. /\ UNCHANGED <<reg, open, parts, held, media>>
        /\ req[r].pc = "idle" /\ req'[r].pc = "transport"
        /\ \A s \in Requests : s # r => req'[s] = req[s]
    BY <1>5, <1>a DEF CreateTransport, Wait, Idle
  <2>2. QED
    BY <1>0, <2>1, HeldKept
<1>6. ASSUME NEW r \in Requests, TransportCreated(r) PROVE OpenIsHeld' /\ StreamInv'
  <2>1. UNCHANGED <<reg, parts, held>> /\ req[r].pc = "transport"
    BY <1>6 DEF TransportCreated
  <2>2. CASE TransportMade(r)
    <3> DEFINE o == Cardinality(Made) + 1
    <3>1. /\ o \notin Made /\ Made' = Made \union {o} /\ open' = open \union {o}
          /\ \A p \in Made : media'[p] = media[p]
          /\ req' = [req EXCEPT ![r] = [@ EXCEPT !.pc = "file", !.on = o]]
      BY <1>0, <1>6, <2>2, TransportFacts
    <3> HIDE DEF o
    <3>2. /\ req'[r].pc = "file" /\ req'[r].on = o
          /\ \A s \in Requests : s # r => req'[s] = req[s]
      BY <1>a, <3>1 DEF Request
    <3>3. OpenIsHeld'
      <4>1. ASSUME NEW p \in open', media'[p].router = reg'
            PROVE  \/ \E u \in parts'[reg'] : p \in held'[reg'][u]
                   \/ \E s \in Requests : req'[s].pc = "file" /\ req'[s].on = p
        <5>1. CASE p = o
          BY <3>2, <5>1
        <5>2. CASE p # o
          <6>1. p \in open /\ media[p].router = reg
            BY <1>a, <2>1, <3>1, <4>1, <5>2
          <6>2. CASE \E u \in parts[reg] : p \in held[reg][u]
            BY <2>1, <6>2
          <6>3. CASE \E s \in Requests : req[s].pc = "file" /\ req[s].on = p
            BY <2>1, <3>2, <6>3
          <6>4. QED
            BY <1>0, <6>1, <6>2, <6>3 DEF OpenIsHeld
        <5>3. QED
          BY <5>1, <5>2
      <4>2. QED
        BY <4>1 DEF OpenIsHeld
    <3>4. StreamInv'
      <4>1. ASSUME NEW s \in Requests, req'[s].pc \in {"produce", "consume"},
                   req'[s].on \in open', media'[req'[s].on].router = reg'
            PROVE  req'[s].user \in parts'[reg'] /\ req'[s].on \in held'[reg'][req'[s].user]
        <5>1. req'[s] = req[s]
          BY <3>2, <4>1
        <5>2. req[s].on \in Made
          BY <1>0, <4>1, <5>1 DEF WaitInv
        <5>3. req[s].on \in open /\ media[req[s].on].router = reg
          BY <2>1, <3>1, <4>1, <5>1, <5>2
        <5>4. QED
          BY <1>0, <2>1, <4>1, <5>1, <5>3 DEF StreamInv
      <4>2. QED
        BY <4>1 DEF StreamInv
    <3>5. QED
      BY <3>3, <3>4
  <2>3. CASE ~TransportMade(r)
    <3>1. /\ UNCHANGED <<media, open>> /\ req'[r].pc = "idle"
          /\ \A s \in Requests : s # r => req'[s] = req[s]
      BY <1>6, <1>a, <2>3 DEF TransportCreated, TransportMade, Answer, Idle
    <3>2. QED
      BY <1>0, <2>1, <3>1, HeldKept
  <2>4. QED
    BY <2>2, <2>3
<1>7. ASSUME NEW r \in Requests, FileTransport(r) PROVE OpenIsHeld' /\ StreamInv'
  <2> DEFINE u == req[r].user
             o == req[r].on
  <2>1. /\ UNCHANGED <<reg, media, open>> /\ req[r].pc = "file" /\ req'[r].pc = "idle"
        /\ \A s \in Requests : s # r => req'[s] = req[s]
    BY <1>7, <1>a DEF FileTransport, Answer, Idle
  <2>2. CASE reg = 0
    BY <1>a, <1>b, <2>1, <2>2, NobodysRouter
  <2>3. CASE reg # 0
    <3>1. u \in Users
      BY <1>0, <2>1 DEF WaitInv
    <3>2. /\ parts' = [parts EXCEPT ![reg] = @ \union {u}]
          /\ held' = [held EXCEPT ![reg][u] = @ \union {o}]
      BY <1>7, <2>3 DEF FileTransport
    <3> HIDE DEF u
    <3>3. /\ u \in parts'[reg] /\ o \in held'[reg][u]
          /\ \A v \in parts[reg] : v \in parts'[reg]
          /\ \A v \in Users : held[reg][v] \subseteq held'[reg][v]
      BY <1>a, <2>3, <3>1, <3>2
    <3>4. parts[reg] \subseteq Users /\ \A s \in Requests : req[s].pc # "idle" => req[s].user \in Users
      BY <1>0, <1>a, <2>3 DEF WaitInv
    <3> HIDE DEF o
    <3>5. OpenIsHeld'
      <4>1. ASSUME NEW p \in open, media[p].router = reg
            PROVE  \/ \E v \in parts'[reg] : p \in held'[reg][v]
                   \/ \E s \in Requests : req'[s].pc = "file" /\ req'[s].on = p
        <5>1. CASE \E v \in parts[reg] : p \in held[reg][v]
          BY <3>3, <3>4, <5>1
        <5>2. CASE \E s \in Requests : req[s].pc = "file" /\ req[s].on = p
          <6>1. PICK s \in Requests : req[s].pc = "file" /\ req[s].on = p
            BY <5>2
          <6>2. CASE s = r
            BY <3>3, <6>1, <6>2 DEF o
          <6>3. CASE s # r
            BY <2>1, <6>1, <6>3
          <6>4. QED
            BY <6>2, <6>3
        <5>3. QED
          BY <1>0, <4>1, <5>1, <5>2 DEF OpenIsHeld
      <4>2. QED
        BY <2>1, <4>1 DEF OpenIsHeld
    <3>6. StreamInv'
      <4>1. ASSUME NEW s \in Requests, req'[s].pc \in {"produce", "consume"},
                   req'[s].on \in open', media'[req'[s].on].router = reg'
            PROVE  req'[s].user \in parts'[reg'] /\ req'[s].on \in held'[reg'][req'[s].user]
        <5>1. req'[s] = req[s]
          BY <2>1, <4>1
        <5>2. req[s].user \in parts[reg] /\ req[s].on \in held[reg][req[s].user]
          BY <1>0, <2>1, <4>1, <5>1 DEF StreamInv
        <5>3. QED
          BY <2>1, <3>3, <3>4, <5>1, <5>2
      <4>2. QED
        BY <4>1 DEF StreamInv
    <3>7. QED
      BY <3>5, <3>6
  <2>4. QED
    BY <2>2, <2>3
<1>8. ASSUME NEW r \in Requests, NEW u \in Users, NEW t \in Made, Produce(r, u, t)
      PROVE OpenIsHeld' /\ StreamInv'
  <2>1. /\ UNCHANGED <<reg, open, parts, held, media>>
        /\ req[r].pc = "idle" /\ req'[r].user = u /\ req'[r].on = t
        /\ \A s \in Requests : s # r => req'[s] = req[s]
    BY <1>8, <1>a DEF Produce, Wait, Idle
  <2>2. u \in parts[reg] /\ t \in held[reg][u]
    BY <1>8 DEF Produce, HeldBy, Registered
  <2>3. QED
    BY <1>0, <2>1, <2>2, HeldKept
<1>9. ASSUME NEW r \in Requests, NEW u \in Users, NEW t \in Made, NEW p \in Made,
             Consume(r, u, t, p)
      PROVE OpenIsHeld' /\ StreamInv'
  <2>1. /\ UNCHANGED <<reg, open, parts, held, media>>
        /\ req[r].pc = "idle" /\ req'[r].user = u /\ req'[r].on = t
        /\ \A s \in Requests : s # r => req'[s] = req[s]
    BY <1>9, <1>a DEF Consume, Wait, Idle
  <2>2. u \in parts[reg] /\ t \in held[reg][u]
    BY <1>9 DEF Consume, HeldBy, Registered
  <2>3. QED
    BY <1>0, <2>1, <2>2, HeldKept
<1>10. ASSUME NEW r \in Requests, StreamCreated(r) PROVE OpenIsHeld' /\ StreamInv'
  <2>1. /\ UNCHANGED <<reg, parts>> /\ req[r].pc \in {"produce", "consume"}
        /\ req'[r].pc = "idle" /\ \A s \in Requests : s # r => req'[s] = req[s]
    BY <1>10, <1>a DEF StreamCreated, Answer, Idle
  <2>2. CASE StreamMade(r)
    <3> DEFINE u == req[r].user
               o == Cardinality(Made) + 1
               t == req[r].on
    <3>1. /\ o \notin Made /\ Made' = Made \union {o} /\ open' = open \union {o}
          /\ media'[o].router = media[t].router /\ media[t].router \in Rooms
          /\ \A p \in Made : media'[p] = media[p]
          /\ held' = IF u \in Registered
                     THEN [held EXCEPT ![reg][u] = @ \union {o}] ELSE held
          /\ u \in Users
      BY <1>0, <1>10, <2>2, StreamFacts
    <3>2. t \in open
      BY <2>2 DEF StreamMade
    <3> HIDE DEF o
    <3>3. media[t].router = reg => u \in parts[reg] /\ reg # 0
      BY <1>0, <1>a, <1>b, <2>1, <3>2 DEF StreamInv
    <3>4. CASE reg # 0
      <4> HIDE DEF u, t
      <4>1. \A v \in Users : held[reg][v] \subseteq held'[reg][v]
        BY <1>a, <3>1, <3>4
      <4>2. parts[reg] \subseteq Users
        BY <1>a, <3>4
      <4>3. media[t].router = reg => u \in parts[reg] /\ o \in held'[reg][u]
        BY <1>a, <3>1, <3>3, <3>4 DEF Registered
      <4>4. OpenIsHeld'
        <5>1. ASSUME NEW p \in open', media'[p].router = reg
              PROVE  \/ \E v \in parts[reg] : p \in held'[reg][v]
                     \/ \E s \in Requests : req'[s].pc = "file" /\ req'[s].on = p
          <6>1. CASE p = o
            BY <3>1, <4>3, <5>1, <6>1
          <6>2. CASE p # o
            <7>1. p \in open /\ media[p].router = reg
              BY <1>a, <3>1, <5>1, <6>2
            <7>2. CASE \E v \in parts[reg] : p \in held[reg][v]
              BY <4>1, <4>2, <7>2
            <7>3. CASE \E s \in Requests : req[s].pc = "file" /\ req[s].on = p
              <8>1. PICK s \in Requests : req[s].pc = "file" /\ req[s].on = p
                BY <7>3
              <8>2. s # r
                BY <2>1, <8>1
              <8>3. QED
                BY <2>1, <8>1, <8>2
            <7>4. QED
              BY <1>0, <7>1, <7>2, <7>3 DEF OpenIsHeld
          <6>3. QED
            BY <6>1, <6>2
        <5>2. QED
          BY <2>1, <5>1 DEF OpenIsHeld
      <4>5. StreamInv'
        <5>1. ASSUME NEW s \in Requests, req'[s].pc \in {"produce", "consume"},
                     req'[s].on \in open', media'[req'[s].on].router = reg'
              PROVE  req'[s].user \in parts'[reg'] /\ req'[s].on \in held'[reg'][req'[s].user]
          <6>1. req'[s] = req[s]
            BY <2>1, <5>1
          <6>2. req[s].on \in Made
            BY <1>0, <5>1, <6>1 DEF WaitInv
          <6>3. req[s].user \in parts[reg] /\ req[s].on \in held[reg][req[s].user]
            BY <1>0, <2>1, <3>1, <5>1, <6>1, <6>2 DEF StreamInv
          <6>4. QED
            BY <2>1, <4>1, <4>2, <6>1, <6>3
        <5>2. QED
          BY <5>1 DEF StreamInv
      <4>6. QED
        BY <4>4, <4>5
    <3>5. CASE reg = 0
      <4>1. \A p \in open' : media'[p].router # 0
        BY <1>a, <1>b, <3>1 DEF Rooms
      <4>2. QED
        BY <2>1, <3>5, <4>1, NobodysRouter
    <3>6. QED
      BY <3>4, <3>5
  <2>3. CASE ~StreamMade(r)
    <3>1. UNCHANGED <<media, open, held>>
      BY <1>10, <2>3 DEF StreamCreated, StreamMade
    <3>2. QED
      BY <1>0, <2>1, <3>1, HeldKept
  <2>4. QED
    BY <2>2, <2>3
<1>11. ASSUME NEW u \in Users, NEW p \in Made, CloseProducer(u, p)
       PROVE OpenIsHeld' /\ StreamInv'
  <2>1. UNCHANGED <<reg, parts, held, media, req>> /\ open' \subseteq open
    BY <1>11 DEF CloseProducer
  <2>2. QED
    BY <1>0, <2>1, HeldKept
<1>12. ASSUME NEW r \in Requests, Refuse(r) PROVE OpenIsHeld' /\ StreamInv'
  <2>1. /\ UNCHANGED <<reg, open, parts, held, media>>
        /\ req[r].pc # "file" /\ req'[r].pc = "idle"
        /\ \A s \in Requests : s # r => req'[s] = req[s]
    BY <1>12, <1>a DEF Refuse, Answer, Idle
  <2>2. QED
    BY <1>0, <2>1, HeldKept
<1>13. CASE Crash
  <2>1. open' = {}
    BY <1>13 DEF Crash
  <2>2. QED
    BY <2>1, NobodysRouter
<1>14. CASE UNCHANGED vars
  <2>1. UNCHANGED <<reg, open, parts, held, media, req>>
    BY <1>14 DEF vars
  <2>2. QED
    BY <1>0, <2>1, HeldKept
<1>15. QED
  BY <1>1, <1>2, <1>3, <1>4, <1>5, <1>6, <1>7, <1>8, <1>9, <1>10, <1>11, <1>12, <1>13,
     <1>14 DEF Next, Continue, Signal

-------------------------------------------------------------------------------
(* Theorems *)

\* The invariant: types, the handlers, and the two facts about the room.
THEOREM Invariance == Spec => []IInv
<1>1. Init => IInv
  BY InitIInv
<1>2. IInv /\ [Next]_vars => IInv'
  BY TypeStep, WaitStep, BornStep, EmptyStep, JoinedStep, HeldStep DEF IInv
<1>3. QED
  BY <1>1, <1>2, PTL DEF Spec

\* Every variable keeps its type.
THEOREM TypeCorrect == Spec => []TypeOK
<1>1. IInv => TypeOK
  <2> SUFFICES ASSUME IInv PROVE TypeOK
    OBVIOUS
  <2>1. Registered \subseteq Users
    BY ConstantsAssumption DEF IInv, StateOK, RoomsOK, Rooms, Registered
  <2>2. QED
    BY <2>1 DEF IInv, JoinedStay, TypeOK
<1>2. QED
  BY <1>1, Invariance, PTL

\* leaveRoom, joinRoom, addTransport and the timer leave no empty room without a
\* pending close.
THEOREM EmptyRoomIsTimed == Spec => []EmptyIsTimed
<1>1. IInv => EmptyIsTimed
  BY DEF IInv
<1>2. QED
  BY <1>1, Invariance, PTL

\* No transport, producer or consumer stays open on the room's router without a
\* participant who holds it.
THEOREM OpenMediaAreHeld == Spec => []OpenIsHeld
<1>1. IInv => OpenIsHeld
  BY DEF IInv
<1>2. QED
  BY <1>1, Invariance, PTL

\* Who joined and has not left is in the registered room, and its router is open: neither
\* a close that was pending when he came nor a late answer of the worker takes it away.
THEOREM JoinerStays == Spec => []JoinedStay
<1>1. IInv => JoinedStay
  BY DEF IInv
<1>2. QED
  BY <1>1, Invariance, PTL
===============================================================================
