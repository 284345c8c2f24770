------------------------------ MODULE CallGateway ------------------------------
(***************************************************************************)
(* The /call socket gateway (call.gateway.ts): the handlers of             *)
(* call:request, call:accepted, call:join and call:end, the auto-miss job, *)
(* the disconnect handler, and the Redis keys they share.                  *)
(*                                                                         *)
(* A handler is a list of steps with an await between any two of them      *)
(* (CallScripts); handlers of different sockets, and of one socket,        *)
(* interleave.                                                             *)
(* The chat service's RequestCall, AcceptCall and EndCall are one step     *)
(* each here; CallHistory models what happens inside them.                 *)
(***************************************************************************)
EXTENDS CallScripts

CONSTANTS Users, Sockets, Calls,
          Owner,           \* [Sockets -> Users]
          Mode,            \* call_mode of the room: "p2p" or "sfu"
          None,
          Slots,           \* bound: handlers running at once
          MaxEvents,       \* bound: client events and disconnects
          RoomsAtDrop,     \* may client.rooms hold a room in handleDisconnect?
          GrpcFails        \* may a request to the chat service be lost or time out?

\* What the modules that use this one assume of the constants.
ConstantsAssumption ==
  /\ Owner \in [Sockets -> Users]
  /\ Mode \in {"p2p", "sfu"}
  /\ None \notin Users \union Sockets \union Calls
  /\ MaxEvents \in Nat
  /\ RoomsAtDrop \subseteq BOOLEAN /\ RoomsAtDrop # {}
  /\ GrpcFails \in BOOLEAN

VARIABLES status,    \* CallHistories: members[].status of each call
          endedAt,   \* CallHistories: the calls with ended_at
          inCall,    \* USER_IN_CALL
          callSock,  \* USER_CALL_SOCKET
          invites,   \* CALL_PENDING_INVITES
          jobs,      \* auto-miss jobs in the Bull queue
          parts,     \* call:participants:{mode}:{callId}
          index,     \* call:user_in_calls:{userId}
          lock,      \* call:accept:lock:{callId}:{userId}
          flags,     \* users in the room's sharing / camera-off / mic-off sets
          up,        \* connected sockets
          holds,     \* the call that the client of a socket shows
          task,      \* the running handlers
          events,
          met,       \* history: calls for which two handlers ran at once
          cut,       \* history: calls for which one ran beside a handleDisconnect
          asked      \* history: calls that were requested

redis == <<inCall, callSock, invites, jobs, parts, index, lock, flags>>
db == <<status, endedAt>>
clients == <<up, holds>>
past == <<met, cut, asked>>
hist == <<events, past>>
vars == <<db, redis, clients, task, hist>>

MemberStatus == {"absent", "pending", "started", "cancelled", "rejected", "missed", "ended"}
EndStatus == {"ended", "missed", "rejected", "cancelled"}
Terminal == {"ended", "cancelled", "rejected", "missed"}

Idle == [kind |-> "none", at |-> 1, user |-> None, sock |-> None, call |-> None,
         as |-> "ended", stale |-> {}, seen |-> None, swept |-> {}, live |-> FALSE]

TaskState ==
  [kind : {"none", "request", "accept", "join", "end", "miss", "drop"},
   at : 1..16, user : Users \union {None},
   sock : Sockets \union {None}, call : Calls \union {None}, as : EndStatus,
   stale : SUBSET Users,              \* users whose marker is to be cleared
   seen : Sockets \union {None},      \* USER_CALL_SOCKET as read
   swept : SUBSET Calls,              \* the reverse index as read, then the empty ones
   live : BOOLEAN]                    \* stillActive in EndCall's answer

TypeOK ==
  /\ status \in [Calls -> [Users -> MemberStatus]]
  /\ endedAt \subseteq Calls
  /\ inCall \in [Users -> Calls \union {None}]
  /\ callSock \in [Users -> Sockets \union {None}]
  /\ invites \in [Users -> SUBSET Calls]
  /\ jobs \subseteq Users \X Calls
  /\ parts \in [Calls -> SUBSET Users]
  /\ index \in [Users -> SUBSET Calls]
  /\ lock \subseteq Users \X Calls
  /\ flags \subseteq Users
  /\ up \subseteq Sockets
  /\ holds \in [Sockets -> Calls \union {None}]
  /\ task \in [Slots -> TaskState]
  /\ events \in 0..MaxEvents
  /\ met \subseteq Calls /\ cut \subseteq Calls /\ asked \subseteq Calls

Init ==
  /\ status = [c \in Calls |-> [u \in Users |-> "absent"]] /\ endedAt = {}
  /\ inCall = [u \in Users |-> None] /\ callSock = [u \in Users |-> None]
  /\ invites = [u \in Users |-> {}] /\ jobs = {}
  /\ parts = [c \in Calls |-> {}] /\ index = [u \in Users |-> {}]
  /\ lock = {} /\ flags = {}
  /\ up = Sockets /\ holds = [s \in Sockets |-> None]
  /\ task = [t \in Slots |-> Idle] /\ events = 0
  /\ met = {} /\ cut = {} /\ asked = {}

-------------------------------------------------------------------------------
(* Handlers *)

At(t, step) ==
  LET script == Script(task[t].kind) IN
  task[t].at <= Len(script) /\ script[task[t].at] = step

\* The handler t goes on, or has answered, n steps further.
Goto(t, n, q) ==
  task' = [task EXCEPT ![t] =
             IF q.at + n > Len(Script(q.kind)) THEN Idle ELSE [q EXCEPT !.at = @ + n]]

Advance(t) == Goto(t, 1, task[t])

Answer(t) == task' = [task EXCEPT ![t] = Idle]

Start(t, kind, u, s, c, as) ==
  /\ task[t] = Idle
  /\ task' = [task EXCEPT ![t] = [Idle EXCEPT !.kind = kind, !.user = u, !.sock = s,
                                              !.call = c, !.as = as]]
  /\ met' = met \union {d \in Calls : d = c /\ \E r \in Slots : task[r].call = c}
  /\ cut' = cut \union {d \in Calls : \E r \in Slots :
                           \/ d = c /\ task[r].kind = "drop"
                           \/ kind = "drop" /\ task[r].call = d}
  /\ asked' = asked \union {d \in Calls : d = c /\ kind = "request"}

Exists(c) == \E u \in Users : status[c][u] # "absent"

\* requestCall gives each call an id of its own; the clients learn of it by the
\* call:request that is emitted before the invites are stored.
Fresh(c) == ~Exists(c) /\ \A r \in Slots : task[r].call # c

Announced(c) ==
  Exists(c) /\ \A r \in Slots :
    task[r].kind = "request" /\ task[r].call = c => At(r, "invite") \/ At(r, "schedule")

Receive(t, s, kind, c, as) ==
  /\ s \in up /\ events < MaxEvents
  /\ IF kind = "request" THEN Fresh(c) ELSE Announced(c)
  /\ Start(t, kind, Owner[s], s, c, as)
  /\ events' = events + 1
  /\ UNCHANGED <<db, redis, clients>>

\* call:share-screen, call:camera-state and call:mic-state.
Toggle(s) ==
  /\ s \in up /\ holds[s] # None /\ events < MaxEvents
  /\ \/ flags' = flags \union {Owner[s]}
     \/ flags' = flags \ {Owner[s]}
  /\ events' = events + 1
  /\ UNCHANGED <<db, inCall, callSock, invites, jobs, parts, index, lock, clients, task, past>>

\* The queue hands a due job to one worker.
JobDue(t, u, c) ==
  /\ <<u, c>> \in jobs
  /\ jobs' = jobs \ {<<u, c>>}
  /\ Start(t, "miss", u, None, c, "missed")
  /\ UNCHANGED <<db, inCall, callSock, invites, parts, index, lock, flags, clients, events>>

Disconnect(t, s) ==
  /\ s \in up /\ events < MaxEvents
  /\ up' = up \ {s} /\ holds' = [holds EXCEPT ![s] = None]
  /\ Start(t, "drop", Owner[s], s, None, "ended")
  /\ events' = events + 1
  /\ UNCHANGED <<db, redis>>

-------------------------------------------------------------------------------
(* validateInCallOrClearStale *)

\* GetCallStatus
CallEnded(c) ==
  \/ ~Exists(c)
  \/ c \in endedAt
  \/ \A u \in Users : status[c][u] \in Terminal \union {"absent"}

Validate(t) ==
  LET q == task[t]
      m == inCall[q.user]
      ok == m = None \/ (m = q.call /\ q.kind # "request")
  IN
  /\ At(t, "validate")
  /\ \/ ok /\ Goto(t, 2, q)
     \/ ~ok /\ CallEnded(m) /\ Goto(t, 1, [q EXCEPT !.stale = {q.user}])
     \/ ~ok /\ (~CallEnded(m) \/ GrpcFails) /\ Answer(t)     \* already_in_call
  /\ UNCHANGED <<db, redis, clients, hist>>

\* A target is never a reason to refuse: only its stale marker is cleared.
ValidateTargets(t) ==
  LET q == task[t] IN
  /\ At(t, "validateTargets")
  /\ LET stale == {u \in Users \ {q.user} : inCall[u] # None /\ CallEnded(inCall[u])} IN
     \E known \in {stale} \union (IF GrpcFails THEN SUBSET stale ELSE {}) :
       Goto(t, 1, [q EXCEPT !.stale = known])
  /\ UNCHANGED <<db, redis, clients, hist>>

ClearStale(t) ==
  LET q == task[t] IN
  /\ At(t, "clear")
  /\ inCall' = [u \in Users |-> IF u \in q.stale THEN None ELSE inCall[u]]
  /\ callSock' = [u \in Users |-> IF u \in q.stale THEN None ELSE callSock[u]]
  /\ Goto(t, 1, [q EXCEPT !.stale = {}])
  /\ UNCHANGED <<db, invites, jobs, parts, index, lock, flags, clients, hist>>

-------------------------------------------------------------------------------
(* The chat service *)

\* A request that is lost, or whose answer is late by more than 20 s, makes
\* dispatchGrpcRequest answer 503: the handler gives up, but executeAutoMiss
\* never looks at the answer.
Outcomes == {TRUE} \union (IF GrpcFails THEN {FALSE} ELSE {})

AfterGrpc(t, answered, q) ==
  IF answered \/ q.kind = "miss" THEN Goto(t, 1, q) ELSE Answer(t)

Lost(t) ==
  /\ GrpcFails
  /\ At(t, "create") \/ At(t, "acceptCall") \/ At(t, "endCall")
  /\ AfterGrpc(t, FALSE, task[t])
  /\ UNCHANGED <<db, redis, clients, hist>>

\* RequestCall; the client sends the members of the room.
Create(t) ==
  LET q == task[t] IN
  /\ At(t, "create")
  /\ status' = [status EXCEPT ![q.call] =
                  [u \in Users |-> IF u = q.user THEN "started" ELSE "pending"]]
  /\ \E answered \in Outcomes : AfterGrpc(t, answered, q)
  /\ UNCHANGED <<endedAt, redis, clients, hist>>

\* Mutant: the member gets a status the schema does not have.
AcceptCallAsJoined(t) ==
  LET q == task[t] IN
  /\ At(t, "acceptCall")
  /\ status' = [status EXCEPT ![q.call][q.user] = "joined"]
  /\ Advance(t)
  /\ UNCHANGED <<endedAt, redis, clients, hist>>

AcceptCall(t) ==
  LET q == task[t] IN
  /\ At(t, "acceptCall")
  /\ status' = [status EXCEPT ![q.call][q.user] = IF @ = "absent" THEN @ ELSE "started"]
  /\ \E answered \in Outcomes : AfterGrpc(t, answered, q)
  /\ UNCHANGED <<endedAt, redis, clients, hist>>

\* EndCall, and call:end to the room: a client closes a call that is over, and
\* one that its user has left.
EndCall(t) ==
  LET q == task[t]
      c == q.call
      after == [u \in Users |->
                  IF status[c][u] = "absent" THEN "absent"
                  ELSE IF Mode = "p2p" THEN "ended"
                  ELSE IF u = q.user THEN q.as ELSE status[c][u]]
      active == \E u \in Users : after[u] = "started"
      closes == Mode = "p2p" \/ (~active /\ \E u \in Users : after[u] = "ended")
  IN
  /\ At(t, "endCall")
  /\ status' = [status EXCEPT ![c] = after]
  /\ endedAt' = IF closes THEN endedAt \union {c} ELSE endedAt
  /\ \E answered \in Outcomes :
       /\ holds' = [s \in Sockets |->
                      IF answered /\ holds[s] = c /\ (~active \/ Owner[s] = q.user)
                      THEN None ELSE holds[s]]
       /\ AfterGrpc(t, answered, [q EXCEPT !.live = active])
  /\ UNCHANGED <<redis, up, hist>>

-------------------------------------------------------------------------------
(* USER_IN_CALL, USER_CALL_SOCKET and the accept lock *)

LockRead(t) ==
  /\ At(t, "lockRead")
  /\ IF <<task[t].user, task[t].call>> \in lock THEN Answer(t) ELSE Advance(t)
  /\ UNCHANGED <<db, redis, clients, hist>>

Lock(t) ==
  /\ At(t, "lock")
  /\ lock' = lock \union {<<task[t].user, task[t].call>>}
  /\ Advance(t)
  /\ UNCHANGED <<db, inCall, callSock, invites, jobs, parts, index, flags, clients, hist>>

Unlock(t) ==
  /\ At(t, "unlock")
  /\ lock' = {l \in lock : l[2] # task[t].call}
  /\ Advance(t)
  /\ UNCHANGED <<db, inCall, callSock, invites, jobs, parts, index, flags, clients, hist>>

Mark(t) ==
  /\ At(t, "mark")
  /\ inCall' = [inCall EXCEPT ![task[t].user] = task[t].call]
  /\ Advance(t)
  /\ UNCHANGED <<db, callSock, invites, jobs, parts, index, lock, flags, clients, hist>>

ClaimRead(t) ==
  /\ At(t, "claimRead")
  /\ Goto(t, 1, [task[t] EXCEPT !.seen = callSock[task[t].user]])
  /\ UNCHANGED <<db, redis, clients, hist>>

\* Mutant: the old device is not told to release the call.
ClaimSilently(t) ==
  LET q == task[t] IN
  /\ At(t, "claimWrite")
  /\ callSock' = [callSock EXCEPT ![q.user] = q.sock]
  /\ holds' = [s \in Sockets |-> IF s = q.sock /\ s \in up THEN q.call ELSE holds[s]]
  /\ Goto(t, 1, [q EXCEPT !.seen = None])
  /\ UNCHANGED <<db, inCall, invites, jobs, parts, index, lock, flags, up, hist>>

\* call:handoff makes the client of the socket read before close its call.
ClaimWrite(t) ==
  LET q == task[t] IN
  /\ At(t, "claimWrite")
  /\ callSock' = [callSock EXCEPT ![q.user] = q.sock]
  /\ holds' = [s \in Sockets |->
                 CASE s = q.sock /\ s \in up -> q.call
                   [] s = q.seen /\ s # q.sock -> None
                   [] OTHER -> holds[s]]
  /\ Goto(t, 1, [q EXCEPT !.seen = None])
  /\ UNCHANGED <<db, inCall, invites, jobs, parts, index, lock, flags, up, hist>>

\* Mutant: the leaver's USER_IN_CALL stays.
UnmarkSocketOnly(t) ==
  /\ At(t, "unmark")
  /\ callSock' = [callSock EXCEPT ![task[t].user] = None]
  /\ flags' = flags \ {task[t].user}
  /\ Advance(t)
  /\ UNCHANGED <<db, inCall, invites, jobs, parts, index, lock, clients, hist>>

\* The leaver's markers go whatever call they name; cleanupUserCallState is
\* part of call:end only.
Unmark(t) ==
  LET u == task[t].user IN
  /\ At(t, "unmark")
  /\ inCall' = [inCall EXCEPT ![u] = None]
  /\ callSock' = [callSock EXCEPT ![u] = None]
  /\ flags' = IF task[t].kind = "end" THEN flags \ {u} ELSE flags
  /\ Advance(t)
  /\ UNCHANGED <<db, invites, jobs, parts, index, lock, clients, hist>>

\* Nobody was active in EndCall's answer: everybody's markers go.
Wipe(t) ==
  /\ At(t, "wipe")
  /\ IF task[t].live THEN UNCHANGED <<inCall, callSock, flags>>
     ELSE LET members == {u \in Users : status[task[t].call][u] # "absent"} IN
          /\ inCall' = [u \in Users |-> IF u \in members THEN None ELSE inCall[u]]
          /\ callSock' = [u \in Users |-> IF u \in members THEN None ELSE callSock[u]]
          /\ flags' = {}
  /\ Advance(t)
  /\ UNCHANGED <<db, invites, jobs, parts, index, lock, clients, hist>>

-------------------------------------------------------------------------------
(* Participants and their reverse index *)

Enlist(t) ==
  LET q == task[t] IN
  /\ At(t, "enlist")
  /\ parts' = [parts EXCEPT ![q.call] = @ \union {q.user}]
  /\ index' = [index EXCEPT ![q.user] = @ \union {q.call}]
  /\ Advance(t)
  /\ UNCHANGED <<db, inCall, callSock, invites, jobs, lock, flags, clients, hist>>

\* Mutant: the reverse index keeps the call.
DelistHalf(t) ==
  LET q == task[t] IN
  /\ At(t, "delist")
  /\ parts' = [parts EXCEPT ![q.call] = @ \ {q.user}]
  /\ Advance(t)
  /\ UNCHANGED <<db, inCall, callSock, invites, jobs, index, lock, flags, clients, hist>>

Delist(t) ==
  LET q == task[t] IN
  /\ At(t, "delist")
  /\ parts' = [parts EXCEPT ![q.call] = @ \ {q.user}]
  /\ index' = [index EXCEPT ![q.user] = @ \ {q.call}]
  /\ Advance(t)
  /\ UNCHANGED <<db, inCall, callSock, invites, jobs, lock, flags, clients, hist>>

\* SCARD, then DEL of a set that was empty.
DelistCount(t) ==
  /\ At(t, "delistCount")
  /\ Goto(t, IF parts[task[t].call] = {} THEN 1 ELSE 2, task[t])
  /\ UNCHANGED <<db, redis, clients, hist>>

DelistDelete(t) ==
  /\ At(t, "delistDel")
  /\ parts' = [parts EXCEPT ![task[t].call] = {}]
  /\ Advance(t)
  /\ UNCHANGED <<db, inCall, callSock, invites, jobs, index, lock, flags, clients, hist>>

\* sweepUserFromAllCalls; an empty index ends it.
SweepRead(t) ==
  LET calls == index[task[t].user] IN
  /\ At(t, "sweepRead")
  /\ IF calls = {} THEN Goto(t, 5, task[t])
     ELSE Goto(t, 1, [task[t] EXCEPT !.swept = calls])
  /\ UNCHANGED <<db, redis, clients, hist>>

SweepRemove(t) ==
  LET q == task[t] IN
  /\ At(t, "sweepRem")
  /\ parts' = [c \in Calls |-> IF c \in q.swept THEN parts[c] \ {q.user} ELSE parts[c]]
  /\ Advance(t)
  /\ UNCHANGED <<db, inCall, callSock, invites, jobs, index, lock, flags, clients, hist>>

SweepCount(t) ==
  LET q == task[t] IN
  /\ At(t, "sweepCount")
  /\ Goto(t, 1, [q EXCEPT !.swept = {c \in @ : parts[c] = {}}])
  /\ UNCHANGED <<db, redis, clients, hist>>

SweepWipe(t) ==
  LET q == task[t] IN
  /\ At(t, "sweepWipe")
  /\ parts' = [c \in Calls |-> IF c \in q.swept THEN {} ELSE parts[c]]
  /\ Goto(t, 1, [q EXCEPT !.swept = {}])
  /\ UNCHANGED <<db, inCall, callSock, invites, jobs, index, lock, flags, clients, hist>>

SweepDelete(t) ==
  /\ At(t, "sweepDel")
  /\ index' = [index EXCEPT ![task[t].user] = {}]
  /\ Advance(t)
  /\ UNCHANGED <<db, inCall, callSock, invites, jobs, parts, lock, flags, clients, hist>>

-------------------------------------------------------------------------------
(* Pending invites and the auto-miss job *)

\* call:request has been emitted to the callees before this step.
Invite(t) ==
  LET q == task[t] IN
  /\ At(t, "invite")
  /\ invites' = [u \in Users |->
                   IF u = q.user THEN invites[u] ELSE invites[u] \union {q.call}]
  /\ Advance(t)
  /\ UNCHANGED <<db, inCall, callSock, jobs, parts, index, lock, flags, clients, hist>>

\* Mutant: no auto-miss job is queued.
ScheduleNothing(t) ==
  At(t, "schedule") /\ Advance(t) /\ UNCHANGED <<db, redis, clients, hist>>

Schedule(t) ==
  LET q == task[t] IN
  /\ At(t, "schedule")
  /\ jobs' = jobs \union {<<u, q.call>> : u \in Users \ {q.user}}
  /\ Advance(t)
  /\ UNCHANGED <<db, inCall, callSock, invites, parts, index, lock, flags, clients, hist>>

Uninvite(t) ==
  LET q == task[t] IN
  /\ At(t, "uninvite")
  /\ invites' = [invites EXCEPT ![q.user] = @ \ {q.call}]
  /\ Advance(t)
  /\ UNCHANGED <<db, inCall, callSock, jobs, parts, index, lock, flags, clients, hist>>

\* A job that a worker has taken is not removed any more.
Cancel(t) ==
  /\ At(t, "cancel")
  /\ jobs' = jobs \ {<<task[t].user, task[t].call>>}
  /\ Advance(t)
  /\ UNCHANGED <<db, inCall, callSock, invites, parts, index, lock, flags, clients, hist>>

\* Mutant: call:end clears the invite of its sender only.
UninviteSender(t) ==
  LET q == task[t] IN
  /\ At(t, "uninviteAll")
  /\ invites' = [invites EXCEPT ![q.user] = @ \ {q.call}]
  /\ Advance(t)
  /\ UNCHANGED <<db, inCall, callSock, jobs, parts, index, lock, flags, clients, hist>>

UninviteAll(t) ==
  LET c == task[t].call IN
  /\ At(t, "uninviteAll")
  /\ invites' = [u \in Users |-> IF status[c][u] = "absent" THEN invites[u]
                                 ELSE invites[u] \ {c}]
  /\ Advance(t)
  /\ UNCHANGED <<db, inCall, callSock, jobs, parts, index, lock, flags, clients, hist>>

\* executeAutoMiss: no invite, nothing to do.
ReadInvite(t) ==
  /\ At(t, "readInvite")
  /\ IF task[t].call \in invites[task[t].user] THEN Advance(t) ELSE Answer(t)
  /\ UNCHANGED <<db, redis, clients, hist>>

\* A participant is not missed: EndCall is skipped.
ReadParts(t) ==
  /\ At(t, "readParts")
  /\ IF task[t].user \in parts[task[t].call] THEN Goto(t, 2, task[t]) ELSE Advance(t)
  /\ UNCHANGED <<db, redis, clients, hist>>

-------------------------------------------------------------------------------
(* handleDisconnect *)

\* The room it takes for the call's is never the call's: Socket.IO has left
\* the rooms already, or the first one is ROOM_CLIENT.  EndCall then answers
\* "room not found", which is ignored.
DropRead(t) ==
  LET q == task[t] IN
  /\ At(t, "dropRead")
  /\ \E rooms \in RoomsAtDrop :
       IF rooms /\ inCall[q.user] # None THEN Advance(t) ELSE Goto(t, 9, q)
  /\ UNCHANGED <<db, redis, clients, hist>>

DropUnmark(t) ==
  /\ At(t, "dropUnmark")
  /\ inCall' = [inCall EXCEPT ![task[t].user] = None]
  /\ Advance(t)
  /\ UNCHANGED <<db, callSock, invites, jobs, parts, index, lock, flags, clients, hist>>

DropSockRead(t) ==
  LET q == task[t] IN
  /\ At(t, "dropSockRead")
  /\ IF callSock[q.user] \in {None, q.sock} THEN Advance(t) ELSE Goto(t, 2, q)
  /\ UNCHANGED <<db, redis, clients, hist>>

DropSockDelete(t) ==
  /\ At(t, "dropSockDel")
  /\ callSock' = [callSock EXCEPT ![task[t].user] = None]
  /\ Advance(t)
  /\ UNCHANGED <<db, inCall, invites, jobs, parts, index, lock, flags, clients, hist>>

\* presence.unregister: the user went offline only if no socket is left, of
\* this or of another namespace.
Leave(t) ==
  LET others == {s \in up : Owner[s] = task[t].user} IN
  /\ At(t, "leave")
  /\ \/ others = {} /\ Advance(t)
     \/ Answer(t)
  /\ UNCHANGED <<db, redis, clients, hist>>

-------------------------------------------------------------------------------

Continue(t) ==
  /\ task[t] # Idle
  /\ \/ Validate(t) \/ ValidateTargets(t) \/ ClearStale(t)
     \/ Create(t) \/ AcceptCall(t) \/ EndCall(t) \/ Lost(t)
     \/ LockRead(t) \/ Lock(t) \/ Unlock(t) \/ Mark(t) \/ ClaimRead(t) \/ ClaimWrite(t)
     \/ Unmark(t) \/ Wipe(t) \/ Enlist(t) \/ Delist(t)
     \/ DelistCount(t) \/ DelistDelete(t)
     \/ SweepRead(t) \/ SweepRemove(t) \/ SweepCount(t) \/ SweepWipe(t) \/ SweepDelete(t)
     \/ Invite(t) \/ Schedule(t) \/ Uninvite(t) \/ Cancel(t) \/ UninviteAll(t)
     \/ ReadInvite(t) \/ ReadParts(t)
     \/ DropRead(t) \/ DropUnmark(t) \/ DropSockRead(t) \/ DropSockDelete(t) \/ Leave(t)

RunJob(t) == \E u \in Users, c \in Calls : JobDue(t, u, c)

Next ==
  \/ \E t \in Slots :
       \/ Continue(t) \/ RunJob(t)
       \/ \E s \in Sockets, c \in Calls :
            \/ \E kind \in {"request", "accept", "join"} : Receive(t, s, kind, c, "ended")
            \/ \E as \in EndStatus : Receive(t, s, "end", c, as)
       \/ \E s \in Sockets : Disconnect(t, s)
  \/ \E s \in Sockets : Toggle(s)

Spec == Init /\ [][Next]_vars

\* A handler goes on to its answer and a due job finds a worker.
FairSpec ==
  Spec /\ \A t \in Slots : WF_vars(Continue(t)) /\ SF_vars(RunJob(t))

-------------------------------------------------------------------------------
(* Properties *)

\* Nobody is at work on the call, and no two handlers ever were at once.
Settled(c) == c \notin met /\ \A t \in Slots : task[t].call # c

\* The participant sets and the reverse index are "kept in lockstep", but for a user who
\* is being swept.
Lockstep ==
  \A c \in Calls \ cut, u \in Users :
    /\ Settled(c)
    /\ \A t \in Slots : task[t].kind = "drop" => task[t].user # u
    => (u \in parts[c] <=> c \in index[u])

\* "No recipient should still be holding a stale invite" once the call ended.
NoPhantomInvite ==
  \A c \in endedAt : Settled(c) => \A u \in Users : c \notin invites[u]

\* A marker names a call its user is in, or one the database knows to be over:
\* any other marker would lock the user out of every new call.
NotLockedOut ==
  \A c \in Calls, u \in Users :
    inCall[u] = c /\ Settled(c) => status[c][u] = "started" \/ CallEnded(c)

\* claimCallSocket "ensures single-active-device": no two devices of a user are
\* left in one call, as long as no other call of theirs wiped their markers.
OneDevice ==
  \A c \in Calls \ cut : Settled(c) /\ asked = {c} =>
    \A s, r \in Sockets : holds[s] = c /\ holds[r] = c /\ Owner[s] = Owner[r] => s = r

\* The auto-miss timer does not flip a participant of a running group call whose handlers
\* never met: only the user's own call:end may say "missed" of one who is in it.
Missed(c, u) ==
  Mode = "sfu" /\ c \notin met /\ status[c][u] = "started" /\ status'[c][u] = "missed"

LiveNotMissed ==
  [][\A c \in Calls, u \in Users : Missed(c, u) =>
       \E t \in Slots : task[t].kind = "end" /\ task[t].user = u /\ EndCall(t)]_vars

\* A callee who was told of a call stops ringing: if no client answers, the
\* auto-miss job does.
Rings(u, c) == status[c][u] = "pending" /\ c \in invites[u]

RingEnds == \A c \in Calls, u \in Users : Rings(u, c) ~> ~Rings(u, c)
===============================================================================
