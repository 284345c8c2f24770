------------------------------ MODULE CallHistory ------------------------------
(***************************************************************************)
(* The record of one call kept by the chat service (the CallHistories      *)
(* collection) and the gRPC requests that change it: requestCall,          *)
(* acceptCall and endCall of handle-chat.service.ts.                       *)
(*                                                                         *)
(* Mongo applies each command atomically, and a request is a sequence of   *)
(* such commands with awaits between them, so every action below is one    *)
(* command and the requests of different users interleave between them.    *)
(***************************************************************************)
CONSTANTS Users,      \* usr_id of the users of the room
          Requests    \* AcceptCall / EndCall requests the service may receive

VARIABLES exists,     \* the CallHistory document has been created
          mode,       \* call_mode
          caller,     \* the member created with is_caller
          status,     \* members[].status; "absent" for a user who is no member
          endedAt,    \* ended_at is set
          log,        \* call events written to the room by writeLogRoom
          req         \* the requests and the locals each carries over an await

vars == <<exists, mode, caller, status, endedAt, log, req>>

MemberStatus == {"pending", "started", "cancelled", "rejected", "missed", "ended"}

\* EndCallDto.status: what a client may report when it ends a call.
EndStatus == {"ended", "missed", "rejected", "cancelled"}

\* The statuses the service counts as "in the call". 'accepted' and 'joined'
\* are tested for by the code and never written by it.
Active == {"started", "accepted", "joined"}

ReqState ==
  [pc : {"idle", "flip", "refetch", "stamp", "log", "start", "joinLog", "done"},
   kind : {"none", "accept", "end"},
   actor : Users,
   as : EndStatus,                           \* the status of an EndCall
   prev : MemberStatus \union {"absent"},    \* the actor's status when read
   close : BOOLEAN,                          \* shouldEnd
   open : BOOLEAN,                           \* the refetched ended_at is null
   won : BOOLEAN]                            \* callJustEnded

LogEntry == [event : {"call.joined", "call.left", "call.ended"},
             actor : Users, by : Requests]

TypeOK ==
  /\ exists \in BOOLEAN
  /\ mode \in {"p2p", "sfu"}
  /\ caller \in Users
  /\ status \in [Users -> MemberStatus \union {"absent"}]
  /\ endedAt \in BOOLEAN
  /\ log \subseteq LogEntry
  /\ req \in [Requests -> ReqState]

Init ==
  /\ exists = FALSE
  /\ mode \in {"p2p", "sfu"}
  /\ caller \in Users
  /\ status = [u \in Users |-> "absent"]
  /\ endedAt = FALSE
  /\ log = {}
  /\ req = [r \in Requests |->
              [pc |-> "idle", kind |-> "none", actor |-> caller, as |-> "ended",
               prev |-> "absent", close |-> FALSE, open |-> FALSE, won |-> FALSE]]

-------------------------------------------------------------------------------
(* What the code computes from a document *)

\* A request that has answered: its locals are gone.
Answered(q) == [q EXCEPT !.pc = "done", !.as = "ended", !.prev = "absent",
                         !.close = FALSE, !.open = FALSE, !.won = FALSE]

StillActive(st) == {u \in Users : st[u] \in Active}

TrulyEnded(st) == {u \in Users : st[u] = "ended"}

\* Mutant: a group call closes only when every member has left it.
ShouldEndWhenAllEnded(st) ==
  mode = "p2p" \/ \A u \in Users : st[u] \in {"ended", "absent"}

\* shouldEnd: a 1-1 call is over as soon as anyone ends it; a group call once
\* somebody has left it and nobody is in it any more.
ShouldEnd(st) ==
  \/ mode = "p2p"
  \/ TrulyEnded(st) # {} /\ StillActive(st) = {}

-------------------------------------------------------------------------------
(* RequestCall *)

\* The members are the users found for membersIds, a list the client sends:
\* any subset of the users, with or without the caller.
RequestCall(ms) ==
  /\ ~exists
  /\ exists' = TRUE
  /\ status' = [u \in Users |-> CASE u \notin ms -> "absent"
                                  [] u \in ms /\ u = caller -> "started"
                                  [] OTHER -> "pending"]
  /\ UNCHANGED <<mode, caller, endedAt, log, req>>

-------------------------------------------------------------------------------
(* AcceptCall: sent by call:accepted and by call:join *)

AcceptRead(r, u) ==
  /\ exists
  /\ req[r].pc = "idle"
  /\ req' = [req EXCEPT ![r].pc = "start", ![r].kind = "accept",
                        ![r].actor = u, ![r].prev = status[u]]
  /\ UNCHANGED <<exists, mode, caller, status, endedAt, log>>

\* Mutant: the accepted member gets a status the schema does not have.
AcceptStartAsJoined(r) ==
  /\ req[r].pc = "start"
  /\ status' = [status EXCEPT ![req[r].actor] = IF @ = "absent" THEN @ ELSE "joined"]
  /\ req' = [req EXCEPT ![r] = Answered(@)]
  /\ UNCHANGED <<exists, mode, caller, endedAt, log>>

\* findOneAndUpdate with an array filter: no member, no change. The call is
\* not asked whether it has ended.
AcceptStart(r) ==
  LET u == req[r].actor IN
  /\ req[r].pc = "start"
  /\ status' = [status EXCEPT ![u] = IF @ = "absent" THEN @ ELSE "started"]
  /\ req' = [req EXCEPT ![r] = IF mode = "sfu" /\ req[r].prev = "pending"
                               THEN [@ EXCEPT !.pc = "joinLog"] ELSE Answered(@)]
  /\ UNCHANGED <<exists, mode, caller, endedAt, log>>

\* A failure of writeLogRoom is caught: the entry is then lost.
AcceptLog(r) ==
  /\ req[r].pc = "joinLog"
  /\ \/ log' = log \union {[event |-> "call.joined", actor |-> req[r].actor, by |-> r]}
     \/ UNCHANGED log
  /\ req' = [req EXCEPT ![r] = Answered(@)]
  /\ UNCHANGED <<exists, mode, caller, status, endedAt>>

-------------------------------------------------------------------------------
(* EndCall: sent by call:end, by the auto-miss job and on disconnect *)

EndRead(r, u, s) ==
  /\ exists
  /\ req[r].pc = "idle"
  /\ req' = [req EXCEPT ![r].pc = "flip", ![r].kind = "end",
                        ![r].actor = u, ![r].as = s, ![r].prev = status[u]]
  /\ UNCHANGED <<exists, mode, caller, status, endedAt, log>>

\* Phase 1: a 1-1 call ends every slot, a group call only the actor's.
EndFlip(r) ==
  LET flipped == IF mode = "p2p" THEN Users ELSE {req[r].actor}
      to == IF mode = "p2p" THEN "ended" ELSE req[r].as
  IN
  /\ req[r].pc = "flip"
  /\ status' = [u \in Users |-> IF u \in flipped /\ status[u] # "absent"
                                THEN to ELSE status[u]]
  /\ req' = [req EXCEPT ![r].pc = "refetch"]
  /\ UNCHANGED <<exists, mode, caller, endedAt, log>>

\* The re-read that decides: later statuses are not seen by this request.
EndRefetch(r) ==
  /\ req[r].pc = "refetch"
  /\ req' = [req EXCEPT ![r].pc = "stamp", ![r].close = ShouldEnd(status),
                        ![r].open = ~endedAt]
  /\ UNCHANGED <<exists, mode, caller, status, endedAt, log>>

\* Mutant: ended_at is set without the condition that it is still null.
EndStampAlways(r) ==
  /\ req[r].pc = "stamp"
  /\ endedAt' = (endedAt \/ req[r].close)
  /\ req' = [req EXCEPT ![r].pc = "log", ![r].won = req[r].close]
  /\ UNCHANGED <<exists, mode, caller, status, log>>

\* Phase 2: findOneAndUpdate({ended_at: null}) lets one request set ended_at.
EndStamp(r) ==
  LET wins == req[r].close /\ ~endedAt IN
  /\ req[r].pc = "stamp"
  /\ endedAt' = (endedAt \/ wins)
  /\ req' = [req EXCEPT ![r].pc = "log", ![r].won = wins]
  /\ UNCHANGED <<exists, mode, caller, status, log>>

\* Mutant: "left" is written without asking whether the actor was in the call.
EndLogAnyActor(r) ==
  LET q == req[r]
      entry(e) == [event |-> e, actor |-> q.actor, by |-> r]
  IN
  /\ q.pc = "log"
  /\ log' = CASE mode = "sfu" /\ q.won -> log \union {entry("call.ended")}
              [] mode = "sfu" /\ ~q.won /\ q.open /\ q.as = "ended" ->
                   log \union {entry("call.left")}
              [] OTHER -> log
  /\ req' = [req EXCEPT ![r] = Answered(@)]
  /\ UNCHANGED <<exists, mode, caller, status, endedAt>>

\* The loser of phase 2 still holds the document it refetched, so "no
\* ended_at" is judged on that copy.
EndLog(r) ==
  LET q == req[r]
      entry(e) == [event |-> e, actor |-> q.actor, by |-> r]
      left == ~q.won /\ q.open /\ q.as = "ended" /\ q.prev \in Active
  IN
  /\ q.pc = "log"
  /\ \/ mode = "sfu" /\ q.won /\ log' = log \union {entry("call.ended")}
     \/ mode = "sfu" /\ left /\ log' = log \union {entry("call.left")}
     \/ UNCHANGED log       \* nothing to say, or writeLogRoom failed
  /\ req' = [req EXCEPT ![r] = Answered(@)]
  /\ UNCHANGED <<exists, mode, caller, status, endedAt>>

-------------------------------------------------------------------------------

Continue(r) ==
  \/ AcceptStart(r) \/ AcceptLog(r)
  \/ EndFlip(r) \/ EndRefetch(r) \/ EndStamp(r) \/ EndLog(r)

Receive(r) ==
  \E u \in Users : AcceptRead(r, u) \/ \E s \in EndStatus : EndRead(r, u, s)

Next ==
  \/ \E ms \in SUBSET Users : RequestCall(ms)
  \/ \E r \in Requests : Receive(r) \/ Continue(r)

Spec == Init /\ [][Next]_vars

\* A request the service has begun to serve is served to its end.
FairSpec == Spec /\ \A r \in Requests : WF_vars(Continue(r))

-------------------------------------------------------------------------------
(* Properties *)

\* However many end requests race (a leaver, the auto-miss job, a disconnect),
\* the room shows "the call has ended" once, and only for a call with ended_at.
EndedLoggedOnce ==
  \A e \in log : e.event = "call.ended" =>
    /\ endedAt
    /\ \A f \in log : f.event = "call.ended" => f = e

\* A group call that somebody has left and nobody is in any more carries
\* ended_at, unless the request that will set it is still being served.
Deserted == mode = "sfu" /\ TrulyEnded(status) # {} /\ StillActive(status) = {}

Closing(r) ==
  \/ req[r].pc = "refetch"
  \/ req[r].pc = "stamp" /\ req[r].close

DesertedIsClosed == Deserted => endedAt \/ \E r \in Requests : Closing(r)

\* "X left the call" is only said of the caller or of somebody whose accept
\* went through: a user who never picked up cannot be shown leaving.
HasJoined(u) ==
  \/ u = caller
  \/ \E r \in Requests : /\ req[r].kind = "accept"
                         /\ req[r].actor = u
                         /\ req[r].pc \in {"joinLog", "done"}

LeaverHadJoined == \A e \in log : e.event = "call.left" => HasJoined(e.actor)

\* The record, seen as the story of a call.
Story == INSTANCE CallStory WITH
  phase <- IF ~exists THEN "none" ELSE IF endedAt THEN "over" ELSE "open",
  joined <- {u \in Users : HasJoined(u)},
  told <- {<<e.event, e.actor>> : e \in log}

\* Every command of every request, in any order, is a step of that story or none
\* of it: requestCall, acceptCall and endCall do together what CallStory promises.
TellsTheStory == Story!Spec

\* A deserted group call does not stay open for ever: it is closed, or
\* somebody comes back to it.
DesertedGetsClosed == Deserted ~> (endedAt \/ ~Deserted)
===============================================================================
