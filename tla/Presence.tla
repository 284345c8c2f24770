-------------------------------- MODULE Presence --------------------------------
(***************************************************************************)
(* Online presence of one user: presence.service.ts, the connect,          *)
(* disconnect and heartbeat handlers of the /chat, /call and /doc gateways *)
(* that call it, and the 30 s sweep of online-status.task.ts.              *)
(*                                                                         *)
(* The online set and the alive keys live in Redis; a handler is a         *)
(* sequence of Redis commands with awaits between them, and each command   *)
(* is one action.  Users share no key, so one user is enough.              *)
(***************************************************************************)
EXTENDS Naturals

CONSTANTS Sockets,     \* <ns>:<socketId> of the sockets the user ever opens
          Sweepers,    \* pods that run the cron
          Faulty,      \* of these, those whose reads RedisService may answer with
                       \* an empty value because they failed
          Blips,       \* sockets whose heartbeats may be late by more than the TTL
          MaxCrashes   \* bound: crashes of the gateway process

ASSUME ConstantsAssumption ==
  /\ Sockets \intersect Sweepers = {}
  /\ Blips \subseteq Sockets
  /\ Faulty \subseteq Sockets \union Sweepers
  /\ MaxCrashes \in Nat

VARIABLES conn,      \* the transport: a socket id is never used twice
          online,    \* USER_ONLINE(usr_id)
          alive,     \* SOCKET_ALIVE(ns, socketId) exists
          told,      \* the last STATUS broadcast said "online"
          proc,      \* register of a socket, cleanup of a sweeper
          unreg,     \* unregister of a socket
          beat,      \* heartbeat of a socket
          crashes,
          late       \* history: sockets that dropped with a handler running

vars == <<conn, online, alive, told, proc, unreg, beat, crashes, late>>

Procs == Sockets \union Sweepers

ProcState ==
  [pc : {"idle", "auth", "read", "check", "remove", "count", "add", "mark",
         "tell", "done"},
   held : SUBSET Sockets,   \* members read, then those found dead
   flag : BOOLEAN]          \* register: before === 0; cleanup: after === 0

Rest(pc) == [pc |-> pc, held |-> {}, flag |-> FALSE]

TypeOK ==
  /\ conn \in [Sockets -> {"never", "up", "gone"}]
  /\ online \subseteq Sockets
  /\ alive \subseteq Sockets
  /\ told \in BOOLEAN
  /\ proc \in [Procs -> ProcState]
  /\ unreg \in [Sockets -> {"idle", "remove", "unmark", "count", "tell", "done"}]
  /\ beat \in [Sockets -> {"idle", "add"}]
  /\ crashes \in 0..MaxCrashes
  /\ late \subseteq Sockets

Init ==
  /\ conn = [s \in Sockets |-> "never"]
  /\ online = {} /\ alive = {} /\ told = FALSE
  /\ proc = [p \in Procs |-> Rest("idle")]
  /\ unreg = [s \in Sockets |-> "idle"]
  /\ beat = [s \in Sockets |-> "idle"]
  /\ crashes = 0 /\ late = {}

-------------------------------------------------------------------------------
(* Connection: handleConnection *)

Connect(s) ==
  /\ conn[s] = "never"
  /\ conn' = [conn EXCEPT ![s] = "up"]
  /\ proc' = [proc EXCEPT ![s] = Rest("auth")]
  /\ UNCHANGED <<online, alive, told, unreg, beat, crashes, late>>

\* The token is verified, client.user is set and register is called, whether
\* or not the transport is still up.
Authenticate(s) ==
  /\ proc[s].pc = "auth"
  /\ proc' = [proc EXCEPT ![s] = Rest("read")]
  /\ UNCHANGED <<conn, online, alive, told, unreg, beat, crashes, late>>

\* No token, a bad or a revoked one: the gateway drops the socket itself.
Refuse(s) ==
  /\ proc[s].pc = "auth"
  /\ proc' = [proc EXCEPT ![s] = Rest("done")]
  /\ conn' = [conn EXCEPT ![s] = "gone"]
  /\ unreg' = [unreg EXCEPT ![s] = "done"]
  /\ UNCHANGED <<online, alive, told, beat, crashes, late>>

-------------------------------------------------------------------------------
(* The purge that register and the cron have in common *)

SweepStart(w) ==
  /\ proc[w].pc = "idle"
  /\ proc' = [proc EXCEPT ![w] = Rest("read")]
  /\ UNCHANGED <<conn, online, alive, told, unreg, beat, crashes, late>>

\* sMembers; a failed read looks like an empty set.
ReadMembers(p) ==
  /\ proc[p].pc = "read"
  /\ \E seen \in {online} \union (IF p \in Faulty THEN {{}} ELSE {}) :
       proc' = [proc EXCEPT ![p] = [pc |-> "check", held |-> seen, flag |-> FALSE]]
  /\ UNCHANGED <<conn, online, alive, told, unreg, beat, crashes, late>>

\* Mutant: only malformed members count as dead, not those with no alive key.
CheckShapeOnly(p) ==
  /\ proc[p].pc = "check"
  /\ proc' = [proc EXCEPT ![p] = [pc |-> "remove", held |-> {}, flag |-> FALSE]]
  /\ UNCHANGED <<conn, online, alive, told, unreg, beat, crashes, late>>

\* collectDeadMembers: one mget of the alive keys; a failed one answers null
\* for each of them.
CheckAlive(p) ==
  /\ proc[p].pc = "check"
  /\ \E found \in {alive} \union (IF p \in Faulty THEN {{}} ELSE {}) :
       LET dead == proc[p].held \ found IN
       proc' = [proc EXCEPT ![p] =
                  [pc |-> "remove", held |-> dead,
                   flag |-> dead # {} /\ dead = proc[p].held]]
  /\ UNCHANGED <<conn, online, alive, told, unreg, beat, crashes, late>>

RemoveDead(p) ==
  /\ proc[p].pc = "remove"
  /\ online' = online \ proc[p].held
  /\ proc' = [proc EXCEPT ![p] =
                IF p \in Sockets THEN Rest("count")
                ELSE IF proc[p].flag THEN Rest("tell") ELSE Rest("idle")]
  /\ UNCHANGED <<conn, alive, told, unreg, beat, crashes, late>>

SweepTell(w) ==
  /\ proc[w].pc = "tell"
  /\ told' = FALSE
  /\ proc' = [proc EXCEPT ![w] = Rest("idle")]
  /\ UNCHANGED <<conn, online, alive, unreg, beat, crashes, late>>

-------------------------------------------------------------------------------
(* register, after its purge *)

CountBefore(s) ==
  /\ proc[s].pc = "count"
  /\ \E first \in {online = {}} \union (IF s \in Faulty THEN {TRUE} ELSE {}) :
       proc' = [proc EXCEPT ![s] = [pc |-> "add", held |-> {}, flag |-> first]]
  /\ UNCHANGED <<conn, online, alive, told, unreg, beat, crashes, late>>

\* Mutant: the member is the bare user id, as in older deployments.
AddBareUser(s) ==
  /\ proc[s].pc = "add"
  /\ online' = online \union {"usr_id"}
  /\ proc' = [proc EXCEPT ![s].pc = "mark"]
  /\ UNCHANGED <<conn, alive, told, unreg, beat, crashes, late>>

AddMember(s) ==
  /\ proc[s].pc = "add"
  /\ online' = online \union {s}
  /\ proc' = [proc EXCEPT ![s].pc = "mark"]
  /\ UNCHANGED <<conn, alive, told, unreg, beat, crashes, late>>

MarkAlive(s) ==
  /\ proc[s].pc = "mark"
  /\ alive' = alive \union {s}
  /\ proc' = [proc EXCEPT ![s].pc = "tell"]
  /\ UNCHANGED <<conn, online, told, unreg, beat, crashes, late>>

TellOnline(s) ==
  /\ proc[s].pc = "tell"
  /\ told' = (told \/ proc[s].flag)
  /\ proc' = [proc EXCEPT ![s] = Rest("done")]
  /\ UNCHANGED <<conn, online, alive, unreg, beat, crashes, late>>

-------------------------------------------------------------------------------
(* Disconnection: handleDisconnect, unregister *)

\* A socket that drops before client.user is set is not unregistered.
Disconnect(s) ==
  /\ conn[s] = "up"
  /\ conn' = [conn EXCEPT ![s] = "gone"]
  /\ unreg' = [unreg EXCEPT ![s] = IF proc[s].pc = "auth" THEN "done" ELSE "remove"]
  /\ late' = IF proc[s].pc # "done" \/ beat[s] # "idle" THEN late \union {s} ELSE late
  /\ UNCHANGED <<online, alive, told, proc, beat, crashes>>

RemoveMember(s) ==
  /\ unreg[s] = "remove"
  /\ online' = online \ {s}
  /\ unreg' = [unreg EXCEPT ![s] = "unmark"]
  /\ UNCHANGED <<conn, alive, told, proc, beat, crashes, late>>

\* Mutant: unregister leaves the alive key behind.
UnmarkNothing(s) ==
  /\ unreg[s] = "unmark"
  /\ unreg' = [unreg EXCEPT ![s] = "count"]
  /\ UNCHANGED <<conn, online, alive, told, proc, beat, crashes, late>>

Unmark(s) ==
  /\ unreg[s] = "unmark"
  /\ alive' = alive \ {s}
  /\ unreg' = [unreg EXCEPT ![s] = "count"]
  /\ UNCHANGED <<conn, online, told, proc, beat, crashes, late>>

CountAfter(s) ==
  /\ unreg[s] = "count"
  /\ \E none \in {online = {}} \union (IF s \in Faulty THEN {TRUE} ELSE {}) :
       unreg' = [unreg EXCEPT ![s] = IF none THEN "tell" ELSE "done"]
  /\ UNCHANGED <<conn, online, alive, told, proc, beat, crashes, late>>

TellOffline(s) ==
  /\ unreg[s] = "tell"
  /\ told' = FALSE
  /\ unreg' = [unreg EXCEPT ![s] = "done"]
  /\ UNCHANGED <<conn, online, alive, proc, beat, crashes, late>>

-------------------------------------------------------------------------------
(* Heartbeat, key expiry, crash *)

BeatMark(s) ==
  /\ conn[s] = "up" /\ proc[s].pc # "auth"
  /\ beat[s] = "idle"
  /\ alive' = alive \union {s}
  /\ beat' = [beat EXCEPT ![s] = "add"]
  /\ UNCHANGED <<conn, online, told, proc, unreg, crashes, late>>

\* Mutant: the heartbeat only refreshes the alive key.
BeatAddNothing(s) ==
  /\ beat[s] = "add"
  /\ beat' = [beat EXCEPT ![s] = "idle"]
  /\ UNCHANGED <<conn, online, alive, told, proc, unreg, crashes, late>>

BeatAdd(s) ==
  /\ beat[s] = "add"
  /\ online' = online \union {s}
  /\ beat' = [beat EXCEPT ![s] = "idle"]
  /\ UNCHANGED <<conn, alive, told, proc, unreg, crashes, late>>

Expire(s) ==
  /\ s \in alive
  /\ conn[s] = "gone" \/ s \in Blips
  /\ alive' = alive \ {s}
  /\ UNCHANGED <<conn, online, told, proc, unreg, beat, crashes, late>>

\* The process dies: transports and handlers are lost, Redis is not.
Crash ==
  /\ crashes < MaxCrashes
  /\ crashes' = crashes + 1
  /\ conn' = [s \in Sockets |-> IF conn[s] = "up" THEN "gone" ELSE conn[s]]
  /\ late' = late \union {s \in Sockets : conn[s] = "up" \/ unreg[s] \notin {"idle", "done"}}
  /\ proc' = [p \in Procs |->
                IF p \in Sockets /\ conn[p] # "never" THEN Rest("done") ELSE Rest("idle")]
  /\ unreg' = [s \in Sockets |-> IF conn[s] = "never" THEN "idle" ELSE "done"]
  /\ beat' = [s \in Sockets |-> "idle"]
  /\ UNCHANGED <<online, alive, told>>

-------------------------------------------------------------------------------

Register(s) ==
  \/ Authenticate(s) \/ Refuse(s) \/ ReadMembers(s) \/ CheckAlive(s) \/ RemoveDead(s)
  \/ CountBefore(s) \/ AddMember(s) \/ MarkAlive(s) \/ TellOnline(s)

Unregister(s) == RemoveMember(s) \/ Unmark(s) \/ CountAfter(s) \/ TellOffline(s)

Heartbeat(s) == BeatMark(s) \/ BeatAdd(s)

Sweep(w) ==
  \/ SweepStart(w) \/ ReadMembers(w) \/ CheckAlive(w) \/ RemoveDead(w) \/ SweepTell(w)

Next ==
  \/ \E s \in Sockets : \/ Connect(s) \/ Register(s) \/ Heartbeat(s)
                        \/ Disconnect(s) \/ Unregister(s) \/ Expire(s)
  \/ \E w \in Sweepers : Sweep(w)
  \/ Crash

Spec == Init /\ [][Next]_vars

\* Handlers run to their end, the cron keeps firing, a connected client keeps
\* sending heartbeats, and the key of a socket that is gone runs out.
FairSpec ==
  /\ Spec
  /\ \A s \in Sockets :
       /\ WF_vars(Register(s)) /\ WF_vars(Unregister(s)) /\ WF_vars(Heartbeat(s))
       /\ WF_vars(conn[s] = "gone" /\ Expire(s))
  /\ \A w \in Sweepers : WF_vars(Sweep(w))

-------------------------------------------------------------------------------
(* Properties *)

\* A socket that drops when no handler of it is running leaves nothing behind
\* once unregister has answered, whatever the sweep and the other sockets do.
CleanExit ==
  \A s \in Sockets : conn[s] = "gone" /\ unreg[s] = "done" /\ s \notin late
                       => s \notin online \union alive

\* A member left by a crash, or by a handler that outlived its socket, does
\* not keep the user online for ever.
GhostsArePruned ==
  \A s \in Sockets : (conn[s] = "gone" /\ s \in online) ~> s \notin online

\* heartbeat's comment: a live socket the cron pruned gets back into the set.
HeartbeatHeals ==
  \A s \in Sockets : (conn[s] = "up" /\ s \notin online) ~> (s \in online \/ conn[s] = "gone")
===============================================================================
