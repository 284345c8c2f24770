-------------------------------- MODULE Sessions --------------------------------
(***************************************************************************)
(* The device sessions of one user: login, refresh, the three logouts and  *)
(* the start-up resync of auth.service.ts, await by await.                 *)
(*                                                                         *)
(* A session is a Keys document, a token pair is a jti that access and     *)
(* refresh token share.  Redis holds the jtis that were revoked and the    *)
(* push tokens of the live sessions; Mongo holds the same, for good.       *)
(* RedisService swallows every failed command.                             *)
(***************************************************************************)
EXTENDS Naturals, Sequences

CONSTANTS Clients,   \* clientIds
          Devices,   \* push tokens
          Requests,  \* bound: requests handled at a time
          None,
          MaxBegun,  \* bound: requests in all
          MaxFaults  \* bound: failing commands, aborted requests, losses of Redis

ASSUME ConstantsAssumption ==
  /\ MaxBegun \in Nat /\ MaxFaults \in Nat
  /\ None \notin Clients /\ None \notin Devices

VARIABLES keys,      \* the Keys documents
          black,     \* REFRESH_TOKEN entries
          push,      \* USER_FCM_TOKENS
          pairs,     \* the clientId in each token pair by jti; None in pairs
                     \* from before the sessions
          req,       \* requests in progress
          ended,     \* history: jtis whose refresh or logout was answered
          shaky,     \* history: jtis whose refresh or logout a failure may have kept from
                     \* being recorded
          unsure,    \* history: push tokens that requests in parallel, a failure or
                     \* the client itself put out of step
          begun, faults

vars == <<keys, black, push, pairs, req, ended, shaky, unsure, begun, faults>>

Jtis == Nat \ {0}

Key == [made : BOOLEAN, fcm : Devices \union {None}, revoked : BOOLEAN, jit : SUBSET Jtis]

NoKey == [made |-> FALSE, fcm |-> None, revoked |-> FALSE, jit |-> {}]

Places == {"idle", "create", "mirror", "issue", "check", "rotate",
           "outRedis", "outDoc", "outPush", "outEnd",
           "devRedis", "devPush", "devEnd", "allRedis", "allEnd", "allPush", "sync"}

Request ==
  [pc : Places, on : Clients \union {None}, jti : Nat,
   dev : Devices \union {None},      \* its push token
   todo : SUBSET {"redis", "doc"},   \* of the reads or writes made in parallel
   jtis : SUBSET Jtis,               \* read, to be blacklisted
   adds : SUBSET Devices,            \* read, to be mirrored
   about : SUBSET Devices,           \* history: the push tokens it deals with
   late : BOOLEAN]                   \* history: its pair had ended when it began

Idle == [pc |-> "idle", on |-> None, jti |-> 0, dev |-> None, todo |-> {},
         jtis |-> {}, adds |-> {}, about |-> {}, late |-> FALSE]

Issued == DOMAIN pairs

KeysOK ==
  /\ keys \in [Clients -> Key]
  /\ \A c \in Clients : ~keys[c].made => keys[c] = NoKey

RequestsOK == req \in [Requests -> Request]

StoresOK ==
  /\ black \subseteq Jtis /\ push \subseteq Devices
  /\ pairs \in Seq(Clients \union {None})
  /\ ended \subseteq Issued /\ shaky \subseteq Issued /\ unsure \subseteq Devices
  /\ begun \in 0..MaxBegun /\ faults \in 0..MaxFaults

TypeOK == KeysOK /\ RequestsOK /\ StoresOK

\* A user without sessions, or with a pair from before them.
Init ==
  /\ keys = [c \in Clients |-> NoKey]
  /\ pairs \in {<<>>, <<None>>}
  /\ black = {} /\ push = {} /\ ended = {} /\ shaky = {} /\ unsure = {}
  /\ req = [r \in Requests |-> Idle]
  /\ begun = 0 /\ faults = 0

redis == <<black, push>>
history == <<ended, shaky, unsure>>

-------------------------------------------------------------------------------

Live(c) == keys[c].made /\ ~keys[c].revoked

Fresh(c) ==
  /\ ~keys[c].made /\ \A j \in Issued : pairs[j] # c
  /\ \A r \in Requests : req[r].on # c

Legacy(j) == pairs[j] = None

\* What begins about push tokens that another request is about puts them out of step.
Begin(r, q, extra) ==
  /\ req[r] = Idle /\ begun < MaxBegun
  /\ req' = [req EXCEPT ![r] = q] /\ begun' = begun + 1
  /\ unsure' = unsure \union extra
                 \union {d \in q.about : \E s \in Requests : d \in req[s].about}
  /\ UNCHANGED <<keys, redis, pairs, ended, shaky, faults>>

Go(r, pc) == req' = [req EXCEPT ![r].pc = pc]

Answer(r) == req' = [req EXCEPT ![r] = Idle]

\* A command of r does not fail, or fails.
Well == UNCHANGED <<shaky, unsure, faults>>

Fault(r) ==
  /\ faults < MaxFaults /\ faults' = faults + 1
  /\ unsure' = unsure \union req[r].about
  /\ shaky' = shaky \union ({req[r].jti} \cap Issued)

\* The middleware lets the token of pair j pass; it and the handler's first step
\* are one.
Passes(j) == j \in Issued /\ j \notin black

\* A pair is answered with the jti it was traded for.
Issue(r) ==
  /\ \/ req[r].pc = "issue"
     \/ req[r].pc = "rotate" /\ req[r].todo = {}
  /\ pairs' = Append(pairs, req[r].on)
  /\ ended' = ended \union ({req[r].jti} \cap Issued)
  /\ Answer(r)
  /\ UNCHANGED <<keys, redis, shaky, unsure, faults, begun>>

-------------------------------------------------------------------------------
(* login; register's first session *)

Login(r, c, d) ==
  /\ Fresh(c)
  /\ Begin(r, [Idle EXCEPT !.pc = "create", !.on = c, !.dev = d, !.about = {d} \ {None}],
           {e \in {d} : \E b \in Clients : keys[b].fcm = e /\ e # None})

Mirrored(r) == IF req[r].dev = None THEN "issue" ELSE "mirror"

CreateKey(r) ==
  LET c == req[r].on IN
  /\ req[r].pc = "create"
  /\ \/ /\ keys' = [keys EXCEPT ![c] = [NoKey EXCEPT !.made = TRUE, !.fcm = req[r].dev]]
        /\ Go(r, Mirrored(r)) /\ Well
     \/ \* login only logs the failure, register gives up
        /\ Fault(r) /\ UNCHANGED keys
        /\ Go(r, Mirrored(r)) \/ Answer(r)
  /\ UNCHANGED <<redis, pairs, ended, begun>>

Mirror(r) ==
  /\ req[r].pc = "mirror"
  /\ \/ push' = push \union {req[r].dev} /\ Well
     \/ push' = push /\ Fault(r)
  /\ Go(r, "issue")
  /\ UNCHANGED <<keys, black, pairs, ended, begun>>

-------------------------------------------------------------------------------
(* refreshToken *)

Ended(j) == j \in ended \/ (~Legacy(j) /\ keys[pairs[j]].revoked)

Refresh(r, j) ==
  /\ Passes(j)
  /\ Begin(r, [Idle EXCEPT !.pc = "check", !.on = pairs[j], !.jti = j,
                           !.todo = IF Legacy(j) THEN {"redis"} ELSE {"redis", "doc"},
                           !.late = Ended(j)], {})

Done(r, what) == req' = [req EXCEPT ![r].todo = @ \ {what}]

CheckRedis(r) ==
  /\ req[r].pc = "check" /\ "redis" \in req[r].todo
  /\ \/ req[r].jti \notin black /\ Done(r, "redis") /\ Well
     \/ req[r].jti \in black /\ Answer(r) /\ Well
     \/ req[r].jti \in black /\ Done(r, "redis") /\ Fault(r)
  /\ UNCHANGED <<keys, redis, pairs, ended, begun>>

SessionServes(c, j) == Live(c) /\ j \notin keys[c].jit

CheckDoc(r) ==
  /\ req[r].pc = "check" /\ "doc" \in req[r].todo
  /\ IF SessionServes(req[r].on, req[r].jti) THEN Done(r, "doc") ELSE Answer(r)
  /\ UNCHANGED <<keys, redis, pairs, history, faults, begun>>

\* A token without a clientId gets one.
Rotate(r) ==
  /\ req[r].pc = "check" /\ req[r].todo = {}
  /\ \E c \in Clients :
       /\ IF Legacy(req[r].jti) THEN Fresh(c) ELSE c = req[r].on
       /\ req' = [req EXCEPT ![r].pc = "rotate", ![r].on = c, ![r].todo = {"redis", "doc"}]
  /\ UNCHANGED <<keys, redis, pairs, history, faults, begun>>

RotateRedis(r) ==
  /\ req[r].pc = "rotate" /\ "redis" \in req[r].todo
  /\ \/ black' = black \union {req[r].jti} /\ Well
     \/ black' = black /\ Fault(r)
  /\ Done(r, "redis")
  /\ UNCHANGED <<keys, push, pairs, ended, begun>>

\* Mutant: the document only learns that the session was seen.
SpendNothing(k, j) == [k EXCEPT !.made = TRUE]

\* The upsert of the session's document.
Spend(k, j) == [k EXCEPT !.made = TRUE, !.jit = @ \union {j}]

\* A failure refuses the request, whose Redis write is on its way.
RotateDoc(r) ==
  LET c == req[r].on IN
  /\ req[r].pc = "rotate" /\ "doc" \in req[r].todo
  /\ \/ /\ keys' = [keys EXCEPT ![c] = Spend(@, req[r].jti)]
        /\ Done(r, "doc") /\ Well /\ UNCHANGED black
     \/ /\ Fault(r) /\ Answer(r)
        /\ black' \in {black, black \union {req[r].jti}}
        /\ UNCHANGED keys
  /\ UNCHANGED <<push, pairs, ended, begun>>

-------------------------------------------------------------------------------
(* logout *)

Revoked(k) == [k EXCEPT !.fcm = None, !.revoked = TRUE]

\* The client names its push token, or does not.
Logout(r, j, d) ==
  LET c == pairs[j]
      has == IF c = None THEN None ELSE keys[c].fcm
  IN /\ Passes(j)
     /\ Begin(r, [Idle EXCEPT !.pc = "outRedis", !.on = c, !.jti = j, !.dev = d,
                              !.about = {d, has} \ {None}],
              IF d = has THEN {} ELSE {d, has} \ {None})

OutRedis(r) ==
  /\ req[r].pc = "outRedis"
  /\ \/ black' = black \union {req[r].jti} /\ Well
     \/ black' = black /\ Fault(r)
  /\ Go(r, "outDoc")
  /\ UNCHANGED <<keys, push, pairs, ended, begun>>

\* The document of the session, or, without a clientId, any of the user's.  A
\* failure ends the request, with success.
OutDoc(r) ==
  LET found == {c \in Clients : keys[c].made /\ req[r].on \in {c, None}} IN
  /\ req[r].pc = "outDoc"
  /\ \/ /\ \/ \E c \in found :
                keys' = [keys EXCEPT ![c].jit = @ \union {req[r].jti}]
           \/ found = {} /\ UNCHANGED keys
        /\ Go(r, "outPush") /\ Well /\ UNCHANGED ended
     \/ /\ Fault(r) /\ Answer(r) /\ UNCHANGED keys
        /\ ended' = ended \union {req[r].jti}
  /\ UNCHANGED <<redis, pairs, begun>>

OutPush(r) ==
  /\ req[r].pc = "outPush"
  /\ \/ push' = push \ {req[r].dev} /\ Well
     \/ push' = push /\ Fault(r)
  /\ Go(r, "outEnd")
  /\ UNCHANGED <<keys, black, pairs, ended, begun>>

OutEnd(r) ==
  /\ req[r].pc = "outEnd"
  /\ \/ /\ keys' = [c \in Clients |-> IF c = req[r].on /\ keys[c].made
                                      THEN Revoked(keys[c]) ELSE keys[c]]
        /\ Well
     \/ keys' = keys /\ Fault(r)
  /\ ended' = ended \union {req[r].jti}
  /\ Answer(r)
  /\ UNCHANGED <<redis, pairs, begun>>

-------------------------------------------------------------------------------
(* logoutDevice and logoutAllDevices *)

\* Mutant: any clientId is taken for a session.
SessionAssumed(c) == ~keys[c].revoked

\* The session is there, and was not ended before.
SessionFound(c) == Live(c)

LogoutDevice(r, c) ==
  /\ SessionFound(c)
  /\ Begin(r, [Idle EXCEPT !.pc = "devRedis", !.on = c, !.dev = keys[c].fcm,
                           !.jtis = keys[c].jit, !.about = {keys[c].fcm} \ {None}], {})

LogoutAll(r) ==
  Begin(r, [Idle EXCEPT !.pc = "allRedis",
                        !.jtis = UNION {keys[c].jit : c \in {b \in Clients : Live(b)}},
                        !.about = Devices], {})

\* blacklistJti of each jti that was read, in one step; any of them may fail.
EndRedis(r) ==
  /\ req[r].pc \in {"devRedis", "allRedis"}
  /\ \/ black' = black \union req[r].jtis /\ Well
     \/ black' \in {black \union some : some \in SUBSET req[r].jtis} /\ Fault(r)
  /\ Go(r, IF req[r].pc = "devRedis" THEN "devPush" ELSE "allEnd")
  /\ UNCHANGED <<keys, push, pairs, ended, begun>>

\* Mutant: the push token of the ended session stays.
DevPushNothing(r) ==
  /\ req[r].pc = "devPush"
  /\ Go(r, "devEnd") /\ Well
  /\ UNCHANGED <<keys, redis, pairs, ended, begun>>

DevPush(r) ==
  /\ req[r].pc = "devPush"
  /\ \/ push' = push \ {req[r].dev} /\ Well
     \/ push' = push /\ Fault(r)
  /\ Go(r, "devEnd")
  /\ UNCHANGED <<keys, black, pairs, ended, begun>>

\* The updates of the documents; a failure ends the request.
DevEnd(r) ==
  /\ req[r].pc = "devEnd"
  /\ \/ keys' = [keys EXCEPT ![req[r].on] = Revoked(@)] /\ Well
     \/ keys' = keys /\ Fault(r)
  /\ Answer(r)
  /\ UNCHANGED <<redis, pairs, ended, begun>>

AllEnd(r) ==
  /\ req[r].pc = "allEnd"
  /\ \/ /\ keys' = [c \in Clients |-> IF Live(c) THEN Revoked(keys[c]) ELSE keys[c]]
        /\ Go(r, "allPush") /\ Well
     \/ keys' = keys /\ Answer(r) /\ Fault(r)
  /\ UNCHANGED <<redis, pairs, ended, begun>>

AllPush(r) ==
  /\ req[r].pc = "allPush"
  /\ \/ push' = {} /\ Well
     \/ push' = push /\ Fault(r)
  /\ Answer(r)
  /\ UNCHANGED <<keys, black, pairs, ended, begun>>

-------------------------------------------------------------------------------
(* The process *)

\* onModuleInit: the push tokens in the documents are mirrored, one by one.
Resync(r) ==
  Begin(r, [Idle EXCEPT !.pc = "sync", !.about = Devices,
                        !.adds = {keys[c].fcm : c \in Clients} \ {None}], {})

SyncOne(r) ==
  /\ req[r].pc = "sync"
  /\ \/ /\ req[r].adds = {} /\ Answer(r) /\ Well /\ UNCHANGED push
     \/ \E d \in req[r].adds :
          /\ \/ push' = push \union {d} /\ Well
             \/ push' = push /\ Fault(r)
          /\ req' = [req EXCEPT ![r].adds = @ \ {d}]
  /\ UNCHANGED <<keys, black, pairs, ended, begun>>

\* A request dies with its process.
Abort(r) ==
  /\ req[r].pc # "idle"
  /\ Fault(r) /\ Answer(r)
  /\ UNCHANGED <<keys, redis, pairs, ended, begun>>

\* Redis comes back empty.
Flush ==
  /\ faults < MaxFaults /\ faults' = faults + 1
  /\ black' = {} /\ push' = {}
  /\ shaky' = shaky \union {j \in Issued : Legacy(j)}
  /\ unsure' = Devices
  /\ UNCHANGED <<keys, pairs, req, ended, begun>>

Continue(r) ==
  \/ CreateKey(r) \/ Mirror(r) \/ Issue(r)
  \/ CheckRedis(r) \/ CheckDoc(r) \/ Rotate(r) \/ RotateRedis(r) \/ RotateDoc(r)
  \/ OutRedis(r) \/ OutDoc(r) \/ OutPush(r) \/ OutEnd(r)
  \/ EndRedis(r) \/ DevPush(r) \/ DevEnd(r) \/ AllEnd(r) \/ AllPush(r)
  \/ SyncOne(r)

Receive(r) ==
  \/ \E c \in Clients, d \in Devices \union {None} : Login(r, c, d)
  \/ \E j \in Issued : Refresh(r, j)
  \/ \E j \in Issued, d \in Devices \union {None} : Logout(r, j, d)
  \/ \E c \in Clients : LogoutDevice(r, c)
  \/ LogoutAll(r) \/ Resync(r)

Next ==
  \/ \E r \in Requests : Continue(r) \/ Receive(r) \/ Abort(r)
  \/ Flush

Spec == Init /\ [][Next]_vars

-------------------------------------------------------------------------------
(* Properties *)

\* auth.service.ts:134, 892: whoever presents a pair that was traded in or logged out, or
\* whose session was ended, gets no new one, whatever Redis has lost since.  Failed
\* writes, and pairs from before the sessions once Redis fails, are excepted.
NoSecondLife ==
  [][\A r \in Requests : Issue(r) /\ req[r].late => req[r].jti \in shaky]_vars

\* auth.service.ts:284: once no request about it is under way, Redis holds a push
\* token exactly as long as a session has it.
MirrorFollows ==
  \A d \in Devices \ unsure :
    (\A r \in Requests : d \notin req[r].about)
      => (d \in push <=> \E c \in Clients : keys[c].fcm = d)
===============================================================================
