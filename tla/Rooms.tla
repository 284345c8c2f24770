------------------------------- MODULE Rooms -----------------------------------
(* One group room of the chat service: rooms.service.ts with the Bull worker    *)
(* room-membership-sync.processor.ts.                                           *)
(*                                                                              *)
(* The members live in three places: the Mongo document (room), the Redis sets  *)
(* that answer "is this user in the room" (ROOM_MEMBERS of the room, members,   *)
(* and of the user's pair id, pair) and "which rooms has this user"             *)
(* (USER_ROOMS, rooms).  Requests run side by side, one await at a time, each   *)
(* on the copy of the document it read; members added in bulk reach USER_ROOMS  *)
(* through a queue; a connecting socket has a cold USER_ROOMS rebuilt.          *)
(* Messages, names and nicknames are abstracted: an edit is any change of them. *)
EXTENDS Integers, Sequences, FiniteSets, SequencesExt

CONSTANTS Users,
          Requests,    \* handlers running at a time
          Ops,         \* the operations that may be called
          FirstRole,   \* "member" in a group, "guest" in a channel
          NewRoles,    \* roles that changeRoleMember may be asked for
          MaxEvents,   \* bound: requests once the room is there, and failures; see Weight
          None

Roles == {"admin", "member", "guest"}
Member == [user : Users, role : Roles]

\* What the modules that use this one assume of the constants.
ConstantsAssumption ==
  /\ IsFiniteSet(Users)
  /\ None \notin Users \union Ops \union Seq(Member) \union {"upserted", "removed"}
  /\ Ops \subseteq {"create", "leave", "kick", "add", "role", "edit", "pin", "clear", "connect"}
  /\ FirstRole \in {"member", "guest"}
  /\ NewRoles \subseteq {"admin", "member", "guest"}
  /\ MaxEvents \in Nat

VARIABLES room,     \* the document's room_members by joinedAt, None without a document
          members,  \* ROOM_MEMBERS(room)
          pair,     \* users in ROOM_MEMBERS(pairRoomId(user, room))
          rooms,    \* users whose USER_ROOMS holds the room
          warm,     \* users whose USER_ROOMS holds their pair id for it
          synced,   \* users with USER_ROOMS_SYNCED
          jobs,     \* queued membership-sync jobs
          feed,     \* the last change-feed event each user got about the room
          req,      \* the requests
          events,
          mixed,        \* history: users two requests wrote the sets of at a time
          feedMixed,    \* history: users told of the room by one and moved by another
          unled         \* history: the last admin was demoted, or a request failed
                        \* or acted on an outdated copy where it mattered for the admins,
                        \* or listed a member twice

store == <<room, members, pair, rooms, warm, synced, jobs>>
history == <<mixed, feedMixed, unled>>
vars == <<store, feed, req, events, history>>

Steps == {"idle", "exists", "prime", "read", "create", "pull", "promote", "delete",
          "unset", "unroom", "kick", "join", "enqueue", "role", "edit", "scan",
          "fill", "flag", "tellgone", "tellkept"}

Request ==
  [pc : Steps, op : Ops \union {None}, user : Users \union {None}, who : SUBSET Users,
   role : Roles \union {None}, snap : Seq(Member), todo : SUBSET {"doc", "sets"}]

Idle == [pc |-> "idle", op |-> None, user |-> None, who |-> {}, role |-> None,
         snap |-> <<>>, todo |-> {}]

UsersOf(m) == {m[i].user : i \in DOMAIN m}
InRoom == IF room = None THEN {} ELSE UsersOf(room)
AdminsOf(m) == {m[i].user : i \in {j \in DOMAIN m : m[j].role = "admin"}}
Admins == IF room = None THEN {} ELSE AdminsOf(room)
\* members.find / findIndex: the first entry of the user.
EntryOf(m, u) == m[Min({i \in DOMAIN m : m[i].user = u})]
RoleIn(m, u) == IF u \in UsersOf(m) THEN EntryOf(m, u).role ELSE None
\* members.filter((_, i) => i !== targetIdx)
Others(m, u) == RemoveAt(m, Min({i \in DOMAIN m : m[i].user = u}))

\* $pull: the entries of the others, in their order.
Staying(m, gone) == {i \in DOMAIN m : m[i].user \notin gone}
Rank(S, i) == Cardinality({j \in S : j <= i})
Without(m, gone) ==
  LET stay == Staying(m, gone) IN
  [k \in 1..Cardinality(stay) |-> m[CHOOSE i \in stay : Rank(stay, i) = k]]

TypeOK ==
  /\ room = None \/ room \in Seq(Member)
  /\ members \subseteq Users /\ pair \subseteq Users /\ rooms \subseteq Users
  /\ warm \subseteq Users /\ synced \subseteq Users
  /\ jobs \in Seq(SUBSET Users)
  /\ feed \in [Users -> {None, "upserted", "removed"}]
  /\ req \in [Requests -> Request]
  /\ \A r \in Requests : req[r].pc # "idle" => req[r].op \in Ops /\ req[r].user \in Users
  /\ events \in 0..MaxEvents
  /\ mixed \subseteq Users /\ feedMixed \subseteq Users /\ unled \in BOOLEAN

Init ==
  /\ room = None
  /\ members = {} /\ pair = {} /\ rooms = {} /\ warm = {} /\ synced = {}
  /\ jobs = <<>>
  /\ feed = [u \in Users |-> None]
  /\ req = [r \in Requests |-> Idle]
  /\ events = 0
  /\ mixed = {} /\ feedMixed = {} /\ unled = FALSE

-------------------------------------------------------------------------------
(* Who is writing whose entries: only the history variables use these.          *)

LastOne(q) == q.op = "leave" /\ Len(q.snap) = 1

\* Users whose Redis entries a request has decided, and not finished, to write.
Holds(q) ==
  CASE q.pc \in {"prime", "fill", "flag", "promote", "unset", "unroom"} -> {q.user}
    [] q.pc \in {"pull", "delete"} -> IF LastOne(q) THEN Users ELSE {q.user}
    [] q.pc \in {"kick"} -> q.who
    [] q.pc \in {"join", "enqueue"} -> q.who \union (IF q.op = "create" THEN {q.user} ELSE {})
    [] OTHER -> {}

\* emitRoomRemoved's and emitRoomUpserted's recipients.
Gone(q) ==
  CASE q.op = "leave" -> {q.user}
    [] q.op = "kick" -> q.who \intersect UsersOf(q.snap)
    [] q.op = "clear" -> {q.user}
    [] OTHER -> {}

Kept(q) ==
  CASE q.op = "leave" -> IF LastOne(q) THEN {} ELSE UsersOf(Others(q.snap, q.user))
    [] q.op = "kick" -> UsersOf(q.snap) \ q.who
    [] q.op = "create" -> q.who \union {q.user}
    [] q.op = "add" -> UsersOf(q.snap) \union q.who
    [] q.op \in {"role", "edit"} -> UsersOf(q.snap)
    [] q.op = "pin" -> {q.user}
    [] OTHER -> {}

Tells(q) ==
  IF q.pc \in {"pull", "promote", "delete", "unset", "unroom", "kick", "join", "enqueue",
               "tellgone", "tellkept"}
  THEN Gone(q) \union Kept(q) ELSE {}

Queued == UNION {jobs[i] : i \in DOMAIN jobs}

Contested ==
  UNION {Holds(req[r]) \intersect (Queued \union UNION {Holds(req[s]) : s \in Requests \ {r}}) :
         r \in Requests}

FeedContested ==
  UNION {Holds(req[r]) \intersect UNION {Tells(req[s]) : s \in Requests \ {r}} : r \in Requests}

\* Recorded by every step, with the users it harms itself.
Record(harmed, misled) ==
  /\ mixed' = mixed \union harmed \union Contested'
  /\ feedMixed' = feedMixed \union misled \union FeedContested'

Fine == Record({}, {}) /\ UNCHANGED unled

Costs(n) == events + n <= MaxEvents /\ events' = events + n
\* A request counts for each member it moves; one that moves nobody, a failure and
\* a restart count as two.
Weight(op, who) ==
  CASE op \in {"kick", "add"} -> Cardinality(who)
    [] op \in {"leave", "connect"} -> 1
    [] OTHER -> 2

Go(r, pc) == req' = [req EXCEPT ![r].pc = pc]
End(r) == req' = [req EXCEPT ![r] = Idle]
\* One of the parallel writes is done; after the last one the request goes on.
Parallel(r, pc, write) ==
  req' = [req EXCEPT ![r].todo = @ \ {write},
                     ![r].pc = IF req[r].todo = {write} THEN pc ELSE @]

-------------------------------------------------------------------------------
(* Calls, and checkExistedMemberRoom *)

\* memberIds, or the member whose role is to change.
Targets(op, u) ==
  CASE op = "create" -> {s \in SUBSET (Users \ {u}) : Cardinality(s) >= 2}
    [] op = "kick" -> (SUBSET (Users \ {u})) \ {{}}
    [] op = "add" -> (SUBSET (Users \ {u})) \ {{}}
    [] op = "role" -> {{v} : v \in Users}
    [] OTHER -> {{}}

Begin(r, u, op, who, role, pc) ==
  req' = [req EXCEPT ![r] = [Idle EXCEPT !.pc = pc, !.op = op, !.user = u,
                                         !.who = who, !.role = role]]

\* A room is used once its creator's request has announced it.
Free(r) == req[r] = Idle /\ (\A s \in Requests : req[s].op # "create")

CallCreate(r, u) ==
  /\ Free(r) /\ "create" \in Ops
  /\ room = None /\ events = 0
  /\ \E who \in Targets("create", u) : Begin(r, u, "create", who, None, "create")
  /\ UNCHANGED <<store, feed, events>> /\ Fine

\* The request's first await: both sets are asked, an error reads as no member.
Call(r, u, op) ==
  /\ Free(r) /\ op \in Ops \ {"create", "connect"}
  /\ room # None
  /\ \E who \in Targets(op, u), role \in (IF op = "role" THEN NewRoles ELSE {None}) :
       LET known == u \in members \union pair IN
       \/ /\ known /\ Costs(Weight(op, who))
          /\ Begin(r, u, op, who, role, "read")
       \/ /\ Costs(Weight(op, who) + IF known THEN 1 ELSE 0)
          /\ Begin(r, u, op, who, role, "exists")
  /\ UNCHANGED <<store, feed, unled>>
  /\ Record({}, {})

Exists(r) ==
  LET q == req[r] IN
  /\ q.pc = "exists"
  /\ IF q.user \in InRoom THEN Go(r, "prime") ELSE End(r)
  /\ UNCHANGED <<store, feed, events>> /\ Fine

\* primeRoomMembershipCache: under the room's id and under the pair id.
Prime(r) ==
  LET q == req[r] IN
  /\ q.pc = "prime"
  /\ Go(r, "read")
  /\ members' = members \union {q.user}
  /\ pair' = pair \union {q.user}
  /\ rooms' = rooms \union {q.user}
  /\ warm' = warm \union {q.user}
  /\ UNCHANGED <<room, synced, jobs, feed, events>> /\ Fine

\* findOne and the checks on the copy; what the handler does next.
Leaving(r, q) ==
  IF q.user \in UsersOf(room)
  THEN req' = [req EXCEPT ![r].pc = "pull", ![r].snap = room] ELSE End(r)

Kicking(r, q) ==
  IF RoleIn(room, q.user) = "admin"
  THEN req' = [req EXCEPT ![r].pc = "kick", ![r].snap = room,
                          ![r].todo = {"doc", "sets"}]
  ELSE End(r)

Adding(r, q) ==
  LET new == q.who \ UsersOf(room) IN
  IF RoleIn(room, q.user) # "guest" /\ new # {}
  THEN req' = [req EXCEPT ![r].pc = "join", ![r].snap = room, ![r].who = new,
                          ![r].todo = {"doc", "sets"}]
  ELSE End(r)

Read(r) ==
  LET q == req[r] IN
  /\ q.pc = "read"
  /\ CASE room = None -> End(r)
       [] room # None /\ q.op = "leave" -> Leaving(r, q)
       [] room # None /\ q.op = "kick" -> Kicking(r, q)
       [] room # None /\ q.op = "add" -> Adding(r, q)
       [] room # None /\ q.op = "role" ->
            IF RoleIn(room, q.user) = "admin" THEN Go(r, "role") ELSE End(r)
       [] room # None /\ q.op = "edit" ->
            IF RoleIn(room, q.user) # "guest" THEN Go(r, "edit") ELSE End(r)
       [] room # None /\ q.op = "pin" -> Go(r, "tellkept")
       [] room # None /\ q.op = "clear" -> Go(r, "tellgone")
  /\ UNCHANGED <<store, feed, events, unled>>
  \* A pin by someone the sets still let in is announced to a non-member.
  /\ Record({}, IF q.op = "pin" THEN {q.user} \ InRoom ELSE {})

-------------------------------------------------------------------------------
(* leavedRoom *)

\* Mutant: an admin who leaves does not look for another admin.
PullAndGo(r) ==
  LET q == req[r] IN
  /\ q.pc = "pull"
  /\ room' = IF room = None THEN None ELSE Without(room, {q.user})
  /\ Go(r, IF Others(q.snap, q.user) = <<>> THEN "delete" ELSE "unset")
  /\ UNCHANGED <<members, pair, rooms, warm, synced, jobs, feed, events>>
  /\ unled' = (unled \/ <<UsersOf(q.snap), AdminsOf(q.snap)>> # <<InRoom, Admins>>)
  /\ Record({}, {})

\* Mutant: a group of one is not kept.
PullOrDelete(r) ==
  LET q == req[r]
      rest == Others(q.snap, q.user)
      leads == RoleIn(q.snap, q.user) = "admin" /\ AdminsOf(rest) = {}
  IN
  /\ q.pc = "pull"
  /\ room' = IF room = None THEN None ELSE Without(room, {q.user})
  /\ Go(r, CASE leads /\ rest # <<>> -> "promote"
             [] ~leads /\ Len(rest) > 1 -> "unset"
             [] OTHER -> "delete")
  /\ UNCHANGED <<members, pair, rooms, warm, synced, jobs, feed, events>>
  /\ unled' = (unled \/ <<UsersOf(q.snap), AdminsOf(q.snap)>> # <<InRoom, Admins>>)
  /\ Record({}, {})

Pull(r) ==
  LET q == req[r]
      rest == Others(q.snap, q.user)
      leads == RoleIn(q.snap, q.user) = "admin" /\ AdminsOf(rest) = {}
  IN
  /\ q.pc = "pull"
  /\ room' = IF room = None THEN None ELSE Without(room, {q.user})
  /\ Go(r, CASE ~leads -> "unset"
             [] leads /\ rest = <<>> -> "delete"
             [] leads /\ rest # <<>> -> "promote")
  /\ UNCHANGED <<members, pair, rooms, warm, synced, jobs, feed, events>>
  /\ unled' = (unled \/ <<UsersOf(q.snap), AdminsOf(q.snap)>> # <<InRoom, Admins>>)
  /\ Record({}, {})

\* candidates[0], the longest-standing member; `$` sets its first entry.
Promote(r) ==
  LET q == req[r]
      next == Head(Others(q.snap, q.user)).user
  IN
  /\ q.pc = "promote"
  /\ room' = IF next \in InRoom
             THEN [room EXCEPT ![Min({i \in DOMAIN room : room[i].user = next})].role = "admin"]
             ELSE room
  /\ Go(r, "unset")
  /\ UNCHANGED <<members, pair, rooms, warm, synced, jobs, feed, events>>
  /\ unled' = (unled \/ next \notin InRoom)
  /\ Record({}, {})

Delete(r) ==
  /\ req[r].pc = "delete"
  /\ room' = None
  /\ Go(r, "unset")
  /\ UNCHANGED <<members, pair, rooms, warm, synced, jobs, feed, events>> /\ Fine

\* Mutant: the leaver stays in ROOM_MEMBERS.
UnsetNothing(r) ==
  /\ req[r].pc = "unset"
  /\ Go(r, "unroom")
  /\ UNCHANGED <<store, feed, events>> /\ Fine

Unset(r) ==
  LET q == req[r] IN
  /\ q.pc = "unset"
  /\ Go(r, "unroom")
  /\ members' = members \ {q.user}
  /\ UNCHANGED <<room, pair, rooms, warm, synced, jobs, feed, events>> /\ Fine

Unroom(r) ==
  LET q == req[r] IN
  /\ q.pc = "unroom"
  /\ Go(r, "tellgone")
  /\ rooms' = rooms \ {q.user}
  /\ UNCHANGED <<room, members, pair, warm, synced, jobs, feed, events>> /\ Fine

-------------------------------------------------------------------------------
(* removeMemberByAdmin: the document and the sets in parallel *)

KickDoc(r) ==
  LET q == req[r] IN
  /\ q.pc = "kick" /\ "doc" \in q.todo
  /\ Parallel(r, "tellgone", "doc")
  /\ room' = IF room = None THEN None ELSE Without(room, q.who)
  /\ UNCHANGED <<members, pair, rooms, warm, synced, jobs, feed, events>>
  /\ unled' = (unled \/ q.user \notin Admins)
  /\ Record({}, {})

\* Only those the copy shows: who joined since is pulled and keeps the entries.
KickSets(r) ==
  LET q == req[r]
      doomed == q.who \intersect UsersOf(q.snap)
  IN
  /\ q.pc = "kick" /\ "sets" \in q.todo
  /\ Parallel(r, "tellgone", "sets")
  /\ members' = members \ doomed
  /\ rooms' = rooms \ doomed
  /\ UNCHANGED <<room, pair, warm, synced, jobs, feed, events>> /\ Fine

-------------------------------------------------------------------------------
(* create, addMemberInRoom, and the worker that fills USER_ROOMS *)

Entries(users, role) == {[i \in DOMAIN s |-> [user |-> s[i], role |-> role]] : s \in SetToSeqs(users)}

\* The members' joinedAt are taken first, the creator's at the insert.
Create(r) ==
  LET q == req[r]
      creator == <<[user |-> q.user, role |-> "admin"]>>
  IN
  /\ q.pc = "create"
  /\ \E others \in Entries(q.who, FirstRole) : room' = others \o creator
  /\ req' = [req EXCEPT ![r].pc = "join", ![r].todo = {"sets"}]
  /\ UNCHANGED <<members, pair, rooms, warm, synced, jobs, feed, events>> /\ Fine

JoinDoc(r) ==
  LET q == req[r] IN
  /\ q.pc = "join" /\ "doc" \in q.todo
  /\ Parallel(r, "enqueue", "doc")
  /\ IF room = None THEN room' = None
     ELSE \E new \in Entries(q.who, "member") : room' = room \o new
  /\ UNCHANGED <<members, pair, rooms, warm, synced, jobs, feed, events>>
  /\ unled' = (unled \/ q.user \notin InRoom \/ q.who \intersect InRoom # {})
  /\ Record({}, {})

JoinSets(r) ==
  LET q == req[r] IN
  /\ q.pc = "join" /\ "sets" \in q.todo
  /\ Parallel(r, "enqueue", "sets")
  /\ members' = members \union Holds(q)
  /\ rooms' = IF q.op = "create" THEN rooms \union {q.user} ELSE rooms
  /\ UNCHANGED <<room, pair, warm, synced, jobs, feed, events>> /\ Fine

\* With the queue down the entries are written at once.
Enqueue(r) ==
  LET q == req[r] IN
  /\ q.pc = "enqueue"
  /\ Go(r, "tellkept")
  /\ \/ jobs' = Append(jobs, q.who) /\ rooms' = rooms
     \/ jobs' = jobs /\ rooms' = rooms \union q.who
  /\ UNCHANGED <<room, members, pair, warm, synced, feed, events>> /\ Fine

RunJob(i) ==
  /\ i \in DOMAIN jobs
  /\ jobs' = RemoveAt(jobs, i)
  /\ rooms' = rooms \union jobs[i]
  /\ UNCHANGED <<room, members, pair, warm, synced, feed, req, events>> /\ Fine

-------------------------------------------------------------------------------
(* changeRoleMember; changeNameRoom, changeLinkAvatarRoom, changeNickNameMember *)

ChangeRole(r) ==
  LET q == req[r] IN
  /\ q.pc = "role"
  /\ IF room = None
     THEN room' = room /\ End(r)
     ELSE /\ room' = [i \in DOMAIN room |->
                        IF room[i].user \in q.who THEN [room[i] EXCEPT !.role = q.role] ELSE room[i]]
          /\ req' = [req EXCEPT ![r].pc = "tellkept", ![r].snap = room']
  /\ UNCHANGED <<members, pair, rooms, warm, synced, jobs, feed, events>>
  /\ unled' = (unled \/ (Admins # {} /\ Admins' = {}))
  /\ Record({}, {})

\* The write is made before the caller is looked up: an outsider's change of
\* name or avatar stays, unannounced; a nickname is announced all the same.
Edit(r) ==
  LET q == req[r] IN
  /\ q.pc = "edit"
  /\ \/ /\ q.user \notin InRoom
        /\ End(r)
     \/ /\ room # None
        /\ req' = [req EXCEPT ![r].pc = "tellkept", ![r].snap = room]
  /\ UNCHANGED <<store, feed, events>> /\ Fine

-------------------------------------------------------------------------------
(* emitRoomRemoved, emitRoomUpserted *)

\* Mutant: whoever left is not told.
TellGoneNobody(r) ==
  LET q == req[r] IN
  /\ q.pc = "tellgone"
  /\ IF Kept(q) = {} THEN End(r) ELSE Go(r, "tellkept")
  /\ UNCHANGED <<store, feed, events>> /\ Fine

TellGone(r) ==
  LET q == req[r] IN
  /\ q.pc = "tellgone"
  /\ feed' = [u \in Users |-> IF u \in Gone(q) THEN "removed" ELSE feed[u]]
  /\ IF Kept(q) = {} THEN End(r) ELSE Go(r, "tellkept")
  /\ UNCHANGED <<store, events>> /\ Fine

TellKept(r) ==
  LET q == req[r] IN
  /\ q.pc = "tellkept"
  /\ feed' = [u \in Users |-> IF u \in Kept(q) THEN "upserted" ELSE feed[u]]
  /\ End(r)
  /\ UNCHANGED <<store, events>> /\ Fine

-------------------------------------------------------------------------------
(* A socket connects: chat-gateway reads USER_ROOMS and has a cold set rebuilt  *)
(* by ensureUserRoomsSynced.                                                    *)

\* The socket's first await: only an empty set is taken for a cold one.
Connect(r, u) ==
  /\ Free(r) /\ "connect" \in Ops
  /\ room # None /\ Costs(1)
  /\ u \notin rooms \union warm
  /\ Begin(r, u, "connect", {}, None, "scan")
  /\ UNCHANGED <<store, feed>> /\ Fine

\* The flag, then the rooms of the user; `snap` holds the room if it is found.
Scan(r) ==
  LET q == req[r] IN
  /\ q.pc = "scan"
  /\ IF q.user \in synced THEN End(r)
     ELSE Go(r, IF q.user \in InRoom THEN "fill" ELSE "flag")
  /\ UNCHANGED <<store, feed, events>> /\ Fine

Fill(r) ==
  LET q == req[r] IN
  /\ q.pc = "fill"
  /\ Go(r, "flag")
  /\ rooms' = rooms \union {q.user}
  /\ UNCHANGED <<room, members, pair, warm, synced, jobs, feed, events>> /\ Fine

Flag(r) ==
  LET q == req[r] IN
  /\ q.pc = "flag"
  /\ synced' = synced \union {q.user}
  /\ End(r)
  /\ UNCHANGED <<room, members, pair, rooms, warm, jobs, feed, events>> /\ Fine

-------------------------------------------------------------------------------
(* Failures *)

\* A database error, a restart of the service: the handler stops between awaits.
Abort(r) ==
  LET q == req[r] IN
  /\ q.pc # "idle"
  /\ Costs(2)
  /\ End(r)
  /\ UNCHANGED <<store, feed>>
  /\ unled' = (unled \/ q.pc = "promote")
  /\ Record(Holds(q), Tells(q))

\* Redis comes back empty, with the queue that lives in it.
Flush ==
  /\ room # None /\ Costs(2)
  /\ members' = {} /\ pair' = {} /\ rooms' = {} /\ warm' = {} /\ synced' = {} /\ jobs' = <<>>
  /\ UNCHANGED <<room, feed, req, unled>>
  /\ Record(UNION {Holds(req[r]) : r \in Requests}, {})

-------------------------------------------------------------------------------

Step(r) ==
  \/ Exists(r) \/ Read(r) \/ Pull(r) \/ Promote(r) \/ Delete(r) \/ Unset(r)
  \/ Unroom(r) \/ Create(r) \/ Enqueue(r) \/ ChangeRole(r) \/ Edit(r)
  \/ TellGone(r) \/ TellKept(r) \/ Scan(r) \/ Fill(r) \/ Flag(r)
  \/ Prime(r) \/ KickDoc(r) \/ KickSets(r) \/ JoinDoc(r) \/ JoinSets(r)

Next ==
  \/ \E r \in Requests : Step(r) \/ Abort(r)
                        \/ \E u \in Users : \/ CallCreate(r, u) \/ Connect(r, u)
                                           \/ \E op \in Ops : Call(r, u, op)
  \/ \E i \in DOMAIN jobs : RunJob(i)
  \/ Flush

Spec == Init /\ [][Next]_vars

-------------------------------------------------------------------------------
(* Properties *)

Held == Queued \union UNION {Holds(req[r]) : r \in Requests}

\* A group that has members has an admin, unless the last one was demoted, or a
\* request failed or worked from an outdated copy just where the admins changed.
AdminKept ==
  InRoom # {} /\ Admins = {} => unled \/ \E r \in Requests : req[r].pc = "promote"

\* A group is deleted with members in it only if the leaver's copy was outdated.
DeletesNobody == [][room # None /\ room' = None => InRoom = {} \/ unled]_vars

\* ROOM_MEMBERS outlives a membership only if two requests wrote the user's
\* entries at a time, or a write failed.
SetFollowsRoom ==
  \A u \in members \ InRoom : u \in mixed \/ u \in Held

\* A member whose rooms count as loaded has the room in USER_ROOMS, or the
\* queued job will put it there; otherwise two writes met or one failed.
LoadedRoomsAreComplete ==
  \A u \in (InRoom \intersect synced) \ rooms : u \in mixed \/ u \in Held

\* The last the catch-up feed told a user is not "you have this room" after the
\* user is out of it, unless one request told what another was changing.
LastWordIsRemoved ==
  \A u \in Users \ InRoom :
    feed[u] = "upserted" => u \in feedMixed \/ \E r \in Requests : u \in Tells(req[r])
===============================================================================
