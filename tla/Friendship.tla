------------------------------ MODULE Friendship ------------------------------
(***************************************************************************)
(* Friend requests, friends and blocks (social.service.ts), and the        *)
(* private room that an accepted request makes (rooms.service.ts create).  *)
(*                                                                         *)
(* Mongo keeps one Friendships document per pair of users (frp_id is       *)
(* unique and pairRoomId sorts the two) and one private room per pair.  A  *)
(* request reads, and writes in a later step what it has read about; block *)
(* and open are single statements.  Names, pages and notifications, which  *)
(* nobody waits for, are left out.                                         *)
(***************************************************************************)
EXTENDS Naturals, FiniteSets

CONSTANTS Users,
          Moves,      \* bound: requests handled at a time
          MaxMoved,   \* bound: requests in all
          None

VARIABLES bond,     \* Friendships, per pair
          strays,   \* who has a BLOCKED document that names nobody
          talk,     \* pairs with a private room
          move,     \* requests in progress
          wants,    \* history: whose friend each user last said to want to be
          shut,     \* history: whom each user blocked, until either asks or opens
          crossed,  \* history: pairs where a request wrote between the steps of
                    \* another, or a process died between two steps
          moved

vars == <<bond, strays, talk, move, wants, shut, crossed, moved>>

Pairs == {{u, v} : u, v \in Users} \ {{u} : u \in Users}

Statuses == {"PENDING", "ACCEPTED", "REJECTED", "BLOCKED"}

Bond == [status : Statuses,
         from : Users,       \* frp_userId1
         actor : Users]      \* frp_actionUserId

\* What the modules that use this one assume of the constants.
ConstantsAssumption == MaxMoved \in Nat /\ None \notin Bond /\ None \notin Moves

NoMove == [op |-> "none", at |-> "idle", by |-> None, to |-> None, held |-> FALSE]

Move == [op : {"none", "send", "accept", "reject", "remove"},
         at : {"idle", "read", "write", "find", "make", "undo", "room"},
         by : Users \union {None}, to : Users \union {None},
         held : BOOLEAN]     \* is the document it has read still there?

PairOf(m) == {m.by, m.to}

Init ==
  /\ bond = [p \in Pairs |-> None]
  /\ strays = {} /\ talk = {} /\ crossed = {} /\ moved = 0
  /\ move = [m \in Moves |-> NoMove]
  /\ wants = [u \in Users |-> {}]
  /\ shut = [u \in Users |-> {}]

-------------------------------------------------------------------------------
(* Helpers *)

Midway(p) == {m \in Moves : move[m].at \notin {"idle", "read"} /\ PairOf(move[m]) = p}

\* A write of a pair, by request m or (None) by a single statement.
Cross(p, m) == crossed' = crossed \union {q \in {p} : Midway(p) \ {m} # {}}

Go(m, at) == move' = [move EXCEPT ![m].at = at]
Finish(m) == move' = [move EXCEPT ![m] = NoMove]

\* A document is deleted: an update by its _id will find nothing.
Dropped(p, ms) == [m \in Moves |-> IF m \in Midway(p) THEN [ms[m] EXCEPT !.held = FALSE]
                                                     ELSE ms[m]]

Yes(u, v) == wants' = [wants EXCEPT ![u] = @ \union {v}]
No(u, v) == wants' = [wants EXCEPT ![u] = @ \ {v}]

\* The document that the request looks for.  A send goes on if there is none.
\* Mutant: an accept that does not look at who asked.
FoundByAnyone(m) ==
  LET b == bond[PairOf(m)] IN
    /\ b # None
    /\ b.status = (IF m.op = "remove" THEN "ACCEPTED" ELSE "PENDING")
    /\ m.op = "send" => b.from = m.by

Found(m) ==
  LET b == bond[PairOf(m)] IN
    /\ b # None
    /\ b.status = (IF m.op = "remove" THEN "ACCEPTED" ELSE "PENDING")
    /\ m.op = "send" => b.from = m.by
    /\ m.op = "accept" => b.actor = m.to

-------------------------------------------------------------------------------
(* Requests *)

Begin(m, op, u, v) ==
  /\ move[m] = NoMove /\ moved < MaxMoved /\ u # v
  /\ moved' = moved + 1
  /\ move' = [move EXCEPT ![m] = [op |-> op, at |-> "read", by |-> u, to |-> v, held |-> FALSE]]
  /\ UNCHANGED <<bond, strays, talk, wants, shut, crossed>>

Read(m) ==
  /\ move[m].at = "read"
  /\ IF Found(move[m]) # (move[m].op = "send")
     THEN move' = [move EXCEPT ![m].at = "write", ![m].held = move[m].op # "send"]
     ELSE Finish(m)
  /\ UNCHANGED <<bond, strays, talk, wants, shut, crossed, moved>>

\* The upsert by frp_id: whatever the document said, it is a request now.
Send(m) ==
  LET u == move[m].by  v == move[m].to IN
    /\ move[m].op = "send" /\ move[m].at = "write"
    /\ bond' = [bond EXCEPT ![{u, v}] = [status |-> "PENDING", from |-> u, actor |-> u]]
    /\ shut' = [shut EXCEPT ![u] = @ \ {v}, ![v] = @ \ {u}]
    /\ Yes(u, v) /\ Cross({u, v}, m) /\ Finish(m)
    /\ UNCHANGED <<strays, talk, moved>>

\* updateOne by the _id of the document that was read.
Update(m, status, actor) ==
  LET p == PairOf(move[m]) IN
    /\ IF move[m].held
       THEN bond' = [bond EXCEPT ![p].status = status, ![p].actor = actor]
       ELSE UNCHANGED bond
    /\ Cross(p, m)

Accept(m) ==
  /\ move[m].op = "accept" /\ move[m].at = "write"
  /\ Update(m, "ACCEPTED", move[m].by)
  /\ Yes(move[m].by, move[m].to) /\ Go(m, "find")
  /\ UNCHANGED <<strays, talk, shut, moved>>

\* rooms.service.ts create: it may find the room, refuse the users, or go on.
FindRoom(m) ==
  /\ move[m].at = "find"
  /\ \/ IF PairOf(move[m]) \in talk THEN Finish(m) ELSE Go(m, "make")
     \/ Go(m, "undo")
  /\ UNCHANGED <<bond, strays, talk, wants, shut, crossed, moved>>

\* room_id is unique, and what follows the insert may fail too.
MakeRoom(m) ==
  LET p == PairOf(move[m]) IN
    /\ move[m].at = "make"
    /\ \/ /\ p \notin talk
          /\ talk' = talk \union {p}
          /\ Finish(m) \/ Go(m, "undo")
       \/ Go(m, "undo") /\ UNCHANGED talk
    /\ UNCHANGED <<bond, strays, wants, shut, crossed, moved>>

\* Mutant: a failed room is answered with an error and no more.
NotUndone(m) ==
  /\ move[m].at = "undo"
  /\ Finish(m)
  /\ UNCHANGED <<bond, crossed, strays, talk, wants, shut, moved>>

Undo(m) ==
  /\ move[m].at = "undo"
  /\ Update(m, "PENDING", move[m].to)
  /\ Finish(m)
  /\ UNCHANGED <<strays, talk, wants, shut, moved>>

Reject(m) ==
  /\ move[m].op = "reject" /\ move[m].at = "write"
  /\ Update(m, "REJECTED", move[m].by)
  /\ No(move[m].by, move[m].to) /\ Finish(m)
  /\ UNCHANGED <<strays, talk, shut, moved>>

Remove(m) ==
  LET p == PairOf(move[m]) IN
    /\ move[m].op = "remove" /\ move[m].at = "write"
    /\ IF move[m].held
       THEN /\ bond' = [bond EXCEPT ![p] = None]
            /\ move' = Dropped(p, [move EXCEPT ![m].at = "room"])
       ELSE Go(m, "room") /\ UNCHANGED bond
    /\ No(move[m].by, move[m].to) /\ Cross(p, m)
    /\ UNCHANGED <<strays, talk, shut, moved>>

RemoveRoom(m) ==
  /\ move[m].at = "room"
  /\ talk' = talk \ {PairOf(move[m])}
  /\ Finish(m)
  /\ UNCHANGED <<bond, strays, wants, shut, crossed, moved>>

\* One statement.  The filter is an $or, so that what the upsert inserts for a
\* pair without a document has neither user in it.
Block(u, v) ==
  LET p == {u, v} IN
    /\ u # v /\ moved < MaxMoved /\ moved' = moved + 1
    /\ IF bond[p] # None
       THEN /\ bond' = [bond EXCEPT ![p].status = "BLOCKED", ![p].actor = u]
            /\ UNCHANGED strays
       ELSE strays' = strays \union {u} /\ UNCHANGED bond
    /\ shut' = [shut EXCEPT ![u] = @ \union {v}]
    /\ No(u, v) /\ Cross(p, None)
    /\ UNCHANGED <<talk, move>>

OpenBlocked(u, v) ==
  LET p == {u, v} IN
    /\ u # v /\ bond[p] # None /\ bond[p].status = "BLOCKED" /\ bond[p].actor = u
    /\ bond' = [bond EXCEPT ![p] = None]
    /\ move' = Dropped(p, move)
    /\ shut' = [shut EXCEPT ![u] = @ \ {v}]
    /\ Cross(p, None)
    /\ UNCHANGED <<strays, talk, wants, moved>>

\* The chat service dies while it handles a request.
Die(m) ==
  /\ move[m] # NoMove
  /\ crossed' = crossed \union {p \in {PairOf(move[m])} : move[m].at # "read"}
  /\ Finish(m)
  /\ UNCHANGED <<bond, strays, talk, wants, shut, moved>>

Next ==
  \/ \E m \in Moves :
       \/ \E op \in {"send", "accept", "reject", "remove"}, u, v \in Users : Begin(m, op, u, v)
       \/ Read(m) \/ Send(m) \/ Accept(m) \/ FindRoom(m) \/ MakeRoom(m) \/ Undo(m)
       \/ Reject(m) \/ Remove(m) \/ RemoveRoom(m) \/ Die(m)
  \/ \E u, v \in Users : Block(u, v) \/ OpenBlocked(u, v)

Spec == Init /\ [][Next]_vars

-------------------------------------------------------------------------------
(* Queries *)

Related(u, statuses) ==
  {v \in Users \ {u} : bond[{u, v}] # None /\ bond[{u, v}].status \in statuses}

Friends(u) == Related(u, {"ACCEPTED"})

\* Friends of friends, without the user, their friends and whoever they have any
\* other document with.
Suggested(u) ==
  (UNION {Friends(v) : v \in Friends(u)})
    \ ({u} \union Friends(u) \union Related(u, {"BLOCKED", "PENDING", "REJECTED"}))

-------------------------------------------------------------------------------
(* Properties *)

TypeOK ==
  /\ bond \in [Pairs -> Bond \union {None}]
  /\ strays \subseteq Users /\ talk \subseteq Pairs /\ crossed \subseteq Pairs
  /\ move \in [Moves -> Move]
  /\ wants \in [Users -> SUBSET Users] /\ shut \in [Users -> SUBSET Users]
  /\ moved \in 0..MaxMoved

\* "rollback": friends have a private room, once no request is about them; only
\* requests that cross each other, and a death, leave friends without one.
AcceptedHaveRoom ==
  \A u \in Users : \A v \in Friends(u) :
    {u, v} \in talk \/ {u, v} \in crossed \/ Midway({u, v}) # {}

\* Nobody becomes, or stays, a friend of someone whose last word was another:
\* not by a rollback, nor by a late answer, unless two requests crossed.
Consent ==
  \A u \in Users : \A v \in Friends(u) : v \in wants[u] \/ {u, v} \in crossed

\* The comment on step 4 of the suggestions: "Drop anyone the user has BLOCKED
\* or who has BLOCKED them."
BlockedNotSuggested ==
  \A u \in Users, v \in Users : v \in shut[u] => v \notin Suggested(u) /\ u \notin Suggested(v)
===============================================================================
