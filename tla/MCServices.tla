------------------------------ MODULE MCServices ------------------------------
(* Instances of services, and of the call gateway with several handlers at     *)
(* once, that share no state: each behaviour is one's.                         *)
EXTENDS Sessions, TLC

CONSTANTS Users, MaxMoved, Right, Multiple, Papers, Ids, MaxSubs, Docs, Keys, Fields, MaxWrites,
          Calls, Slots, Sockets, DeviceOwner, MaxEvents, alice, bob, phone, laptop

VARIABLES bond, strays, talk, move, wants, shut, crossed, moved,
          quiz, made, sub, last, both, lost, subbed,
          l1, l2, idx, inbox, link, load, inv, writes,
          member, over, inCall, callSock, invites, jobs, parts, index, lock, flags,
          up, holds, task, events, met, cut, asked,
          part

\* The instances share model values: TLC permutes few of them.
Social == INSTANCE Friendship WITH Moves <- Requests

Answers == 1 :> {1, 2} @@ 2 :> {1}
TwoPapers ==
  {<<[question |-> 1, chosen |-> <<2, 1>>], [question |-> 2, chosen |-> <<2>>]>>,
   <<[question |-> 2, chosen |-> <<1>>], [question |-> 1, chosen |-> <<2, 1>>]>>}

Quizz == INSTANCE Quizzes WITH Users <- Clients, Subs <- Requests

\* With one document, every key is its own.
Lookups == [key : Keys, doc : Docs]

\* Two processes keep the cache.
Cache == INSTANCE EntityCache WITH
  Instances <- Clients, Queries <- Lookups, RedisFails <- TRUE, read <- load

OneEach == [s \in Sockets |-> IF s = phone THEN alice ELSE bob]

\* Group calls, and a chat service that answers.
Gateway == INSTANCE CallGateway WITH
  Owner <- DeviceOwner, Mode <- "sfu", RoomsAtDrop <- BOOLEAN, GrpcFails <- FALSE,
  status <- member, endedAt <- over

ASSUME SocialAssumption == Social!ConstantsAssumption
ASSUME QuizzAssumption == Quizz!ConstantsAssumption
ASSUME CacheAssumption == Cache!ConstantsAssumption
ASSUME GatewayAssumption == Gateway!ConstantsAssumption

-------------------------------------------------------------------------------
social == <<bond, strays, talk, move, wants, shut, crossed, moved>>
quizz == <<quiz, made, sub, last, both, lost, subbed>>
cache == <<l1, l2, idx, inbox, link, load, inv, writes>>
gateway == <<member, over, inCall, callSock, invites, jobs, parts, index, lock, flags,
             up, holds, task, events, met, cut, asked>>
allVars == <<vars, social, quizz, cache, gateway, part>>

\* A part at rest has no state.
SocialRests ==
  /\ bond = 0 /\ strays = 0 /\ talk = 0 /\ move = 0 /\ wants = 0 /\ shut = 0
  /\ crossed = 0 /\ moved = 0
QuizzRests ==
  /\ quiz = 0 /\ made = 0 /\ sub = 0 /\ last = 0 /\ both = 0 /\ lost = 0 /\ subbed = 0
CacheRests ==
  /\ l1 = 0 /\ l2 = 0 /\ idx = 0 /\ inbox = 0 /\ link = 0 /\ load = 0 /\ inv = 0
  /\ writes = 0
GatewayRests ==
  /\ member = 0 /\ over = 0 /\ inCall = 0 /\ callSock = 0 /\ invites = 0 /\ jobs = 0
  /\ parts = 0 /\ index = 0 /\ lock = 0 /\ flags = 0 /\ up = 0 /\ holds = 0
  /\ task = 0 /\ events = 0 /\ met = 0 /\ cut = 0 /\ asked = 0

AllInit ==
  /\ part \in {"sessions", "social", "quiz", "cache", "calls"}
  /\ Init
  /\ part # "sessions" => pairs = <<>>   \* sessions have two beginnings, the rest one
  /\ IF part = "social" THEN Social!Init ELSE SocialRests
  /\ IF part = "quiz" THEN Quizz!Init ELSE QuizzRests
  /\ IF part = "cache" THEN Cache!Init ELSE CacheRests
  /\ IF part = "calls" THEN Gateway!Init ELSE GatewayRests

AllNext ==
  \/ /\ part = "sessions" /\ Next
     /\ UNCHANGED <<social, quizz, cache, gateway, part>>
  \/ /\ part = "social" /\ Social!Next
     /\ UNCHANGED <<vars, quizz, cache, gateway, part>>
  \/ /\ part = "quiz" /\ Quizz!Next
     /\ UNCHANGED <<vars, social, cache, gateway, part>>
  \/ /\ part = "cache" /\ Cache!Next
     /\ UNCHANGED <<vars, social, quizz, gateway, part>>
  \/ /\ part = "calls" /\ Gateway!Next
     /\ UNCHANGED <<vars, social, quizz, cache, part>>

AllSpec == AllInit /\ [][AllNext]_allVars

Symm == Permutations(Clients) \union Permutations(Requests)

-------------------------------------------------------------------------------
(* The properties of the parts. *)

\* Every variable has a value of its type, and Redis lists the push tokens of the
\* sessions that live (auth.service.ts, the sAdd and sRem of login and logout).
TokensMirrored == TypeOK /\ MirrorFollows

\* Friends both said yes and neither said no since, and an accepted pair has its
\* private room (social.service.ts, acceptFriendRequest).
FriendsAgree == part = "social" => Social!TypeOK /\ Social!Consent /\ Social!AcceptedHaveRoom

\* The leaderboard tells of each user's last paper, unless it was written under a name
\* that is not the quiz_id stored (quizz.service.ts).
LastCounts == part = "quiz" => Quizz!TypeOK /\ Quizz!LastCounts

\* Every variable has a value of its type, and a stale copy is one that overlapped a
\* write or met a failure (entity-cache.service.ts, getOrLoad and invalidateEntity).
StaleIsExplained == part = "cache" => Cache!TypeOK /\ Cache!StaleOnlyIfRisky

\* Every variable has a value of its type, and of a call at rest, whose handlers never
\* met, no marker and no invite is left that its end should have removed
\* (call.gateway.ts, handleCallEnd).
MarkersFollow ==
  part = "calls" => Gateway!TypeOK /\ Gateway!NoPhantomInvite /\ Gateway!NotLockedOut

\* A running call is not missed by the timer for who is in it, unless its handlers met
\* (call.gateway.ts, executeAutoMiss and handleJoinCall).
LiveNotMissed ==
  [][part = "calls" =>
       \A c \in Calls, u \in Users : Gateway!Missed(c, u) =>
         \E t \in Slots : task[t].kind = "end" /\ task[t].user = u /\ Gateway!EndCall(t)]_allVars
===============================================================================
