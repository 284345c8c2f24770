---------------------------- MODULE ServicesProofs ----------------------------
(***************************************************************************)
(* Proofs about what MCServices instantiates, for any values of the        *)
(* constants: the device sessions (any clients, push tokens, requests and  *)
(* faults), friend requests and blocks (any users and requests), the       *)
(* two-level cache (any processes, documents, keys and ids), the quiz (any *)
(* users, papers and submissions side by side) and the call gateway (any   *)
(* users, sockets, calls, handlers at once and events).                    *)
(***************************************************************************)
EXTENDS MCServices, FiniteSetTheorems, SequenceTheorems, WellFoundedInduction, TLAPS

-------------------------------------------------------------------------------
(* Sessions *)

Checks == {"check", "rotate"}
Outs == {"outRedis", "outDoc", "outPush", "outEnd"}
Makers == {"create", "mirror", "issue", "rotate"}

\* What a request carries: its pair and whose session that is, or a session.
Carries(r) ==
  /\ req[r].pc \in Checks \union Outs => req[r].jti \in Issued
  /\ req[r].pc \in {"check"} \union Outs => req[r].on = pairs[req[r].jti]
  /\ req[r].pc = "rotate" /\ ~Legacy(req[r].jti) => req[r].on = pairs[req[r].jti]
  /\ req[r].pc \in Makers => req[r].on \in Clients
  /\ req[r].pc \in {"devRedis", "devPush", "devEnd"} =>
       req[r].on \in Clients /\ keys[req[r].on].made
  /\ req[r].pc \in {"create", "mirror", "issue"} => req[r].jti = 0
  /\ req[r].pc = "mirror" => req[r].dev # None
  /\ req[r].late => req[r].pc \in Checks

\* A request that passed the document has one.
Passed(r) ==
  /\ req[r].pc \in Checks /\ ~Legacy(req[r].jti)
  /\ req[r].pc = "check" => "doc" \notin req[r].todo
  => keys[req[r].on].made

\* Pair j is refused: by Redis, if it is from before the sessions, or by the document.
Dead(j) == IF Legacy(j) THEN j \in black ELSE ~SessionServes(pairs[j], j)

Gone(j) == j \in shaky \/ Dead(j)

\* The requests on their way to an answer make their pair refused, write by write.
Recorded(q) ==
  \/ q.pc = "rotate" /\ Legacy(q.jti) /\ "redis" \notin q.todo
  \/ q.pc = "rotate" /\ ~Legacy(q.jti) /\ "doc" \notin q.todo
  \/ q.pc = "outDoc" /\ Legacy(q.jti)
  \/ q.pc \in {"outPush", "outEnd"}

Records(r) == Recorded(req[r]) => Gone(req[r].jti)

\* A request that came too late has the document to pass yet, which refuses it.
Late(r) ==
  req[r].late =>
    \/ req[r].jti \in shaky
    \/ /\ req[r].pc = "check" /\ "doc" \in req[r].todo
       /\ ~Legacy(req[r].jti) /\ Dead(req[r].jti)

Good(r) == Carries(r) /\ Passed(r) /\ Records(r) /\ Late(r)

\* A clientId that is new belongs to no pair, and to no other request that will
\* issue one.
Owner(q) == q.pc = "create" \/ (q.pc = "rotate" /\ Legacy(q.jti))

NewIdInv ==
  \A r \in Requests : Owner(req[r]) =>
    /\ \A j \in Issued : pairs[j] # req[r].on
    /\ \A s \in Requests : s # r /\ req[s].pc \in Makers => req[s].on # req[r].on

\* A pair whose refresh or logout was answered is refused.
EndedInv == \A j \in ended : Gone(j)

IInv == TypeOK /\ EndedInv /\ NewIdInv /\ \A r \in Requests : Good(r)

-------------------------------------------------------------------------------
(* Types *)

LEMMA IdleType == Idle \in Request /\ Idle.pc = "idle" /\ Idle.late = FALSE
<1>1. Idle.late \in BOOLEAN
  BY DEF Idle
<1>2. QED
  BY <1>1 DEF Idle, Request, Places

LEMMA GoType ==
  ASSUME RequestsOK, NEW r \in Requests, NEW pc \in Places, Go(r, pc)
  PROVE  /\ RequestsOK'
         /\ req'[r] = [req[r] EXCEPT !.pc = pc]
         /\ \A s \in Requests : s # r => req'[s] = req[s]
<1>1. req' = [req EXCEPT ![r] = [req[r] EXCEPT !.pc = pc]]
  BY DEF Go, RequestsOK
<1>2. [req[r] EXCEPT !.pc = pc] \in Request
  BY DEF RequestsOK, Request
<1>3. QED
  BY <1>1, <1>2 DEF RequestsOK

LEMMA DoneType ==
  ASSUME RequestsOK, NEW r \in Requests, NEW what, Done(r, what)
  PROVE  /\ RequestsOK'
         /\ req'[r] = [req[r] EXCEPT !.todo = @ \ {what}]
         /\ \A s \in Requests : s # r => req'[s] = req[s]
<1>1. req' = [req EXCEPT ![r] = [req[r] EXCEPT !.todo = @ \ {what}]]
  BY DEF Done, RequestsOK
<1>2. [req[r] EXCEPT !.todo = @ \ {what}] \in Request
  BY DEF RequestsOK, Request
<1>3. QED
  BY <1>1, <1>2 DEF RequestsOK

LEMMA AnswerType ==
  ASSUME RequestsOK, NEW r \in Requests, Answer(r)
  PROVE  /\ RequestsOK'
         /\ req'[r] = Idle
         /\ \A s \in Requests : s # r => req'[s] = req[s]
  BY IdleType DEF Answer, RequestsOK

LEMMA BeginType ==
  ASSUME TypeOK, NEW r \in Requests, NEW q \in Request, NEW extra \in SUBSET Devices,
         Begin(r, q, extra)
  PROVE  /\ TypeOK'
         /\ req'[r] = q
         /\ \A s \in Requests : s # r => req'[s] = req[s]
<1>1. RequestsOK' /\ req'[r] = q /\ \A s \in Requests : s # r => req'[s] = req[s]
  BY DEF TypeOK, RequestsOK, Begin
<1>2. q.about \subseteq Devices
  BY DEF Request
<1>3. unsure' \subseteq Devices
  BY <1>2 DEF TypeOK, StoresOK, Begin
<1>4. begun' \in 0..MaxBegun
  BY ConstantsAssumption DEF TypeOK, StoresOK, Begin
<1>5. StoresOK'
  BY <1>3, <1>4 DEF TypeOK, StoresOK, Begin, redis, Issued
<1>6. KeysOK'
  BY DEF TypeOK, KeysOK, Begin
<1>7. QED
  BY <1>1, <1>5, <1>6 DEF TypeOK

\* What a failure of r changes keeps its type.
LEMMA FaultType ==
  ASSUME TypeOK, NEW r \in Requests, Fault(r) \/ Well
  PROVE  /\ faults' \in 0..MaxFaults
         /\ shaky \subseteq shaky' /\ shaky' \subseteq Issued
         /\ unsure' \subseteq Devices
<1>1. req[r].about \subseteq Devices
  BY DEF TypeOK, RequestsOK, Request
<1>2. QED
  BY <1>1, ConstantsAssumption DEF TypeOK, StoresOK, Fault, Well

LEMMA KeyTypes ==
  ASSUME NEW k \in Key, NEW j \in Jtis
  PROVE  /\ Spend(k, j) \in Key /\ Spend(k, j).made
         /\ [k EXCEPT !.jit = @ \union {j}] \in Key
<1>1. [k EXCEPT !.jit = @ \union {j}] \in Key
  BY DEF Key
<1>2. Spend(k, j) = [k EXCEPT !.made = TRUE, !.jit = @ \union {j}]
  BY DEF Spend
<1>3. QED
  BY <1>1, <1>2 DEF Key

\* What a command leaves alone, and what a request of the right kind begins with.
LEMMA SameStores ==
  ASSUME TypeOK, NEW r \in Requests, Fault(r) \/ Well, begun' = begun, pairs' = pairs,
         black' \subseteq Jtis, push' \subseteq Devices,
         ended' \subseteq Issued
  PROVE  StoresOK'
  BY FaultType DEF TypeOK, StoresOK, Issued

LEMMA SameKeys == ASSUME TypeOK, UNCHANGED keys PROVE KeysOK'
  BY DEF TypeOK, KeysOK

\* One document changes: it is there afterwards.
LEMMA OneKey ==
  ASSUME TypeOK, NEW c \in Clients, NEW k \in Key, k.made,
         keys' = [keys EXCEPT ![c] = k]
  PROVE  KeysOK' /\ \A b \in Clients : keys'[b] = IF b = c THEN k ELSE keys[b]
  BY DEF TypeOK, KeysOK

LEMMA RevokedType == ASSUME NEW k \in Key PROVE Revoked(k) \in Key /\ Revoked(k).made = k.made
  BY DEF Key, Revoked

\* Any documents that are there may be ended together.
LEMMA SomeEnded ==
  ASSUME TypeOK,
         \/ UNCHANGED keys
         \/ \E S \in SUBSET {c \in Clients : keys[c].made} :
              keys' = [c \in Clients |-> IF c \in S THEN Revoked(keys[c]) ELSE keys[c]]
  PROVE  KeysOK'
<1>1. CASE UNCHANGED keys
  BY <1>1, SameKeys
<1>2. ASSUME NEW S \in SUBSET {c \in Clients : keys[c].made},
             keys' = [c \in Clients |-> IF c \in S THEN Revoked(keys[c]) ELSE keys[c]]
      PROVE KeysOK'
  <2>1. \A c \in Clients : keys[c] \in Key /\ Revoked(keys[c]) \in Key
    BY RevokedType DEF TypeOK, KeysOK
  <2>2. \A c \in S : Revoked(keys[c]).made
    BY RevokedType DEF TypeOK, KeysOK
  <2>3. QED
    BY <1>2, <2>1, <2>2 DEF TypeOK, KeysOK
<1>3. QED
  BY <1>1, <1>2

LEMMA AddedType ==
  ASSUME RequestsOK, NEW r \in Requests, NEW d,
         req' = [req EXCEPT ![r].adds = @ \ {d}]
  PROVE  /\ RequestsOK'
         /\ req'[r] = [req[r] EXCEPT !.adds = @ \ {d}]
         /\ \A s \in Requests : s # r => req'[s] = req[s]
<1>1. req' = [req EXCEPT ![r] = [req[r] EXCEPT !.adds = @ \ {d}]]
  BY DEF RequestsOK
<1>2. [req[r] EXCEPT !.adds = @ \ {d}] \in Request
  BY DEF RequestsOK, Request
<1>3. QED
  BY <1>1, <1>2 DEF RequestsOK

LEMMA RotatedType ==
  ASSUME NEW q \in Request, NEW c \in Clients
  PROVE  [q EXCEPT !.pc = "rotate", !.on = c, !.todo = {"redis", "doc"}] \in Request
<1>1. "rotate" \in Places
  BY DEF Places
<1>2. {"redis", "doc"} \in SUBSET {"redis", "doc"} /\ c \in Clients \union {None}
  OBVIOUS
<1>3. QED
  BY <1>1, <1>2 DEF Request

LEMMA RefreshType ==
  ASSUME NEW c \in Clients \union {None}, NEW j \in Nat, NEW b \in BOOLEAN,
         NEW t \in SUBSET {"redis", "doc"}
  PROVE  [Idle EXCEPT !.pc = "check", !.on = c, !.jti = j, !.todo = t, !.late = b] \in Request
<1> DEFINE q == [Idle EXCEPT !.pc = "check", !.on = c, !.jti = j, !.todo = t, !.late = b]
<1>1. q.late \in BOOLEAN
  BY DEF Idle
<1>2. QED
  BY <1>1, IdleType DEF Request, Places

LEMMA ReceiveType ==
  ASSUME TypeOK, NEW r \in Requests, Receive(r)
  PROVE  TypeOK'
<1> USE DEF TypeOK
<1>1. ASSUME NEW c \in Clients, NEW d \in Devices \union {None}, Login(r, c, d)
      PROVE TypeOK'
  <2> DEFINE q == [Idle EXCEPT !.pc = "create", !.on = c, !.dev = d, !.about = {d} \ {None}]
             x == {e \in {d} : \E b \in Clients : keys[b].fcm = e /\ e # None}
  <2>1. q \in Request
    BY IdleType DEF Idle, Request, Places
  <2>2. x \in SUBSET Devices
    OBVIOUS
  <2>3. Begin(r, q, x)
    BY <1>1 DEF Login
  <2> HIDE DEF q, x
  <2>4. QED
    BY <2>1, <2>2, <2>3, BeginType
<1>2. ASSUME NEW j \in Issued, Refresh(r, j) PROVE TypeOK'
  <2> DEFINE q == [Idle EXCEPT !.pc = "check", !.on = pairs[j], !.jti = j,
                               !.todo = IF Legacy(j) THEN {"redis"} ELSE {"redis", "doc"},
                               !.late = Ended(j)]
  <2>1. j \in Nat /\ pairs[j] \in Clients \union {None}
    BY DEF StoresOK, Issued
  <2>2. Ended(j) \in BOOLEAN
    <3>1. ~Legacy(j) => keys[pairs[j]].revoked \in BOOLEAN
      BY <2>1 DEF Legacy, KeysOK, Key
    <3>2. QED
      BY <3>1 DEF Ended
  <2>3. (IF Legacy(j) THEN {"redis"} ELSE {"redis", "doc"}) \in SUBSET {"redis", "doc"}
    OBVIOUS
  <2>4. q \in Request
    BY <2>1, <2>2, <2>3, RefreshType
  <2>5. Begin(r, q, {})
    BY <1>2 DEF Refresh
  <2> HIDE DEF q
  <2>6. QED
    BY <2>4, <2>5, BeginType
<1>3. ASSUME NEW j \in Issued, NEW d \in Devices \union {None}, Logout(r, j, d) PROVE TypeOK'
  <2> DEFINE c == pairs[j]
             has == IF c = None THEN None ELSE keys[c].fcm
             q == [Idle EXCEPT !.pc = "outRedis", !.on = c, !.jti = j, !.dev = d,
                               !.about = {d, has} \ {None}]
             x == IF d = has THEN {} ELSE {d, has} \ {None}
  <2>1. j \in Nat /\ c \in Clients \union {None}
    BY DEF StoresOK, Issued
  <2>2. has \in Devices \union {None}
    BY <2>1 DEF KeysOK, Key
  <2>3. x \in SUBSET Devices /\ {d, has} \ {None} \in SUBSET Devices
    BY <2>2
  <2>4. Begin(r, q, x)
    BY <1>3 DEF Logout
  <2> HIDE DEF has, c
  <2>5. q \in Request
    BY <2>1, <2>3, IdleType DEF Idle, Request, Places
  <2> HIDE DEF q, x
  <2>6. QED
    BY <2>3, <2>4, <2>5, BeginType
<1>4. ASSUME NEW c \in Clients, LogoutDevice(r, c) PROVE TypeOK'
  <2> DEFINE q == [Idle EXCEPT !.pc = "devRedis", !.on = c, !.dev = keys[c].fcm,
                               !.jtis = keys[c].jit, !.about = {keys[c].fcm} \ {None}]
  <2>1. keys[c].fcm \in Devices \union {None} /\ keys[c].jit \in SUBSET Jtis
    BY DEF KeysOK, Key
  <2>2. q \in Request
    BY <2>1, IdleType DEF Idle, Request, Places
  <2>3. Begin(r, q, {})
    BY <1>4 DEF LogoutDevice
  <2> HIDE DEF q
  <2>4. QED
    BY <2>2, <2>3, BeginType
<1>5. ASSUME LogoutAll(r) PROVE TypeOK'
  <2> DEFINE js == UNION {keys[c].jit : c \in {b \in Clients : Live(b)}}
             q == [Idle EXCEPT !.pc = "allRedis", !.jtis = js, !.about = Devices]
  <2>1. js \in SUBSET Jtis
    BY DEF KeysOK, Key
  <2>2. Begin(r, q, {})
    BY <1>5 DEF LogoutAll
  <2> HIDE DEF js
  <2>3. q \in Request
    BY <2>1, IdleType DEF Idle, Request, Places
  <2> HIDE DEF q
  <2>4. QED
    BY <2>2, <2>3, BeginType
<1>6. ASSUME Resync(r) PROVE TypeOK'
  <2> DEFINE ds == {keys[c].fcm : c \in Clients} \ {None}
             q == [Idle EXCEPT !.pc = "sync", !.about = Devices, !.adds = ds]
  <2>1. ds \in SUBSET Devices
    BY DEF KeysOK, Key
  <2>2. Begin(r, q, {})
    BY <1>6 DEF Resync
  <2> HIDE DEF ds
  <2>3. q \in Request
    BY <2>1, IdleType DEF Idle, Request, Places
  <2> HIDE DEF q
  <2>4. QED
    BY <2>2, <2>3, BeginType
<1>7. QED
  BY <1>1, <1>2, <1>3, <1>4, <1>5, <1>6 DEF Receive

\* What a request is about, and what it carries in sets.
LEMMA CarriedType ==
  ASSUME TypeOK, NEW r \in Requests, Carries(r)
  PROVE  /\ req[r].jti \in Nat /\ req[r].on \in Clients \union {None}
         /\ req[r].dev \in Devices \union {None} /\ req[r].todo \subseteq {"redis", "doc"}
         /\ req[r].jtis \subseteq Jtis /\ req[r].adds \subseteq Devices
         /\ req[r].pc \in Checks \union Outs => req[r].jti \in Jtis
<1>1. req[r] \in Request
  BY DEF TypeOK, RequestsOK
<1>2. Issued \subseteq Jtis
  BY DEF TypeOK, StoresOK, Issued, Jtis
<1>3. QED
  BY <1>1, <1>2 DEF Request, Carries

LEMMA ContinueType ==
  ASSUME TypeOK, NEW r \in Requests, Carries(r), Continue(r) \/ Abort(r)
  PROVE  TypeOK'
<1> USE DEF TypeOK
<1>0. /\ black \subseteq Jtis /\ push \subseteq Devices /\ ended \subseteq Issued
      /\ pairs \in Seq(Clients \union {None})
  BY DEF StoresOK
<1>1. ASSUME CreateKey(r) PROVE TypeOK'
  <2> DEFINE c == req[r].on
  <2>1. c \in Clients
    BY <1>1 DEF CreateKey, Carries, Makers
  <2>2. RequestsOK'
    BY <1>1, GoType, AnswerType DEF CreateKey, Mirrored, Places
  <2>3. StoresOK'
    BY <1>0, <1>1, SameStores DEF CreateKey, redis
  <2>4. KeysOK'
    <3> DEFINE k == [NoKey EXCEPT !.made = TRUE, !.fcm = req[r].dev]
    <3>1. k \in Key /\ k.made
      BY CarriedType DEF Key, NoKey
    <3>2. keys' = [keys EXCEPT ![c] = k] \/ UNCHANGED keys
      BY <1>1 DEF CreateKey
    <3> HIDE DEF k, c
    <3>3. QED
      BY <2>1, <3>1, <3>2, OneKey, SameKeys
  <2>5. QED
    BY <2>2, <2>3, <2>4
<1>2. ASSUME Mirror(r) PROVE TypeOK'
  <2>1. req[r].dev \in Devices \union {None}
    BY CarriedType
  <2>2. push' \subseteq Devices
    BY <1>0, <1>2, <2>1 DEF Mirror, Carries
  <2>3. RequestsOK'
    BY <1>2, GoType DEF Mirror, Places
  <2>4. StoresOK'
    BY <1>0, <1>2, <2>2, SameStores DEF Mirror
  <2>5. QED
    BY <1>2, <2>3, <2>4, SameKeys DEF Mirror
<1>3. ASSUME Issue(r) PROVE TypeOK'
  <2>1. RequestsOK'
    BY <1>3, AnswerType DEF Issue
  <2>2. pairs' \in Seq(Clients \union {None}) /\ Issued \subseteq Issued'
    BY <1>0, <1>3, CarriedType DEF Issue, Issued
  <2>3. StoresOK'
    BY <1>3, <2>2 DEF StoresOK, Issue, redis
  <2>4. QED
    BY <1>3, <2>1, <2>3, SameKeys DEF Issue
<1>4. ASSUME CheckRedis(r) PROVE TypeOK'
  <2>1. RequestsOK'
    BY <1>4, DoneType, AnswerType DEF CheckRedis
  <2>2. StoresOK'
    BY <1>0, <1>4, SameStores DEF CheckRedis, redis
  <2>3. QED
    BY <1>4, <2>1, <2>2, SameKeys DEF CheckRedis
<1>5. ASSUME CheckDoc(r) PROVE TypeOK'
  <2>1. RequestsOK'
    BY <1>5, DoneType, AnswerType DEF CheckDoc
  <2>2. StoresOK'
    BY <1>5 DEF StoresOK, CheckDoc, redis, history, Issued
  <2>3. QED
    BY <1>5, <2>1, <2>2, SameKeys DEF CheckDoc
<1>6. ASSUME Rotate(r) PROVE TypeOK'
  <2>1. RequestsOK'
    <3>1. PICK c \in Clients :
            req' = [req EXCEPT ![r].pc = "rotate", ![r].on = c, ![r].todo = {"redis", "doc"}]
      BY <1>6 DEF Rotate
    <3>2. req' = [req EXCEPT ![r] = [req[r] EXCEPT !.pc = "rotate", !.on = c,
                                                   !.todo = {"redis", "doc"}]]
      BY <3>1 DEF RequestsOK
    <3>3. [req[r] EXCEPT !.pc = "rotate", !.on = c, !.todo = {"redis", "doc"}] \in Request
      BY RotatedType DEF RequestsOK
    <3>4. QED
      BY <3>2, <3>3 DEF RequestsOK
  <2>2. StoresOK'
    BY <1>6 DEF StoresOK, Rotate, redis, history, Issued
  <2>3. QED
    BY <1>6, <2>1, <2>2, SameKeys DEF Rotate
<1>7. ASSUME RotateRedis(r) PROVE TypeOK'
  <2>1. RequestsOK'
    BY <1>7, DoneType DEF RotateRedis
  <2>2. black' \subseteq Jtis
    BY <1>0, <1>7, CarriedType DEF RotateRedis, Checks
  <2>3. StoresOK'
    BY <1>0, <1>7, <2>2, SameStores DEF RotateRedis
  <2>4. QED
    BY <1>7, <2>1, <2>3, SameKeys DEF RotateRedis
<1>8. ASSUME RotateDoc(r) PROVE TypeOK'
  <2>1. RequestsOK'
    BY <1>8, DoneType, AnswerType DEF RotateDoc
  <2>2. req[r].on \in Clients /\ req[r].jti \in Jtis
    BY <1>8, CarriedType DEF RotateDoc, Carries, Makers, Checks
  <2>3. black' \subseteq Jtis
    BY <1>0, <1>8, <2>2 DEF RotateDoc
  <2>4. StoresOK'
    BY <1>0, <1>8, <2>3, SameStores DEF RotateDoc
  <2>5. KeysOK'
    <3> DEFINE c == req[r].on
               k == Spend(keys[c], req[r].jti)
    <3>1. k \in Key /\ k.made
      BY <2>2, KeyTypes DEF KeysOK
    <3>2. keys' = [keys EXCEPT ![c] = k] \/ UNCHANGED keys
      BY <1>8, <2>2 DEF RotateDoc, KeysOK
    <3> HIDE DEF k
    <3>3. QED
      BY <2>2, <3>1, <3>2, OneKey, SameKeys
  <2>6. QED
    BY <2>1, <2>4, <2>5
<1>9. ASSUME OutRedis(r) PROVE TypeOK'
  <2>1. RequestsOK'
    BY <1>9, GoType DEF OutRedis, Places
  <2>2. black' \subseteq Jtis
    BY <1>0, <1>9, CarriedType DEF OutRedis, Outs
  <2>3. StoresOK'
    BY <1>0, <1>9, <2>2, SameStores DEF OutRedis
  <2>4. QED
    BY <1>9, <2>1, <2>3, SameKeys DEF OutRedis
<1>10. ASSUME OutDoc(r) PROVE TypeOK'
  <2>1. RequestsOK'
    BY <1>10, GoType, AnswerType DEF OutDoc, Places
  <2>2. req[r].jti \in Issued /\ req[r].jti \in Jtis
    BY <1>10, CarriedType DEF OutDoc, Carries, Outs
  <2>3. ended' \subseteq Issued
    BY <1>0, <1>10, <2>2 DEF OutDoc
  <2>4. StoresOK'
    BY <1>0, <1>10, <2>3, SameStores DEF OutDoc, redis
  <2>5. KeysOK'
    <3>1. CASE UNCHANGED keys
      BY <3>1, SameKeys
    <3>2. ASSUME NEW c \in Clients, keys[c].made,
                 keys' = [keys EXCEPT ![c].jit = @ \union {req[r].jti}]
          PROVE KeysOK'
      <4> DEFINE k == [keys[c] EXCEPT !.jit = @ \union {req[r].jti}]
      <4>1. k \in Key /\ k.made
        BY <2>2, <3>2, KeyTypes DEF KeysOK, Key
      <4>2. keys' = [keys EXCEPT ![c] = k]
        BY <3>2 DEF KeysOK
      <4> HIDE DEF k
      <4>3. QED
        BY <4>1, <4>2, OneKey
    <3>3. QED
      BY <1>10, <3>1, <3>2 DEF OutDoc
  <2>6. QED
    BY <2>1, <2>4, <2>5
<1>11. ASSUME OutPush(r) PROVE TypeOK'
  <2>1. RequestsOK'
    BY <1>11, GoType DEF OutPush, Places
  <2>2. StoresOK'
    BY <1>0, <1>11, SameStores DEF OutPush
  <2>3. QED
    BY <1>11, <2>1, <2>2, SameKeys DEF OutPush
<1>12. ASSUME OutEnd(r) PROVE TypeOK'
  <2>1. RequestsOK'
    BY <1>12, AnswerType DEF OutEnd
  <2>2. ended' \subseteq Issued
    BY <1>0, <1>12 DEF OutEnd, Carries, Outs
  <2>3. StoresOK'
    BY <1>0, <1>12, <2>2, SameStores DEF OutEnd, redis
  <2>4. KeysOK'
    <3> DEFINE S == {c \in Clients : c = req[r].on /\ keys[c].made}
    <3>1. \/ UNCHANGED keys
          \/ keys' = [c \in Clients |-> IF c \in S THEN Revoked(keys[c]) ELSE keys[c]]
      BY <1>12 DEF OutEnd
    <3>2. S \in SUBSET {c \in Clients : keys[c].made}
      OBVIOUS
    <3> HIDE DEF S
    <3>3. QED
      BY <3>1, <3>2, SomeEnded
  <2>5. QED
    BY <2>1, <2>3, <2>4
<1>13. ASSUME EndRedis(r) PROVE TypeOK'
  <2>1. RequestsOK'
    BY <1>13, GoType DEF EndRedis, Places
  <2>2. black' \subseteq Jtis
    BY <1>0, <1>13, CarriedType DEF EndRedis
  <2>3. StoresOK'
    BY <1>0, <1>13, <2>2, SameStores DEF EndRedis
  <2>4. QED
    BY <1>13, <2>1, <2>3, SameKeys DEF EndRedis
<1>14. ASSUME DevPush(r) PROVE TypeOK'
  <2>1. RequestsOK'
    BY <1>14, GoType DEF DevPush, Places
  <2>2. StoresOK'
    BY <1>0, <1>14, SameStores DEF DevPush
  <2>3. QED
    BY <1>14, <2>1, <2>2, SameKeys DEF DevPush
<1>15. ASSUME DevEnd(r) PROVE TypeOK'
  <2>1. RequestsOK'
    BY <1>15, AnswerType DEF DevEnd
  <2>2. StoresOK'
    BY <1>0, <1>15, SameStores DEF DevEnd, redis
  <2>3. KeysOK'
    <3> DEFINE c == req[r].on
               k == Revoked(keys[c])
    <3>1. c \in Clients /\ keys[c].made
      BY <1>15 DEF DevEnd, Carries
    <3>2. k \in Key /\ k.made
      BY <3>1, RevokedType DEF KeysOK
    <3>3. keys' = [keys EXCEPT ![c] = k] \/ UNCHANGED keys
      BY <1>15, <3>1 DEF DevEnd, KeysOK
    <3> HIDE DEF k, c
    <3>4. QED
      BY <3>1, <3>2, <3>3, OneKey, SameKeys
  <2>4. QED
    BY <2>1, <2>2, <2>3
<1>16. ASSUME AllEnd(r) PROVE TypeOK'
  <2>1. RequestsOK'
    BY <1>16, GoType, AnswerType DEF AllEnd, Places
  <2>2. StoresOK'
    BY <1>0, <1>16, SameStores DEF AllEnd, redis
  <2>3. KeysOK'
    <3> DEFINE S == {c \in Clients : Live(c)}
    <3>1. \/ UNCHANGED keys
          \/ keys' = [c \in Clients |-> IF c \in S THEN Revoked(keys[c]) ELSE keys[c]]
      BY <1>16 DEF AllEnd
    <3>2. S \in SUBSET {c \in Clients : keys[c].made}
      BY DEF Live
    <3> HIDE DEF S
    <3>3. QED
      BY <3>1, <3>2, SomeEnded
  <2>4. QED
    BY <2>1, <2>2, <2>3
<1>17. ASSUME AllPush(r) PROVE TypeOK'
  <2>1. RequestsOK'
    BY <1>17, AnswerType DEF AllPush
  <2>2. StoresOK'
    BY <1>0, <1>17, SameStores DEF AllPush
  <2>3. QED
    BY <1>17, <2>1, <2>2, SameKeys DEF AllPush
<1>18. ASSUME SyncOne(r) PROVE TypeOK'
  <2>1. RequestsOK'
    BY <1>18, AddedType, AnswerType DEF SyncOne
  <2>2. push' \subseteq Devices
    BY <1>0, <1>18, CarriedType DEF SyncOne
  <2>3. StoresOK'
    BY <1>0, <1>18, <2>2, SameStores DEF SyncOne
  <2>4. QED
    BY <1>18, <2>1, <2>3, SameKeys DEF SyncOne
<1>19. ASSUME Abort(r) PROVE TypeOK'
  <2>1. RequestsOK'
    BY <1>19, AnswerType DEF Abort
  <2>2. StoresOK'
    BY <1>0, <1>19, SameStores DEF Abort, redis
  <2>3. QED
    BY <1>19, <2>1, <2>2, SameKeys DEF Abort
<1>20. QED
  BY <1>1, <1>2, <1>3, <1>4, <1>5, <1>6, <1>7, <1>8, <1>9, <1>10, <1>11, <1>12, <1>13,
     <1>14, <1>15, <1>16, <1>17, <1>18, <1>19 DEF Continue

LEMMA FlushType == ASSUME TypeOK, Flush PROVE TypeOK'
<1>1. StoresOK'
  BY ConstantsAssumption DEF TypeOK, StoresOK, Flush, Issued
<1>2. QED
  BY <1>1, SameKeys DEF TypeOK, RequestsOK, Flush

-------------------------------------------------------------------------------
(* What no step takes back *)

\* Documents stay; those of the pairs only gain, and none comes into being.
KeysGrow ==
  /\ \A c \in Clients : keys[c].made => keys'[c].made
  /\ \A j \in Issued : ~Legacy(j) =>
       /\ keys'[pairs[j]].made => keys[pairs[j]].made
       /\ keys[pairs[j]].revoked => keys'[pairs[j]].revoked
       /\ keys[pairs[j]].jit \subseteq keys'[pairs[j]].jit

Stable ==
  /\ \A j \in Issued : j \in Issued' /\ pairs'[j] = pairs[j]
  /\ shaky \subseteq shaky'
  /\ \A j \in Issued : Dead(j) => Dead(j)' \/ j \in shaky'
  /\ \A c \in Clients : keys[c].made => keys'[c].made

LEMMA StableIf ==
  ASSUME TypeOK, KeysGrow, shaky \subseteq shaky',
         \A j \in Issued : j \in Issued' /\ pairs'[j] = pairs[j],
         black \subseteq black' \/ \A j \in Issued : Legacy(j) => j \in shaky'
  PROVE  Stable
<1>1. ASSUME NEW j \in Issued, Dead(j), Legacy(j) PROVE Dead(j)' \/ j \in shaky'
  <2>1. j \in black /\ Legacy(j)'
    BY <1>1 DEF Dead, Legacy
  <2>2. QED
    BY <1>1, <2>1 DEF Dead
<1>2. ASSUME NEW j \in Issued, Dead(j), ~Legacy(j) PROVE Dead(j)'
  <2> DEFINE c == pairs[j]
  <2>1. c \in Clients
    BY <1>2 DEF TypeOK, StoresOK, Issued, Legacy
  <2>2. ~Legacy(j)' /\ pairs'[j] = c
    BY <1>2 DEF Legacy
  <2>3. ~keys[c].made \/ keys[c].revoked \/ j \in keys[c].jit
    BY <1>2 DEF Dead, SessionServes, Live
  <2>4. ~keys'[c].made \/ keys'[c].revoked \/ j \in keys'[c].jit
    BY <1>2, <2>3 DEF KeysGrow
  <2>5. QED
    BY <2>2, <2>4 DEF Dead, SessionServes, Live
<1>3. QED
  BY <1>1, <1>2 DEF Stable, KeysGrow

\* The usual step: pairs stay, the blacklist grows.
LEMMA StableUsual ==
  ASSUME TypeOK, NEW r \in Requests, Fault(r) \/ Well, KeysGrow,
         pairs' = pairs, black \subseteq black'
  PROVE  Stable
  BY StableIf, FaultType DEF Issued

LEMMA PairType ==
  ASSUME TypeOK, NEW j \in Issued
  PROVE  j \in Jtis /\ (~Legacy(j) => pairs[j] \in Clients)
  BY DEF TypeOK, StoresOK, Issued, Legacy, Jtis

LEMMA SameKeysGrow == ASSUME UNCHANGED keys PROVE KeysGrow
  BY DEF KeysGrow

\* Whichever documents that are there are ended.
LEMMA RevokedGrow ==
  ASSUME TypeOK,
         \/ keys' = keys
         \/ \E S \in SUBSET Clients :
              keys' = [c \in Clients |-> IF c \in S THEN Revoked(keys[c]) ELSE keys[c]]
  PROVE  KeysGrow
<1>1. CASE keys' = keys
  BY <1>1, SameKeysGrow
<1>2. ASSUME NEW S \in SUBSET Clients,
             keys' = [c \in Clients |-> IF c \in S THEN Revoked(keys[c]) ELSE keys[c]]
      PROVE  KeysGrow
  <2>1. ASSUME NEW c \in Clients
        PROVE  /\ keys'[c].made = keys[c].made /\ keys'[c].jit = keys[c].jit
               /\ keys[c].revoked => keys'[c].revoked
    <3>1. keys[c] \in Key /\ keys'[c] = IF c \in S THEN Revoked(keys[c]) ELSE keys[c]
      BY <1>2 DEF TypeOK, KeysOK
    <3>2. QED
      BY <3>1 DEF Revoked, Key
  <2>2. \A j \in Issued : ~Legacy(j) => pairs[j] \in Clients
    BY PairType
  <2>3. QED
    BY <2>1, <2>2 DEF KeysGrow
<1>3. QED
  BY <1>1, <1>2

LEMMA LegacyKept == ASSUME Stable PROVE \A j \in Issued : (Legacy(j)' <=> Legacy(j))
  BY DEF Stable, Legacy

LEMMA GoneKept == ASSUME Stable PROVE \A j \in Issued : Gone(j) => Gone(j)'
  BY DEF Stable, Gone

\* A request that does not move stays as good as it was.
LEMMA GoodKept ==
  ASSUME TypeOK, Stable, NEW s \in Requests, Good(s), req'[s] = req[s]
  PROVE  Good(s)'
<1> DEFINE q == req[s]
<1>1. q.pc \in Checks \union Outs => q.jti \in Issued /\ (Legacy(q.jti)' <=> Legacy(q.jti))
  BY LegacyKept DEF Good, Carries
<1>2. Carries(s)'
  BY <1>1 DEF Good, Carries, Stable, Checks, Outs
<1>3. Passed(s)'
  <2>1. q.pc \in Checks /\ ~Legacy(q.jti) => q.on \in Clients
    <3>1. ASSUME q.pc \in Checks, ~Legacy(q.jti) PROVE q.jti \in Issued /\ q.on = pairs[q.jti]
      BY <3>1 DEF Good, Carries, Checks
    <3>2. QED
      BY <3>1 DEF TypeOK, StoresOK, Issued, Legacy
  <2>2. QED
    BY <1>1, <2>1 DEF Good, Passed, Stable
<1>4. Records(s)'
  <2>1. Recorded(q) => q.pc \in Checks \union Outs
    BY DEF Recorded, Checks, Outs
  <2>2. Recorded(q)' <=> Recorded(q)
    BY <1>1 DEF Recorded, Checks, Outs
  <2>3. QED
    BY <1>1, <2>1, <2>2, GoneKept DEF Good, Records
<1>5. Late(s)'
  BY <1>1 DEF Good, Late, Carries, Checks, Stable
<1>6. QED
  BY <1>2, <1>3, <1>4, <1>5 DEF Good

LEMMA IdleGood == ASSUME NEW r \in Requests, req'[r] = Idle PROVE Good(r)'
  BY IdleType DEF Good, Carries, Passed, Records, Recorded, Late, Checks, Outs, Makers

\* No new clientId: nobody issues one more, nobody becomes the owner of one.
LEMMA NewIdKept ==
  ASSUME NewIdInv, pairs' = pairs,
         \A s \in Requests :
           /\ req'[s].pc \in Makers => req[s].pc \in Makers /\ req'[s].on = req[s].on
           /\ Owner(req[s])' => Owner(req[s])
  PROVE  NewIdInv'
<1>1. ASSUME NEW s \in Requests, Owner(req[s])'
      PROVE  Owner(req[s]) /\ req'[s].on = req[s].on
  BY <1>1 DEF Owner, Makers
<1>2. QED
  BY <1>1 DEF NewIdInv, Issued

LEMMA EndedKept ==
  ASSUME TypeOK, EndedInv, Stable, \A j \in ended' : j \in ended \/ Gone(j)'
  PROVE  EndedInv'
  BY GoneKept DEF EndedInv, TypeOK, StoresOK

-------------------------------------------------------------------------------
(* One step at a time *)

Rest == EndedInv /\ NewIdInv /\ \A r \in Requests : Good(r)

Others(r) == \A s \in Requests : s # r => req'[s] = req[s]

LEMMA Assemble ==
  ASSUME IInv, NEW r \in Requests, Stable, Others(r), Good(r)', NewIdInv',
         \A j \in ended' : j \in ended \/ Gone(j)'
  PROVE  Rest'
  BY GoodKept, EndedKept DEF Rest, IInv, Others

LEMMA NewIdQuiet ==
  ASSUME NewIdInv, pairs' = pairs, NEW r \in Requests, Others(r),
         req'[r].pc \in Makers => req[r].pc \in Makers /\ req'[r].on = req[r].on,
         req'[r].pc # "create",
         req'[r].pc = "rotate" => req[r].pc = "rotate" /\ req'[r].jti = req[r].jti
  PROVE  NewIdInv'
<1>1. \A s \in Requests : Owner(req[s])' => Owner(req[s])
  BY DEF Owner, Others, Legacy
<1>2. QED
  BY <1>1, NewIdKept DEF Others

LEMMA AnswerQuiet ==
  ASSUME IInv, NEW r \in Requests, Answer(r), pairs' = pairs
  PROVE  Others(r) /\ Good(r)' /\ NewIdInv'
<1>1. Others(r) /\ req'[r] = Idle
  BY AnswerType DEF IInv, TypeOK, Others
<1>2. req'[r].pc = "idle"
  BY <1>1, IdleType
<1>3. QED
  BY <1>1, <1>2, IdleGood, NewIdQuiet DEF IInv, Makers

\* A request goes on to a place where it neither checks nor is recorded.
LEMMA GoQuiet ==
  ASSUME IInv, Stable, NEW r \in Requests, pairs' = pairs,
         NEW pc \in {"mirror", "issue", "devPush", "devEnd", "allEnd", "allPush"},
         Go(r, pc),
         pc \in {"mirror", "issue"} => req[r].pc \in {"create", "mirror"},
         pc = "mirror" => req[r].dev # None,
         pc \in {"devPush", "devEnd"} => req[r].pc \in {"devRedis", "devPush"},
         req[r].pc \notin Checks
  PROVE  Others(r) /\ Good(r)' /\ NewIdInv'
<1>0. pc \in Places
  BY DEF Places
<1>1. Others(r) /\ req'[r] = [req[r] EXCEPT !.pc = pc]
  BY <1>0, GoType DEF IInv, TypeOK, Others
<1>2. /\ req'[r].pc = pc /\ req'[r].on = req[r].on /\ req'[r].jti = req[r].jti
      /\ req'[r].dev = req[r].dev /\ req'[r].late = req[r].late
  BY <1>1 DEF IInv, TypeOK, RequestsOK, Request
<1>3. ~req[r].late
  BY DEF IInv, Good, Carries
<1>4. Carries(r)'
  BY <1>2, <1>3 DEF IInv, Good, Carries, Checks, Outs, Makers, Stable
<1>5. Passed(r)' /\ Records(r)' /\ Late(r)'
  BY <1>2, <1>3 DEF Passed, Records, Recorded, Late, Checks
<1>6. NewIdInv'
  BY <1>1, <1>2, NewIdQuiet DEF IInv, Makers
<1>7. QED
  BY <1>1, <1>4, <1>5, <1>6 DEF Good

\* A logout goes on, its pair recorded as far as it has come.
LEMMA OutQuiet ==
  ASSUME IInv, Stable, NEW r \in Requests, pairs' = pairs,
         NEW pc \in {"outDoc", "outPush", "outEnd"}, Go(r, pc), req[r].pc \in Outs,
         \A j \in Issued : j = req[r].jti /\ (pc # "outDoc" \/ Legacy(j)) => Gone(j)'
  PROVE  Others(r) /\ Good(r)' /\ NewIdInv'
<1>0. pc \in Places
  BY DEF Places
<1>1. Others(r) /\ req'[r] = [req[r] EXCEPT !.pc = pc]
  BY <1>0, GoType DEF IInv, TypeOK, Others
<1>2. /\ req'[r].pc = pc /\ req'[r].on = req[r].on /\ req'[r].jti = req[r].jti
      /\ req'[r].dev = req[r].dev /\ req'[r].late = req[r].late
  BY <1>1 DEF IInv, TypeOK, RequestsOK, Request
<1>3. ~req[r].late
  BY DEF IInv, Good, Carries, Checks, Outs
<1>4. req[r].jti \in Issued /\ (Legacy(req[r].jti)' <=> Legacy(req[r].jti))
  BY <1>2, LegacyKept DEF IInv, Good, Carries
<1>5. Carries(r)'
  BY <1>2, <1>3, <1>4 DEF IInv, Good, Carries, Checks, Outs, Makers, Stable
<1>6. Passed(r)' /\ Records(r)' /\ Late(r)'
  BY <1>2, <1>3, <1>4 DEF Passed, Records, Recorded, Late, Checks, Gone
<1>7. NewIdInv'
  BY <1>1, <1>2, NewIdQuiet DEF IInv, Makers
<1>8. QED
  BY <1>1, <1>5, <1>6, <1>7 DEF Good

\* One of two reads or writes is through, with what its success stands for.
LEMMA DoneQuiet ==
  ASSUME IInv, Stable, NEW r \in Requests, NEW what \in {"redis", "doc"}, pairs' = pairs,
         req[r].pc \in Checks, Done(r, what),
         \A j \in Issued :
           /\ j = req[r].jti /\ req[r].pc = "rotate" /\ (what = "redis" <=> Legacy(j))
           => Gone(j)',
         /\ req[r].pc = "check" /\ what = "doc" /\ ~Legacy(req[r].jti)
         => keys[req[r].on].made /\ SessionServes(req[r].on, req[r].jti)
  PROVE  Others(r) /\ Good(r)' /\ NewIdInv'
<1>1. Others(r) /\ req'[r] = [req[r] EXCEPT !.todo = @ \ {what}]
  BY DoneType DEF IInv, TypeOK, Others
<1>2. /\ req'[r].pc = req[r].pc /\ req'[r].on = req[r].on /\ req'[r].jti = req[r].jti
      /\ req'[r].dev = req[r].dev /\ req'[r].late = req[r].late
      /\ req'[r].todo = req[r].todo \ {what}
  BY <1>1 DEF IInv, TypeOK, RequestsOK, Request
<1>3. req[r].jti \in Issued /\ (Legacy(req[r].jti)' <=> Legacy(req[r].jti))
  BY <1>2, LegacyKept DEF IInv, Good, Carries
<1>4. Carries(r)'
  BY <1>2, <1>3 DEF IInv, Good, Carries, Checks, Outs, Makers, Stable
<1>5. Passed(r)'
  <2>1. ~Legacy(req[r].jti) => req[r].on \in Clients
    BY <1>3 DEF IInv, Good, Carries, Checks, TypeOK, StoresOK, Issued, Legacy
  <2>2. QED
    BY <1>2, <1>3, <2>1 DEF IInv, Good, Passed, Stable
<1>6. Records(r)'
  BY <1>2, <1>3, GoneKept DEF IInv, Good, Records, Recorded, Checks
<1>7. Late(r)'
  <2>1. /\ req[r].pc = "check" /\ what = "doc" /\ ~Legacy(req[r].jti)
        => ~Dead(req[r].jti)
    BY DEF IInv, Good, Carries, Dead
  <2>2. QED
    BY <1>2, <1>3, <2>1 DEF IInv, Good, Late, Stable
<1>8. NewIdInv'
  BY <1>1, <1>2, NewIdQuiet DEF IInv, Makers, Checks
<1>9. QED
  BY <1>1, <1>4, <1>5, <1>6, <1>7, <1>8 DEF Good

\* A request that fails keeps its pair from counting as refused.
LEMMA FaultGone ==
  ASSUME TypeOK, NEW r \in Requests, NEW j \in Issued, j = req[r].jti, Fault(r)
  PROVE  Gone(j)'
  BY DEF Fault, Gone

LEMMA LoginSteps ==
  ASSUME IInv, NEW r \in Requests, CreateKey(r) \/ Mirror(r) \/ Issue(r)
  PROVE  Rest'
<1>0. TypeOK /\ NewIdInv /\ EndedInv /\ Good(r) /\ Carries(r)
  BY DEF IInv, Good
<1>1. CASE CreateKey(r)
  <2>1. req[r].pc = "create" /\ req[r].on \in Clients
    BY <1>0, <1>1 DEF CreateKey, Carries, Makers
  <2>2. KeysGrow
    <3> DEFINE c == req[r].on
               k == [NoKey EXCEPT !.made = TRUE, !.fcm = req[r].dev]
    <3>1. CASE UNCHANGED keys
      BY <3>1, SameKeysGrow
    <3>2. CASE keys' = [keys EXCEPT ![c] = k]
      <4>1. \A j \in Issued : pairs[j] # c /\ (~Legacy(j) => pairs[j] \in Clients)
        BY <1>0, <2>1, PairType DEF NewIdInv, Owner
      <4>2. \A b \in Clients : b # c => keys'[b] = keys[b]
        BY <1>0, <3>2 DEF TypeOK, KeysOK
      <4>3. k.made /\ keys'[c] = k
        BY <1>0, <2>1, <3>2 DEF NoKey, TypeOK, KeysOK
      <4> HIDE DEF k, c
      <4>4. QED
        BY <4>1, <4>2, <4>3 DEF KeysGrow
    <3>3. QED
      BY <1>1, <3>1, <3>2 DEF CreateKey
  <2>3. Stable /\ pairs' = pairs /\ ended' = ended
    BY <1>0, <1>1, <2>2, StableUsual DEF CreateKey, redis
  <2>4. Others(r) /\ Good(r)' /\ NewIdInv'
    <3>1. CASE Answer(r)
      BY <2>3, <3>1, AnswerQuiet
    <3>2. CASE Go(r, Mirrored(r))
      BY <2>1, <2>3, <3>2, GoQuiet DEF Mirrored, Checks
    <3>3. QED
      BY <1>1, <3>1, <3>2 DEF CreateKey
  <2>5. QED
    BY <2>3, <2>4, Assemble
<1>2. CASE Mirror(r)
  <2>1. KeysGrow
    BY <1>2, SameKeysGrow DEF Mirror
  <2>2. Stable /\ pairs' = pairs /\ ended' = ended
    BY <1>0, <1>2, <2>1, StableUsual DEF Mirror
  <2>3. Others(r) /\ Good(r)' /\ NewIdInv'
    BY <1>2, <2>2, GoQuiet DEF Mirror, Checks
  <2>4. QED
    BY <2>2, <2>3, Assemble
<1>3. CASE Issue(r)
  <2>1. /\ Len(pairs) \in Nat /\ pairs \in Seq(Clients \union {None})
        /\ Issued = 1..Len(pairs)
        /\ pairs' = Append(pairs, req[r].on)
        /\ req[r].on \in Clients
    BY <1>0, <1>3 DEF Issue, TypeOK, StoresOK, Issued, Carries, Makers
  <2>2. /\ \A j \in Issued : j \in Issued' /\ pairs'[j] = pairs[j]
        /\ \A j \in Issued' : j \in Issued \/ pairs'[j] = req[r].on
    BY <2>1 DEF Issued
  <2>3. Stable
    BY <1>0, <1>3, <2>2, StableIf, SameKeysGrow DEF Issue, redis
  <2>4. Others(r) /\ req'[r] = Idle
    BY <1>0, <1>3, AnswerType DEF TypeOK, Issue, Others
  <2>5. NewIdInv'
    <3>1. ASSUME NEW s \in Requests, Owner(req[s])'
          PROVE  Owner(req[s]) /\ s # r /\ req'[s] = req[s]
      <4>1. s # r
        BY <2>4, <3>1, IdleType DEF Owner
      <4>2. req'[s] = req[s]
        BY <2>4, <4>1 DEF Others
      <4>3. req[s].pc = "rotate" => req[s].jti \in Issued
        BY DEF IInv, Good, Carries, Checks
      <4>4. QED
        BY <2>2, <3>1, <4>1, <4>2, <4>3 DEF Owner, Legacy
    <3>2. ASSUME NEW s \in Requests, Owner(req[s])'
          PROVE  \A j \in Issued' : pairs'[j] # req'[s].on
      <4>1. req[r].pc \in Makers
        BY <1>3 DEF Issue, Makers
      <4>2. req[r].on # req[s].on
        BY <1>0, <3>1, <3>2, <4>1 DEF NewIdInv
      <4>3. QED
        BY <1>0, <2>2, <3>1, <3>2, <4>2 DEF NewIdInv
    <3>3. ASSUME NEW s \in Requests, Owner(req[s])', NEW t \in Requests, t # s,
                 req'[t].pc \in Makers
          PROVE  req'[t].on # req'[s].on
      <4>1. t # r
        BY <2>4, <3>3, IdleType DEF Makers
      <4>2. req'[t] = req[t]
        BY <2>4, <4>1 DEF Others
      <4>3. QED
        BY <1>0, <3>1, <3>3, <4>2 DEF NewIdInv
    <3>4. QED
      BY <3>2, <3>3 DEF NewIdInv
  <2>6. \A j \in ended' : j \in ended \/ Gone(j)'
    <3>1. ASSUME req[r].jti \in Issued, req[r].pc = "rotate", req[r].todo = {}
          PROVE  Gone(req[r].jti)
      BY <1>0, <3>1 DEF Good, Records, Recorded
    <3>2. req[r].pc = "issue" => req[r].jti \notin Issued
      BY <1>0 DEF Carries, TypeOK, StoresOK, Issued
    <3>3. QED
      BY <1>3, <3>1, <3>2, <2>3, GoneKept DEF Issue
  <2>7. QED
    BY <2>3, <2>4, <2>5, <2>6, IdleGood, Assemble
<1>4. QED
  BY <1>1, <1>2, <1>3

LEMMA RefreshSteps ==
  ASSUME IInv, NEW r \in Requests,
         CheckRedis(r) \/ CheckDoc(r) \/ Rotate(r) \/ RotateRedis(r) \/ RotateDoc(r)
  PROVE  Rest'
<1>0. /\ TypeOK /\ NewIdInv /\ EndedInv /\ Good(r) /\ Carries(r)
      /\ req[r].pc \in Checks /\ req[r].jti \in Issued
  BY DEF IInv, Good, Carries, Checks, CheckRedis, CheckDoc, Rotate, RotateRedis, RotateDoc
<1>1. CASE CheckRedis(r)
  <2>1. Stable /\ pairs' = pairs /\ ended' = ended
    BY <1>0, <1>1, SameKeysGrow, StableUsual DEF CheckRedis, redis
  <2>2. Others(r) /\ Good(r)' /\ NewIdInv'
    <3>1. CASE Answer(r)
      BY <2>1, <3>1, AnswerQuiet
    <3>2. CASE Done(r, "redis")
      BY <1>0, <1>1, <2>1, <3>2, DoneQuiet DEF CheckRedis
    <3>3. QED
      BY <1>1, <3>1, <3>2 DEF CheckRedis
  <2>3. QED
    BY <2>1, <2>2, Assemble
<1>2. CASE CheckDoc(r)
  <2>1. Stable /\ pairs' = pairs /\ ended' = ended
    BY <1>0, <1>2, SameKeysGrow, StableUsual DEF CheckDoc, redis, history, Well
  <2>2. Others(r) /\ Good(r)' /\ NewIdInv'
    <3>1. CASE Answer(r)
      BY <2>1, <3>1, AnswerQuiet
    <3>2. CASE SessionServes(req[r].on, req[r].jti) /\ Done(r, "doc")
      BY <1>0, <1>2, <2>1, <3>2, DoneQuiet DEF CheckDoc, SessionServes, Live
    <3>3. QED
      BY <1>2, <3>1, <3>2 DEF CheckDoc
  <2>3. QED
    BY <2>1, <2>2, Assemble
<1>3. CASE Rotate(r)
  <2>1. Stable /\ pairs' = pairs /\ ended' = ended
    BY <1>0, <1>3, SameKeysGrow, StableUsual DEF Rotate, redis, history, Well
  <2>2. PICK c \in Clients :
          /\ IF Legacy(req[r].jti) THEN Fresh(c) ELSE c = req[r].on
          /\ req' = [req EXCEPT ![r].pc = "rotate", ![r].on = c, ![r].todo = {"redis", "doc"}]
    BY <1>3 DEF Rotate
  <2>3. /\ Others(r)
        /\ req'[r] = [req[r] EXCEPT !.pc = "rotate", !.on = c, !.todo = {"redis", "doc"}]
    BY <1>0, <2>2 DEF TypeOK, RequestsOK, Others
  <2>4. /\ req'[r].pc = "rotate" /\ req'[r].on = c /\ req'[r].todo = {"redis", "doc"}
        /\ req'[r].jti = req[r].jti /\ req'[r].late = req[r].late
    BY <1>0, <2>3 DEF TypeOK, RequestsOK, Request
  <2>5. req[r].pc = "check" /\ req[r].todo = {} /\ req[r].on = pairs[req[r].jti]
    BY <1>0, <1>3 DEF Rotate, Carries
  <2>6. Legacy(req[r].jti)' <=> Legacy(req[r].jti)
    BY <1>0, <2>1, <2>4, LegacyKept
  <2>7. Carries(r)'
    BY <1>0, <2>1, <2>2, <2>4, <2>5, <2>6 DEF Carries, Checks, Outs, Makers, Stable
  <2>8. Passed(r)'
    BY <1>0, <2>1, <2>2, <2>4, <2>5, <2>6 DEF Good, Passed, Stable
  <2>9. Records(r)' /\ Late(r)'
    BY <1>0, <2>1, <2>4, <2>5 DEF Good, Records, Recorded, Late, Stable
  <2>10. NewIdInv'
    <3>1. \A j \in Issued : Legacy(req[r].jti) => pairs[j] # c
      BY <2>2 DEF Fresh
    <3>2. ASSUME NEW s \in Requests, s # r, Legacy(req[r].jti) PROVE req'[s].on # c
      BY <2>2, <2>3, <3>2 DEF Fresh, Others
    <3>3. ASSUME NEW s \in Requests, s # r, Owner(req[s])', req'[r].pc \in Makers
          PROVE  Owner(req[s]) /\ req'[s] = req[s] /\ req'[s].on # c
      <4>1. Owner(req[s]) /\ req'[s] = req[s]
        BY <2>1, <2>3, <3>3 DEF Others, Owner, Legacy
      <4>2. ~Legacy(req[r].jti) => req[s].on # c
        BY <1>0, <2>2, <2>5, <4>1 DEF NewIdInv
      <4>3. QED
        BY <3>2, <3>3, <4>1, <4>2
    <3>4. ASSUME NEW s \in Requests, Owner(req[s])'
          PROVE  \A j \in Issued' : pairs'[j] # req'[s].on
      <4>1. CASE s = r
        BY <2>1, <2>4, <2>6, <3>1, <3>4, <4>1 DEF Owner, Issued
      <4>2. CASE s # r
        BY <1>0, <2>1, <2>4, <3>3, <3>4, <4>2 DEF NewIdInv, Makers, Issued
      <4>3. QED
        BY <4>1, <4>2
    <3>5. ASSUME NEW s \in Requests, Owner(req[s])', NEW t \in Requests, t # s,
                 req'[t].pc \in Makers
          PROVE  req'[t].on # req'[s].on
      <4>1. CASE s = r
        BY <2>4, <2>6, <3>2, <3>5, <4>1 DEF Owner
      <4>2. CASE t = r
        BY <2>4, <3>3, <3>5, <4>2
      <4>3. CASE s # r /\ t # r
        <5>1. Owner(req[s]) /\ req'[s] = req[s] /\ req'[t] = req[t]
          BY <2>1, <2>3, <3>5, <4>3 DEF Others, Owner, Legacy
        <5>2. QED
          BY <1>0, <3>5, <5>1 DEF NewIdInv
      <4>4. QED
        BY <4>1, <4>2, <4>3
    <3>6. QED
      BY <3>4, <3>5 DEF NewIdInv
  <2>11. QED
    BY <2>1, <2>3, <2>7, <2>8, <2>9, <2>10, Assemble DEF Good
<1>4. CASE RotateRedis(r)
  <2>1. Stable /\ pairs' = pairs /\ ended' = ended
    BY <1>0, <1>4, SameKeysGrow, StableUsual DEF RotateRedis
  <2>2. ASSUME NEW j \in Issued, j = req[r].jti, Legacy(j) PROVE Gone(j)'
    <3>1. CASE Fault(r)
      BY <1>0, <2>2, <3>1, FaultGone
    <3>2. CASE black' = black \union {req[r].jti}
      BY <2>1, <2>2, <3>2, LegacyKept DEF Gone, Dead
    <3>3. QED
      BY <1>4, <3>1, <3>2 DEF RotateRedis
  <2>3. Others(r) /\ Good(r)' /\ NewIdInv'
    BY <1>0, <1>4, <2>1, <2>2, DoneQuiet DEF RotateRedis
  <2>4. QED
    BY <2>1, <2>3, Assemble
<1>5. CASE RotateDoc(r)
  <2>1. req[r].pc = "rotate" /\ req[r].on \in Clients /\ req[r].jti \in Jtis
    BY <1>0, <1>5, PairType DEF RotateDoc, Carries, Makers
  <2>2. KeysGrow
    <3> DEFINE c == req[r].on
    <3>1. CASE UNCHANGED keys
      BY <3>1, SameKeysGrow
    <3>2. CASE keys' = [keys EXCEPT ![c] = Spend(@, req[r].jti)]
      <4>1. \A b \in Clients : b # c => keys'[b] = keys[b]
        BY <1>0, <3>2 DEF TypeOK, KeysOK
      <4>2. /\ keys'[c].made /\ keys'[c].revoked = keys[c].revoked
            /\ keys'[c].jit = keys[c].jit \union {req[r].jti}
        BY <1>0, <2>1, <3>2 DEF TypeOK, KeysOK, Key, Spend
      <4>3. \A j \in Issued : pairs[j] = c => keys[c].made
        <5>1. Legacy(req[r].jti) => \A j \in Issued : pairs[j] # c
          BY <1>0, <2>1 DEF NewIdInv, Owner
        <5>2. ~Legacy(req[r].jti) => keys[c].made
          BY <1>0, <2>1 DEF Good, Passed
        <5>3. QED
          BY <5>1, <5>2
      <4>4. \A j \in Issued : ~Legacy(j) => pairs[j] \in Clients
        BY <1>0, PairType
      <4> HIDE DEF c
      <4>5. QED
        BY <4>1, <4>2, <4>3, <4>4 DEF KeysGrow
    <3>3. QED
      BY <1>5, <3>1, <3>2 DEF RotateDoc
  <2>3. Stable /\ pairs' = pairs /\ ended' = ended
    BY <1>0, <1>5, <2>2, StableUsual DEF RotateDoc
  <2>4. Others(r) /\ Good(r)' /\ NewIdInv'
    <3>1. CASE Answer(r)
      BY <2>3, <3>1, AnswerQuiet
    <3>2. CASE /\ keys' = [keys EXCEPT ![req[r].on] = Spend(@, req[r].jti)]
               /\ Done(r, "doc")
      <4>1. ASSUME NEW j \in Issued, j = req[r].jti, ~Legacy(j) PROVE Gone(j)'
        <5>1. pairs'[j] = req[r].on
          BY <1>0, <2>1, <2>3, <4>1 DEF Carries
        <5>2. j \in keys'[req[r].on].jit
          BY <1>0, <2>1, <3>2, <4>1 DEF TypeOK, KeysOK, Key, Spend
        <5>3. ~Legacy(j)'
          BY <2>3, <4>1 DEF Legacy
        <5>4. QED
          BY <5>1, <5>2, <5>3 DEF Gone, Dead, SessionServes
      <4>2. QED
        BY <1>0, <2>1, <2>3, <3>2, <4>1, DoneQuiet
    <3>3. QED
      BY <1>5, <3>1, <3>2 DEF RotateDoc
  <2>5. QED
    BY <2>3, <2>4, Assemble
<1>6. QED
  BY <1>1, <1>2, <1>3, <1>4, <1>5

LEMMA LogoutSteps ==
  ASSUME IInv, NEW r \in Requests, OutRedis(r) \/ OutDoc(r) \/ OutPush(r) \/ OutEnd(r)
  PROVE  Rest'
<1>0. /\ TypeOK /\ NewIdInv /\ EndedInv /\ Good(r) /\ Carries(r)
      /\ req[r].pc \in Outs /\ req[r].jti \in Issued /\ req[r].on = pairs[req[r].jti]
  BY DEF IInv, Good, Carries, Outs, OutRedis, OutDoc, OutPush, OutEnd
<1>1. CASE OutRedis(r)
  <2>1. Stable /\ pairs' = pairs /\ ended' = ended
    BY <1>0, <1>1, SameKeysGrow, StableUsual DEF OutRedis
  <2>2. ASSUME NEW j \in Issued, j = req[r].jti, Legacy(j) PROVE Gone(j)'
    <3>1. CASE Fault(r)
      BY <1>0, <2>2, <3>1, FaultGone
    <3>2. CASE black' = black \union {req[r].jti}
      BY <2>1, <2>2, <3>2, LegacyKept DEF Gone, Dead
    <3>3. QED
      BY <1>1, <3>1, <3>2 DEF OutRedis
  <2>3. Others(r) /\ Good(r)' /\ NewIdInv'
    BY <1>0, <1>1, <2>1, <2>2, OutQuiet DEF OutRedis
  <2>4. QED
    BY <2>1, <2>3, Assemble
<1>2. CASE OutDoc(r)
  <2>1. KeysGrow
    <3>1. CASE UNCHANGED keys
      BY <3>1, SameKeysGrow
    <3>2. ASSUME NEW c \in Clients, keys[c].made,
                 keys' = [keys EXCEPT ![c].jit = @ \union {req[r].jti}]
          PROVE  KeysGrow
      <4>1. \A b \in Clients : b # c => keys'[b] = keys[b]
        BY <1>0, <3>2 DEF TypeOK, KeysOK
      <4>2. /\ keys'[c].made = keys[c].made /\ keys'[c].revoked = keys[c].revoked
            /\ keys'[c].jit = keys[c].jit \union {req[r].jti}
        BY <1>0, <3>2 DEF TypeOK, KeysOK, Key
      <4>3. \A j \in Issued : ~Legacy(j) => pairs[j] \in Clients
        BY <1>0, PairType
      <4>4. QED
        BY <4>1, <4>2, <4>3 DEF KeysGrow
    <3>3. QED
      BY <1>2, <3>1, <3>2 DEF OutDoc
  <2>2. Stable /\ pairs' = pairs
    BY <1>0, <1>2, <2>1, StableUsual DEF OutDoc, redis
  <2>3. CASE Fault(r) /\ Answer(r) /\ ended' = ended \union {req[r].jti}
    <3>1. Gone(req[r].jti) \/ \A j \in Issued : j = req[r].jti => Gone(j)'
      BY <1>0, <2>3, FaultGone
    <3>2. \A j \in ended' : j \in ended \/ Gone(j)'
      BY <1>0, <2>2, <2>3, <3>1, GoneKept
    <3>3. QED
      BY <2>2, <2>3, <3>2, AnswerQuiet, Assemble
  <2>4. CASE Go(r, "outPush") /\ ended' = ended
    <3>1. ASSUME NEW j \in Issued, j = req[r].jti PROVE Gone(j)'
      <4>1. CASE Legacy(j)
        BY <1>0, <1>2, <2>2, <3>1, <4>1, GoneKept DEF Good, Records, Recorded, OutDoc
      <4>2. CASE ~Legacy(j)
        <5> DEFINE c == pairs[j]
        <5>1. c \in Clients /\ req[r].on = c
          BY <1>0, <3>1, <4>2, PairType
        <5>2. CASE keys[c].made
          <6>1. keys' = [keys EXCEPT ![c].jit = @ \union {j}] \/ Fault(r)
            BY <1>2, <3>1, <5>1, <5>2, ConstantsAssumption DEF OutDoc
          <6>2. CASE keys' = [keys EXCEPT ![c].jit = @ \union {j}]
            <7>1. j \in keys'[c].jit
              BY <1>0, <5>1, <6>2 DEF TypeOK, KeysOK, Key
            <7>2. ~Legacy(j)' /\ pairs'[j] = c
              BY <2>2, <4>2 DEF Legacy
            <7>3. QED
              BY <7>1, <7>2 DEF Gone, Dead, SessionServes
          <6>3. CASE Fault(r)
            BY <1>0, <3>1, <6>3, FaultGone
          <6>4. QED
            BY <6>1, <6>2, <6>3
        <5>3. CASE ~keys[c].made
          BY <2>2, <4>2, <5>3, GoneKept DEF Gone, Dead, SessionServes, Live
        <5>4. QED
          BY <5>2, <5>3
      <4>3. QED
        BY <4>1, <4>2
    <3>2. QED
      BY <1>0, <2>2, <2>4, <3>1, OutQuiet, Assemble
  <2>5. QED
    BY <1>2, <2>3, <2>4 DEF OutDoc, Well
<1>3. CASE OutPush(r)
  <2>1. Stable /\ pairs' = pairs /\ ended' = ended
    BY <1>0, <1>3, SameKeysGrow, StableUsual DEF OutPush
  <2>2. \A j \in Issued : j = req[r].jti => Gone(j)'
    BY <1>0, <1>3, <2>1, GoneKept DEF OutPush, Good, Records, Recorded
  <2>3. Others(r) /\ Good(r)' /\ NewIdInv'
    BY <1>0, <1>3, <2>1, <2>2, OutQuiet DEF OutPush
  <2>4. QED
    BY <2>1, <2>3, Assemble
<1>4. CASE OutEnd(r)
  <2>1. KeysGrow
    <3> DEFINE S == {c \in Clients : c = req[r].on /\ keys[c].made}
    <3>1. \/ keys' = keys
          \/ keys' = [c \in Clients |-> IF c \in S THEN Revoked(keys[c]) ELSE keys[c]]
      BY <1>4 DEF OutEnd
    <3>2. S \in SUBSET Clients
      OBVIOUS
    <3> HIDE DEF S
    <3>3. QED
      BY <1>0, <3>1, <3>2, RevokedGrow
  <2>2. Stable /\ pairs' = pairs
    BY <1>0, <1>4, <2>1, StableUsual DEF OutEnd, redis
  <2>3. Gone(req[r].jti)
    BY <1>0, <1>4 DEF OutEnd, Good, Records, Recorded
  <2>4. \A j \in ended' : j \in ended \/ Gone(j)'
    BY <1>0, <1>4, <2>2, <2>3, GoneKept DEF OutEnd
  <2>5. QED
    BY <1>4, <2>2, <2>4, AnswerQuiet, Assemble DEF OutEnd
<1>5. QED
  BY <1>1, <1>2, <1>3, <1>4

LEMMA EndSteps ==
  ASSUME IInv, NEW r \in Requests,
         \/ EndRedis(r) \/ DevPush(r) \/ DevEnd(r) \/ AllEnd(r) \/ AllPush(r)
         \/ SyncOne(r) \/ Abort(r)
  PROVE  Rest'
<1>0. TypeOK /\ NewIdInv /\ EndedInv /\ Good(r) /\ Carries(r)
  BY DEF IInv, Good
<1>1. CASE EndRedis(r)
  <2>1. Stable /\ pairs' = pairs /\ ended' = ended
    BY <1>0, <1>1, SameKeysGrow, StableUsual DEF EndRedis
  <2>2. Others(r) /\ Good(r)' /\ NewIdInv'
    BY <1>1, <2>1, GoQuiet DEF EndRedis, Checks
  <2>3. QED
    BY <2>1, <2>2, Assemble
<1>2. CASE DevPush(r)
  <2>1. Stable /\ pairs' = pairs /\ ended' = ended
    BY <1>0, <1>2, SameKeysGrow, StableUsual DEF DevPush
  <2>2. Others(r) /\ Good(r)' /\ NewIdInv'
    BY <1>2, <2>1, GoQuiet DEF DevPush, Checks
  <2>3. QED
    BY <2>1, <2>2, Assemble
<1>3. CASE DevEnd(r)
  <2>1. \/ keys' = keys
        \/ keys' = [c \in Clients |-> IF c \in {req[r].on} THEN Revoked(keys[c]) ELSE keys[c]]
    BY <1>0, <1>3 DEF DevEnd, TypeOK, KeysOK
  <2>2. KeysGrow
    <3>1. {req[r].on} \in SUBSET Clients
      BY <1>0, <1>3 DEF DevEnd, Carries
    <3>2. QED
      BY <1>0, <2>1, <3>1, RevokedGrow
  <2>3. Stable /\ pairs' = pairs /\ ended' = ended
    BY <1>0, <1>3, <2>2, StableUsual DEF DevEnd, redis
  <2>4. QED
    BY <1>3, <2>3, AnswerQuiet, Assemble DEF DevEnd
<1>4. CASE AllEnd(r)
  <2>1. KeysGrow
    <3> DEFINE S == {c \in Clients : Live(c)}
    <3>1. \/ keys' = keys
          \/ keys' = [c \in Clients |-> IF c \in S THEN Revoked(keys[c]) ELSE keys[c]]
      BY <1>4 DEF AllEnd
    <3>2. S \in SUBSET Clients
      OBVIOUS
    <3> HIDE DEF S
    <3>3. QED
      BY <1>0, <3>1, <3>2, RevokedGrow
  <2>2. Stable /\ pairs' = pairs /\ ended' = ended
    BY <1>0, <1>4, <2>1, StableUsual DEF AllEnd, redis
  <2>3. CASE Answer(r)
    BY <2>2, <2>3, AnswerQuiet, Assemble
  <2>4. CASE Go(r, "allPush")
    <3>1. Others(r) /\ Good(r)' /\ NewIdInv'
      BY <1>4, <2>2, <2>4, GoQuiet DEF AllEnd, Checks
    <3>2. QED
      BY <2>2, <3>1, Assemble
  <2>5. QED
    BY <1>4, <2>3, <2>4 DEF AllEnd
<1>5. CASE AllPush(r)
  <2>1. Stable /\ pairs' = pairs /\ ended' = ended
    BY <1>0, <1>5, SameKeysGrow, StableUsual DEF AllPush
  <2>2. QED
    BY <1>5, <2>1, AnswerQuiet, Assemble DEF AllPush
<1>6. CASE SyncOne(r)
  <2>1. Stable /\ pairs' = pairs /\ ended' = ended
    BY <1>0, <1>6, SameKeysGrow, StableUsual DEF SyncOne
  <2>2. CASE Answer(r)
    BY <2>1, <2>2, AnswerQuiet, Assemble
  <2>3. ASSUME NEW d, req' = [req EXCEPT ![r].adds = @ \ {d}] PROVE Rest'
    <3>1. Others(r) /\ req'[r] = [req[r] EXCEPT !.adds = @ \ {d}]
      BY <1>0, <2>3, AddedType DEF TypeOK, Others
    <3>2. req'[r].pc = "sync" /\ req'[r].late = req[r].late
      BY <1>0, <1>6, <3>1 DEF SyncOne, TypeOK, RequestsOK, Request
    <3>3. ~req'[r].late
      BY <1>0, <1>6, <3>2 DEF SyncOne, Carries, Checks
    <3>4. Good(r)'
      BY <3>2, <3>3 DEF Good, Carries, Passed, Records, Recorded, Late, Checks, Outs, Makers
    <3>5. NewIdInv'
      BY <1>0, <2>1, <3>1, <3>2, NewIdQuiet DEF Makers
    <3>6. QED
      BY <2>1, <3>1, <3>4, <3>5, Assemble
  <2>4. QED
    BY <1>6, <2>2, <2>3 DEF SyncOne
<1>7. CASE Abort(r)
  <2>1. Stable /\ pairs' = pairs /\ ended' = ended
    BY <1>0, <1>7, SameKeysGrow, StableUsual DEF Abort, redis
  <2>2. QED
    BY <1>7, <2>1, AnswerQuiet, Assemble DEF Abort
<1>8. QED
  BY <1>1, <1>2, <1>3, <1>4, <1>5, <1>6, <1>7

\* A request begins: nothing else moves.
LEMMA BeginQuiet ==
  ASSUME IInv, NEW r \in Requests, NEW q \in Request, NEW extra \in SUBSET Devices,
         Begin(r, q, extra)
  PROVE  Stable /\ Others(r) /\ req'[r] = q /\ pairs' = pairs /\ ended' = ended
<1>1. Others(r) /\ req'[r] = q
  BY BeginType DEF IInv, Others
<1>2. Stable
  BY SameKeysGrow, StableIf DEF IInv, Begin, redis, Issued
<1>3. QED
  BY <1>1, <1>2 DEF Begin

\* One that carries no pair and makes none is good.
LEMMA PlainBegin ==
  ASSUME IInv, NEW r \in Requests, NEW q \in Request, NEW extra \in SUBSET Devices,
         Begin(r, q, extra), ~q.late, q.pc \in {"devRedis", "allRedis", "sync"},
         q.pc = "devRedis" => q.on \in Clients /\ keys[q.on].made
  PROVE  Rest'
<1>1. Stable /\ Others(r) /\ req'[r] = q /\ pairs' = pairs /\ ended' = ended
  BY BeginQuiet
<1>2. Good(r)'
  BY <1>1 DEF Good, Carries, Passed, Records, Recorded, Late, Checks, Outs, Makers, Stable
<1>3. NewIdInv'
  BY <1>1, NewIdQuiet DEF IInv, Makers
<1>4. QED
  BY <1>1, <1>2, <1>3, Assemble

LEMMA ReceiveSteps ==
  ASSUME IInv, NEW r \in Requests, Receive(r)
  PROVE  Rest'
<1>0. TypeOK /\ NewIdInv /\ EndedInv
  BY DEF IInv
<1>1. ASSUME NEW c \in Clients, NEW d \in Devices \union {None}, Login(r, c, d)
      PROVE  Rest'
  <2> DEFINE q == [Idle EXCEPT !.pc = "create", !.on = c, !.dev = d, !.about = {d} \ {None}]
             x == {e \in {d} : \E b \in Clients : keys[b].fcm = e /\ e # None}
  <2>1. q \in Request
    BY IdleType DEF Idle, Request, Places
  <2>2. x \in SUBSET Devices
    OBVIOUS
  <2>3. Begin(r, q, x) /\ Fresh(c)
    BY <1>1 DEF Login
  <2>4. q.pc = "create" /\ q.on = c /\ q.jti = 0 /\ ~q.late
    BY DEF Idle
  <2> HIDE DEF q, x
  <2>5. Stable /\ Others(r) /\ req'[r] = q /\ pairs' = pairs /\ ended' = ended
    BY <2>1, <2>2, <2>3, BeginQuiet
  <2>6. Good(r)'
    BY <2>4, <2>5 DEF Good, Carries, Passed, Records, Recorded, Late, Checks, Outs, Makers
  <2>7. NewIdInv'
    <3>1. /\ \A j \in Issued : pairs[j] # c
          /\ \A s \in Requests : s # r => req'[s] = req[s] /\ req[s].on # c
      BY <2>3, <2>5 DEF Fresh, Others
    <3>2. ASSUME NEW s \in Requests, s # r, Owner(req[s])'
          PROVE  Owner(req[s]) /\ req'[s] = req[s]
      BY <2>5, <3>1, <3>2 DEF Owner, Legacy
    <3>3. \A s \in Requests : Owner(req[s])' => \A j \in Issued' : pairs'[j] # req'[s].on
      BY <1>0, <2>4, <2>5, <3>1, <3>2 DEF NewIdInv, Issued
    <3>4. ASSUME NEW s \in Requests, Owner(req[s])', NEW t \in Requests, t # s,
                 req'[t].pc \in Makers
          PROVE  req'[t].on # req'[s].on
      <4>1. CASE s = r \/ t = r
        BY <2>4, <2>5, <3>1, <3>4, <4>1
      <4>2. CASE s # r /\ t # r
        BY <1>0, <3>1, <3>2, <3>4, <4>2 DEF NewIdInv
      <4>3. QED
        BY <4>1, <4>2
    <3>5. QED
      BY <3>3, <3>4 DEF NewIdInv
  <2>8. QED
    BY <2>5, <2>6, <2>7, Assemble
<1>2. ASSUME NEW j \in Issued, Refresh(r, j) PROVE Rest'
  <2> DEFINE todo == IF Legacy(j) THEN {"redis"} ELSE {"redis", "doc"}
             q == [Idle EXCEPT !.pc = "check", !.on = pairs[j], !.jti = j,
                               !.todo = todo, !.late = Ended(j)]
  <2>1. /\ j \in Nat /\ pairs[j] \in Clients \union {None}
        /\ ~Legacy(j) => pairs[j] \in Clients
    BY <1>0 DEF TypeOK, StoresOK, Issued, Legacy
  <2>2. Ended(j) \in BOOLEAN
    <3>1. ~Legacy(j) => keys[pairs[j]].revoked \in BOOLEAN
      BY <1>0, <2>1 DEF TypeOK, KeysOK, Key
    <3>2. QED
      BY <3>1 DEF Ended
  <2>3. todo \in SUBSET {"redis", "doc"} /\ (~Legacy(j) => "doc" \in todo)
    OBVIOUS
  <2>4. Begin(r, q, {}) /\ j \notin black
    BY <1>2 DEF Refresh, Passes
  <2>5. q.pc = "check" /\ q.on = pairs[j] /\ q.jti = j /\ q.todo = todo /\ q.late = Ended(j)
    BY DEF Idle
  <2> HIDE DEF todo
  <2>6. q \in Request
    BY <2>1, <2>2, <2>3, RefreshType
  <2> HIDE DEF q
  <2>7. Stable /\ Others(r) /\ req'[r] = q /\ pairs' = pairs /\ ended' = ended
    BY <2>4, <2>6, BeginQuiet
  <2>8. j \in Issued' /\ (Legacy(j)' <=> Legacy(j)) /\ pairs'[j] = pairs[j]
    BY <2>7, LegacyKept DEF Stable
  <2>9. Carries(r)' /\ Records(r)'
    BY <2>5, <2>7, <2>8 DEF Carries, Records, Recorded, Checks, Outs, Makers
  <2>10. Passed(r)'
    BY <2>3, <2>5, <2>7, <2>8 DEF Passed
  <2>11. ASSUME Ended(j) PROVE j \in shaky \/ (~Legacy(j) /\ Dead(j))
    <3>1. CASE j \in ended
      BY <1>0, <2>4, <3>1 DEF EndedInv, Gone, Dead
    <3>2. CASE ~Legacy(j) /\ keys[pairs[j]].revoked
      BY <3>2 DEF Dead, SessionServes, Live
    <3>3. QED
      BY <2>11, <3>1, <3>2 DEF Ended
  <2>12. Late(r)'
    <3>1. ASSUME Ended(j) PROVE j \in shaky' \/ (~Legacy(j)' /\ Dead(j)')
      BY <2>7, <2>8, <2>11, <3>1 DEF Stable
    <3>2. QED
      BY <2>3, <2>5, <2>7, <2>8, <3>1 DEF Late
  <2>13. NewIdInv'
    BY <1>0, <2>5, <2>7, NewIdQuiet DEF Makers
  <2>14. QED
    BY <2>7, <2>9, <2>10, <2>12, <2>13, Assemble DEF Good
<1>3. ASSUME NEW j \in Issued, NEW d \in Devices \union {None}, Logout(r, j, d) PROVE Rest'
  <2> DEFINE c == pairs[j]
             has == IF c = None THEN None ELSE keys[c].fcm
             q == [Idle EXCEPT !.pc = "outRedis", !.on = c, !.jti = j, !.dev = d,
                               !.about = {d, has} \ {None}]
             x == IF d = has THEN {} ELSE {d, has} \ {None}
  <2>1. j \in Nat /\ c \in Clients \union {None}
    BY <1>0 DEF TypeOK, StoresOK, Issued
  <2>2. has \in Devices \union {None}
    BY <1>0, <2>1 DEF TypeOK, KeysOK, Key
  <2>3. x \in SUBSET Devices /\ {d, has} \ {None} \in SUBSET Devices
    BY <2>2
  <2>4. Begin(r, q, x)
    BY <1>3 DEF Logout
  <2>5. q.pc = "outRedis" /\ q.on = pairs[j] /\ q.jti = j /\ ~q.late
    BY DEF Idle
  <2> HIDE DEF has, c
  <2>6. q \in Request
    BY <2>1, <2>3, IdleType DEF Idle, Request, Places
  <2> HIDE DEF q, x
  <2>7. Stable /\ Others(r) /\ req'[r] = q /\ pairs' = pairs /\ ended' = ended
    BY <2>3, <2>4, <2>6, BeginQuiet
  <2>8. Good(r)'
    BY <2>5, <2>7
    DEF Good, Carries, Passed, Records, Recorded, Late, Checks, Outs, Makers, Stable
  <2>9. NewIdInv'
    BY <1>0, <2>5, <2>7, NewIdQuiet DEF Makers
  <2>10. QED
    BY <2>7, <2>8, <2>9, Assemble
<1>4. ASSUME NEW c \in Clients, LogoutDevice(r, c) PROVE Rest'
  <2> DEFINE q == [Idle EXCEPT !.pc = "devRedis", !.on = c, !.dev = keys[c].fcm,
                               !.jtis = keys[c].jit, !.about = {keys[c].fcm} \ {None}]
  <2>1. keys[c].fcm \in Devices \union {None} /\ keys[c].jit \in SUBSET Jtis
    BY <1>0 DEF TypeOK, KeysOK, Key
  <2>2. q \in Request
    BY <2>1, IdleType DEF Idle, Request, Places
  <2>3. Begin(r, q, {}) /\ keys[c].made
    BY <1>4 DEF LogoutDevice, SessionFound, Live
  <2>4. q.pc = "devRedis" /\ q.on = c /\ ~q.late
    BY DEF Idle
  <2> HIDE DEF q
  <2>5. QED
    BY <2>2, <2>3, <2>4, PlainBegin
<1>5. CASE LogoutAll(r)
  <2> DEFINE js == UNION {keys[c].jit : c \in {b \in Clients : Live(b)}}
             q == [Idle EXCEPT !.pc = "allRedis", !.jtis = js, !.about = Devices]
  <2>1. js \in SUBSET Jtis
    BY <1>0 DEF TypeOK, KeysOK, Key
  <2>2. Begin(r, q, {})
    BY <1>5 DEF LogoutAll
  <2>3. q.pc = "allRedis" /\ ~q.late
    BY DEF Idle
  <2> HIDE DEF js
  <2>4. q \in Request
    BY <2>1, IdleType DEF Idle, Request, Places
  <2> HIDE DEF q
  <2>5. QED
    BY <2>2, <2>3, <2>4, PlainBegin
<1>6. CASE Resync(r)
  <2> DEFINE ds == {keys[c].fcm : c \in Clients} \ {None}
             q == [Idle EXCEPT !.pc = "sync", !.about = Devices, !.adds = ds]
  <2>1. ds \in SUBSET Devices
    BY <1>0 DEF TypeOK, KeysOK, Key
  <2>2. Begin(r, q, {})
    BY <1>6 DEF Resync
  <2>3. q.pc = "sync" /\ ~q.late
    BY DEF Idle
  <2> HIDE DEF ds
  <2>4. q \in Request
    BY <2>1, IdleType DEF Idle, Request, Places
  <2> HIDE DEF q
  <2>5. QED
    BY <2>2, <2>3, <2>4, PlainBegin
<1>7. QED
  BY <1>1, <1>2, <1>3, <1>4, <1>5, <1>6 DEF Receive

\* Neither a flush nor a stutter moves a request.
LEMMA StillSteps ==
  ASSUME IInv, Flush \/ UNCHANGED vars
  PROVE  Rest'
<1>1. TypeOK /\ NewIdInv /\ EndedInv /\ pairs' = pairs /\ req' = req /\ ended' = ended
  BY DEF IInv, Flush, vars
<1>2. shaky \subseteq shaky' /\ (black' = black \/ \A j \in Issued : Legacy(j) => j \in shaky')
  BY DEF Flush, vars
<1>3. Stable
  BY <1>1, <1>2, SameKeysGrow, StableIf DEF Flush, vars, Issued
<1>4. \A s \in Requests : Good(s)'
  BY <1>1, <1>3, GoodKept DEF IInv
<1>5. NewIdInv'
  BY <1>1, NewIdKept DEF Owner, Legacy
<1>6. EndedInv'
  BY <1>1, <1>3, EndedKept
<1>7. QED
  BY <1>4, <1>5, <1>6 DEF Rest

-------------------------------------------------------------------------------
(* The invariant *)

LEMMA InitIInv == Init => IInv
<1> SUFFICES ASSUME Init PROVE IInv
  OBVIOUS
<1>1. /\ \A c \in Clients : NoKey \in Key
      /\ <<>> \in Seq(Clients \union {None}) /\ <<None>> \in Seq(Clients \union {None})
  BY DEF NoKey, Key
<1>2. \A r \in Requests : req[r] = Idle
  BY DEF Init
<1>3. TypeOK
  <2>1. KeysOK
    BY <1>1 DEF Init, KeysOK
  <2>2. RequestsOK
    BY IdleType DEF Init, RequestsOK
  <2>3. StoresOK
    <3>1. pairs \in Seq(Clients \union {None})
      BY <1>1 DEF Init
    <3>2. QED
      BY <3>1, ConstantsAssumption DEF Init, StoresOK
  <2>4. QED
    BY <2>1, <2>2, <2>3 DEF TypeOK
<1>4. \A r \in Requests : Good(r)
  BY <1>2, IdleType DEF Good, Carries, Passed, Records, Recorded, Late, Checks, Outs, Makers
<1>5. EndedInv /\ NewIdInv
  BY <1>2, IdleType DEF Init, EndedInv, NewIdInv, Owner
<1>6. QED
  BY <1>3, <1>4, <1>5 DEF IInv

LEMMA NextIInv == IInv /\ [Next]_vars => IInv'
<1> SUFFICES ASSUME IInv, [Next]_vars PROVE IInv'
  OBVIOUS
<1>1. ASSUME NEW r \in Requests, Continue(r) PROVE TypeOK' /\ Rest'
  <2>1. TypeOK'
    BY <1>1, ContinueType DEF IInv, Good
  <2>2. Rest'
    BY <1>1, LoginSteps, RefreshSteps, LogoutSteps, EndSteps DEF Continue
  <2>3. QED
    BY <2>1, <2>2
<1>2. ASSUME NEW r \in Requests, Receive(r) PROVE TypeOK' /\ Rest'
  BY <1>2, ReceiveType, ReceiveSteps DEF IInv
<1>3. ASSUME NEW r \in Requests, Abort(r) PROVE TypeOK' /\ Rest'
  <2>1. TypeOK'
    BY <1>3, ContinueType DEF IInv, Good
  <2>2. QED
    BY <1>3, <2>1, EndSteps
<1>4. CASE Flush
  BY <1>4, FlushType, StillSteps DEF IInv, Rest
<1>5. CASE UNCHANGED vars
  <2>1. TypeOK'
    BY <1>5 DEF IInv, TypeOK, KeysOK, RequestsOK, StoresOK, Issued, vars
  <2>2. QED
    BY <1>5, <2>1, StillSteps DEF IInv, Rest
<1>6. QED
  BY <1>1, <1>2, <1>3, <1>4, <1>5 DEF Next, IInv, Rest

LEMMA Invariance == Spec => []IInv
  BY InitIInv, NextIInv, PTL DEF Spec

\* Every reachable state of the sessions (login, refresh, the logouts and the resync of
\* auth.service.ts) is of the declared types: every jti that a history speaks of
\* was issued, and a document that was never made is empty.
THEOREM TypeCorrect == Spec => []TypeOK
<1>1. IInv => TypeOK
  BY DEF IInv
<1>2. QED
  BY <1>1, Invariance, PTL

\* A pair that was traded in or logged out, or whose session was ended, is never
\* answered with a new one (refreshToken, auth.service.ts:868-937), unless a failure
\* may have kept its end from being recorded.
THEOREM SpentPairsStayDead == Spec => NoSecondLife
<1> DEFINE A == \A r \in Requests : Issue(r) /\ req[r].late => req[r].jti \in shaky
<1>1. ASSUME IInv PROVE A
  <2> SUFFICES ASSUME NEW r \in Requests, Issue(r), req[r].late PROVE req[r].jti \in shaky
    OBVIOUS
  <2>1. req[r].pc # "check"
    BY DEF Issue
  <2>2. QED
    BY <1>1, <2>1 DEF IInv, Good, Late
<1>2. IInv => [A]_vars
  BY <1>1
<1>3. QED
  BY <1>2, Invariance, PTL DEF NoSecondLife

-------------------------------------------------------------------------------
(* The push tokens *)

Held(d) == \E c \in Clients : keys[c].fcm = d
Even(d) == d \in push <=> Held(d)

Devs == {"devRedis", "devPush", "devEnd"}
Alls == {"allRedis", "allEnd", "allPush", "sync"}

\* The push tokens a request deals with are its own, and its session's; a session that
\* is to be made is nobody else's.
Deals(r) ==
  LET q == req[r] IN
  /\ q.pc = "idle" => q.about = {}
  /\ q.pc \in {"create", "mirror"} \union Outs \union Devs => q.dev \in q.about \union {None}
  /\ q.pc \in Alls => q.about = Devices
  /\ q.pc \in Outs \union Devs /\ q.on \in Clients => keys[q.on].fcm \in q.about \union {None}
  /\ q.pc = "create" => ~keys[q.on].made /\ \A s \in Requests : s # r => req[s].on # q.on

\* How far request r has got with push token d.
Owned(r, d) ==
  LET q == req[r] IN
  /\ q.pc \in {"create", "mirror"} \union Outs \union Devs => q.dev = d
  /\ q.pc \in Outs \union Devs => q.on \in Clients /\ keys[q.on].fcm = d
  /\ q.pc = "create" => ~Held(d) /\ d \notin push
  /\ q.pc = "mirror" => Held(d) /\ d \notin push
  /\ q.pc \in {"outRedis", "outDoc", "outPush", "devRedis", "devPush"} => d \in push
  /\ q.pc \in {"outEnd", "devEnd"} => d \notin push
  /\ q.pc \in {"issue", "check", "rotate", "allRedis", "allEnd", "sync"} => Even(d)
  /\ q.pc = "allPush" => ~Held(d)
  /\ q.pc = "sync" /\ d \in q.adds => Held(d)

\* Unless it was put out of step, a push token is one session's, and one request at a
\* time deals with it; Redis has it as the sessions do when none does.
InStep(d) ==
  /\ \A b, c \in Clients : keys[b].fcm = d /\ keys[c].fcm = d => b = c
  /\ \A r, s \in Requests : d \in req[r].about /\ d \in req[s].about => r = s
  /\ \A r \in Requests : d \in req[r].about => Owned(r, d)
  /\ (\A r \in Requests : d \notin req[r].about) => Even(d)

MirrorInv ==
  /\ \A c \in Clients : keys[c].revoked => keys[c].fcm = None
  /\ \A r \in Requests : Deals(r)
  /\ \A d \in Devices \ unsure : InStep(d)

LEMMA KeyFacts ==
  ASSUME TypeOK, NEW c \in Clients
  PROVE  /\ keys[c] \in Key /\ keys[c].fcm \in Devices \union {None}
         /\ keys[c].fcm \in Devices => keys[c].made
         /\ None \notin Clients /\ None \notin Devices
  BY ConstantsAssumption DEF TypeOK, KeysOK, Key, NoKey

\* A step of request r, which deals with push tokens of its own: what it does to others'
\* is nothing.
Minds(r) ==
  /\ Others(r) /\ unsure \subseteq unsure'
  /\ \A d \in Devices \ req[r].about :
       /\ d \in push' <=> d \in push
       /\ \A c \in Clients : keys'[c].fcm = d <=> keys[c].fcm = d
  /\ \A c \in Clients :
       /\ keys'[c].fcm = keys[c].fcm \/ keys'[c].fcm = None
            \/ (req[r].pc = "create" /\ c = req[r].on)
       /\ keys'[c].made => keys[c].made \/ c = req[r].on
       /\ keys'[c].revoked => keys'[c].fcm = None
  /\ req'[r].about \subseteq req[r].about
  /\ \A s \in Requests : s # r /\ req[s].pc = "create" => req'[r].on # req[s].on

\* Who deals with a push token that is in step is alone, and its session is known.
LEMMA AloneWith ==
  ASSUME MirrorInv, NEW d \in Devices \ unsure, NEW r \in Requests, NEW s \in Requests,
         d \in req[r].about, d \in req[s].about
  PROVE  r = s
  BY DEF MirrorInv, InStep

LEMMA MindsOthers ==
  ASSUME IInv, MirrorInv, NEW r \in Requests, Minds(r)
  PROVE  /\ \A c \in Clients : keys'[c].revoked => keys'[c].fcm = None
         /\ \A s \in Requests \ {r} : Deals(s)'
         /\ \A d \in Devices \ unsure' :
              /\ \A b, c \in Clients : keys'[b].fcm = d /\ keys'[c].fcm = d => b = c
              /\ \A s, t \in Requests : d \in req'[s].about /\ d \in req'[t].about => s = t
              /\ \A s \in Requests \ {r} : d \in req'[s].about => Owned(s, d)'
              /\ d \notin req[r].about /\ (\A s \in Requests : d \notin req'[s].about) => Even(d)'
<1>0. TypeOK /\ \A s \in Requests : Deals(s) /\ Carries(s)
  BY DEF IInv, MirrorInv, Good
<1>1. \A c \in Clients : keys'[c].revoked => keys'[c].fcm = None
  BY DEF Minds
<1>2. ASSUME NEW s \in Requests \ {r} PROVE Deals(s)'
  <2>1. req'[s] = req[s]
    BY DEF Minds, Others
  <2>2. req[s].pc \in Outs \union Devs /\ req[s].on \in Clients =>
          keys'[req[s].on].fcm \in req[s].about \union {None}
    <3>1. req[r].pc = "create" => req[s].on # req[r].on
      BY <1>0 DEF Deals
    <3>2. QED
      BY <1>0, <3>1 DEF Deals, Minds
  <2>3. req[s].pc = "create" =>
          ~keys'[req[s].on].made /\ \A t \in Requests : t # s => req'[t].on # req[s].on
    <3> SUFFICES ASSUME req[s].pc = "create"
                 PROVE ~keys'[req[s].on].made /\ \A t \in Requests : t # s => req'[t].on # req[s].on
      OBVIOUS
    <3>1. req[s].on \in Clients /\ ~keys[req[s].on].made /\ req[s].on # req[r].on
      BY <1>0 DEF Deals, Carries, Makers
    <3>2. ~keys'[req[s].on].made
      BY <3>1 DEF Minds
    <3>3. ASSUME NEW t \in Requests, t # s PROVE req'[t].on # req[s].on
      <4>1. CASE t = r
        BY <4>1 DEF Minds
      <4>2. CASE t # r
        BY <1>0, <3>3, <4>2 DEF Deals, Minds, Others
      <4>3. QED
        BY <4>1, <4>2
    <3>4. QED
      BY <3>2, <3>3
  <2>4. QED
    BY <1>0, <2>1, <2>2, <2>3 DEF Deals, Outs, Devs, Alls
<1>3. ASSUME NEW d \in Devices \ unsure'
      PROVE  /\ \A b, c \in Clients : keys'[b].fcm = d /\ keys'[c].fcm = d => b = c
             /\ \A s, t \in Requests : d \in req'[s].about /\ d \in req'[t].about => s = t
             /\ \A s \in Requests \ {r} : d \in req'[s].about => Owned(s, d)'
             /\ d \notin req[r].about /\ (\A s \in Requests : d \notin req'[s].about) => Even(d)'
  <2>1. d \in Devices \ unsure /\ InStep(d) /\ d # None
    BY ConstantsAssumption DEF MirrorInv, Minds
  <2>2. ASSUME NEW b \in Clients, NEW c \in Clients, keys'[b].fcm = d, keys'[c].fcm = d
        PROVE  b = c
    <3>1. CASE d \in req[r].about /\ req[r].pc = "create"
      <4>1. ~Held(d)
        BY <2>1, <3>1 DEF InStep, Owned
      <4>2. QED
        BY <2>1, <2>2, <4>1 DEF Held, Minds
    <3>2. CASE ~(d \in req[r].about /\ req[r].pc = "create")
      <4>1. keys[b].fcm = d /\ keys[c].fcm = d
        BY <2>1, <2>2, <3>2 DEF Minds
      <4>2. QED
        BY <2>1, <4>1 DEF InStep
    <3>3. QED
      BY <3>1, <3>2
  <2>3. \A s \in Requests : d \in req'[s].about => d \in req[s].about
    BY DEF Minds, Others
  <2>4. ASSUME d \notin req[r].about PROVE Held(d)' = Held(d) /\ (d \in push' <=> d \in push)
    BY <2>1, <2>4 DEF Minds, Held
  <2>5. ASSUME NEW s \in Requests \ {r}, d \in req'[s].about PROVE Owned(s, d)'
    <3>1. Owned(s, d) /\ d \notin req[r].about /\ req'[s] = req[s]
      BY <2>1, <2>3, <2>5 DEF InStep, Minds, Others
    <3>2. /\ d \in push' <=> d \in push
          /\ Held(d)' <=> Held(d)
          /\ Even(d)' <=> Even(d)
          /\ \A c \in Clients : keys'[c].fcm = d <=> keys[c].fcm = d
      BY <2>1, <2>4, <3>1 DEF Minds, Even
    <3>3. QED
      BY <3>1, <3>2 DEF Owned, Outs, Devs
  <2>6. d \notin req[r].about /\ (\A s \in Requests : d \notin req'[s].about) => Even(d)'
    <3> SUFFICES ASSUME d \notin req[r].about, \A s \in Requests : d \notin req'[s].about
                 PROVE  Even(d)'
      OBVIOUS
    <3>1. \A s \in Requests : d \notin req[s].about
      BY DEF Minds, Others
    <3>2. Even(d)
      BY <2>1, <3>1 DEF InStep
    <3>3. QED
      BY <2>4, <3>2 DEF Even
  <2>7. QED
    BY <2>1, <2>2, <2>3, <2>5, <2>6 DEF InStep
<1>4. QED
  BY <1>1, <1>2, <1>3

\* What is left to show of the step: its own part.
LEMMA MirrorStep ==
  ASSUME IInv, MirrorInv, NEW r \in Requests, Minds(r), Deals(r)',
         \A d \in (Devices \cap req[r].about) \ unsure' :
           IF d \in req'[r].about THEN Owned(r, d)' ELSE Even(d)'
  PROVE  MirrorInv'
<1>1. ASSUME NEW d \in Devices \ unsure' PROVE InStep(d)'
  <2>1. d \in req'[r].about => Owned(r, d)'
    BY DEF Minds
  <2>2. (\A s \in Requests : d \notin req'[s].about) => Even(d)'
    BY <1>1, MindsOthers
  <2>3. /\ \A b, c \in Clients : keys'[b].fcm = d /\ keys'[c].fcm = d => b = c
        /\ \A s, t \in Requests : d \in req'[s].about /\ d \in req'[t].about => s = t
        /\ \A s \in Requests \ {r} : d \in req'[s].about => Owned(s, d)'
    BY <1>1, MindsOthers
  <2>4. QED
    BY <2>1, <2>2, <2>3 DEF InStep
<1>2. QED
  BY <1>1, MindsOthers DEF MirrorInv

\* The fields of a request that goes on, is through with a read or write, or answers.
LEMMA GoFields ==
  ASSUME TypeOK, NEW r \in Requests, NEW pc \in Places, Go(r, pc)
  PROVE  /\ Others(r) /\ req'[r].pc = pc /\ req'[r].on = req[r].on /\ req'[r].jti = req[r].jti
         /\ req'[r].dev = req[r].dev /\ req'[r].about = req[r].about
         /\ req'[r].adds = req[r].adds
<1>1. Others(r) /\ req'[r] = [req[r] EXCEPT !.pc = pc]
  BY GoType DEF TypeOK, Others
<1>2. QED
  BY <1>1 DEF TypeOK, RequestsOK, Request

LEMMA DoneFields ==
  ASSUME TypeOK, NEW r \in Requests, NEW what, Done(r, what)
  PROVE  /\ Others(r) /\ req'[r].pc = req[r].pc /\ req'[r].on = req[r].on
         /\ req'[r].dev = req[r].dev /\ req'[r].about = req[r].about
         /\ req'[r].adds = req[r].adds
<1>1. Others(r) /\ req'[r] = [req[r] EXCEPT !.todo = @ \ {what}]
  BY DoneType DEF TypeOK, Others
<1>2. QED
  BY <1>1 DEF TypeOK, RequestsOK, Request

LEMMA AnswerFields ==
  ASSUME TypeOK, NEW r \in Requests, Answer(r)
  PROVE  /\ Others(r) /\ req'[r].pc = "idle" /\ req'[r].on = None /\ req'[r].about = {}
         /\ Deals(r)'
<1>1. Others(r) /\ req'[r] = Idle
  BY AnswerType DEF TypeOK, Others
<1>2. req'[r].pc = "idle" /\ req'[r].on = None /\ req'[r].about = {}
  BY <1>1 DEF Idle
<1>3. QED
  BY <1>1, <1>2 DEF Deals, Outs, Devs, Alls

\* Whoever is about a push token that is in step owns it.
LEMMA OwnPart ==
  ASSUME MirrorInv, NEW r \in Requests, unsure \subseteq unsure',
         NEW d \in (Devices \cap req[r].about) \ unsure'
  PROVE  /\ Owned(r, d) /\ d # None
         /\ \A b, c \in Clients : keys[b].fcm = d /\ keys[c].fcm = d => b = c
  BY ConstantsAssumption DEF MirrorInv, InStep

\* The documents of the sessions keep their push tokens.
SameTokens(r) ==
  \A c \in Clients :
    /\ keys'[c].fcm = keys[c].fcm
    /\ keys'[c].made => keys[c].made \/ c = req[r].on
    /\ keys'[c].revoked => keys[c].revoked

\* A step that changes no session's push token, and no others in Redis than its own.
LEMMA MindsSame ==
  ASSUME IInv, MirrorInv, NEW r \in Requests, Others(r), unsure \subseteq unsure', SameTokens(r),
         \A d \in Devices \ req[r].about : d \in push' <=> d \in push,
         req'[r].about \subseteq req[r].about, req'[r].on \in {req[r].on, None}
  PROVE  Minds(r)
<1>1. ASSUME NEW s \in Requests, s # r, req[s].pc = "create" PROVE req'[r].on # req[s].on
  <2>1. req[s].on \in Clients /\ req[s].on # req[r].on
    BY <1>1 DEF IInv, Good, Carries, Makers, MirrorInv, Deals
  <2>2. QED
    BY <2>1, ConstantsAssumption
<1>2. \A c \in Clients : keys'[c].revoked => keys'[c].fcm = None
  BY DEF SameTokens, MirrorInv
<1>3. QED
  BY <1>1, <1>2 DEF Minds, SameTokens

\* What is in Redis and in the documents stays: so does what is even.
LEMMA EvenSame ==
  ASSUME NEW r \in Requests, SameTokens(r), push' = push, NEW d
  PROVE  /\ Held(d)' <=> Held(d)
         /\ Even(d)' <=> Even(d)
  BY DEF SameTokens, Held, Even

LEMMA FaultMarks ==
  ASSUME NEW r \in Requests, Fault(r)
  PROVE  /\ unsure \subseteq unsure'
         /\ (Devices \cap req[r].about) \ unsure' = {}
  BY DEF Fault

\* A step that changes neither: its request is answered, or goes on without change of
\* what it owns.
LEMMA MirrorAnswer ==
  ASSUME IInv, MirrorInv, NEW r \in Requests, Answer(r), SameTokens(r), push' = push,
         Fault(r) \/ (unsure' = unsure /\ req[r].pc \in {"issue", "check", "rotate", "sync"})
  PROVE  MirrorInv'
<1>1. TypeOK
  BY DEF IInv
<1>2. unsure \subseteq unsure'
  BY FaultMarks
<1>3. Minds(r) /\ Deals(r)'
  BY <1>1, <1>2, AnswerFields, MindsSame
<1>4. ASSUME NEW d \in (Devices \cap req[r].about) \ unsure' PROVE Even(d)'
  <2>1. req[r].pc \in {"issue", "check", "rotate", "sync"}
    BY <1>4, FaultMarks
  <2>2. Even(d)
    BY <1>2, <1>4, <2>1, OwnPart DEF Owned
  <2>3. QED
    BY <2>2, EvenSame
<1>5. req'[r].about = {}
  BY <1>1, AnswerFields
<1>6. QED
  BY <1>3, <1>4, <1>5, MirrorStep

\* One that goes on to a place where it owns the same, or failed.
LEMMA MirrorGo ==
  ASSUME IInv, MirrorInv, NEW r \in Requests, NEW pc \in Places, Go(r, pc),
         SameTokens(r), push' = push,
         Fault(r) \/ unsure' = unsure,
         \/ req[r].pc = "create" /\ pc \in {"mirror", "issue"} /\ Fault(r)
         \/ req[r].pc = "mirror" /\ pc = "issue" /\ Fault(r)
         \/ req[r].pc = "outRedis" /\ pc = "outDoc"
         \/ req[r].pc = "outDoc" /\ pc = "outPush"
         \/ req[r].pc = "outPush" /\ pc = "outEnd" /\ Fault(r)
         \/ req[r].pc = "devRedis" /\ pc = "devPush"
         \/ req[r].pc = "devPush" /\ pc = "devEnd" /\ Fault(r)
         \/ req[r].pc = "allRedis" /\ pc = "allEnd"
  PROVE  MirrorInv'
<1>1. TypeOK /\ Deals(r)
  BY DEF IInv, MirrorInv
<1>2. unsure \subseteq unsure'
  BY FaultMarks
<1>3. Minds(r)
  BY <1>1, <1>2, GoFields, MindsSame
<1>4. Deals(r)'
  <2>1. \A c \in Clients : keys'[c].fcm = keys[c].fcm
    BY DEF SameTokens
  <2>2. QED
    BY <1>1, <2>1, GoFields DEF Deals, Outs, Devs, Alls
<1>5. ASSUME NEW d \in (Devices \cap req[r].about) \ unsure' PROVE Owned(r, d)'
  <2>1. Owned(r, d) /\ ~Fault(r) /\ d # None
    BY <1>2, <1>5, OwnPart, FaultMarks
  <2>2. \A c \in Clients : keys'[c].fcm = keys[c].fcm
    BY DEF SameTokens
  <2>3. (Held(d)' <=> Held(d)) /\ (Even(d)' <=> Even(d))
    BY EvenSame
  <2>4. QED
    BY <1>1, <2>1, <2>2, <2>3, GoFields DEF Owned, Outs, Devs
<1>6. QED
  BY <1>1, <1>3, <1>4, <1>5, GoFields, MirrorStep

\* One that is through with one of two reads or writes.
LEMMA MirrorDone ==
  ASSUME IInv, MirrorInv, NEW r \in Requests, NEW what, Done(r, what),
         SameTokens(r), push' = push, unsure \subseteq unsure', req[r].pc \in Checks
  PROVE  MirrorInv'
<1>1. TypeOK /\ Deals(r)
  BY DEF IInv, MirrorInv
<1>2. Minds(r)
  BY <1>1, DoneFields, MindsSame
<1>3. Deals(r)'
  BY <1>1, DoneFields DEF Deals, Checks, Outs, Devs, Alls
<1>4. ASSUME NEW d \in (Devices \cap req[r].about) \ unsure' PROVE Owned(r, d)'
  <2>1. Even(d)
    BY <1>4, OwnPart DEF Owned, Checks
  <2>2. Even(d)'
    BY <2>1, EvenSame
  <2>3. QED
    BY <1>1, <2>2, DoneFields DEF Owned, Checks, Outs, Devs
<1>5. QED
  BY <1>1, <1>2, <1>3, <1>4, DoneFields, MirrorStep

LEMMA KeysSame == ASSUME MirrorInv, NEW r \in Requests, UNCHANGED keys PROVE SameTokens(r)
  BY DEF SameTokens

LEMMA MirrorRefresh ==
  ASSUME IInv, MirrorInv, NEW r \in Requests,
         Issue(r) \/ CheckRedis(r) \/ CheckDoc(r) \/ RotateRedis(r) \/ RotateDoc(r)
           \/ Abort(r)
  PROVE  MirrorInv'
<1>1. CASE Issue(r)
  BY <1>1, KeysSame, MirrorAnswer DEF Issue, redis
<1>2. CASE CheckRedis(r)
  <2>1. SameTokens(r) /\ push' = push /\ (unsure' = unsure \/ Fault(r))
    BY <1>2, KeysSame DEF CheckRedis, redis, Well
  <2>2. CASE Answer(r) /\ Well
    BY <1>2, <2>1, <2>2, MirrorAnswer DEF CheckRedis, Well
  <2>3. CASE Done(r, "redis")
    BY <1>2, <2>1, <2>3, FaultMarks, MirrorDone DEF CheckRedis, Checks
  <2>4. QED
    BY <1>2, <2>2, <2>3 DEF CheckRedis
<1>3. CASE CheckDoc(r)
  <2>1. SameTokens(r) /\ push' = push /\ unsure' = unsure /\ req[r].pc = "check"
    BY <1>3, KeysSame DEF CheckDoc, redis, history
  <2>2. CASE Answer(r)
    BY <2>1, <2>2, MirrorAnswer
  <2>3. CASE Done(r, "doc")
    BY <2>1, <2>3, MirrorDone DEF Checks
  <2>4. QED
    BY <1>3, <2>2, <2>3 DEF CheckDoc
<1>4. CASE RotateRedis(r)
  <2>1. SameTokens(r) /\ push' = push /\ unsure \subseteq unsure' /\ req[r].pc = "rotate"
    BY <1>4, KeysSame, FaultMarks DEF RotateRedis, Well
  <2>2. QED
    BY <1>4, <2>1, MirrorDone DEF RotateRedis, Checks
<1>5. CASE RotateDoc(r)
  <2>1. push' = push /\ req[r].pc = "rotate"
    BY <1>5 DEF RotateDoc
  <2>2. CASE UNCHANGED keys /\ Answer(r) /\ Fault(r)
    BY <2>1, <2>2, KeysSame, MirrorAnswer
  <2>3. CASE Well /\ Done(r, "doc") /\ keys' = [keys EXCEPT ![req[r].on] = Spend(@, req[r].jti)]
    <3> DEFINE c == req[r].on
               k == Spend(keys[c], req[r].jti)
    <3>1. TypeOK /\ c \in Clients /\ keys[c] \in Key
      BY <2>1 DEF IInv, Good, Carries, Makers, TypeOK, KeysOK
    <3>2. k.fcm = keys[c].fcm /\ k.revoked = keys[c].revoked
      BY <3>1 DEF Key, Spend
    <3>3. keys'[c] = k /\ \A b \in Clients : b # c => keys'[b] = keys[b]
      BY <2>3, <3>1 DEF TypeOK, KeysOK
    <3> HIDE DEF k
    <3>4. SameTokens(r)
      BY <3>2, <3>3 DEF SameTokens
    <3>5. QED
      BY <2>1, <2>3, <3>4, MirrorDone DEF Well, Checks
  <2>4. QED
    BY <1>5, <2>2, <2>3 DEF RotateDoc
<1>6. CASE Abort(r)
  BY <1>6, KeysSame, MirrorAnswer DEF Abort, redis
<1>7. QED
  BY <1>1, <1>2, <1>3, <1>4, <1>5, <1>6

LEMMA MirrorRotate == ASSUME IInv, MirrorInv, NEW r \in Requests, Rotate(r) PROVE MirrorInv'
<1>1. PICK c \in Clients :
        /\ IF Legacy(req[r].jti) THEN Fresh(c) ELSE c = req[r].on
        /\ req' = [req EXCEPT ![r].pc = "rotate", ![r].on = c, ![r].todo = {"redis", "doc"}]
  BY DEF Rotate
<1>2. TypeOK /\ Deals(r) /\ req[r].pc = "check" /\ UNCHANGED <<keys, push, unsure>>
  BY DEF IInv, MirrorInv, Rotate, redis, history
<1>3. Others(r) /\ req'[r].pc = "rotate" /\ req'[r].on = c /\ req'[r].about = req[r].about
  BY <1>1, <1>2 DEF TypeOK, RequestsOK, Request, Others
<1>4. \A s \in Requests : s # r /\ req[s].pc = "create" => c # req[s].on
  BY <1>1 DEF Fresh, MirrorInv, Deals
<1>5. Minds(r)
  BY <1>2, <1>3, <1>4 DEF Minds, MirrorInv
<1>6. Deals(r)'
  BY <1>2, <1>3 DEF Deals, Outs, Devs, Alls
<1>7. ASSUME NEW d \in (Devices \cap req[r].about) \ unsure' PROVE Owned(r, d)'
  <2>1. Even(d)
    BY <1>2, <1>7, OwnPart DEF Owned
  <2>2. QED
    BY <1>2, <1>3, <2>1 DEF Owned, Even, Held, Outs, Devs
<1>8. QED
  BY <1>3, <1>5, <1>6, <1>7, MirrorStep

\* One that changes Redis, at push tokens of its own.
LEMMA MindsPush ==
  ASSUME IInv, MirrorInv, NEW r \in Requests, Others(r), unsure \subseteq unsure', UNCHANGED keys,
         \A d \in Devices \ req[r].about : d \in push' <=> d \in push,
         req'[r].about \subseteq req[r].about, req'[r].on \in {req[r].on, None}
  PROVE  Minds(r) /\ \A d : Held(d)' <=> Held(d)
  BY KeysSame, MindsSame DEF Held

LEMMA MirrorLogin ==
  ASSUME IInv, MirrorInv, NEW r \in Requests, CreateKey(r) \/ Mirror(r)
  PROVE  MirrorInv'
<1>0. TypeOK /\ Deals(r) /\ Carries(r)
  BY DEF IInv, MirrorInv, Good
<1>1. CASE CreateKey(r)
  <2> DEFINE c == req[r].on
             k == [NoKey EXCEPT !.made = TRUE, !.fcm = req[r].dev]
  <2>1. /\ req[r].pc = "create" /\ c \in Clients /\ ~keys[c].made /\ push' = push
        /\ req[r].dev \in req[r].about \union {None} /\ keys[c].fcm = None
    BY <1>0, <1>1 DEF CreateKey, redis, Deals, Carries, Makers, TypeOK, KeysOK, NoKey
  <2>2. CASE UNCHANGED keys /\ Fault(r)
    <3>1. CASE Answer(r)
      BY <2>1, <2>2, <3>1, KeysSame, MirrorAnswer
    <3>2. CASE Go(r, Mirrored(r))
      <4>1. Mirrored(r) \in {"mirror", "issue"} \cap Places
        BY DEF Mirrored, Places
      <4>2. QED
        BY <2>1, <2>2, <3>2, <4>1, KeysSame, MirrorGo
    <3>3. QED
      BY <1>1, <2>2, <3>1, <3>2 DEF CreateKey
  <2>3. CASE keys' = [keys EXCEPT ![c] = k] /\ Go(r, Mirrored(r)) /\ Well
    <3>1. k.made /\ k.fcm = req[r].dev /\ k.revoked = FALSE
      BY DEF NoKey
    <3>2. keys'[c] = k /\ \A b \in Clients : b # c => keys'[b] = keys[b]
      BY <1>0, <2>1, <2>3 DEF TypeOK, KeysOK
    <3> HIDE DEF k
    <3>3. /\ Others(r) /\ req'[r].pc = Mirrored(r) /\ req'[r].on = c
          /\ req'[r].dev = req[r].dev /\ req'[r].about = req[r].about
      BY <1>0, <2>3, GoFields DEF Mirrored, Places
    <3>4. Minds(r)
      <4>1. \A d \in Devices \ req[r].about : d # None
        BY ConstantsAssumption
      <4>2. ASSUME NEW d \in Devices \ req[r].about, NEW b \in Clients
            PROVE  keys'[b].fcm = d <=> keys[b].fcm = d
        BY <2>1, <3>1, <3>2, <4>1
      <4>3. ASSUME NEW b \in Clients
            PROVE  /\ keys'[b].fcm = keys[b].fcm \/ b = c
                   /\ keys'[b].made => keys[b].made \/ b = c
                   /\ keys'[b].revoked => keys'[b].fcm = None
        BY <2>1, <3>1, <3>2 DEF MirrorInv
      <4>4. \A s \in Requests : s # r /\ req[s].pc = "create" => req'[r].on # req[s].on
        BY <1>0, <2>1, <3>3 DEF Deals
      <4>5. QED
        BY <2>1, <2>3, <3>3, <4>2, <4>3, <4>4 DEF Minds, Well
    <3>5. Deals(r)'
      BY <2>1, <3>3 DEF Deals, Mirrored, Outs, Devs, Alls
    <3>6. ASSUME NEW d \in (Devices \cap req[r].about) \ unsure' PROVE Owned(r, d)'
      <4>1. Owned(r, d) /\ d # None
        BY <2>3, <3>6, OwnPart DEF Well
      <4>2. req[r].dev = d /\ d \notin push
        BY <2>1, <4>1 DEF Owned
      <4>3. req'[r].pc = "mirror"
        BY <3>3, <4>1, <4>2 DEF Mirrored
      <4>4. Held(d)'
        BY <2>1, <3>1, <3>2, <4>2 DEF Held
      <4>5. QED
        BY <2>1, <3>3, <4>2, <4>3, <4>4 DEF Owned, Outs, Devs
    <3>7. QED
      BY <3>3, <3>4, <3>5, <3>6, MirrorStep
  <2>4. QED
    BY <1>1, <2>2, <2>3 DEF CreateKey
<1>2. CASE Mirror(r)
  <2>1. /\ req[r].pc = "mirror" /\ UNCHANGED keys /\ Go(r, "issue") /\ "issue" \in Places
        /\ req[r].dev \in req[r].about \union {None} /\ req[r].dev # None
    BY <1>0, <1>2 DEF Mirror, Deals, Carries, Places
  <2>2. CASE Fault(r) /\ push' = push
    BY <2>1, <2>2, KeysSame, MirrorGo
  <2>3. CASE Well /\ push' = push \union {req[r].dev}
    <3>1. /\ Others(r) /\ req'[r].pc = "issue" /\ req'[r].on = req[r].on
          /\ req'[r].about = req[r].about
      BY <1>0, <2>1, GoFields
    <3>2. Minds(r) /\ \A d : Held(d)' <=> Held(d)
      BY <2>1, <2>3, <3>1, MindsPush DEF Well
    <3>3. Deals(r)'
      BY <3>1 DEF Deals, Outs, Devs, Alls
    <3>4. ASSUME NEW d \in (Devices \cap req[r].about) \ unsure' PROVE Owned(r, d)'
      <4>1. Held(d) /\ req[r].dev = d
        BY <2>1, <2>3, <3>4, OwnPart DEF Well, Owned
      <4>2. QED
        BY <2>3, <3>1, <3>2, <4>1 DEF Owned, Even, Outs, Devs
    <3>5. QED
      BY <3>1, <3>2, <3>3, <3>4, MirrorStep
  <2>4. QED
    BY <1>2, <2>2, <2>3 DEF Mirror
<1>3. QED
  BY <1>1, <1>2

\* A logout or logoutDevice takes its push token out of Redis.
LEMMA MirrorTakeOut ==
  ASSUME IInv, MirrorInv, NEW r \in Requests, NEW pc \in Places, Go(r, pc), UNCHANGED keys,
         \/ req[r].pc = "outPush" /\ pc = "outEnd"
         \/ req[r].pc = "devPush" /\ pc = "devEnd",
         \/ push' = push \ {req[r].dev} /\ Well
         \/ push' = push /\ Fault(r)
  PROVE  MirrorInv'
<1>0. TypeOK /\ Deals(r)
  BY DEF IInv, MirrorInv
<1>1. CASE push' = push /\ Fault(r)
  BY <1>1, KeysSame, MirrorGo
<1>2. CASE push' = push \ {req[r].dev} /\ Well
  <2>1. req[r].dev \in req[r].about \union {None}
    BY <1>0 DEF Deals, Outs, Devs
  <2>2. /\ Others(r) /\ req'[r].pc = pc /\ req'[r].on = req[r].on
        /\ req'[r].dev = req[r].dev /\ req'[r].about = req[r].about
    BY <1>0, GoFields
  <2>3. Minds(r)
    BY <1>2, <2>1, <2>2, MindsPush, ConstantsAssumption DEF Well
  <2>4. Deals(r)'
    BY <1>0, <2>2 DEF Deals, Outs, Devs, Alls
  <2>5. ASSUME NEW d \in (Devices \cap req[r].about) \ unsure' PROVE Owned(r, d)'
    <3>1. Owned(r, d)
      BY <1>2, <2>5, OwnPart DEF Well
    <3>2. QED
      BY <1>2, <2>2, <3>1 DEF Owned, Outs, Devs
  <2>6. QED
    BY <2>2, <2>3, <2>4, <2>5, MirrorStep
<1>3. QED
  BY <1>1, <1>2

\* A logout or logoutDevice ends its session in the documents.
LEMMA MirrorEnd ==
  ASSUME IInv, MirrorInv, NEW r \in Requests, Answer(r), push' = push, Well,
         req[r].pc \in {"outEnd", "devEnd"},
         \A c \in Clients :
           keys'[c] = IF c = req[r].on /\ keys[c].made THEN Revoked(keys[c]) ELSE keys[c]
  PROVE  MirrorInv'
<1>0. TypeOK /\ Deals(r)
  BY DEF IInv, MirrorInv
<1>1. /\ Others(r) /\ req'[r].about = {} /\ req'[r].on = None /\ Deals(r)'
  BY <1>0, AnswerFields
<1>2. ASSUME NEW c \in Clients
      PROVE  /\ keys'[c].fcm = IF c = req[r].on THEN None ELSE keys[c].fcm
             /\ keys'[c].made = keys[c].made
             /\ keys'[c].revoked => keys'[c].fcm = None
             /\ keys[c].fcm \in Devices \union {None}
  <2>1. keys[c] \in Key /\ (~keys[c].made => keys[c] = NoKey)
    BY <1>0 DEF TypeOK, KeysOK
  <2>2. Revoked(keys[c]).fcm = None /\ Revoked(keys[c]).made = keys[c].made
    BY <2>1 DEF Revoked, Key
  <2>3. keys[c].revoked => keys[c].fcm = None
    BY DEF MirrorInv
  <2>4. QED
    BY <2>1, <2>2, <2>3 DEF NoKey, Key
<1>3. Minds(r)
  <2>1. ASSUME NEW d \in Devices \ req[r].about, NEW c \in Clients
        PROVE  keys'[c].fcm = d <=> keys[c].fcm = d
    BY <1>0, <1>2, <2>1, ConstantsAssumption DEF Deals, Outs, Devs
  <2>2. \A s \in Requests : s # r /\ req[s].pc = "create" => req'[r].on # req[s].on
    BY <1>1, ConstantsAssumption DEF IInv, Good, Carries, Makers
  <2>3. QED
    BY <1>1, <1>2, <2>1, <2>2 DEF Minds, Well
<1>4. ASSUME NEW d \in (Devices \cap req[r].about) \ unsure' PROVE Even(d)'
  <2>1. Owned(r, d) /\ d # None /\ \A b, c \in Clients : keys[b].fcm = d /\ keys[c].fcm = d => b = c
    BY <1>4, OwnPart DEF Well
  <2>2. d \notin push /\ req[r].on \in Clients /\ keys[req[r].on].fcm = d
    BY <2>1 DEF Owned, Outs, Devs
  <2>3. ~Held(d)'
    BY <1>2, <2>1, <2>2 DEF Held
  <2>4. QED
    BY <2>2, <2>3 DEF Even
<1>5. QED
  BY <1>1, <1>3, <1>4, MirrorStep

LEMMA MirrorLogout ==
  ASSUME IInv, MirrorInv, NEW r \in Requests,
         OutRedis(r) \/ OutDoc(r) \/ OutPush(r) \/ OutEnd(r)
           \/ EndRedis(r) \/ DevPush(r) \/ DevEnd(r)
  PROVE  MirrorInv'
<1>0. TypeOK /\ Deals(r) /\ Carries(r) /\ {"outDoc", "outPush", "outEnd", "devPush", "devEnd", "allEnd"} \subseteq Places
  BY DEF IInv, MirrorInv, Good, Places
<1>1. CASE OutRedis(r)
  BY <1>0, <1>1, KeysSame, MirrorGo DEF OutRedis, Well
<1>2. CASE OutDoc(r)
  <2>1. SameTokens(r)
    <3>1. CASE UNCHANGED keys
      BY <3>1, KeysSame
    <3>2. ASSUME NEW c \in Clients, keys[c].made,
                 keys' = [keys EXCEPT ![c].jit = @ \union {req[r].jti}]
          PROVE  SameTokens(r)
      <4> DEFINE k == [keys[c] EXCEPT !.jit = @ \union {req[r].jti}]
      <4>1. k.fcm = keys[c].fcm /\ k.revoked = keys[c].revoked /\ k.made = keys[c].made
        BY <1>0 DEF TypeOK, KeysOK, Key
      <4>2. keys'[c] = k /\ \A b \in Clients : b # c => keys'[b] = keys[b]
        BY <1>0, <3>2 DEF TypeOK, KeysOK
      <4> HIDE DEF k
      <4>3. QED
        BY <4>1, <4>2 DEF SameTokens
    <3>3. QED
      BY <1>2, <3>1, <3>2 DEF OutDoc
  <2>2. push' = push /\ req[r].pc = "outDoc"
    BY <1>2 DEF OutDoc, redis
  <2>3. CASE Answer(r) /\ Fault(r)
    BY <2>1, <2>2, <2>3, MirrorAnswer
  <2>4. CASE Go(r, "outPush") /\ Well
    BY <1>0, <2>1, <2>2, <2>4, MirrorGo DEF Well
  <2>5. QED
    BY <1>2, <2>3, <2>4 DEF OutDoc
<1>3. CASE OutPush(r)
  BY <1>0, <1>3, MirrorTakeOut DEF OutPush
<1>4. CASE OutEnd(r)
  <2>1. CASE UNCHANGED keys /\ Fault(r)
    BY <1>4, <2>1, KeysSame, MirrorAnswer DEF OutEnd, redis
  <2>2. CASE Well /\ keys' = [c \in Clients |-> IF c = req[r].on /\ keys[c].made
                                                THEN Revoked(keys[c]) ELSE keys[c]]
    BY <1>4, <2>2, MirrorEnd DEF OutEnd, redis
  <2>3. QED
    BY <1>4, <2>1, <2>2 DEF OutEnd
<1>5. CASE EndRedis(r)
  BY <1>0, <1>5, KeysSame, MirrorGo DEF EndRedis, Well
<1>6. CASE DevPush(r)
  BY <1>0, <1>6, MirrorTakeOut DEF DevPush
<1>7. CASE DevEnd(r)
  <2>1. CASE UNCHANGED keys /\ Fault(r)
    BY <1>7, <2>1, KeysSame, MirrorAnswer DEF DevEnd, redis
  <2>2. CASE Well /\ keys' = [keys EXCEPT ![req[r].on] = Revoked(@)]
    <3>1. req[r].pc = "devEnd" /\ req[r].on \in Clients /\ keys[req[r].on].made
      BY <1>0, <1>7 DEF DevEnd, Carries
    <3>2. \A c \in Clients :
            keys'[c] = IF c = req[r].on /\ keys[c].made THEN Revoked(keys[c]) ELSE keys[c]
      BY <1>0, <2>2, <3>1 DEF TypeOK, KeysOK
    <3>3. QED
      BY <1>7, <2>2, <3>1, <3>2, MirrorEnd DEF DevEnd, redis
  <2>3. QED
    BY <1>7, <2>1, <2>2 DEF DevEnd
<1>8. QED
  BY <1>1, <1>2, <1>3, <1>4, <1>5, <1>6, <1>7

LEMMA MirrorAll ==
  ASSUME IInv, MirrorInv, NEW r \in Requests, AllEnd(r) \/ AllPush(r)
  PROVE  MirrorInv'
<1>0. TypeOK /\ Deals(r)
  BY DEF IInv, MirrorInv
<1>1. CASE AllEnd(r)
  <2>1. push' = push /\ req[r].pc = "allEnd" /\ req[r].about = Devices
    BY <1>0, <1>1 DEF AllEnd, redis, Deals, Alls
  <2>2. CASE UNCHANGED keys /\ Answer(r) /\ Fault(r)
    BY <2>1, <2>2, KeysSame, MirrorAnswer
  <2>3. CASE /\ keys' = [c \in Clients |-> IF Live(c) THEN Revoked(keys[c]) ELSE keys[c]]
             /\ Go(r, "allPush") /\ Well
    <3>1. /\ Others(r) /\ req'[r].pc = "allPush" /\ req'[r].on = req[r].on
          /\ req'[r].about = req[r].about
      BY <1>0, <2>3, GoFields DEF Places
    <3>2. ASSUME NEW c \in Clients
          PROVE  keys'[c].fcm = None /\ keys'[c].made = keys[c].made
      <4>1. keys[c] \in Key /\ (~keys[c].made => keys[c] = NoKey)
        BY <1>0 DEF TypeOK, KeysOK
      <4>2. Revoked(keys[c]).fcm = None /\ Revoked(keys[c]).made = keys[c].made
        BY <4>1 DEF Revoked, Key
      <4>3. ~Live(c) => keys[c].fcm = None
        BY <4>1 DEF Live, NoKey, MirrorInv
      <4>4. QED
        BY <2>3, <4>2, <4>3
    <3>3. Minds(r)
      <4>1. \A s \in Requests : s # r /\ req[s].pc = "create" => req'[r].on # req[s].on
        BY <3>1 DEF MirrorInv, Deals
      <4>2. QED
        BY <2>1, <2>3, <3>1, <3>2, <4>1 DEF Minds, Well
    <3>4. Deals(r)'
      BY <2>1, <3>1 DEF Deals, Outs, Devs, Alls
    <3>5. ASSUME NEW d \in (Devices \cap req[r].about) \ unsure' PROVE Owned(r, d)'
      <4>1. ~Held(d)'
        BY <3>2, ConstantsAssumption DEF Held
      <4>2. QED
        BY <3>1, <4>1 DEF Owned, Outs, Devs
    <3>6. QED
      BY <3>1, <3>3, <3>4, <3>5, MirrorStep
  <2>4. QED
    BY <1>1, <2>2, <2>3 DEF AllEnd
<1>2. CASE AllPush(r)
  <2>1. UNCHANGED keys /\ req[r].pc = "allPush" /\ req[r].about = Devices /\ Answer(r)
    BY <1>0, <1>2 DEF AllPush, Deals, Alls
  <2>2. CASE push' = push /\ Fault(r)
    BY <2>1, <2>2, KeysSame, MirrorAnswer
  <2>3. CASE push' = {} /\ Well
    <3>1. /\ Others(r) /\ req'[r].about = {} /\ req'[r].on = None /\ Deals(r)'
      BY <1>0, <2>1, AnswerFields
    <3>2. Minds(r) /\ \A d : Held(d)' <=> Held(d)
      BY <2>1, <2>3, <3>1, MindsPush DEF Well
    <3>3. ASSUME NEW d \in (Devices \cap req[r].about) \ unsure' PROVE Even(d)'
      <4>1. ~Held(d)
        BY <2>1, <2>3, <3>3, OwnPart DEF Well, Owned
      <4>2. QED
        BY <2>3, <3>2, <4>1 DEF Even
    <3>4. QED
      BY <3>1, <3>2, <3>3, MirrorStep
  <2>4. QED
    BY <1>2, <2>2, <2>3 DEF AllPush
<1>3. QED
  BY <1>1, <1>2

LEMMA MirrorSync == ASSUME IInv, MirrorInv, NEW r \in Requests, SyncOne(r) PROVE MirrorInv'
<1>0. TypeOK /\ Deals(r) /\ UNCHANGED keys /\ req[r].pc = "sync" /\ req[r].about = Devices
  BY DEF IInv, MirrorInv, Deals, Alls, SyncOne
<1>1. CASE Answer(r) /\ Well /\ push' = push
  BY <1>0, <1>1, KeysSame, MirrorAnswer DEF Well
<1>2. ASSUME NEW d \in req[r].adds,
             \/ push' = push \union {d} /\ Well
             \/ push' = push /\ Fault(r),
             req' = [req EXCEPT ![r].adds = @ \ {d}]
      PROVE  MirrorInv'
  <2>1. Others(r) /\ req'[r] = [req[r] EXCEPT !.adds = @ \ {d}]
    BY <1>0, <1>2, AddedType DEF TypeOK, Others
  <2>2. /\ req'[r].pc = "sync" /\ req'[r].on = req[r].on
        /\ req'[r].about = req[r].about /\ req'[r].adds = req[r].adds \ {d}
    BY <1>0, <2>1 DEF TypeOK, RequestsOK, Request
  <2>3. unsure \subseteq unsure'
    BY <1>2, FaultMarks DEF Well
  <2>4. Minds(r) /\ \A e : Held(e)' <=> Held(e)
    BY <1>0, <2>1, <2>2, <2>3, MindsPush
  <2>5. Deals(r)'
    BY <1>0, <2>2 DEF Deals, Outs, Devs, Alls
  <2>6. ASSUME NEW e \in (Devices \cap req[r].about) \ unsure' PROVE Owned(r, e)'
    <3>1. Even(e) /\ (e \in req[r].adds => Held(e)) /\ ~Fault(r)
      BY <1>0, <2>3, <2>6, OwnPart, FaultMarks DEF Owned
    <3>2. Even(e)' /\ (e \in req'[r].adds => Held(e)')
      BY <1>2, <2>2, <2>4, <3>1 DEF Even
    <3>3. QED
      BY <2>2, <3>2 DEF Owned, Outs, Devs
  <2>7. QED
    BY <2>2, <2>4, <2>5, <2>6, MirrorStep
<1>3. QED
  BY <1>1, <1>2 DEF SyncOne

\* A request begins: what others deal with is out of step from now on.
LEMMA MirrorBegin ==
  ASSUME IInv, MirrorInv, NEW r \in Requests, NEW q, NEW extra,
         Begin(r, q, extra), Deals(r)',
         \A s \in Requests : s # r /\ req[s].pc = "create" => q.on # req[s].on,
         \A d \in (Devices \cap q.about) \ unsure' : Even(d) => Owned(r, d)'
  PROVE  MirrorInv'
<1>1. /\ UNCHANGED <<keys, push>> /\ unsure \subseteq unsure'
      /\ \A d \in q.about \ unsure' : \A s \in Requests : d \notin req[s].about
      /\ req'[r] = q /\ Others(r) /\ req[r].about = {}
  BY DEF Begin, redis, IInv, TypeOK, RequestsOK, Others, Idle
<1>2. ASSUME NEW s \in Requests PROVE Deals(s)'
  <2>1. CASE s = r
    BY <2>1
  <2>2. CASE s # r
    <3>1. req'[s] = req[s] /\ Deals(s)
      BY <1>1, <2>2 DEF Others, MirrorInv
    <3>2. req[s].pc = "create" => \A t \in Requests : t # s => req'[t].on # req[s].on
      BY <1>1, <2>2, <3>1 DEF Others, Deals
    <3>3. QED
      BY <1>1, <3>1, <3>2 DEF Deals
  <2>3. QED
    BY <2>1, <2>2
<1>3. ASSUME NEW d \in Devices \ unsure' PROVE InStep(d)'
  <2>1. InStep(d)
    BY <1>1, <1>3 DEF MirrorInv
  <2>2. (Held(d)' <=> Held(d)) /\ (Even(d)' <=> Even(d))
    BY <1>1 DEF Held, Even
  <2>3. \A s \in Requests \ {r} : Owned(s, d)' <=> Owned(s, d)
    BY <1>1, <2>2 DEF Owned, Others
  <2>4. CASE d \in q.about
    <3>1. Even(d) /\ \A s \in Requests \ {r} : d \notin req'[s].about
      BY <1>1, <1>3, <2>1, <2>4 DEF InStep, Others
    <3>2. Owned(r, d)'
      BY <1>3, <2>4, <3>1
    <3>3. QED
      BY <1>1, <2>1, <2>4, <3>1, <3>2 DEF InStep
  <2>5. CASE d \notin q.about
    <3>1. \A s \in Requests : d \in req'[s].about <=> d \in req[s].about
      BY <1>1, <2>5 DEF Others
    <3>2. QED
      BY <1>1, <2>1, <2>2, <2>3, <2>5, <3>1 DEF InStep
  <2>6. QED
    BY <2>4, <2>5
<1>4. QED
  BY <1>1, <1>2, <1>3 DEF MirrorInv

LEMMA MirrorReceive == ASSUME IInv, MirrorInv, NEW r \in Requests, Receive(r) PROVE MirrorInv'
<1>0. TypeOK /\ NewIdInv /\ None \notin Clients /\ None \notin Devices
  BY ConstantsAssumption DEF IInv
<1>1. ASSUME NEW s \in Requests, req[s].pc = "create"
      PROVE  /\ req[s].on \in Clients /\ ~keys[req[s].on].made
             /\ \A j \in Issued : pairs[j] # req[s].on
             /\ \A t \in Requests : t # s => req[t].on # req[s].on
  BY <1>0, <1>1 DEF IInv, Good, Carries, Makers, MirrorInv, Deals, NewIdInv, Owner
<1>2. \A q, extra : Begin(r, q, extra) =>
        /\ req'[r] = q /\ Others(r) /\ keys' = keys /\ push' = push
        /\ extra \subseteq unsure' /\ \A d : (Held(d)' <=> Held(d)) /\ (Even(d)' <=> Even(d))
  BY <1>0 DEF Begin, redis, TypeOK, RequestsOK, Others, Held, Even
<1>3. ASSUME NEW c \in Clients, NEW d \in Devices \union {None}, Login(r, c, d) PROVE MirrorInv'
  <2> DEFINE q == [Idle EXCEPT !.pc = "create", !.on = c, !.dev = d, !.about = {d} \ {None}]
             x == {e \in {d} : \E b \in Clients : keys[b].fcm = e /\ e # None}
  <2>1. Begin(r, q, x) /\ Fresh(c)
    BY <1>3 DEF Login
  <2>2. q.pc = "create" /\ q.on = c /\ q.dev = d /\ q.about = {d} \ {None}
    BY DEF Idle
  <2>3. \A e \in q.about : e \in x <=> Held(e)
    BY <2>2 DEF Held
  <2> HIDE DEF q, x
  <2>4. Deals(r)'
    BY <1>2, <2>1, <2>2 DEF Deals, Fresh, Others, Outs, Devs, Alls
  <2>5. ASSUME NEW e \in (Devices \cap q.about) \ unsure', Even(e) PROVE Owned(r, e)'
    <3>1. ~Held(e) /\ e \notin push
      BY <1>2, <2>1, <2>3, <2>5 DEF Even
    <3>2. QED
      BY <1>2, <2>1, <2>2, <2>5, <3>1 DEF Owned, Outs, Devs
  <2>6. \A s \in Requests : s # r /\ req[s].pc = "create" => q.on # req[s].on
    BY <2>1, <2>2 DEF Fresh
  <2>7. QED
    BY <2>1, <2>4, <2>5, <2>6, MirrorBegin
<1>4. ASSUME NEW j \in Issued, Refresh(r, j) PROVE MirrorInv'
  <2> DEFINE q == [Idle EXCEPT !.pc = "check", !.on = pairs[j], !.jti = j,
                               !.todo = IF Legacy(j) THEN {"redis"} ELSE {"redis", "doc"},
                               !.late = Ended(j)]
  <2>1. Begin(r, q, {})
    BY <1>4 DEF Refresh
  <2>2. q.pc = "check" /\ q.on = pairs[j] /\ q.about = {}
    BY DEF Idle
  <2> HIDE DEF q
  <2>3. Deals(r)'
    BY <1>2, <2>1, <2>2 DEF Deals, Outs, Devs, Alls
  <2>4. QED
    BY <1>1, <2>1, <2>2, <2>3, MirrorBegin
<1>5. ASSUME NEW j \in Issued, NEW d \in Devices \union {None}, Logout(r, j, d) PROVE MirrorInv'
  <2> DEFINE c == pairs[j]
             has == IF c = None THEN None ELSE keys[c].fcm
             q == [Idle EXCEPT !.pc = "outRedis", !.on = c, !.jti = j, !.dev = d,
                               !.about = {d, has} \ {None}]
             x == IF d = has THEN {} ELSE {d, has} \ {None}
  <2>1. Begin(r, q, x)
    BY <1>5 DEF Logout
  <2>2. q.pc = "outRedis" /\ q.on = c /\ q.dev = d /\ q.about = {d, has} \ {None}
    BY DEF Idle
  <2>3. \A e \in q.about \ x : e = d /\ e = has /\ e # None
    BY <2>2
  <2>4. c \in Clients \union {None} /\ (c \in Clients => has = keys[c].fcm) /\ (c = None => has = None)
    BY <1>0 DEF TypeOK, StoresOK, Issued
  <2> HIDE DEF q, x, has
  <2>5. Deals(r)'
    BY <1>2, <2>1, <2>2, <2>4 DEF Deals, Outs, Devs, Alls
  <2>6. ASSUME NEW e \in (Devices \cap q.about) \ unsure', Even(e) PROVE Owned(r, e)'
    <3>1. e = d /\ e = has /\ e # None
      BY <1>2, <2>1, <2>3, <2>6
    <3>2. c \in Clients /\ keys[c].fcm = e
      BY <2>4, <3>1
    <3>3. e \in push
      BY <2>6, <3>2 DEF Even, Held
    <3>4. QED
      BY <1>2, <2>1, <2>2, <3>1, <3>2, <3>3 DEF Owned, Outs, Devs
  <2>7. QED
    BY <1>1, <2>1, <2>2, <2>5, <2>6, MirrorBegin
<1>6. ASSUME NEW c \in Clients, LogoutDevice(r, c) PROVE MirrorInv'
  <2> DEFINE q == [Idle EXCEPT !.pc = "devRedis", !.on = c, !.dev = keys[c].fcm,
                               !.jtis = keys[c].jit, !.about = {keys[c].fcm} \ {None}]
  <2>1. Begin(r, q, {}) /\ keys[c].made
    BY <1>6 DEF LogoutDevice, SessionFound, Live
  <2>2. q.pc = "devRedis" /\ q.on = c /\ q.dev = keys[c].fcm /\ q.about = {keys[c].fcm} \ {None}
    BY DEF Idle
  <2> HIDE DEF q
  <2>3. Deals(r)'
    BY <1>2, <2>1, <2>2 DEF Deals, Outs, Devs, Alls
  <2>4. ASSUME NEW e \in (Devices \cap q.about) \ unsure', Even(e) PROVE Owned(r, e)'
    <3>1. keys[c].fcm = e /\ e \in push
      BY <2>2, <2>4 DEF Even, Held
    <3>2. QED
      BY <1>2, <2>1, <2>2, <3>1 DEF Owned, Outs, Devs
  <2>5. QED
    BY <1>1, <2>1, <2>2, <2>3, <2>4, MirrorBegin
<1>7. CASE LogoutAll(r)
  <2> DEFINE q == [Idle EXCEPT !.pc = "allRedis",
                        !.jtis = UNION {keys[c].jit : c \in {b \in Clients : Live(b)}},
                        !.about = Devices]
  <2>1. Begin(r, q, {})
    BY <1>7 DEF LogoutAll
  <2>2. q.pc = "allRedis" /\ q.on = None /\ q.about = Devices
    BY DEF Idle
  <2> HIDE DEF q
  <2>3. Deals(r)'
    BY <1>2, <2>1, <2>2 DEF Deals, Outs, Devs, Alls
  <2>4. \A e \in (Devices \cap q.about) \ unsure' : Even(e) => Owned(r, e)'
    BY <1>2, <2>1, <2>2 DEF Owned, Outs, Devs
  <2>5. QED
    BY <1>0, <1>1, <2>1, <2>2, <2>3, <2>4, MirrorBegin
<1>8. CASE Resync(r)
  <2> DEFINE ds == {keys[c].fcm : c \in Clients} \ {None}
             q == [Idle EXCEPT !.pc = "sync", !.about = Devices, !.adds = ds]
  <2>1. Begin(r, q, {})
    BY <1>8 DEF Resync
  <2>2. q.pc = "sync" /\ q.on = None /\ q.about = Devices /\ q.adds = ds
    BY DEF Idle
  <2>3. \A e \in ds : Held(e)
    BY DEF Held
  <2> HIDE DEF q, ds
  <2>4. Deals(r)'
    BY <1>2, <2>1, <2>2 DEF Deals, Outs, Devs, Alls
  <2>5. \A e \in (Devices \cap q.about) \ unsure' : Even(e) => Owned(r, e)'
    BY <1>2, <2>1, <2>2, <2>3 DEF Owned, Outs, Devs
  <2>6. QED
    BY <1>0, <1>1, <2>1, <2>2, <2>4, <2>5, MirrorBegin
<1>9. QED
  BY <1>3, <1>4, <1>5, <1>6, <1>7, <1>8 DEF Receive

LEMMA MirrorSettled ==
  ASSUME MirrorInv, UNCHANGED <<keys, push, req, unsure>> \/ (Flush /\ TypeOK)
  PROVE  MirrorInv'
<1>1. UNCHANGED <<keys, req>>
  BY DEF Flush
<1>2. (\A c \in Clients : keys[c].revoked => keys[c].fcm = None)'
  BY <1>1 DEF MirrorInv
<1>3. \A r \in Requests : Deals(r)'
  BY <1>1 DEF MirrorInv, Deals
<1>4. CASE UNCHANGED <<keys, push, req, unsure>>
  <2>1. \A d \in Devices \ unsure : InStep(d)'
    BY <1>4 DEF MirrorInv, InStep, Owned, Even, Held
  <2>2. QED
    BY <1>2, <1>3, <1>4, <2>1 DEF MirrorInv
<1>5. CASE Flush
  BY <1>2, <1>3, <1>5 DEF MirrorInv, Flush
<1>6. QED
  BY <1>4, <1>5

LEMMA MirrorNext ==
  ASSUME IInv, MirrorInv, Next \/ UNCHANGED vars
  PROVE  MirrorInv'
<1>1. ASSUME NEW r \in Requests, Continue(r) \/ Receive(r) \/ Abort(r) PROVE MirrorInv'
  BY <1>1, MirrorRefresh, MirrorRotate, MirrorLogin, MirrorLogout, MirrorAll, MirrorSync,
     MirrorReceive DEF Continue
<1>2. QED
  BY <1>1, MirrorSettled DEF Next, vars, redis, IInv

LEMMA MirrorInit == Init => MirrorInv
<1> SUFFICES ASSUME Init PROVE MirrorInv
  OBVIOUS
<1>1. \A c \in Clients : keys[c].fcm = None /\ ~keys[c].revoked
  BY DEF Init, NoKey
<1>2. \A r \in Requests : req[r].pc = "idle" /\ req[r].about = {}
  BY DEF Init, Idle
<1>3. \A r \in Requests : Deals(r)
  BY <1>2 DEF Deals, Outs, Devs, Alls
<1>4. push = {}
  BY DEF Init
<1>5. \A d \in Devices : InStep(d)
  BY <1>1, <1>2, <1>4, ConstantsAssumption DEF InStep, Even, Held
<1>6. QED
  BY <1>1, <1>3, <1>5 DEF MirrorInv

LEMMA MirrorHolds == MirrorInv => MirrorFollows
  BY DEF MirrorInv, InStep, MirrorFollows, Even, Held

\* Once no request about it is under way, Redis holds a push token exactly as long as a
\* session has it (auth.service.ts:284, and the sRem of the logouts), except those that
\* overlapping requests, a failure or the client itself put out of step: for any number
\* of sessions, push tokens, requests in parallel, faults and losses of Redis.
THEOREM PushTokensFollow == AllSpec => []TokensMirrored
<1> DEFINE Inv == IInv /\ MirrorInv
<1>1. AllInit => Inv
  BY InitIInv, MirrorInit DEF AllInit
<1>2. Inv /\ [AllNext]_allVars => Inv'
  <2> SUFFICES ASSUME Inv, [AllNext]_allVars PROVE Inv'
    OBVIOUS
  <2>1. [Next]_vars
    BY DEF AllNext, allVars, vars
  <2>2. IInv'
    BY <2>1, NextIInv
  <2>3. MirrorInv'
    BY <2>1, MirrorNext
  <2>4. QED
    BY <2>2, <2>3
<1>3. Inv => TokensMirrored
  BY MirrorHolds DEF IInv, TokensMirrored
<1>4. QED
  BY <1>1, <1>2, <1>3, PTL DEF AllSpec

-------------------------------------------------------------------------------
(* Friendship *)

Pair(m) == Social!PairOf(move[m])

\* A request at rest has no users, one under way has two, and only an accept gets to
\* the room and only a remove gets rid of one.
Asks(m) ==
  /\ move[m].at = "idle" => move[m] = Social!NoMove
  /\ move[m].at # "idle" =>
       /\ move[m].by \in Users /\ move[m].to \in Users /\ move[m].by # move[m].to
       /\ move[m].op # "none"
  /\ move[m].at \in {"find", "make", "undo"} => move[m].op = "accept"
  /\ move[m].at = "room" => move[m].op = "remove"
  /\ move[m].at = "read" => ~move[m].held

\* A document is there until it is deleted.
Holds(m) == move[m].held => bond[Pair(m)] # None

\* Unless requests crossed, what a request read, or wrote, about its pair still holds.
StillSo(m) ==
  LET b == bond[Pair(m)] IN
  Pair(m) \notin crossed =>
    /\ move[m].at = "write" /\ move[m].op # "send" =>
         /\ move[m].held /\ b # None
         /\ b.status = (IF move[m].op = "remove" THEN "ACCEPTED" ELSE "PENDING")
         /\ move[m].op = "accept" => b.actor = move[m].to
    /\ move[m].at \in {"find", "make", "undo"} =>
         move[m].held /\ b # None /\ b.status = "ACCEPTED"
    /\ move[m].at = "room" => b = None

\* Unless requests crossed, who asked wants the other, and friends want each other.
Wanted(u, v) ==
  LET b == bond[{u, v}] IN
  b # None /\ {u, v} \notin crossed =>
    /\ b.status = "ACCEPTED" => v \in wants[u]
    /\ b.status = "PENDING" /\ b.actor = u => v \in wants[u]

\* AcceptedHaveRoom, of one pair.
Housed(u, v) ==
  LET b == bond[{u, v}] IN
  b # None /\ b.status = "ACCEPTED" =>
    {u, v} \in talk \/ {u, v} \in crossed \/ Social!Midway({u, v}) # {}

Bonds == \A u, v \in Users : u # v => Wanted(u, v) /\ Housed(u, v)

SocialInv == Social!TypeOK /\ (\A m \in Requests : Asks(m) /\ Holds(m) /\ StillSo(m)) /\ Bonds

LEMMA PairIs ==
  ASSUME NEW u \in Users, NEW v \in Users, u # v
  PROVE  {u, v} \in Social!Pairs
<1>1. \A w \in Users : {w} # {u, v}
  OBVIOUS
<1>2. QED
  BY <1>1 DEF Social!Pairs

LEMMA SamePair ==
  ASSUME NEW u, NEW v, NEW a, NEW b, {u, v} = {a, b}, u # v
  PROVE  (u = a /\ v = b) \/ (u = b /\ v = a)
  OBVIOUS

LEMMA PairsMoved ==
  ASSUME SocialInv, NEW m \in Requests, move[m].at # "idle"
  PROVE  /\ move[m].by \in Users /\ move[m].to \in Users /\ move[m].by # move[m].to
         /\ Pair(m) = {move[m].by, move[m].to} /\ Pair(m) \in Social!Pairs
<1>1. move[m].by \in Users /\ move[m].to \in Users /\ move[m].by # move[m].to
  BY DEF SocialInv, Asks
<1>2. Pair(m) = {move[m].by, move[m].to}
  BY DEF Pair, Social!PairOf
<1>3. QED
  BY <1>1, <1>2, PairIs

\* A step of request m (or, if m is none, a statement) about the pair p of u and v
\* disturbs nothing about other pairs; what others of the same pair have read crosses it.
About(m, u, v, p) ==
  /\ u # v /\ p = {u, v}
  /\ m \in Requests =>
       /\ Asks(m)' /\ Holds(m)' /\ (p \notin crossed' => StillSo(m)')
       /\ move[m].at \in {"idle", "read"} \/ Pair(m) = p
       /\ move'[m].at = "idle" \/ Pair(m)' = p
  /\ \A n \in Requests \ {m} :
       \/ move'[n] = move[n]
       \/ /\ n \in Social!Midway(p) /\ p \in crossed'
          /\ move'[n] = [move[n] EXCEPT !.held = FALSE]
  /\ crossed \subseteq crossed'
  /\ \A q \in Social!Pairs \ {p} : bond'[q] = bond[q] /\ (q \in talk => q \in talk')
  /\ \A n \in Social!Midway(p) \ {m} :
       /\ p \in crossed' \/ bond'[p] = bond[p]
       /\ bond'[p] # None \/ bond'[p] = bond[p] \/ ~move'[n].held
  /\ \A a, b \in Users : {a, b} # p /\ b \in wants[a] => b \in wants'[a]
  /\ p \notin crossed' => Wanted(u, v)' /\ Wanted(v, u)' /\ Housed(u, v)'

LEMMA SocialStep ==
  ASSUME SocialInv, Social!TypeOK', NEW m, NEW u \in Users, NEW v \in Users, NEW p,
         About(m, u, v, p)
  PROVE  SocialInv'
<1> USE DEF About
<1>1. \A n \in Requests \ {m} :
        /\ move'[n].at = move[n].at /\ move'[n].by = move[n].by /\ move'[n].to = move[n].to
        /\ move'[n].op = move[n].op
        /\ move'[n].held = move[n].held \/ (Pair(n) = p /\ p \in crossed')
        /\ Pair(n)' = Pair(n)
  <2> SUFFICES ASSUME NEW n \in Requests \ {m}
               PROVE /\ move'[n].at = move[n].at /\ move'[n].by = move[n].by
                     /\ move'[n].to = move[n].to /\ move'[n].op = move[n].op
                     /\ move'[n].held = move[n].held \/ (Pair(n) = p /\ p \in crossed')
                     /\ Pair(n)' = Pair(n)
    OBVIOUS
  <2>1. CASE move'[n] = move[n]
    BY <2>1 DEF Pair, Social!PairOf
  <2>2. CASE /\ n \in Social!Midway(p) /\ p \in crossed'
             /\ move'[n] = [move[n] EXCEPT !.held = FALSE]
    <3>1. move[n] \in Social!Move /\ Pair(n) = p
      BY <2>2 DEF SocialInv, Social!TypeOK, Social!Midway, Pair
    <3>2. move'[n].at = move[n].at /\ move'[n].by = move[n].by /\ move'[n].to = move[n].to
          /\ move'[n].op = move[n].op
      BY <2>2, <3>1 DEF Social!Move
    <3>3. QED
      BY <2>2, <3>1, <3>2 DEF Pair, Social!PairOf
  <2>3. QED
    BY <2>1, <2>2
<1>2. ASSUME NEW n \in Requests PROVE Asks(n)'
  <2>1. CASE n = m
    BY <2>1
  <2>2. CASE move'[n] = move[n]
    BY <2>2 DEF SocialInv, Asks
  <2>3. CASE n # m /\ move'[n] # move[n]
    <3>1. move[n].at \notin {"idle", "read"}
      BY <2>3 DEF Social!Midway
    <3>2. QED
      BY <2>3, <3>1, <1>1 DEF SocialInv, Asks
  <2>4. QED
    BY <2>1, <2>2, <2>3
<1>20. ASSUME NEW n \in Requests PROVE Holds(n)'
  <2>1. CASE n = m
    BY <2>1
  <2>2. CASE n # m /\ move[n].at \in {"idle", "read"}
    <3>1. ~move[n].held /\ n \notin Social!Midway(p)
      BY <2>2 DEF SocialInv, Asks, Social!Midway, Social!NoMove
    <3>2. QED
      BY <2>2, <3>1 DEF Holds
  <2>3. CASE n # m /\ move[n].at \notin {"idle", "read"} /\ move'[n].held
    <3>1. move[n].held
      <4>1. CASE move'[n] = move[n]
        BY <2>3, <4>1
      <4>2. CASE /\ n \in Social!Midway(p)
                 /\ move'[n] = [move[n] EXCEPT !.held = FALSE]
        <5>1. move[n] \in Social!Move
          BY DEF SocialInv, Social!TypeOK
        <5>2. QED
          BY <2>3, <4>2, <5>1 DEF Social!Move
      <4>3. QED
        BY <2>3, <4>1, <4>2
    <3>2. bond[Pair(n)] # None /\ Pair(n) \in Social!Pairs
      BY <2>3, <3>1, PairsMoved DEF SocialInv, Holds
    <3>3. Pair(n) = p => n \in Social!Midway(p)
      BY <2>3 DEF Social!Midway, Pair
    <3>4. bond'[Pair(n)] # None
      BY <2>3, <3>2, <3>3
    <3>5. QED
      BY <2>3, <3>4, <1>1 DEF Holds
  <2>4. QED
    BY <2>1, <2>2, <2>3 DEF Holds
<1>3. ASSUME NEW n \in Requests PROVE StillSo(n)'
  <2>1. CASE n = m
    BY <2>1 DEF StillSo
  <2>2. CASE n # m /\ move[n].at = "idle"
    BY <2>2, <1>1 DEF StillSo
  <2>3. CASE n # m /\ move[n].at = "read"
    BY <2>3, <1>1 DEF StillSo
  <2>4. CASE n # m /\ move[n].at \notin {"idle", "read"} /\ Pair(n) \notin crossed'
    <3>1. StillSo(n) /\ Pair(n) \notin crossed
      BY <2>4 DEF SocialInv
    <3>2. Pair(n) \in Social!Pairs
      BY <2>4, PairsMoved
    <3>3. Pair(n) = p => n \in Social!Midway(p)
      BY <2>4 DEF Social!Midway, Pair
    <3>4. bond'[Pair(n)] = bond[Pair(n)]
      BY <2>4, <3>2, <3>3
    <3>5. move'[n].held = move[n].held
      BY <2>4, <1>1
    <3>6. QED
      BY <2>4, <1>1, <3>1, <3>4, <3>5 DEF StillSo
  <2>5. CASE n # m /\ Pair(n) \in crossed'
    BY <2>5, <1>1 DEF StillSo
  <2>6. QED
    BY <2>1, <2>2, <2>3, <2>4, <2>5
<1>4. ASSUME NEW a \in Users, NEW b \in Users, a # b PROVE Wanted(a, b)' /\ Housed(a, b)'
  <2>1. CASE {a, b} = p
    <3>1. (a = u /\ b = v) \/ (a = v /\ b = u)
      BY <1>4, <2>1, SamePair
    <3>2. p \notin crossed' => Housed(v, u)'
      <4>1. {u, v} = {v, u}
        OBVIOUS
      <4>2. QED
        BY <4>1 DEF Housed
    <3>3. p \in crossed' => Wanted(a, b)' /\ Housed(a, b)'
      BY <2>1 DEF Wanted, Housed
    <3>4. QED
      BY <3>1, <3>2, <3>3
  <2>2. CASE {a, b} # p
    <3>1. {a, b} \in Social!Pairs
      BY <1>4, PairIs
    <3>2. bond'[{a, b}] = bond[{a, b}] /\ ({a, b} \in talk => {a, b} \in talk')
          /\ (b \in wants[a] => b \in wants'[a])
      BY <2>2, <3>1
    <3>3. Social!Midway({a, b}) \subseteq Social!Midway({a, b})'
      <4> SUFFICES ASSUME NEW n \in Social!Midway({a, b}) PROVE n \in Social!Midway({a, b})'
        OBVIOUS
      <4>1. n \in Requests /\ move[n].at \notin {"idle", "read"} /\ Pair(n) = {a, b}
        BY DEF Social!Midway, Pair
      <4>2. n # m
        BY <2>2, <4>1
      <4>3. QED
        BY <4>1, <4>2, <1>1 DEF Social!Midway, Pair
    <3>4. Wanted(a, b) /\ Housed(a, b)
      BY <1>4 DEF SocialInv, Bonds
    <3>5. QED
      BY <3>2, <3>3, <3>4 DEF Wanted, Housed
  <2>3. QED
    BY <2>1, <2>2
<1>5. QED
  BY <1>2, <1>20, <1>3, <1>4 DEF SocialInv, Bonds

LEMMA MoveTypes ==
  ASSUME Social!TypeOK, NEW m \in Requests
  PROVE  /\ move[m] \in Social!Move /\ Social!NoMove \in Social!Move
         /\ \A at : Social!Go(m, at) =>
              /\ move'[m] = [move[m] EXCEPT !.at = at]
              /\ move'[m].at = at /\ move'[m].by = move[m].by /\ move'[m].to = move[m].to
              /\ move'[m].op = move[m].op /\ move'[m].held = move[m].held
              /\ Pair(m)' = Pair(m) /\ \A n \in Requests \ {m} : move'[n] = move[n]
         /\ \A at \in {"idle", "read", "write", "find", "make", "undo", "room"} :
              Social!Go(m, at) => move' \in [Requests -> Social!Move]
         /\ Social!Finish(m) =>
              /\ move' \in [Requests -> Social!Move] /\ move'[m] = Social!NoMove
              /\ \A n \in Requests \ {m} : move'[n] = move[n]
<1>1. move[m] \in Social!Move
  BY DEF Social!TypeOK
<1>2. Social!NoMove \in Social!Move
  BY DEF Social!NoMove, Social!Move
<1>3. ASSUME NEW at, Social!Go(m, at)
      PROVE  /\ move'[m] = [move[m] EXCEPT !.at = at]
             /\ move'[m].at = at /\ move'[m].by = move[m].by /\ move'[m].to = move[m].to
             /\ move'[m].op = move[m].op /\ move'[m].held = move[m].held
             /\ Pair(m)' = Pair(m) /\ \A n \in Requests \ {m} : move'[n] = move[n]
  <2>1. move' = [move EXCEPT ![m] = [move[m] EXCEPT !.at = at]]
    BY <1>3 DEF Social!Go, Social!TypeOK
  <2>2. move'[m] = [move[m] EXCEPT !.at = at] /\ \A n \in Requests \ {m} : move'[n] = move[n]
    BY <2>1 DEF Social!TypeOK
  <2>3. move'[m].at = at /\ move'[m].by = move[m].by /\ move'[m].to = move[m].to
        /\ move'[m].op = move[m].op /\ move'[m].held = move[m].held
    BY <1>1, <2>2 DEF Social!Move
  <2>4. QED
    BY <2>2, <2>3 DEF Pair, Social!PairOf
<1>4. ASSUME NEW at \in {"idle", "read", "write", "find", "make", "undo", "room"},
             Social!Go(m, at)
      PROVE  move' \in [Requests -> Social!Move]
  <2>1. [move[m] EXCEPT !.at = at] \in Social!Move
    BY <1>1 DEF Social!Move
  <2>2. move' = [move EXCEPT ![m] = [move[m] EXCEPT !.at = at]]
    BY <1>4 DEF Social!Go, Social!TypeOK
  <2>3. QED
    BY <2>1, <2>2 DEF Social!TypeOK
<1>5. Social!Finish(m) =>
        /\ move' \in [Requests -> Social!Move] /\ move'[m] = Social!NoMove
        /\ \A n \in Requests \ {m} : move'[n] = move[n]
  BY <1>2 DEF Social!Finish, Social!TypeOK
<1>6. QED
  BY <1>1, <1>2, <1>3, <1>4, <1>5

LEMMA RestedMove ==
  ASSUME NEW m \in Requests, move'[m] = Social!NoMove
  PROVE  move'[m].at = "idle" /\ Asks(m)' /\ Holds(m)' /\ StillSo(m)'
<1>1. move'[m].at = "idle"
  BY DEF Social!NoMove
<1>2. QED
  BY <1>1 DEF Asks, Holds, StillSo, Social!NoMove

\* A write of a pair says that it crosses the requests midway.
LEMMA Crossing ==
  ASSUME SocialInv, NEW p \in Social!Pairs, NEW m, Social!Cross(p, m)
  PROVE  /\ crossed \subseteq crossed' /\ crossed' \subseteq Social!Pairs
         /\ \A n \in Social!Midway(p) \ {m} : p \in crossed'
<1>1. {q \in {p} : Social!Midway(p) \ {m} # {}} \subseteq Social!Pairs
  OBVIOUS
<1>2. crossed' = crossed \union {q \in {p} : Social!Midway(p) \ {m} # {}}
  BY Zenon DEF Social!Cross
<1>3. QED
  BY <1>1, <1>2 DEF SocialInv, Social!TypeOK

\* What is said about one user changes nothing about other pairs.
LEMMA SayingTypes ==
  ASSUME Social!TypeOK, NEW u \in Users, NEW v \in Users, Social!Yes(u, v) \/ Social!No(u, v)
  PROVE  /\ wants' \in [Users -> SUBSET Users]
         /\ Social!Yes(u, v) => wants'[u] = wants[u] \union {v}
         /\ \A a \in Users : a # u => wants'[a] = wants[a]
         /\ \A a, b \in Users : {a, b} # {u, v} /\ b \in wants[a] => b \in wants'[a]
<1>1. /\ wants' \in [Users -> SUBSET Users]
      /\ Social!Yes(u, v) => wants'[u] = wants[u] \union {v}
      /\ \A a \in Users : a # u => wants'[a] = wants[a]
      /\ \A b : b # v /\ b \in wants[u] => b \in wants'[u]
  <2>1. CASE Social!Yes(u, v)
    BY <2>1 DEF Social!TypeOK, Social!Yes
  <2>2. CASE Social!No(u, v) /\ ~Social!Yes(u, v)
    BY <2>2 DEF Social!TypeOK, Social!No
  <2>3. QED
    BY <2>1, <2>2
<1>2. ASSUME NEW a \in Users, NEW b \in Users, {a, b} # {u, v}, b \in wants[a]
      PROVE  b \in wants'[a]
  BY <1>1, <1>2
<1>3. QED
  BY <1>1, <1>2

LEMMA BeginKeeps ==
  ASSUME SocialInv, NEW m \in Requests, NEW op \in {"send", "accept", "reject", "remove"},
         NEW u \in Users, NEW v \in Users, Social!Begin(m, op, u, v)
  PROVE  SocialInv'
<1> DEFINE q == [op |-> op, at |-> "read", by |-> u, to |-> v, held |-> FALSE]
<1>1. q \in Social!Move
  BY DEF Social!Move
<1>2. move' = [move EXCEPT ![m] = q] /\ move[m].at = "idle" /\ u # v
  BY DEF Social!Begin, Social!NoMove
<1>3. /\ move' \in [Requests -> Social!Move] /\ move'[m] = q
      /\ \A n \in Requests \ {m} : move'[n] = move[n]
  BY <1>1, <1>2 DEF SocialInv, Social!TypeOK
<1>4. moved' \in 0..MaxMoved
  BY SocialAssumption DEF SocialInv, Social!TypeOK, Social!Begin, Social!ConstantsAssumption
<1>5. Social!TypeOK'
  BY <1>3, <1>4 DEF SocialInv, Social!TypeOK, Social!Begin
<1>6. Asks(m)' /\ Holds(m)' /\ StillSo(m)' /\ Pair(m)' = {u, v}
  BY <1>2, <1>3 DEF Asks, Holds, StillSo, Pair, Social!PairOf
<1>7. \A a, b \in Users : a # b => Wanted(a, b)' /\ Housed(a, b)'
  <2> SUFFICES ASSUME NEW a \in Users, NEW b \in Users, a # b
               PROVE  Wanted(a, b)' /\ Housed(a, b)'
    OBVIOUS
  <2>1. Wanted(a, b) /\ Housed(a, b)
    BY DEF SocialInv, Bonds
  <2>2. Social!Midway({a, b}) \subseteq Social!Midway({a, b})'
    BY <1>2, <1>3 DEF Social!Midway
  <2>3. QED
    BY <2>1, <2>2 DEF Wanted, Housed, Social!Begin
<1>8. \A n \in Requests \ {m} : Asks(n)' /\ Holds(n)' /\ StillSo(n)'
  BY <1>3 DEF SocialInv, Asks, Holds, StillSo, Pair, Social!PairOf, Social!Begin
<1>9. QED
  BY <1>5, <1>6, <1>7, <1>8 DEF SocialInv, Bonds

\* A step of m that leaves the documents and the words alone, and leaves its pair with
\* a room, if it is midway no more.
LEMMA QuietStep ==
  ASSUME SocialInv, NEW m \in Requests, move[m].at # "idle",
         UNCHANGED <<bond, strays, wants, shut, moved>>,
         move' \in [Requests -> Social!Move], talk' \subseteq Social!Pairs,
         crossed' \subseteq Social!Pairs,
         \A n \in Requests \ {m} : move'[n] = move[n],
         Asks(m)', Holds(m)', StillSo(m)', Pair(m)' = Pair(m) \/ move'[m].at = "idle",
         crossed \subseteq crossed', talk \subseteq talk',
         \/ move[m].at = "read" \/ Pair(m) \in crossed' \/ Pair(m) \in talk'
         \/ move'[m].at \notin {"idle", "read"}
  PROVE  SocialInv'
<1>1. Social!TypeOK'
  BY DEF SocialInv, Social!TypeOK
<1>2. ASSUME NEW u \in Users, NEW v \in Users, u # v, {u, v} = Pair(m)
      PROVE  Wanted(u, v)' /\ Housed(u, v)'
  <2>1. Wanted(u, v) /\ Housed(u, v)
    BY <1>2 DEF SocialInv, Bonds
  <2>2. \/ Social!Midway({u, v}) \subseteq Social!Midway({u, v})'
        \/ {u, v} \in crossed' \/ {u, v} \in talk'
    <3>1. CASE move[m].at = "read" \/ move'[m].at \notin {"idle", "read"}
      <4> SUFFICES ASSUME NEW n \in Social!Midway({u, v}) PROVE n \in Social!Midway({u, v})'
        OBVIOUS
      <4>1. CASE n = m
        BY <3>1, <4>1, <1>2 DEF Social!Midway, Pair
      <4>2. CASE n # m
        BY <4>2 DEF Social!Midway
      <4>3. QED
        BY <4>1, <4>2
    <3>2. QED
      BY <3>1, <1>2
  <2>3. QED
    BY <2>1, <2>2 DEF Wanted, Housed
<1>3. PICK u \in Users, v \in Users : u # v /\ Pair(m) = {u, v}
  BY PairsMoved
<1>4. PICK p : p = {u, v}
  OBVIOUS
<1>5. /\ bond' = bond /\ wants' = wants /\ talk \subseteq talk' /\ Pair(m) = p
      /\ Wanted(u, v)' /\ Wanted(v, u)' /\ Housed(u, v)'
  <2>1. {u, v} = {v, u}
    OBVIOUS
  <2>2. QED
    BY <1>2, <1>3, <1>4, <2>1
<1>6. QED
  <2>1. About(m, u, v, p)
    BY <1>3, <1>4, <1>5 DEF About
  <2>2. QED
    BY <1>1, <2>1, SocialStep

LEMMA ReadKeeps ==
  ASSUME SocialInv, NEW m \in Requests, Social!Read(m)
  PROVE  SocialInv'
<1>1. move[m].at = "read" /\ move[m] \in Social!Move /\ Pair(m) \in Social!Pairs
  BY PairsMoved DEF SocialInv, Social!TypeOK, Social!Read
<1>2. CASE Social!Finish(m)
  BY <1>1, <1>2, MoveTypes, RestedMove, QuietStep DEF SocialInv, Social!TypeOK, Social!Read
<1>3. CASE ~Social!Finish(m)
  <2> DEFINE h == move[m].op # "send"
             q == [[move[m] EXCEPT !.at = "write"] EXCEPT !.held = h]
  <2>1. move' = [move EXCEPT ![m].at = "write", ![m].held = move[m].op # "send"]
        /\ Social!Found(move[m]) # (move[m].op = "send")
    BY <1>3 DEF Social!Read
  <2>2. move' = [move EXCEPT ![m] = q]
    BY <2>1 DEF SocialInv, Social!TypeOK
  <2>3. /\ q \in Social!Move /\ q.at = "write" /\ q.held = h /\ q.by = move[m].by
        /\ q.to = move[m].to /\ q.op = move[m].op
    BY <1>1 DEF Social!Move
  <2>4. /\ move' \in [Requests -> Social!Move] /\ move'[m] = q
        /\ \A n \in Requests \ {m} : move'[n] = move[n]
    BY <2>2, <2>3 DEF SocialInv, Social!TypeOK
  <2>5. Asks(m)' /\ Pair(m)' = Pair(m)
    BY <1>1, <2>3, <2>4 DEF SocialInv, Asks, Pair, Social!PairOf
  <2>6. StillSo(m)' /\ Holds(m)'
    <3>1. UNCHANGED bond
      BY DEF Social!Read
    <3>2. h => Social!Found(move[m])
      BY <2>1 DEF Social!Found
    <3>3. QED
      BY <3>1, <3>2, <2>3, <2>4, <2>5 DEF StillSo, Holds, Social!Found, Pair
  <2>7. QED
    BY <1>1, <2>3, <2>4, <2>5, <2>6, QuietStep DEF SocialInv, Social!TypeOK, Social!Read
<1>4. QED
  BY <1>2, <1>3

LEMMA UpdateWritten ==
  ASSUME SocialInv, NEW m \in Requests, NEW p \in Social!Pairs, p = Pair(m),
         move[m].at # "idle",
         NEW status \in Social!Statuses, NEW actor \in Users, Social!Update(m, status, actor),
         p \notin crossed => move[m].held
  PROVE  /\ Social!Cross(p, m)
         /\ \A q \in Social!Pairs \ {p} : bond'[q] = bond[q]
         /\ bond' \in [Social!Pairs -> Social!Bond \union {None}]
         /\ bond[p] # None => bond'[p] # None
         /\ bond'[p] # None \/ bond'[p] = bond[p]
         /\ p \notin crossed' =>
              /\ move[m].held
              /\ bond'[p].status = status /\ bond'[p].actor = actor /\ bond'[p] # None
<1>1. Social!Cross(p, m)
  BY DEF Social!Update, Pair
<1>2. crossed \subseteq crossed'
  BY <1>1, Crossing
<1>3. CASE ~move[m].held
  BY <1>1, <1>2, <1>3 DEF Social!Update, SocialInv, Social!TypeOK
<1>4. CASE move[m].held
  <2>1. bond' = [bond EXCEPT ![p].status = status, ![p].actor = actor]
    BY <1>4 DEF Social!Update, Pair
  <2>2. bond[p] # None
    BY <1>4 DEF SocialInv, Holds
  <2>3. bond[p] \in Social!Bond
    BY <2>2 DEF SocialInv, Social!TypeOK
  <2> DEFINE c == [[bond[p] EXCEPT !.status = status] EXCEPT !.actor = actor]
  <2>4. c \in Social!Bond /\ c # None /\ c.status = status /\ c.actor = actor
    <3>1. c \in Social!Bond /\ c.status = status /\ c.actor = actor
      BY <2>3 DEF Social!Bond
    <3>2. QED
      BY <3>1, SocialAssumption DEF Social!ConstantsAssumption
  <2>5. bond' = [bond EXCEPT ![p] = c]
    BY <2>1 DEF SocialInv, Social!TypeOK
  <2>6. QED
    BY <1>1, <1>4, <2>4, <2>5 DEF SocialInv, Social!TypeOK
<1>5. QED
  BY <1>3, <1>4

LEMMA SendKeeps ==
  ASSUME SocialInv, NEW m \in Requests, Social!Send(m)
  PROVE  SocialInv'
<1>1. PICK p \in Social!Pairs : p = Pair(m)
  BY PairsMoved DEF Social!Send
<1>2. PICK u \in Users : u = move[m].by
  BY PairsMoved DEF Social!Send
<1>3. PICK v \in Users : v = move[m].to
  BY PairsMoved DEF Social!Send
<1>4. u # v /\ p = {u, v} /\ move[m].at = "write"
  BY <1>1, <1>2, <1>3, PairsMoved DEF Social!Send
<1> DEFINE b == [status |-> "PENDING", from |-> u, actor |-> u]
<1>5. /\ bond' = [bond EXCEPT ![p] = b]
      /\ shut' = [shut EXCEPT ![u] = @ \ {v}, ![v] = @ \ {u}]
      /\ Social!Yes(u, v) /\ Social!Cross(p, m) /\ Social!Finish(m)
      /\ UNCHANGED <<strays, talk, moved>>
  BY <1>2, <1>3, <1>4 DEF Social!Send
<1>6. b \in Social!Bond
  BY DEF Social!Bond, Social!Statuses
<1>7. /\ bond' \in [Social!Pairs -> Social!Bond \union {None}] /\ bond'[p] = b
      /\ \A q \in Social!Pairs \ {p} : bond'[q] = bond[q]
  BY <1>5, <1>6 DEF SocialInv, Social!TypeOK
<1>8. shut' \in [Users -> SUBSET Users]
  BY <1>5 DEF SocialInv, Social!TypeOK
<1>9. /\ wants' \in [Users -> SUBSET Users] /\ wants'[u] = wants[u] \union {v}
      /\ \A a, c \in Users : {a, c} # p /\ c \in wants[a] => c \in wants'[a]
  BY <1>4, <1>5, SayingTypes DEF SocialInv
<1>10. /\ move' \in [Requests -> Social!Move] /\ move'[m] = Social!NoMove
       /\ \A n \in Requests \ {m} : move'[n] = move[n]
  BY <1>5, MoveTypes DEF SocialInv
<1>11. crossed' \subseteq Social!Pairs
  BY <1>5, Crossing
<1>12. Social!TypeOK'
  BY <1>5, <1>7, <1>8, <1>9, <1>10, <1>11 DEF SocialInv, Social!TypeOK
<1>13. /\ move'[m].at = "idle" /\ Asks(m)' /\ Holds(m)' /\ StillSo(m)'
  BY <1>10, RestedMove
<1>14. bond'[p] # None /\ bond'[p].status = "PENDING" /\ bond'[p].actor = u
  BY <1>6, <1>7, SocialAssumption DEF Social!ConstantsAssumption
<1>15. Wanted(u, v)' /\ Wanted(v, u)' /\ Housed(u, v)'
  <2>1. {v, u} = p /\ {u, v} = p
    BY <1>4
  <2>2. bond'[{u, v}].status = "PENDING" /\ bond'[{v, u}] = bond'[{u, v}]
        /\ bond'[{u, v}].actor = u /\ v \in wants'[u] /\ u # v
    BY <1>4, <1>9, <1>14, <2>1
  <2>3. QED
    BY <2>2 DEF Wanted, Housed
<1>17. /\ crossed \subseteq crossed' /\ talk' = talk
       /\ \A n \in Social!Midway(p) \ {m} : p \in crossed'
  BY <1>5, Crossing
<1>18. /\ Asks(m)' /\ Holds(m)' /\ (p \notin crossed' => StillSo(m)')
       /\ Pair(m) = p /\ move'[m].at = "idle" /\ bond'[p] # None
       /\ \A q \in Social!Pairs \ {p} : bond'[q] = bond[q] /\ (q \in talk => q \in talk')
       /\ \A a, c \in Users : {a, c} # p /\ c \in wants[a] => c \in wants'[a]
  BY <1>1, <1>7, <1>9, <1>13, <1>14, <1>17
<1>16. QED
  <2>1. About(m, u, v, p)
    BY <1>4, <1>10, <1>15, <1>17, <1>18 DEF About
  <2>2. QED
    BY <1>12, <2>1, SocialStep

LEMMA AcceptKeeps ==
  ASSUME SocialInv, NEW m \in Requests, Social!Accept(m)
  PROVE  SocialInv'
<1>1. PICK p \in Social!Pairs : p = Pair(m)
  BY PairsMoved DEF Social!Accept
<1>2. PICK u \in Users : u = move[m].by
  BY PairsMoved DEF Social!Accept
<1>3. PICK v \in Users : v = move[m].to
  BY PairsMoved DEF Social!Accept
<1>4. u # v /\ p = {u, v} /\ move[m].at = "write" /\ move[m].op = "accept"
  BY <1>1, <1>2, <1>3, PairsMoved DEF Social!Accept
<1>5. /\ Social!Update(m, "ACCEPTED", u) /\ Social!Yes(u, v) /\ Social!Go(m, "find")
      /\ UNCHANGED <<strays, talk, shut, moved>>
  BY <1>2, <1>3 DEF Social!Accept
<1>6. p \notin crossed => /\ move[m].held /\ bond[p] # None
                          /\ bond[p].status = "PENDING" /\ bond[p].actor = v
  BY <1>1, <1>3, <1>4 DEF SocialInv, StillSo
<1>7. /\ Social!Cross(p, m)
      /\ \A q \in Social!Pairs \ {p} : bond'[q] = bond[q]
      /\ bond' \in [Social!Pairs -> Social!Bond \union {None}]
      /\ bond'[p] # None \/ bond'[p] = bond[p]
      /\ bond[p] # None => bond'[p] # None
      /\ p \notin crossed' =>
           /\ bond'[p].status = "ACCEPTED" /\ bond'[p].actor = u /\ bond'[p] # None
  BY <1>1, <1>4, <1>5, <1>6, UpdateWritten DEF Social!Statuses
<1>8. /\ crossed \subseteq crossed' /\ crossed' \subseteq Social!Pairs
      /\ \A n \in Social!Midway(p) \ {m} : p \in crossed'
  BY <1>7, Crossing
<1>9. /\ wants' \in [Users -> SUBSET Users] /\ wants'[u] = wants[u] \union {v}
      /\ \A a \in Users : a # u => wants'[a] = wants[a]
      /\ \A a, c \in Users : {a, c} # p /\ c \in wants[a] => c \in wants'[a]
  BY <1>4, <1>5, SayingTypes DEF SocialInv
<1>10. /\ move' \in [Requests -> Social!Move] /\ move'[m].at = "find"
       /\ move'[m].by = u /\ move'[m].to = v /\ move'[m].op = "accept"
       /\ move'[m].held = move[m].held /\ Pair(m)' = p
       /\ \A n \in Requests \ {m} : move'[n] = move[n]
  BY <1>1, <1>2, <1>3, <1>4, <1>5, MoveTypes DEF SocialInv
<1>11. Social!TypeOK'
  BY <1>5, <1>7, <1>8, <1>9, <1>10 DEF SocialInv, Social!TypeOK
<1>12. Asks(m)' /\ Holds(m)' /\ (p \notin crossed' => StillSo(m)')
  <2>1. Asks(m)'
    BY <1>4, <1>10 DEF Asks
  <2>2. Holds(m)'
    BY <1>1, <1>7, <1>10 DEF SocialInv, Holds
  <2>3. p \notin crossed' => StillSo(m)'
    BY <1>6, <1>7, <1>8, <1>10 DEF StillSo
  <2>4. QED
    BY <2>1, <2>2, <2>3
<1>13. p \notin crossed' => Wanted(u, v)' /\ Wanted(v, u)' /\ Housed(u, v)'
  <2> SUFFICES ASSUME p \notin crossed' PROVE Wanted(u, v)' /\ Wanted(v, u)' /\ Housed(u, v)'
    OBVIOUS
  <2>1. {u, v} = p /\ {v, u} = p
    BY <1>4
  <2>2. u \in wants'[v] /\ v \in wants'[u]
    <3>1. Wanted(v, u)
      BY <1>4 DEF SocialInv, Bonds
    <3>2. QED
      BY <1>4, <1>6, <1>8, <1>9, <2>1, <3>1 DEF Wanted
  <2>3. m \in Social!Midway({u, v})'
    BY <1>10, <2>1 DEF Social!Midway, Pair
  <2>4. QED
    BY <2>1, <2>2, <2>3 DEF Wanted, Housed
<1>14. QED
  <2>1. About(m, u, v, p)
    BY <1>1, <1>4, <1>5, <1>7, <1>8, <1>9, <1>10, <1>12, <1>13 DEF About
  <2>2. QED
    BY <1>11, <2>1, SocialStep

LEMMA UndoKeeps ==
  ASSUME SocialInv, NEW m \in Requests, Social!Undo(m)
  PROVE  SocialInv'
<1>1. PICK p \in Social!Pairs : p = Pair(m)
  BY PairsMoved DEF Social!Undo
<1>2. PICK u \in Users : u = move[m].by
  BY PairsMoved DEF Social!Undo
<1>3. PICK v \in Users : v = move[m].to
  BY PairsMoved DEF Social!Undo
<1>4. u # v /\ p = {u, v} /\ move[m].at = "undo"
  BY <1>1, <1>2, <1>3, PairsMoved DEF Social!Undo
<1>5. /\ Social!Update(m, "PENDING", v) /\ Social!Finish(m)
      /\ UNCHANGED <<strays, talk, wants, shut, moved>>
  BY <1>3 DEF Social!Undo
<1>6. p \notin crossed => move[m].held /\ bond[p] # None /\ bond[p].status = "ACCEPTED"
  BY <1>1, <1>4 DEF SocialInv, StillSo
<1>7. /\ Social!Cross(p, m)
      /\ \A q \in Social!Pairs \ {p} : bond'[q] = bond[q]
      /\ bond' \in [Social!Pairs -> Social!Bond \union {None}]
      /\ bond'[p] # None \/ bond'[p] = bond[p]
      /\ p \notin crossed' =>
           /\ bond'[p].status = "PENDING" /\ bond'[p].actor = v /\ bond'[p] # None
  BY <1>1, <1>4, <1>5, <1>6, UpdateWritten DEF Social!Statuses
<1>8. /\ crossed \subseteq crossed' /\ crossed' \subseteq Social!Pairs
      /\ \A n \in Social!Midway(p) \ {m} : p \in crossed'
  BY <1>7, Crossing
<1>9. /\ move' \in [Requests -> Social!Move] /\ move'[m] = Social!NoMove
      /\ \A n \in Requests \ {m} : move'[n] = move[n]
  BY <1>5, MoveTypes DEF SocialInv
<1>10. Social!TypeOK'
  BY <1>5, <1>7, <1>8, <1>9 DEF SocialInv, Social!TypeOK
<1>11. move'[m].at = "idle" /\ Asks(m)' /\ Holds(m)' /\ StillSo(m)'
  BY <1>9, RestedMove
<1>12. p \notin crossed' => Wanted(u, v)' /\ Wanted(v, u)' /\ Housed(u, v)'
  <2>1. {u, v} = p /\ {v, u} = p
    BY <1>4
  <2>2. Wanted(v, u)
    BY <1>4 DEF SocialInv, Bonds
  <2>3. QED
    BY <1>4, <1>5, <1>6, <1>7, <1>8, <2>1, <2>2 DEF Wanted, Housed
<1>13. QED
  <2>1. About(m, u, v, p)
    BY <1>1, <1>4, <1>5, <1>7, <1>8, <1>9, <1>11, <1>12 DEF About
  <2>2. QED
    BY <1>10, <2>1, SocialStep

LEMMA RejectKeeps ==
  ASSUME SocialInv, NEW m \in Requests, Social!Reject(m)
  PROVE  SocialInv'
<1>1. PICK p \in Social!Pairs : p = Pair(m)
  BY PairsMoved DEF Social!Reject
<1>2. PICK u \in Users : u = move[m].by
  BY PairsMoved DEF Social!Reject
<1>3. PICK v \in Users : v = move[m].to
  BY PairsMoved DEF Social!Reject
<1>4. u # v /\ p = {u, v} /\ move[m].at = "write" /\ move[m].op = "reject"
  BY <1>1, <1>2, <1>3, PairsMoved DEF Social!Reject
<1>5. /\ Social!Update(m, "REJECTED", u) /\ Social!No(u, v) /\ Social!Finish(m)
      /\ UNCHANGED <<strays, talk, shut, moved>>
  BY <1>2, <1>3 DEF Social!Reject
<1>6. p \notin crossed => move[m].held
  BY <1>1, <1>4 DEF SocialInv, StillSo
<1>7. /\ Social!Cross(p, m)
      /\ \A q \in Social!Pairs \ {p} : bond'[q] = bond[q]
      /\ bond' \in [Social!Pairs -> Social!Bond \union {None}]
      /\ bond'[p] # None \/ bond'[p] = bond[p]
      /\ p \notin crossed' => bond'[p].status = "REJECTED"
  BY <1>1, <1>4, <1>5, <1>6, UpdateWritten DEF Social!Statuses
<1>8. /\ crossed \subseteq crossed' /\ crossed' \subseteq Social!Pairs
      /\ \A n \in Social!Midway(p) \ {m} : p \in crossed'
  BY <1>7, Crossing
<1>9. /\ move' \in [Requests -> Social!Move] /\ move'[m] = Social!NoMove
      /\ \A n \in Requests \ {m} : move'[n] = move[n]
  BY <1>5, MoveTypes DEF SocialInv
<1>10. /\ wants' \in [Users -> SUBSET Users]
       /\ \A a, c \in Users : {a, c} # p /\ c \in wants[a] => c \in wants'[a]
  BY <1>4, <1>5, SayingTypes DEF SocialInv
<1>11. Social!TypeOK'
  BY <1>5, <1>7, <1>8, <1>9, <1>10 DEF SocialInv, Social!TypeOK
<1>12. move'[m].at = "idle" /\ Asks(m)' /\ Holds(m)' /\ StillSo(m)'
  BY <1>9, RestedMove
<1>13. p \notin crossed' => Wanted(u, v)' /\ Wanted(v, u)' /\ Housed(u, v)'
  <2>1. {u, v} = p /\ {v, u} = p
    BY <1>4
  <2>2. QED
    BY <1>7, <2>1 DEF Wanted, Housed
<1>14. QED
  <2>1. About(m, u, v, p)
    BY <1>1, <1>4, <1>5, <1>7, <1>8, <1>9, <1>10, <1>12, <1>13 DEF About
  <2>2. QED
    BY <1>11, <2>1, SocialStep

\* The steps of create (rooms.service.ts) go from one place to the next.
LEMMA GoneOn ==
  ASSUME SocialInv, NEW m \in Requests, move[m].at \in {"find", "make", "undo"},
         NEW at \in {"make", "undo"}, Social!Go(m, at), UNCHANGED <<bond, crossed>>
  PROVE  /\ Asks(m)' /\ Holds(m)' /\ StillSo(m)' /\ Pair(m)' = Pair(m)
         /\ move'[m].at = at /\ move' \in [Requests -> Social!Move]
         /\ \A n \in Requests \ {m} : move'[n] = move[n]
<1>1. /\ move'[m].at = at /\ move'[m].by = move[m].by /\ move'[m].to = move[m].to
      /\ move'[m].op = move[m].op /\ move'[m].held = move[m].held
      /\ Pair(m)' = Pair(m) /\ \A n \in Requests \ {m} : move'[n] = move[n]
      /\ move' \in [Requests -> Social!Move]
  BY MoveTypes DEF SocialInv
<1>2. Asks(m) /\ Holds(m) /\ StillSo(m)
  BY DEF SocialInv
<1>3. Asks(m)' /\ Holds(m)'
  BY <1>1, <1>2 DEF Asks, Holds
<1>4. StillSo(m)'
  BY <1>1, <1>2 DEF StillSo
<1>5. QED
  BY <1>1, <1>3, <1>4

LEMMA RoomKeeps ==
  ASSUME SocialInv, NEW m \in Requests, Social!FindRoom(m) \/ Social!MakeRoom(m)
  PROVE  SocialInv'
<1>1. move[m].at \in {"find", "make", "undo"} /\ Pair(m) \in Social!Pairs
      /\ UNCHANGED <<bond, strays, wants, shut, crossed, moved>>
  BY PairsMoved DEF Social!FindRoom, Social!MakeRoom
<1>2. /\ talk \subseteq talk' /\ talk' \subseteq Social!Pairs
      /\ \/ Social!Finish(m) /\ Pair(m) \in talk'
         \/ Social!Go(m, "make") \/ Social!Go(m, "undo")
  BY <1>1 DEF SocialInv, Social!TypeOK, Social!FindRoom, Social!MakeRoom, Pair
<1>3. crossed' = crossed /\ crossed \subseteq Social!Pairs
  BY <1>1 DEF SocialInv, Social!TypeOK
<1>4. CASE Social!Finish(m) /\ Pair(m) \in talk'
  BY <1>1, <1>2, <1>3, <1>4, MoveTypes, RestedMove, QuietStep DEF SocialInv
<1>5. ASSUME NEW at \in {"make", "undo"}, Social!Go(m, at) PROVE SocialInv'
  <2>1. /\ Asks(m)' /\ Holds(m)' /\ StillSo(m)' /\ Pair(m)' = Pair(m)
        /\ move'[m].at = at /\ move' \in [Requests -> Social!Move]
        /\ \A n \in Requests \ {m} : move'[n] = move[n]
    BY <1>1, <1>5, GoneOn
  <2>2. QED
    BY <1>1, <1>2, <1>3, <2>1, QuietStep
<1>6. QED
  BY <1>2, <1>4, <1>5

LEMMA DieKeeps ==
  ASSUME SocialInv, NEW m \in Requests, Social!Die(m)
  PROVE  SocialInv'
<1>1. move[m].at # "idle" /\ Pair(m) \in Social!Pairs
  <2>1. move[m].at # "idle"
    BY DEF SocialInv, Asks, Social!Die
  <2>2. QED
    BY <2>1, PairsMoved
<1>2. crossed' = crossed \union {p \in {Pair(m)} : move[m].at # "read"}
  BY Zenon DEF Social!Die, Pair
<1>3. /\ crossed \subseteq crossed' /\ crossed' \subseteq Social!Pairs
      /\ move[m].at = "read" \/ Pair(m) \in crossed'
  BY <1>1, <1>2 DEF SocialInv, Social!TypeOK
<1>4. /\ move' \in [Requests -> Social!Move] /\ move'[m] = Social!NoMove
      /\ \A n \in Requests \ {m} : move'[n] = move[n]
      /\ UNCHANGED <<bond, strays, talk, wants, shut, moved>>
  BY MoveTypes DEF SocialInv, Social!Die
<1>5. move'[m].at = "idle" /\ Asks(m)' /\ Holds(m)' /\ StillSo(m)'
  BY <1>4, RestedMove
<1>6. talk \subseteq talk' /\ talk' \subseteq Social!Pairs
  BY <1>4 DEF SocialInv, Social!TypeOK
<1>7. QED
  BY <1>1, <1>3, <1>4, <1>5, <1>6, QuietStep

LEMMA RemoveRoomKeeps ==
  ASSUME SocialInv, NEW m \in Requests, Social!RemoveRoom(m)
  PROVE  SocialInv'
<1>1. PICK p \in Social!Pairs : p = Pair(m)
  BY PairsMoved DEF Social!RemoveRoom
<1>2. PICK u \in Users : u = move[m].by
  BY PairsMoved DEF Social!RemoveRoom
<1>3. PICK v \in Users : v = move[m].to
  BY PairsMoved DEF Social!RemoveRoom
<1>4. u # v /\ p = {u, v} /\ move[m].at = "room"
  BY <1>1, <1>2, <1>3, PairsMoved DEF Social!RemoveRoom
<1>5. /\ talk' = talk \ {p} /\ Social!Finish(m)
      /\ UNCHANGED <<bond, strays, wants, shut, crossed, moved>>
  BY <1>1 DEF Social!RemoveRoom, Pair
<1>6. p \notin crossed => bond[p] = None
  BY <1>1, <1>4 DEF SocialInv, StillSo
<1>7. /\ move' \in [Requests -> Social!Move] /\ move'[m] = Social!NoMove
      /\ \A n \in Requests \ {m} : move'[n] = move[n]
  BY <1>5, MoveTypes DEF SocialInv
<1>8. Social!TypeOK'
  BY <1>5, <1>7 DEF SocialInv, Social!TypeOK
<1>9. move'[m].at = "idle" /\ Asks(m)' /\ Holds(m)' /\ StillSo(m)'
  BY <1>7, RestedMove
<1>10. p \notin crossed' => Wanted(u, v)' /\ Wanted(v, u)' /\ Housed(u, v)'
  <2>1. {u, v} = p /\ {v, u} = p
    BY <1>4
  <2>2. QED
    BY <1>5, <1>6, <2>1 DEF Wanted, Housed
<1>11. QED
  <2>1. About(m, u, v, p)
    BY <1>1, <1>4, <1>5, <1>7, <1>9, <1>10 DEF About
  <2>2. QED
    BY <1>8, <2>1, SocialStep

\* A document is deleted: whoever is midway does not hold it any more.
LEMMA Droppings ==
  ASSUME Social!TypeOK, NEW p, NEW ms \in [Requests -> Social!Move],
         move' = Social!Dropped(p, ms)
  PROVE  /\ move' \in [Requests -> Social!Move]
         /\ \A n \in Requests :
              /\ move'[n] = ms[n] \/ n \in Social!Midway(p)
              /\ n \in Social!Midway(p) => /\ move'[n] = [ms[n] EXCEPT !.held = FALSE]
                                           /\ ~move'[n].held
                                           /\ move'[n].at = ms[n].at /\ move'[n].op = ms[n].op
                                           /\ move'[n].by = ms[n].by /\ move'[n].to = ms[n].to
<1>1. \A n \in Requests :
        move'[n] = IF n \in Social!Midway(p) THEN [ms[n] EXCEPT !.held = FALSE] ELSE ms[n]
  BY DEF Social!Dropped
<1>2. ASSUME NEW n \in Requests
      PROVE  /\ [ms[n] EXCEPT !.held = FALSE] \in Social!Move
             /\ [ms[n] EXCEPT !.held = FALSE].held = FALSE
             /\ [ms[n] EXCEPT !.held = FALSE].at = ms[n].at
             /\ [ms[n] EXCEPT !.held = FALSE].op = ms[n].op
             /\ [ms[n] EXCEPT !.held = FALSE].by = ms[n].by
             /\ [ms[n] EXCEPT !.held = FALSE].to = ms[n].to
  <2>1. ms[n] \in Social!Move
    OBVIOUS
  <2>2. QED
    BY <2>1 DEF Social!Move
<1>3. move' \in [Requests -> Social!Move]
  BY <1>1, <1>2 DEF Social!Dropped
<1>4. QED
  BY <1>1, <1>2, <1>3

LEMMA RemoveKeeps ==
  ASSUME SocialInv, NEW m \in Requests, Social!Remove(m)
  PROVE  SocialInv'
<1>1. PICK p \in Social!Pairs : p = Pair(m)
  BY PairsMoved DEF Social!Remove
<1>2. PICK u \in Users : u = move[m].by
  BY PairsMoved DEF Social!Remove
<1>3. PICK v \in Users : v = move[m].to
  BY PairsMoved DEF Social!Remove
<1>4. u # v /\ p = {u, v} /\ move[m].at = "write" /\ move[m].op = "remove"
  BY <1>1, <1>2, <1>3, PairsMoved DEF Social!Remove
<1>5. /\ Social!No(u, v) /\ Social!Cross(p, m) /\ UNCHANGED <<strays, talk, shut, moved>>
      /\ IF move[m].held
         THEN /\ bond' = [bond EXCEPT ![p] = None]
              /\ move' = Social!Dropped(p, [move EXCEPT ![m].at = "room"])
         ELSE Social!Go(m, "room") /\ UNCHANGED bond
  BY <1>1, <1>2, <1>3 DEF Social!Remove, Pair
<1>6. p \notin crossed => move[m].held
  BY <1>1, <1>4 DEF SocialInv, StillSo
<1>7. /\ crossed \subseteq crossed' /\ crossed' \subseteq Social!Pairs
      /\ \A n \in Social!Midway(p) \ {m} : p \in crossed'
  BY <1>5, Crossing
<1>8. /\ wants' \in [Users -> SUBSET Users]
      /\ \A a, c \in Users : {a, c} # p /\ c \in wants[a] => c \in wants'[a]
  BY <1>4, <1>5, SayingTypes DEF SocialInv
<1>9. /\ move' \in [Requests -> Social!Move]
      /\ move'[m].at = "room" /\ move'[m].op = "remove" /\ ~move'[m].held
      /\ move'[m].by = u /\ move'[m].to = v
      /\ \A n \in Requests \ {m} :
           \/ move'[n] = move[n]
           \/ n \in Social!Midway(p) /\ move'[n] = [move[n] EXCEPT !.held = FALSE]
      /\ move[m].held => \A n \in Social!Midway(p) \ {m} : ~move'[n].held
  <2>1. CASE ~move[m].held
    BY <1>2, <1>3, <1>4, <1>5, <2>1, MoveTypes DEF SocialInv
  <2>2. CASE move[m].held
    <3>1. move[m] \in Social!Move /\ m \in Social!Midway(p)
      BY <1>1, <1>4 DEF SocialInv, Social!TypeOK, Social!Midway, Pair
    <3>2. PICK q \in Social!Move : q = [move[m] EXCEPT !.at = "room"]
      BY <3>1 DEF Social!Move
    <3>3. q.at = "room" /\ q.op = "remove" /\ q.by = u /\ q.to = v
      BY <1>2, <1>3, <1>4, <3>1, <3>2 DEF Social!Move
    <3>4. PICK ms \in [Requests -> Social!Move] : ms = [move EXCEPT ![m] = q]
      BY DEF SocialInv, Social!TypeOK
    <3>5. ms = [move EXCEPT ![m].at = "room"] /\ ms[m] = q
          /\ \A n \in Requests \ {m} : ms[n] = move[n]
      BY <3>2, <3>4 DEF SocialInv, Social!TypeOK
    <3>6. move' = Social!Dropped(p, ms)
      BY <1>5, <2>2, <3>5
    <3>7. /\ move' \in [Requests -> Social!Move]
          /\ \A n \in Requests :
              /\ move'[n] = ms[n] \/ n \in Social!Midway(p)
              /\ n \in Social!Midway(p) => /\ move'[n] = [ms[n] EXCEPT !.held = FALSE]
                                           /\ ~move'[n].held
                                           /\ move'[n].at = ms[n].at /\ move'[n].op = ms[n].op
                                           /\ move'[n].by = ms[n].by /\ move'[n].to = ms[n].to
      BY <3>6, Droppings DEF SocialInv
    <3>8. Social!Midway(p) \subseteq Requests
      BY DEF Social!Midway
    <3>9. QED
      BY <3>1, <3>3, <3>5, <3>7, <3>8
  <2>3. QED
    BY <2>1, <2>2
<1>10. /\ bond' \in [Social!Pairs -> Social!Bond \union {None}]
       /\ \A q \in Social!Pairs \ {p} : bond'[q] = bond[q]
       /\ move[m].held => bond'[p] = None
       /\ ~move[m].held => bond'[p] = bond[p]
  BY <1>5 DEF SocialInv, Social!TypeOK
<1>11. Social!TypeOK'
  BY <1>5, <1>7, <1>8, <1>9, <1>10 DEF SocialInv, Social!TypeOK
<1>12. /\ Asks(m)' /\ Holds(m)' /\ (p \notin crossed' => StillSo(m)') /\ Pair(m)' = p
  <2>1. Asks(m)'
    BY <1>4, <1>9 DEF Asks
  <2>2. Holds(m)'
    BY <1>9 DEF Holds
  <2>3. Pair(m)' = p
    BY <1>4, <1>9 DEF Pair, Social!PairOf
  <2>4. p \notin crossed' => StillSo(m)'
    BY <1>6, <1>7, <1>9, <1>10, <2>3 DEF StillSo
  <2>5. QED
    BY <2>1, <2>2, <2>3, <2>4
<1>13. p \notin crossed' => Wanted(u, v)' /\ Wanted(v, u)' /\ Housed(u, v)'
  <2>1. {u, v} = p /\ {v, u} = p
    BY <1>4
  <2>2. QED
    BY <1>6, <1>7, <1>10, <2>1 DEF Wanted, Housed
<1>14. QED
  <2>1. About(m, u, v, p)
    BY <1>1, <1>4, <1>5, <1>7, <1>8, <1>9, <1>10, <1>12, <1>13 DEF About
  <2>2. QED
    BY <1>11, <2>1, SocialStep

LEMMA BlockKeeps ==
  ASSUME SocialInv, NEW u \in Users, NEW v \in Users, Social!Block(u, v)
  PROVE  SocialInv'
<1>1. PICK p \in Social!Pairs : p = {u, v} /\ u # v
  BY PairIs DEF Social!Block
<1>2. /\ moved < MaxMoved /\ moved' = moved + 1
      /\ shut' = [shut EXCEPT ![u] = @ \union {v}]
      /\ Social!No(u, v) /\ Social!Cross(p, None) /\ UNCHANGED <<talk, move>>
  BY <1>1 DEF Social!Block
<1>3. /\ bond' \in [Social!Pairs -> Social!Bond \union {None}] /\ strays' \subseteq Users
      /\ \A q \in Social!Pairs \ {p} : bond'[q] = bond[q]
      /\ bond'[p] = None \/ bond'[p].status = "BLOCKED"
      /\ bond'[p] # None \/ bond'[p] = bond[p]
  <2>1. CASE bond[p] = None
    BY <1>1, <2>1 DEF Social!Block, SocialInv, Social!TypeOK
  <2>2. CASE bond[p] # None
    <3> DEFINE c == [[bond[p] EXCEPT !.status = "BLOCKED"] EXCEPT !.actor = u]
    <3>1. bond[p] \in Social!Bond
      BY <2>2 DEF SocialInv, Social!TypeOK
    <3>2. c \in Social!Bond /\ c.status = "BLOCKED"
      BY <3>1 DEF Social!Bond, Social!Statuses
    <3>3. c # None
      BY <3>2, SocialAssumption DEF Social!ConstantsAssumption
    <3>4. bond' = [bond EXCEPT ![p].status = "BLOCKED", ![p].actor = u] /\ UNCHANGED strays
      BY <1>1, <2>2 DEF Social!Block
    <3>5. bond' = [bond EXCEPT ![p] = c]
      BY <3>4 DEF SocialInv, Social!TypeOK
    <3>6. QED
      BY <3>2, <3>3, <3>4, <3>5 DEF SocialInv, Social!TypeOK
  <2>3. QED
    BY <2>1, <2>2
<1>4. /\ wants' \in [Users -> SUBSET Users]
      /\ \A a, c \in Users : {a, c} # p /\ c \in wants[a] => c \in wants'[a]
  BY <1>1, <1>2, SayingTypes DEF SocialInv
<1>5. moved' \in 0..MaxMoved
  BY <1>2, SocialAssumption DEF SocialInv, Social!TypeOK, Social!ConstantsAssumption
<1>6. shut' \in [Users -> SUBSET Users]
  BY <1>2 DEF SocialInv, Social!TypeOK
<1>7. /\ crossed \subseteq crossed' /\ crossed' \subseteq Social!Pairs
      /\ \A n \in Social!Midway(p) \ {None} : p \in crossed'
  BY <1>2, Crossing
<1>8. Social!TypeOK'
  BY <1>2, <1>3, <1>4, <1>5, <1>6, <1>7 DEF SocialInv, Social!TypeOK
<1>9. Wanted(u, v)' /\ Wanted(v, u)' /\ Housed(u, v)'
  <2>1. {u, v} = p /\ {v, u} = p
    BY <1>1
  <2>2. QED
    BY <1>3, <2>1 DEF Wanted, Housed
<1>10. QED
  <2>1. None \notin Requests
    BY SocialAssumption DEF Social!ConstantsAssumption
  <2>2. About(None, u, v, p)
    BY <1>1, <1>2, <1>3, <1>4, <1>7, <1>9, <2>1 DEF About
  <2>3. QED
    BY <1>8, <2>2, SocialStep

LEMMA OpenKeeps ==
  ASSUME SocialInv, NEW u \in Users, NEW v \in Users, Social!OpenBlocked(u, v)
  PROVE  SocialInv'
<1>1. PICK p \in Social!Pairs : p = {u, v} /\ u # v
  BY PairIs DEF Social!OpenBlocked
<1>2. /\ bond' = [bond EXCEPT ![p] = None]
      /\ move' = Social!Dropped(p, move)
      /\ shut' = [shut EXCEPT ![u] = @ \ {v}]
      /\ Social!Cross(p, None)
      /\ UNCHANGED <<strays, talk, wants, moved>>
  BY <1>1 DEF Social!OpenBlocked
<1>3. /\ bond' \in [Social!Pairs -> Social!Bond \union {None}] /\ bond'[p] = None
      /\ \A q \in Social!Pairs \ {p} : bond'[q] = bond[q]
      /\ shut' \in [Users -> SUBSET Users]
  BY <1>2 DEF SocialInv, Social!TypeOK
<1>4. move \in [Requests -> Social!Move]
  BY DEF SocialInv, Social!TypeOK
<1>5. /\ move' \in [Requests -> Social!Move]
      /\ \A n \in Requests :
           /\ move'[n] = move[n] \/ n \in Social!Midway(p)
           /\ n \in Social!Midway(p) => /\ move'[n] = [move[n] EXCEPT !.held = FALSE]
                                        /\ ~move'[n].held
  BY <1>2, <1>4, Droppings DEF SocialInv
<1>6. /\ crossed \subseteq crossed' /\ crossed' \subseteq Social!Pairs
      /\ \A n \in Social!Midway(p) \ {None} : p \in crossed'
  BY <1>2, Crossing
<1>7. Social!TypeOK'
  BY <1>2, <1>3, <1>5, <1>6 DEF SocialInv, Social!TypeOK
<1>8. Wanted(u, v)' /\ Wanted(v, u)' /\ Housed(u, v)'
  <2>1. {u, v} = p /\ {v, u} = p
    BY <1>1
  <2>2. QED
    BY <1>3, <2>1 DEF Wanted, Housed
<1>9. QED
  <2>1. None \notin Requests /\ Social!Midway(p) \subseteq Requests
    BY SocialAssumption DEF Social!ConstantsAssumption, Social!Midway
  <2>2. About(None, u, v, p)
    BY <1>1, <1>2, <1>3, <1>5, <1>6, <1>8, <2>1 DEF About
  <2>3. QED
    BY <1>7, <2>2, SocialStep

LEMMA SocialInit == Social!Init => SocialInv
<1> SUFFICES ASSUME Social!Init PROVE SocialInv
  OBVIOUS
<1>1. Social!NoMove \in Social!Move
  BY DEF Social!NoMove, Social!Move
<1>2. Social!TypeOK
  BY <1>1, SocialAssumption DEF Social!Init, Social!TypeOK, Social!ConstantsAssumption
<1>3. \A m \in Requests : Asks(m) /\ Holds(m) /\ StillSo(m)
  BY DEF Social!Init, Asks, Holds, StillSo, Social!NoMove
<1>4. Bonds
  <2> SUFFICES ASSUME NEW u \in Users, NEW v \in Users, u # v
               PROVE  Wanted(u, v) /\ Housed(u, v)
    BY DEF Bonds
  <2>1. bond[{u, v}] = None
    BY PairIs DEF Social!Init
  <2>2. QED
    BY <2>1 DEF Wanted, Housed
<1>5. QED
  BY <1>2, <1>3, <1>4 DEF SocialInv

LEMMA SocialNext == SocialInv /\ [Social!Next]_social => SocialInv'
<1> SUFFICES ASSUME SocialInv, [Social!Next]_social PROVE SocialInv'
  OBVIOUS
<1>1. CASE UNCHANGED social
  <2>1. Social!TypeOK'
    BY <1>1 DEF social, SocialInv, Social!TypeOK
  <2>2. \A m \in Requests : Asks(m)' /\ Holds(m)' /\ StillSo(m)'
    BY <1>1 DEF social, SocialInv, Asks, Holds, StillSo, Pair, Social!PairOf
  <2>3. ASSUME NEW u \in Users, NEW v \in Users, u # v PROVE Wanted(u, v)' /\ Housed(u, v)'
    <3>1. Wanted(u, v) /\ Housed(u, v)
      BY <2>3 DEF SocialInv, Bonds
    <3>2. Social!Midway({u, v})' = Social!Midway({u, v})
      BY <1>1 DEF social, Social!Midway, Social!PairOf
    <3>3. QED
      BY <1>1, <3>1, <3>2 DEF social, Wanted, Housed
  <2>4. QED
    BY <2>1, <2>2, <2>3 DEF SocialInv, Bonds
<1>2. ASSUME NEW m \in Requests, NEW op \in {"send", "accept", "reject", "remove"},
             NEW u \in Users, NEW v \in Users, Social!Begin(m, op, u, v)
      PROVE  SocialInv'
  BY <1>2, BeginKeeps
<1>3. ASSUME NEW m \in Requests,
             \/ Social!Read(m) \/ Social!Send(m) \/ Social!Accept(m) \/ Social!FindRoom(m)
             \/ Social!MakeRoom(m) \/ Social!Undo(m) \/ Social!Reject(m) \/ Social!Remove(m)
             \/ Social!RemoveRoom(m) \/ Social!Die(m)
      PROVE  SocialInv'
  BY <1>3, ReadKeeps, SendKeeps, AcceptKeeps, RoomKeeps, UndoKeeps, RejectKeeps, RemoveKeeps,
     RemoveRoomKeeps, DieKeeps
<1>4. ASSUME NEW u \in Users, NEW v \in Users, Social!Block(u, v) \/ Social!OpenBlocked(u, v)
      PROVE  SocialInv'
  BY <1>4, BlockKeeps, OpenKeeps
<1>5. QED
  BY <1>1, <1>2, <1>3, <1>4 DEF Social!Next

\* Whatever requests cross each other, fail or die: friends both said yes, neither said no
\* since, and they have their private room (acceptFriendRequest with its rollback,
\* social.service.ts:179-272), unless two requests about the pair crossed, or one is midway.
THEOREM FriendsSaidYes == AllSpec => []FriendsAgree
<1> DEFINE Inv == part = "social" => SocialInv
<1>1. AllInit => Inv
  BY SocialInit DEF AllInit
<1>2. Inv /\ [AllNext]_allVars => Inv'
  BY SocialNext DEF AllNext, allVars, social
<1>3. Inv => FriendsAgree
  <2> SUFFICES ASSUME SocialInv
               PROVE  Social!TypeOK /\ Social!Consent /\ Social!AcceptedHaveRoom
    BY DEF FriendsAgree
  <2>1. ASSUME NEW u \in Users, NEW v \in Social!Friends(u)
        PROVE  /\ v \in wants[u] \/ {u, v} \in crossed
               /\ {u, v} \in talk \/ {u, v} \in crossed \/ Social!Midway({u, v}) # {}
    <3>1. v \in Users /\ u # v /\ bond[{u, v}] # None /\ bond[{u, v}].status = "ACCEPTED"
      BY DEF Social!Friends, Social!Related
    <3>2. Wanted(u, v) /\ Housed(u, v)
      BY <3>1 DEF SocialInv, Bonds
    <3>3. QED
      BY <3>1, <3>2 DEF Wanted, Housed
  <2>2. QED
    BY <2>1 DEF SocialInv, Social!Consent, Social!AcceptedHaveRoom
<1>4. QED
  BY <1>1, <1>2, <1>3, PTL DEF AllSpec

-------------------------------------------------------------------------------
(* EntityCache *)

\* A copy of the current document that nothing happened to; one that only aged.
Clean(c) == ~c.old /\ ~c.risky
Aging(c) == c.old /\ ~c.risky

\* What a lookup carries, a document's writer, and what an invalidation deals with.
Looks(i) ==
  LET r == load[i] IN
  /\ r.pc # "idle" => r.key \in Keys /\ r.doc \in Docs
  /\ r.pc \notin {"set", "index", "fill"} => r.copy = None
  /\ r.pc # "index" => r.todo = {}
  /\ r.pc = "set" => r.copy # None /\ r.copy.doc = r.doc

Writes(i) ==
  \A f \in Fields :
    LET a == inv[i].at[f] IN
    /\ a.pc # "idle" => inv[i].doc \in Docs
    /\ a.todo \subseteq a.keys
    /\ a.pc = "read" => a.keys = {}

\* Some lookup is about to record key k for document d under id f.
Recording(k, d, f) ==
  \E i \in Clients : load[i].pc = "index" /\ load[i].key = k /\ load[i].doc = d
                       /\ f \in load[i].todo

\* d is not being written, and an invalidation of d will find k.
Untouched(k, d) ==
  ~Cache!Busy(d) /\ \A f \in Fields : k \in idx[d][f] \/ Recording(k, d, f)

\* The invalidations of d are all about to read the ids, under which k is.
WillRead(k, d) ==
  /\ Cache!Busy(d)
  /\ \A f \in Fields :
       /\ k \in idx[d][f]
       /\ \A i \in Clients : inv[i].doc = d => inv[i].at[f].pc = "read"

\* ... or are about to delete k.
WillDelete(k, d) ==
  /\ Cache!Busy(d)
  /\ \A f \in Fields :
       /\ k \in idx[d][f]
       /\ \A i \in Clients : inv[i].doc = d =>
            \/ inv[i].at[f].pc = "read"
            \/ inv[i].at[f].pc = "delete" /\ k \in inv[i].at[f].todo

\* One of them will drop k from the L1 of j, or tell j to.
WillDrop(j, k, d) ==
  \E i \in Clients, f \in Fields :
    /\ inv[i].doc = d /\ k \in inv[i].at[f].keys
    /\ \/ inv[i].at[f].pc = "delete"
       \/ inv[i].at[f].pc \in {"unindex", "publish"} /\ i # j

\* Copy c under key k: of L2, of the L1 of j, on its way through the lookup of i.
Second(k, c) ==
  /\ Clean(c) => Untouched(k, c.doc)
  /\ Aging(c) => WillDelete(k, c.doc)

First(j, k, c) ==
  /\ Clean(c) => Untouched(k, c.doc)
  /\ Aging(c) => k \in inbox[j] \/ WillDrop(j, k, c.doc) \/ WillRead(k, c.doc)

Carried(i, k, c) ==
  /\ Clean(c) => ~Cache!Busy(c.doc)
  /\ Clean(c) /\ load[i].pc \in {"index", "fill"} => Untouched(k, c.doc)
  /\ ~Aging(c)

CacheInv ==
  /\ Cache!TypeOK
  /\ \A i \in Clients : Looks(i) /\ Writes(i)
  /\ \A k \in Keys, c \in Cache!Copy :
       /\ l2[k] = c => Second(k, c)
       /\ \A j \in Clients :
            /\ l1[j][k] = c => First(j, k, c)
            /\ load[j].key = k /\ load[j].copy = c => Carried(j, k, c)

\* Where the entries and what they say are.
LEMMA CacheTypes ==
  ASSUME Cache!TypeOK
  PROVE  /\ None \notin Cache!Copy /\ None \notin Docs
         /\ \A k \in Keys : l2[k] \in Cache!Entry
         /\ \A j \in Clients, k \in Keys : l1[j][k] \in Cache!Entry
         /\ \A i \in Clients : load[i] \in Cache!ReadState
         /\ \A c \in Cache!Copy : c.doc \in Docs /\ c.old \in BOOLEAN /\ c.risky \in BOOLEAN
<1>1. None \notin Cache!Copy /\ None \notin Docs
  BY CacheAssumption DEF Cache!ConstantsAssumption
<1>2. /\ \A k \in Keys : l2[k] \in Cache!Entry
      /\ \A j \in Clients, k \in Keys : l1[j][k] \in Cache!Entry
      /\ \A i \in Clients : load[i] \in Cache!ReadState
  BY DEF Cache!TypeOK
<1>3. \A c \in Cache!Copy : c.doc \in Docs /\ c.old \in BOOLEAN /\ c.risky \in BOOLEAN
  BY DEF Cache!Copy
<1>4. QED
  BY <1>1, <1>2, <1>3

LEMMA RiskTypes ==
  ASSUME Cache!TypeOK, NEW c \in Cache!Entry
  PROVE  /\ Cache!Risk(c) \in Cache!Entry
         /\ c = None => Cache!Risk(c) = None
         /\ c # None => /\ Cache!Risk(c) # None /\ Cache!Risk(c).risky
                        /\ Cache!Risk(c).doc = c.doc
<1>1. CASE c = None
  BY <1>1 DEF Cache!Risk, Cache!Entry
<1>2. CASE c # None
  <2>1. c \in Cache!Copy
    BY <1>2 DEF Cache!Entry
  <2>2. [c EXCEPT !.risky = TRUE] \in Cache!Copy
    BY <2>1 DEF Cache!Copy
  <2>3. [c EXCEPT !.risky = TRUE].risky /\ [c EXCEPT !.risky = TRUE].doc = c.doc
    BY <2>1 DEF Cache!Copy
  <2>4. QED
    BY <1>2, <2>2, <2>3, CacheTypes DEF Cache!Risk, Cache!Entry
<1>3. QED
  BY <1>1, <1>2

\* A risky copy promises nothing.
LEMMA RiskyServes ==
  ASSUME NEW k, NEW j, NEW c, c.risky
  PROVE  Second(k, c)' /\ First(j, k, c)' /\ Carried(j, k, c)'
  BY DEF Second, First, Carried, Clean, Aging

\* Steps that only take copies away or make them risky: the subscriber's, and time's.
LEMMA FadingKeeps ==
  ASSUME CacheInv, Cache!TypeOK', UNCHANGED <<idx, load, inv>>,
         \A k \in Keys : l2'[k] = l2[k] \/ l2'[k] = None \/ l2'[k].risky,
         \A j \in Clients, k \in Keys :
           \/ l1'[j][k] = None \/ l1'[j][k].risky
           \/ l1'[j][k] = l1[j][k] /\ (k \in inbox[j] => k \in inbox'[j])
  PROVE  CacheInv'
<1>1. \A i \in Clients : Looks(i)' /\ Writes(i)'
  BY DEF CacheInv, Looks, Writes
<1>2. \A d : Cache!Busy(d)' <=> Cache!Busy(d)
  BY DEF Cache!Busy
<1>3. \A k, d : /\ Untouched(k, d)' <=> Untouched(k, d)
                /\ WillRead(k, d)' <=> WillRead(k, d)
                /\ WillDelete(k, d)' <=> WillDelete(k, d)
                /\ \A j : WillDrop(j, k, d)' <=> WillDrop(j, k, d)
  BY <1>2 DEF Untouched, Recording, WillRead, WillDelete, WillDrop
<1>4. ASSUME NEW k \in Keys, NEW c \in Cache!Copy, l2'[k] = c
      PROVE  Second(k, c)'
  <2>1. CASE c.risky
    BY <2>1, RiskyServes
  <2>2. CASE ~c.risky
    <3>1. Second(k, c)
      BY <1>4, <2>2, CacheTypes DEF CacheInv
    <3>2. QED
      BY <3>1, <1>3 DEF Second
  <2>3. QED
    BY <2>1, <2>2
<1>5. ASSUME NEW k \in Keys, NEW c \in Cache!Copy, NEW j \in Clients, l1'[j][k] = c
      PROVE  First(j, k, c)'
  <2>1. CASE c.risky
    BY <2>1, RiskyServes
  <2>2. CASE ~c.risky
    <3>1. First(j, k, c) /\ (k \in inbox[j] => k \in inbox'[j])
      BY <1>5, <2>2, CacheTypes DEF CacheInv
    <3>2. QED
      BY <3>1, <1>3 DEF First
  <2>3. QED
    BY <2>1, <2>2
<1>6. ASSUME NEW k \in Keys, NEW c \in Cache!Copy, NEW j \in Clients,
             load'[j].key = k, load'[j].copy = c
      PROVE  Carried(j, k, c)'
  <2>1. Carried(j, k, c)
    BY <1>6 DEF CacheInv
  <2>2. QED
    BY <2>1, <1>2, <1>3 DEF Carried
<1>7. QED
  BY <1>1, <1>4, <1>5, <1>6 DEF CacheInv

LEMMA SubscriberKeeps ==
  ASSUME CacheInv, NEW i \in Clients,
         \/ Cache!DropFromL1(i) \/ Cache!Unlink(i) \/ Cache!FlushL1(i) \/ Cache!Resubscribe(i)
  PROVE  CacheInv'
<1>1. CASE Cache!DropFromL1(i)
  <2>1. /\ l1' = [l1 EXCEPT ![i] = [k \in Keys |-> IF k \in inbox[i] THEN None
                                                   ELSE l1[i][k]]]
        /\ inbox' = [inbox EXCEPT ![i] = {}]
        /\ UNCHANGED <<l2, idx, link, load, inv, writes>>
    BY <1>1 DEF Cache!DropFromL1, CacheInv, Cache!TypeOK
  <2>2. Cache!TypeOK'
    BY <2>1 DEF CacheInv, Cache!TypeOK, Cache!Entry
  <2>3. \A j \in Clients, k \in Keys :
          l1'[j][k] = None \/ (l1'[j][k] = l1[j][k] /\ (k \in inbox[j] => k \in inbox'[j]))
    BY <2>1 DEF CacheInv, Cache!TypeOK
  <2>4. QED
    BY <2>1, <2>2, <2>3, FadingKeeps
<1>2. CASE Cache!Unlink(i)
  <2>1. /\ l1' = [l1 EXCEPT ![i] = [k \in Keys |-> IF k \in inbox[i] THEN Cache!Risk(l1[i][k])
                                                   ELSE l1[i][k]]]
        /\ inbox' = [inbox EXCEPT ![i] = {}] /\ link' = [link EXCEPT ![i] = "down"]
        /\ UNCHANGED <<l2, idx, load, inv, writes>>
    BY <1>2 DEF Cache!Unlink, CacheInv, Cache!TypeOK
  <2>2. \A k \in Keys : /\ l1[i][k] \in Cache!Entry /\ Cache!Risk(l1[i][k]) \in Cache!Entry
                        /\ Cache!Risk(l1[i][k]) = None \/ Cache!Risk(l1[i][k]).risky
    BY CacheTypes, RiskTypes DEF CacheInv
  <2>3. Cache!TypeOK'
    BY <2>1, <2>2 DEF CacheInv, Cache!TypeOK
  <2>4. \A j \in Clients, k \in Keys :
          \/ l1'[j][k] = None \/ l1'[j][k].risky
          \/ (l1'[j][k] = l1[j][k] /\ (k \in inbox[j] => k \in inbox'[j]))
    BY <2>1, <2>2 DEF CacheInv, Cache!TypeOK
  <2>5. QED
    BY <2>1, <2>3, <2>4, FadingKeeps
<1>3. CASE Cache!FlushL1(i)
  <2>1. /\ l1' = [l1 EXCEPT ![i] = [k \in Keys |-> None]] /\ link' = [link EXCEPT ![i] = "ready"]
        /\ UNCHANGED <<l2, idx, inbox, load, inv, writes>>
    BY <1>3 DEF Cache!FlushL1
  <2>2. Cache!TypeOK'
    BY <2>1 DEF CacheInv, Cache!TypeOK, Cache!Entry
  <2>3. \A j \in Clients, k \in Keys :
          l1'[j][k] = None \/ (l1'[j][k] = l1[j][k] /\ (k \in inbox[j] => k \in inbox'[j]))
    BY <2>1 DEF CacheInv, Cache!TypeOK
  <2>4. QED
    BY <2>1, <2>2, <2>3, FadingKeeps
<1>4. CASE Cache!Resubscribe(i)
  <2>1. link' = [link EXCEPT ![i] = "up"] /\ UNCHANGED <<l1, l2, idx, inbox, load, inv, writes>>
    BY <1>4 DEF Cache!Resubscribe
  <2>2. Cache!TypeOK'
    BY <2>1 DEF CacheInv, Cache!TypeOK
  <2>3. QED
    BY <2>1, <2>2, FadingKeeps
<1>5. QED
  BY <1>1, <1>2, <1>3, <1>4

LEMMA ExpiryKeeps ==
  ASSUME CacheInv, NEW k \in Keys, Cache!ExpireL2(k) \/ \E i \in Clients : Cache!ExpireL1(i, k)
  PROVE  CacheInv'
<1>1. CASE Cache!ExpireL2(k)
  <2>1. l2' = [l2 EXCEPT ![k] = None] /\ UNCHANGED <<l1, load, idx, inbox, link, inv, writes>>
    BY <1>1 DEF Cache!ExpireL2, Cache!Unmoved
  <2>2. Cache!TypeOK'
    BY <2>1 DEF CacheInv, Cache!TypeOK, Cache!Entry
  <2>3. \A n \in Keys : l2'[n] = l2[n] \/ l2'[n] = None
    BY <2>1 DEF CacheInv, Cache!TypeOK
  <2>4. QED
    BY <2>1, <2>2, <2>3, FadingKeeps
<1>2. ASSUME NEW i \in Clients, Cache!ExpireL1(i, k) PROVE CacheInv'
  <2>1. /\ l1' = [l1 EXCEPT ![i] = [l1[i] EXCEPT ![k] = None]]
        /\ UNCHANGED <<l2, load, idx, inbox, link, inv, writes>>
    BY <1>2 DEF Cache!ExpireL1, Cache!Unmoved, CacheInv, Cache!TypeOK
  <2>2. Cache!TypeOK'
    BY <2>1 DEF CacheInv, Cache!TypeOK, Cache!Entry
  <2>3. \A j \in Clients, n \in Keys : l1'[j][n] = None \/ l1'[j][n] = l1[j][n]
    BY <2>1 DEF CacheInv, Cache!TypeOK
  <2>4. QED
    BY <2>1, <2>2, <2>3, FadingKeeps
<1>3. QED
  BY <1>1, <1>2

\* Every copy under k is risky.
Spoilt(k) ==
  /\ l2[k] = None \/ l2[k].risky
  /\ \A j \in Clients : l1[j][k] = None \/ l1[j][k].risky
  /\ \A n \in Clients : load[n].key = k => load[n].copy = None \/ load[n].copy.risky

\* A step of i's lookup: what it was about to record it still is, or has, or else every
\* copy is risky by now; and new copies keep what copies promise.
LookupStep(i) ==
  /\ \A n \in Clients : Looks(n)'
  /\ \A n \in Clients \ {i} :
       /\ load'[n].pc = load[n].pc /\ load'[n].key = load[n].key /\ load'[n].doc = load[n].doc
       /\ load'[n].todo = load[n].todo
       /\ load'[n].copy = load[n].copy \/ load'[n].copy = None \/ load'[n].copy.risky
  /\ \A d \in Docs, f \in Fields : idx[d][f] \subseteq idx'[d][f]
  /\ \A k \in Keys, f \in load[i].todo : load[i].pc = "index" /\ load[i].key = k =>
       \/ /\ load'[i].pc = "index" /\ load'[i].key = k /\ load'[i].doc = load[i].doc
          /\ f \in load'[i].todo
       \/ k \in idx'[load[i].doc][f]
       \/ Spoilt(k)'
  /\ \A k \in Keys, c \in Cache!Copy : l2'[k] = c => l2[k] = c \/ c.risky \/ Second(k, c)'
  /\ \A j \in Clients, k \in Keys, c \in Cache!Copy :
       l1'[j][k] = c => l1[j][k] = c \/ c.risky \/ First(j, k, c)'
  /\ \A k \in Keys, c \in Cache!Copy :
       load'[i].key = k /\ load'[i].copy = c => Carried(i, k, c)'

LEMMA LookupFrame ==
  ASSUME CacheInv, NEW i \in Clients, LookupStep(i), UNCHANGED <<inbox, inv>>
  PROVE  /\ \A d : Cache!Busy(d)' <=> Cache!Busy(d)
         /\ \A k \in Keys, d \in Docs :
              /\ Untouched(k, d) => Untouched(k, d)' \/ Spoilt(k)'
              /\ WillRead(k, d) => WillRead(k, d)'
              /\ WillDelete(k, d) => WillDelete(k, d)'
              /\ \A j : WillDrop(j, k, d) => WillDrop(j, k, d)'
<1>1. \A d : Cache!Busy(d)' <=> Cache!Busy(d)
  BY DEF Cache!Busy
<1>2. \A d \in Docs, f \in Fields : idx[d][f] \subseteq idx'[d][f]
  BY DEF LookupStep
<1>3. ASSUME NEW k \in Keys, NEW d \in Docs, Untouched(k, d), ~Spoilt(k)'
      PROVE  Untouched(k, d)'
  <2> SUFFICES ASSUME NEW f \in Fields, k \notin idx'[d][f]
               PROVE  \E n \in Clients : /\ load'[n].pc = "index" /\ load'[n].key = k
                                         /\ load'[n].doc = d /\ f \in load'[n].todo
    BY <1>1, <1>3 DEF Untouched, Recording
  <2>1. k \notin idx[d][f]
    BY <1>2
  <2>2. PICK n \in Clients : /\ load[n].pc = "index" /\ load[n].key = k /\ load[n].doc = d
                             /\ f \in load[n].todo
    BY <1>3, <2>1 DEF Untouched, Recording
  <2>3. CASE n # i
    BY <2>2, <2>3 DEF LookupStep
  <2>4. CASE n = i
    <3>1. \/ /\ load'[i].pc = "index" /\ load'[i].key = k
             /\ load'[i].doc = load[i].doc /\ f \in load'[i].todo
          \/ k \in idx'[load[i].doc][f]
          \/ Spoilt(k)'
      BY <2>2, <2>4 DEF LookupStep
    <3>2. load[i].doc = d
      BY <2>2, <2>4
    <3>3. QED
      BY <1>3, <2>4, <3>1, <3>2
  <2>5. QED
    BY <2>3, <2>4
<1>4. ASSUME NEW k \in Keys, NEW d \in Docs
      PROVE  /\ WillRead(k, d) => WillRead(k, d)'
             /\ WillDelete(k, d) => WillDelete(k, d)'
             /\ \A j : WillDrop(j, k, d) => WillDrop(j, k, d)'
  BY <1>1, <1>2 DEF WillRead, WillDelete, WillDrop
<1>5. QED
  BY <1>1, <1>3, <1>4

LEMMA LookupKeeps ==
  ASSUME CacheInv, Cache!TypeOK', NEW i \in Clients, LookupStep(i), UNCHANGED <<inbox, inv>>
  PROVE  CacheInv'
<1>1. \A n \in Clients : Looks(n)' /\ Writes(n)'
  BY DEF CacheInv, Writes, LookupStep
<1>2. ASSUME NEW k \in Keys, NEW c \in Cache!Copy, l2'[k] = c
      PROVE  Second(k, c)'
  <2>1. c.doc \in Docs /\ c # None
    BY CacheTypes DEF CacheInv
  <2>2. CASE c.risky
    BY <2>2, RiskyServes
  <2>3. CASE l2[k] = c /\ ~c.risky
    <3>1. Second(k, c) /\ ~Spoilt(k)'
      BY <1>2, <2>1, <2>3 DEF CacheInv, Spoilt
    <3>2. QED
      BY <2>1, <3>1, LookupFrame DEF Second
  <2>4. QED
    BY <1>2, <2>2, <2>3 DEF LookupStep
<1>3. ASSUME NEW j \in Clients, NEW k \in Keys, NEW c \in Cache!Copy, l1'[j][k] = c
      PROVE  First(j, k, c)'
  <2>1. c.doc \in Docs /\ c # None
    BY CacheTypes DEF CacheInv
  <2>2. CASE c.risky
    BY <2>2, RiskyServes
  <2>3. CASE l1[j][k] = c /\ ~c.risky
    <3>1. First(j, k, c) /\ ~Spoilt(k)'
      BY <1>3, <2>1, <2>3 DEF CacheInv, Spoilt
    <3>2. QED
      BY <2>1, <3>1, LookupFrame DEF First
  <2>4. QED
    BY <1>3, <2>2, <2>3 DEF LookupStep
<1>4. ASSUME NEW j \in Clients, NEW k \in Keys, NEW c \in Cache!Copy,
             load'[j].key = k, load'[j].copy = c
      PROVE  Carried(j, k, c)'
  <2>1. c.doc \in Docs /\ c # None
    BY CacheTypes DEF CacheInv
  <2>2. CASE j = i
    BY <1>4, <2>2 DEF LookupStep
  <2>3. CASE c.risky
    BY <2>3, RiskyServes
  <2>4. CASE j # i /\ ~c.risky
    <3>1. load[j].key = k /\ load[j].copy = c /\ load'[j].pc = load[j].pc
      BY <1>4, <2>1, <2>4 DEF LookupStep
    <3>2. Carried(j, k, c)
      BY <3>1 DEF CacheInv
    <3>3. ~Spoilt(k)'
      BY <1>4, <2>1, <2>4 DEF Spoilt
    <3>4. QED
      BY <2>1, <3>1, <3>2, <3>3, LookupFrame DEF Carried
  <2>5. QED
    BY <2>2, <2>3, <2>4
<1>5. QED
  BY <1>1, <1>2, <1>3, <1>4 DEF CacheInv

\* Where a lookup is, once it has moved.
LEMMA LoadMoved ==
  ASSUME Cache!TypeOK, NEW i \in Clients, NEW q \in Cache!ReadState,
         load' = [load EXCEPT ![i] = q]
  PROVE  /\ load' \in [Clients -> Cache!ReadState] /\ load'[i] = q
         /\ \A n \in Clients \ {i} : load'[n] = load[n]
  BY DEF Cache!TypeOK

LEMMA ReadL1Keeps ==
  ASSUME CacheInv, NEW i \in Clients, NEW q \in Lookups, Cache!ReadL1(i, q)
  PROVE  CacheInv'
<1> DEFINE r == [Cache!Reading EXCEPT !.pc = "l2", !.key = q.key, !.doc = q.doc]
<1>1. load' = [load EXCEPT ![i] = r] /\ load[i].pc = "idle"
      /\ UNCHANGED <<l1, l2, idx, inbox, link, inv, writes>>
  BY DEF Cache!ReadL1, Cache!Unmoved
<1>2. q.key \in Keys /\ q.doc \in Docs
  BY DEF Lookups
<1>3. /\ r \in Cache!ReadState /\ r.pc = "l2" /\ r.key = q.key /\ r.doc = q.doc
      /\ r.copy = None /\ r.todo = {}
  <2>1. Cache!Reading \in Cache!ReadState
    BY DEF Cache!Reading, Cache!ReadState, Cache!Entry
  <2>2. Cache!Reading.copy = None /\ Cache!Reading.todo = {}
    BY DEF Cache!Reading
  <2>3. QED
    BY <1>2, <2>1, <2>2 DEF Cache!ReadState
<1>4. /\ load' \in [Clients -> Cache!ReadState] /\ load'[i] = r
      /\ \A n \in Clients \ {i} : load'[n] = load[n]
  BY <1>1, <1>3, LoadMoved DEF CacheInv
<1>5. Cache!TypeOK'
  BY <1>1, <1>4 DEF CacheInv, Cache!TypeOK
<1>6. LookupStep(i)
  <2>1. \A n \in Clients : Looks(n)'
    BY <1>2, <1>3, <1>4 DEF CacheInv, Looks
  <2>2. QED
    BY <1>1, <1>3, <1>4, <2>1, CacheTypes DEF LookupStep, CacheInv
<1>7. QED
  BY <1>1, <1>5, <1>6, LookupKeeps

LEMMA LoadKeeps ==
  ASSUME CacheInv, NEW i \in Clients, Cache!Load(i)
  PROVE  CacheInv'
<1> DEFINE d == load[i].doc
           c == [doc |-> d, old |-> FALSE, risky |-> Cache!Busy(d)]
           r == [[load[i] EXCEPT !.pc = "set"] EXCEPT !.copy = c]
<1>1. load[i].pc = "load" /\ load' = [load EXCEPT ![i].pc = "set", ![i].copy = c]
      /\ UNCHANGED <<l1, l2, idx, inbox, link, inv, writes>>
  BY DEF Cache!Load, Cache!Unmoved
<1>2. load[i] \in Cache!ReadState /\ load[i].key \in Keys /\ d \in Docs /\ load[i].todo = {}
  BY <1>1, CacheTypes DEF CacheInv, Looks
<1>3. c \in Cache!Copy /\ c # None /\ c.doc = d
  <2>1. Cache!Busy(d) \in BOOLEAN
    BY DEF Cache!Busy
  <2>2. c \in Cache!Copy
    BY <1>2, <2>1 DEF Cache!Copy
  <2>3. QED
    BY <2>2, CacheTypes DEF CacheInv
<1>4. /\ r \in Cache!ReadState /\ r.pc = "set" /\ r.key = load[i].key /\ r.doc = d
      /\ r.copy = c /\ r.todo = {}
  BY <1>2, <1>3 DEF Cache!ReadState, Cache!Entry
<1>5. load' = [load EXCEPT ![i] = r]
  BY <1>1 DEF CacheInv, Cache!TypeOK
<1>6. /\ load' \in [Clients -> Cache!ReadState] /\ load'[i] = r
      /\ \A n \in Clients \ {i} : load'[n] = load[n]
  BY <1>4, <1>5, LoadMoved DEF CacheInv
<1>7. Cache!TypeOK'
  BY <1>1, <1>6 DEF CacheInv, Cache!TypeOK
<1>8. LookupStep(i)
  <2>1. \A n \in Clients : Looks(n)'
    <3> HIDE DEF c, r
    <3>1. Looks(i)'
      BY <1>2, <1>3, <1>4, <1>6 DEF Looks
    <3>2. QED
      BY <3>1, <1>6 DEF CacheInv, Looks
  <2>2. ASSUME NEW k \in Keys, NEW b \in Cache!Copy, load'[i].key = k, load'[i].copy = b
        PROVE  Carried(i, k, b)'
    <3>1. b = c /\ load'[i].pc = "set"
      BY <1>4, <1>6, <2>2
    <3>2. ~b.old /\ b.doc = d /\ (b.risky <=> Cache!Busy(d))
      BY <3>1
    <3>3. Cache!Busy(b.doc)' <=> Cache!Busy(b.doc)
      BY <1>1 DEF Cache!Busy
    <3>4. QED
      BY <3>1, <3>2, <3>3 DEF Carried, Clean, Aging
  <2>3. QED
    BY <1>1, <1>4, <1>6, <2>1, <2>2 DEF LookupStep
<1>9. QED
  BY <1>1, <1>7, <1>8, LookupKeeps

LEMMA ReadL2Keeps ==
  ASSUME CacheInv, NEW i \in Clients, Cache!ReadL2(i)
  PROVE  CacheInv'
<1> DEFINE k == load[i].key
           h == Cache!Hit(k)
           r == [[load[i] EXCEPT !.pc = "fill"] EXCEPT !.copy = h]
           s == [load[i] EXCEPT !.pc = "load"]
<1>1. load[i].pc = "l2" /\ UNCHANGED <<l1, l2, idx, inbox, link, inv, writes>>
  BY DEF Cache!ReadL2, Cache!Unmoved
<1>2. load[i] \in Cache!ReadState /\ k \in Keys /\ load[i].doc \in Docs /\ load[i].todo = {}
      /\ load[i].copy = None
  BY <1>1, CacheTypes DEF CacheInv, Looks
<1>3. CASE l2[k] # None /\ load' = [load EXCEPT ![i].pc = "fill", ![i].copy = h]
  <2>1. l2[k] \in Cache!Copy /\ Second(k, l2[k])
    BY <1>2, <1>3, CacheTypes DEF CacheInv, Cache!Entry
  <2>2. /\ h \in Cache!Copy /\ h.doc = l2[k].doc /\ h.old = l2[k].old
        /\ h.risky <=> (l2[k].risky \/ Cache!Busy(l2[k].doc))
    <3>1. h = [l2[k] EXCEPT !.risky = l2[k].risky \/ Cache!Busy(l2[k].doc)]
      BY DEF Cache!Hit
    <3>2. (l2[k].risky \/ Cache!Busy(l2[k].doc)) \in BOOLEAN
      OBVIOUS
    <3>3. QED
      BY <2>1, <3>1, <3>2 DEF Cache!Copy
  <2>3. h # None
    BY <2>2, CacheTypes DEF CacheInv
  <2>4. /\ r \in Cache!ReadState /\ r.pc = "fill" /\ r.key = k /\ r.doc = load[i].doc
        /\ r.copy = h /\ r.todo = {}
    BY <1>2, <2>2 DEF Cache!ReadState, Cache!Entry
  <2>5. load' = [load EXCEPT ![i] = r]
    BY <1>3 DEF CacheInv, Cache!TypeOK
  <2>6. /\ load' \in [Clients -> Cache!ReadState] /\ load'[i] = r
        /\ \A n \in Clients \ {i} : load'[n] = load[n]
    BY <2>4, <2>5, LoadMoved DEF CacheInv
  <2>7. Cache!TypeOK'
    BY <1>1, <2>6 DEF CacheInv, Cache!TypeOK
  <2>8. LookupStep(i)
    <3>1. \A n \in Clients : Looks(n)'
      BY <1>2, <2>4, <2>6 DEF CacheInv, Looks
    <3>2. ASSUME NEW n \in Keys, NEW b \in Cache!Copy, load'[i].key = n, load'[i].copy = b
          PROVE  Carried(i, n, b)'
      <4>1. b = h /\ n = k
        BY <2>4, <2>6, <3>2
      <4>2. Clean(b) => Untouched(n, b.doc)
        BY <2>1, <2>2, <4>1 DEF Second, Clean
      <4>3. ~Aging(b)
        BY <2>1, <2>2, <4>1 DEF Second, Aging, WillDelete
      <4>4. \A d \in Docs : Untouched(n, d) => Untouched(n, d)' /\ ~Cache!Busy(d)'
        <5>1. \A m \in Clients : load[m].pc = "index" => load'[m] = load[m]
          BY <1>1, <2>6
        <5>2. QED
          BY <1>1, <5>1 DEF Untouched, Recording, Cache!Busy
      <4>5. b.doc \in Docs
        BY CacheTypes DEF CacheInv
      <4>6. QED
        BY <4>2, <4>3, <4>4, <4>5 DEF Carried
    <3>3. QED
      BY <1>1, <2>4, <2>6, <3>1, <3>2 DEF LookupStep
  <2>9. QED
    BY <1>1, <2>7, <2>8, LookupKeeps
<1>4. CASE load' = [load EXCEPT ![i].pc = "load"]
  <2>1. /\ s \in Cache!ReadState /\ s.pc = "load" /\ s.key = k /\ s.doc = load[i].doc
        /\ s.copy = None /\ s.todo = {}
    BY <1>2 DEF Cache!ReadState
  <2>2. load' = [load EXCEPT ![i] = s]
    BY <1>4 DEF CacheInv, Cache!TypeOK
  <2>3. /\ load' \in [Clients -> Cache!ReadState] /\ load'[i] = s
        /\ \A n \in Clients \ {i} : load'[n] = load[n]
    BY <2>1, <2>2, LoadMoved DEF CacheInv
  <2>4. Cache!TypeOK'
    BY <1>1, <2>3 DEF CacheInv, Cache!TypeOK
  <2>5. LookupStep(i)
    <3>1. \A n \in Clients : Looks(n)'
      BY <1>2, <2>1, <2>3 DEF CacheInv, Looks
    <3>2. QED
      BY <1>1, <2>1, <2>3, <3>1, CacheTypes DEF LookupStep, CacheInv
  <2>6. QED
    BY <1>1, <2>4, <2>5, LookupKeeps
<1>5. QED
  BY <1>3, <1>4 DEF Cache!ReadL2

LEMMA SetL2Keeps ==
  ASSUME CacheInv, NEW i \in Clients, Cache!SetL2(i)
  PROVE  CacheInv'
<1>20. PICK k \in Keys, d \in Docs : k = load[i].key /\ d = load[i].doc
  BY DEF CacheInv, Looks, Cache!SetL2
<1> DEFINE r == [[load[i] EXCEPT !.pc = "index"] EXCEPT !.todo = Fields]
<1>1. /\ load[i].pc = "set" /\ (l2' = [l2 EXCEPT ![k] = load[i].copy] \/ l2' = l2)
      /\ load' = [load EXCEPT ![i].pc = "index", ![i].todo = Fields]
      /\ UNCHANGED <<l1, idx, inbox, link, inv, writes>>
  BY <1>20 DEF Cache!SetL2, Cache!Unmoved
<1>2. load[i] \in Cache!ReadState /\ load[i].copy \in Cache!Copy /\ load[i].copy.doc = d
  BY <1>1, <1>20, CacheTypes DEF CacheInv, Looks, Cache!ReadState, Cache!Entry
<1>3. /\ r \in Cache!ReadState /\ r.pc = "index" /\ r.key = k /\ r.doc = d
      /\ r.copy = load[i].copy /\ r.todo = Fields
  BY <1>2, <1>20 DEF Cache!ReadState
<1>4. load' = [load EXCEPT ![i] = r]
  BY <1>1 DEF CacheInv, Cache!TypeOK
<1>5. /\ load' \in [Clients -> Cache!ReadState] /\ load'[i] = r
      /\ \A n \in Clients \ {i} : load'[n] = load[n]
  BY <1>3, <1>4, LoadMoved DEF CacheInv
<1> HIDE DEF r
<1>6. l2' \in [Keys -> Cache!Entry]
      /\ \A n \in Keys : l2'[n] = l2[n] \/ (n = k /\ l2'[n] = load[i].copy)
  BY <1>1, <1>2 DEF CacheInv, Cache!TypeOK, Cache!Entry
<1>7. Cache!TypeOK'
  BY <1>1, <1>5, <1>6 DEF CacheInv, Cache!TypeOK
\* The copy is being recorded under every id.
<1>8. ASSUME NEW c \in Cache!Copy, c = load[i].copy
      PROVE  /\ Clean(c) => ~Cache!Busy(c.doc)' /\ Untouched(k, c.doc)'
             /\ ~Aging(c)
  <2>1. Carried(i, k, c)
    BY <1>8, <1>20 DEF CacheInv
  <2>2. Cache!Busy(c.doc)' <=> Cache!Busy(c.doc)
    BY <1>1 DEF Cache!Busy
  <2>3. \A f \in Fields : Recording(k, c.doc, f)'
    BY <1>2, <1>3, <1>5, <1>8 DEF Recording
  <2>4. QED
    BY <2>1, <2>2, <2>3 DEF Carried, Untouched
<1>9. LookupStep(i)
  <2>1. \A n \in Clients : Looks(n)'
    BY <1>2, <1>3, <1>5, CacheTypes DEF CacheInv, Looks
  <2>2. ASSUME NEW n \in Keys, NEW c \in Cache!Copy, l2'[n] = c, l2[n] # c
        PROVE  Second(n, c)'
    BY <1>6, <1>8, <2>2 DEF Second
  <2>3. ASSUME NEW n \in Keys, NEW c \in Cache!Copy, load'[i].key = n, load'[i].copy = c
        PROVE  Carried(i, n, c)'
    BY <1>3, <1>5, <1>8, <2>3 DEF Carried
  <2>4. QED
    BY <1>1, <1>5, <2>1, <2>2, <2>3 DEF LookupStep
<1>10. QED
  BY <1>1, <1>7, <1>9, LookupKeeps

LEMMA FillKeeps ==
  ASSUME CacheInv, NEW i \in Clients, Cache!Fill(i)
  PROVE  CacheInv'
<1>20. PICK k \in Keys : k = load[i].key
  BY DEF CacheInv, Looks, Cache!Fill
<1> DEFINE r == Cache!Reading
<1>1. /\ load[i].pc = "fill" /\ load' = [load EXCEPT ![i] = r]
      /\ l1' = [l1 EXCEPT ![i] = [l1[i] EXCEPT ![k] = load[i].copy]]
      /\ UNCHANGED <<l2, idx, inbox, link, inv, writes>>
  BY <1>20 DEF Cache!Fill, Cache!Unmoved, CacheInv, Cache!TypeOK
<1>2. load[i] \in Cache!ReadState /\ load[i].copy \in Cache!Entry
  BY <1>1, CacheTypes DEF CacheInv, Looks, Cache!ReadState
<1>3. /\ r \in Cache!ReadState /\ r.pc = "idle" /\ r.copy = None /\ r.todo = {}
  BY DEF Cache!Reading, Cache!ReadState, Cache!Entry
<1>4. /\ load' \in [Clients -> Cache!ReadState] /\ load'[i] = r
      /\ \A n \in Clients \ {i} : load'[n] = load[n]
  BY <1>1, <1>3, LoadMoved DEF CacheInv
<1>5. /\ l1' \in [Clients -> [Keys -> Cache!Entry]]
      /\ \A j \in Clients, n \in Keys :
           l1'[j][n] = l1[j][n] \/ (j = i /\ n = k /\ l1'[j][n] = load[i].copy)
  BY <1>1, <1>2 DEF CacheInv, Cache!TypeOK
<1>6. Cache!TypeOK'
  BY <1>1, <1>4, <1>5 DEF CacheInv, Cache!TypeOK
<1>7. ASSUME NEW c \in Cache!Copy, c = load[i].copy
      PROVE  (Clean(c) => Untouched(k, c.doc)') /\ ~Aging(c)
  <2>1. Carried(i, k, c)
    BY <1>7, <1>20 DEF CacheInv
  <2>2. \A n \in Clients : load[n].pc = "index" => load'[n] = load[n]
    BY <1>1, <1>4
  <2>3. Untouched(k, c.doc) => Untouched(k, c.doc)'
    BY <1>1, <2>2 DEF Untouched, Recording, Cache!Busy
  <2>4. QED
    BY <1>1, <2>1, <2>3 DEF Carried
<1>8. LookupStep(i)
  <2>1. \A n \in Clients : Looks(n)'
    BY <1>3, <1>4 DEF CacheInv, Looks
  <2>2. ASSUME NEW j \in Clients, NEW n \in Keys, NEW c \in Cache!Copy,
               l1'[j][n] = c, l1[j][n] # c
        PROVE  First(j, n, c)'
    BY <1>5, <1>7, <2>2 DEF First
  <2>3. QED
    BY <1>1, <1>3, <1>4, <2>1, <2>2, CacheTypes DEF LookupStep, CacheInv
<1>9. QED
  BY <1>1, <1>6, <1>8, LookupKeeps

LEMMA IndexKeeps ==
  ASSUME CacheInv, NEW i \in Clients, NEW f \in Fields, Cache!Index(i, f)
  PROVE  CacheInv'
<1>20. PICK k \in Keys, d \in Docs : k = load[i].key /\ d = load[i].doc
  BY DEF CacheInv, Looks, Cache!Index
<1> DEFINE Noted(q) == [[q EXCEPT !.todo = q.todo \ {f}]
                           EXCEPT !.pc = IF q.todo = {f} THEN "fill" ELSE q.pc]
           Unrecorded(j) == IF load[j].key = k
                            THEN [load[j] EXCEPT !.copy = Cache!Risk(load[j].copy)]
                            ELSE load[j]
<1>1. load[i].pc = "index" /\ f \in load[i].todo /\ UNCHANGED <<inbox, link, inv, writes>>
  BY DEF Cache!Index
<1>2. load[i] \in Cache!ReadState /\ load[i].copy \in Cache!Entry
  BY <1>1, CacheTypes DEF CacheInv, Looks, Cache!ReadState
<1>3. ASSUME NEW q \in Cache!ReadState, q.pc = "index", q.key = k, q.doc = d, q.todo = load[i].todo
      PROVE  /\ Noted(q) \in Cache!ReadState /\ Noted(q).key = k /\ Noted(q).doc = d
             /\ Noted(q).copy = q.copy /\ Noted(q).todo = load[i].todo \ {f}
             /\ Noted(q).pc = (IF load[i].todo = {f} THEN "fill" ELSE "index")
  BY <1>3 DEF Cache!ReadState
<1>4. CASE /\ idx' = [idx EXCEPT ![d][f] = idx[d][f] \union {k}]
           /\ load' = [load EXCEPT ![i] = Noted(load[i])]
           /\ UNCHANGED <<l1, l2>>
  <2> DEFINE r == Noted(load[i])
  <2>1. /\ r \in Cache!ReadState /\ r.key = k /\ r.doc = d
        /\ r.copy = load[i].copy /\ r.todo = load[i].todo \ {f}
        /\ r.pc = (IF load[i].todo = {f} THEN "fill" ELSE "index")
    BY <1>1, <1>2, <1>3, <1>20
  <2> HIDE DEF r, Noted
  <2>2. /\ load' \in [Clients -> Cache!ReadState] /\ load'[i] = r
        /\ \A n \in Clients \ {i} : load'[n] = load[n]
    BY <1>4, <2>1, LoadMoved DEF CacheInv, r
  <2>3. /\ idx' \in [Docs -> [Fields -> SUBSET Keys]] /\ k \in idx'[d][f]
        /\ \A b \in Docs, g \in Fields : idx[b][g] \subseteq idx'[b][g]
    <3>1. idx' = [idx EXCEPT ![d] = [idx[d] EXCEPT ![f] = idx[d][f] \union {k}]]
      BY <1>4 DEF CacheInv, Cache!TypeOK
    <3>2. QED
      BY <1>2, <3>1 DEF CacheInv, Cache!TypeOK
  <2>4. Cache!TypeOK'
    BY <1>1, <1>4, <2>2, <2>3 DEF CacheInv, Cache!TypeOK
  <2>5. /\ \A g \in load[i].todo : (r.pc = "index" /\ g \in r.todo) \/ k \in idx'[d][g]
        /\ load[i].todo \subseteq Fields
    BY <1>1, <1>2, <2>1, <2>3 DEF Cache!ReadState
  <2>6. ASSUME NEW n \in Keys, NEW c \in Cache!Copy, load'[i].key = n, load'[i].copy = c
        PROVE  Carried(i, n, c)'
    <3>1. Carried(i, n, c) /\ n = k
      BY <1>20, <2>1, <2>2, <2>6 DEF CacheInv
    <3>2. Untouched(n, c.doc) => Untouched(n, c.doc)'
      <4> SUFFICES ASSUME NEW b, b = c.doc, b \in Docs, Untouched(k, b) PROVE Untouched(k, b)'
        BY <3>1, CacheTypes DEF CacheInv
      <4>1. ~Cache!Busy(b)'
        BY <1>1 DEF Untouched, Cache!Busy
      <4>2. ASSUME NEW g \in Fields PROVE k \in idx'[b][g] \/ Recording(k, b, g)'
        <5>1. CASE k \in idx[b][g]
          BY <2>3, <5>1
        <5>2. ASSUME NEW m \in Clients, load[m].pc = "index", load[m].key = k, load[m].doc = b,
                     g \in load[m].todo
              PROVE  k \in idx'[b][g] \/ Recording(k, b, g)'
          <6>1. CASE m = i
            BY <1>20, <2>1, <2>2, <2>5, <5>2, <6>1 DEF Recording
          <6>2. CASE m # i
            BY <2>2, <5>2, <6>2 DEF Recording
          <6>3. QED
            BY <6>1, <6>2
        <5>3. QED
          BY <5>1, <5>2 DEF Untouched, Recording
      <4>3. QED
        BY <4>1, <4>2 DEF Untouched
    <3>3. Cache!Busy(c.doc)' <=> Cache!Busy(c.doc)
      BY <1>1 DEF Cache!Busy
    <3>4. QED
      BY <1>1, <3>1, <3>2, <3>3 DEF Carried
  <2>7. LookupStep(i)
    <3>1. \A n \in Clients : Looks(n)'
      BY <1>1, <1>2, <1>20, <2>1, <2>2 DEF CacheInv, Looks
    <3>2. QED
      BY <1>4, <1>20, <2>1, <2>2, <2>3, <2>5, <2>6, <3>1 DEF LookupStep
  <2>8. QED
    BY <1>1, <2>4, <2>7, LookupKeeps
<1>5. CASE /\ l2' = [l2 EXCEPT ![k] = Cache!Risk(l2[k])]
           /\ l1' = [j \in Clients |-> [l1[j] EXCEPT ![k] = Cache!Risk(l1[j][k])]]
           /\ load' = [j \in Clients |-> IF j = i THEN Noted(Unrecorded(i)) ELSE Unrecorded(j)]
           /\ UNCHANGED idx
  <2>1. \A j \in Clients :
          /\ Unrecorded(j) \in Cache!ReadState /\ Unrecorded(j).pc = load[j].pc
          /\ Unrecorded(j).key = load[j].key /\ Unrecorded(j).doc = load[j].doc
          /\ Unrecorded(j).todo = load[j].todo
          /\ Unrecorded(j).copy = IF load[j].key = k THEN Cache!Risk(load[j].copy)
                                  ELSE load[j].copy
    <3> SUFFICES ASSUME NEW j \in Clients, NEW q, q = Cache!Risk(load[j].copy)
                 PROVE  /\ Unrecorded(j) \in Cache!ReadState /\ Unrecorded(j).pc = load[j].pc
                        /\ Unrecorded(j).key = load[j].key /\ Unrecorded(j).doc = load[j].doc
                        /\ Unrecorded(j).todo = load[j].todo
                        /\ Unrecorded(j).copy = IF load[j].key = k THEN q ELSE load[j].copy
      OBVIOUS
    <3>1. load[j] \in Cache!ReadState
      BY CacheTypes DEF CacheInv
    <3>2. q \in Cache!Entry
      BY <3>1, RiskTypes DEF CacheInv, Cache!ReadState
    <3>3. QED
      BY <3>1, <3>2 DEF Cache!ReadState
  <2>2. /\ Noted(Unrecorded(i)) \in Cache!ReadState /\ Noted(Unrecorded(i)).key = k
        /\ Noted(Unrecorded(i)).doc = d /\ Noted(Unrecorded(i)).copy = Cache!Risk(load[i].copy)
        /\ Noted(Unrecorded(i)).todo = load[i].todo \ {f}
        /\ Noted(Unrecorded(i)).pc = (IF load[i].todo = {f} THEN "fill" ELSE "index")
    <3>1. PICK q \in Cache!ReadState : q = Unrecorded(i)
      BY <2>1
    <3>2. /\ q.pc = "index" /\ q.key = k /\ q.doc = d /\ q.todo = load[i].todo
          /\ q.copy = Cache!Risk(load[i].copy)
      BY <1>1, <1>20, <2>1, <3>1
    <3> HIDE DEF Noted, Unrecorded
    <3>3. QED
      BY <1>3, <3>1, <3>2
  <2> HIDE DEF Noted, Unrecorded
  <2>3. /\ load' \in [Clients -> Cache!ReadState]
        /\ \A j \in Clients : load'[j].key = load[j].key /\ load'[j].doc = load[j].doc
        /\ \A j \in Clients : load'[j].copy = IF load[j].key = k THEN Cache!Risk(load[j].copy)
                                              ELSE load[j].copy
        /\ \A j \in Clients \ {i} : load'[j].pc = load[j].pc /\ load'[j].todo = load[j].todo
        /\ load'[i].todo = load[i].todo \ {f}
        /\ load'[i].pc = (IF load[i].todo = {f} THEN "fill" ELSE "index")
    <3>1. load'[i] = Noted(Unrecorded(i)) /\ \A j \in Clients \ {i} : load'[j] = Unrecorded(j)
      BY <1>5
    <3>2. load' \in [Clients -> Cache!ReadState]
      BY <1>5, <2>1, <2>2
    <3>3. QED
      BY <1>20, <2>1, <2>2, <3>1, <3>2
  <2>4. ASSUME NEW n \in Keys
        PROVE  /\ Cache!Risk(l2[n]) \in Cache!Entry
               /\ (Cache!Risk(l2[n]) = None \/ Cache!Risk(l2[n]).risky)
               /\ \A j \in Clients : Cache!Risk(l1[j][n]) \in Cache!Entry
               /\ \A j \in Clients : Cache!Risk(l1[j][n]) = None \/ Cache!Risk(l1[j][n]).risky
    BY CacheTypes, RiskTypes DEF CacheInv
  <2>5. /\ l2' \in [Keys -> Cache!Entry] /\ l1' \in [Clients -> [Keys -> Cache!Entry]]
        /\ l2'[k] = None \/ l2'[k].risky
        /\ \A n \in Keys \ {k} : l2'[n] = l2[n]
        /\ \A j \in Clients : /\ l1'[j][k] = None \/ l1'[j][k].risky
                             /\ \A n \in Keys \ {k} : l1'[j][n] = l1[j][n]
    BY <1>2, <1>5, <2>4 DEF CacheInv, Cache!TypeOK
  <2>6. Cache!TypeOK'
    BY <1>1, <1>5, <2>3, <2>5 DEF CacheInv, Cache!TypeOK
  <2>7. \A j \in Clients :
          /\ load[j].copy = None => load'[j].copy = None
          /\ load[j].copy # None => load'[j].copy # None /\ load'[j].copy.doc = load[j].copy.doc
          /\ load'[j].copy = load[j].copy \/ load'[j].copy = None \/ load'[j].copy.risky
          /\ load[j].key = k => load'[j].copy = None \/ load'[j].copy.risky
    <3> SUFFICES ASSUME NEW j \in Clients
        PROVE /\ load[j].copy = None => load'[j].copy = None
              /\ load[j].copy # None => load'[j].copy # None /\ load'[j].copy.doc = load[j].copy.doc
              /\ load'[j].copy = load[j].copy \/ load'[j].copy = None \/ load'[j].copy.risky
              /\ load[j].key = k => load'[j].copy = None \/ load'[j].copy.risky
      OBVIOUS
    <3>1. load[j].copy \in Cache!Entry
      BY CacheTypes DEF CacheInv, Cache!ReadState
    <3>2. QED
      BY <2>3, <3>1, RiskTypes DEF CacheInv
  <2>8. Spoilt(k)'
    BY <2>3, <2>5, <2>7 DEF Spoilt
  <2>9. LookupStep(i)
    <3>1. \A n \in Clients : Looks(n)'
      <4> SUFFICES ASSUME NEW n \in Clients PROVE Looks(n)'
        OBVIOUS
      <4>1. Looks(n)
        BY DEF CacheInv
      <4>2. CASE n = i
        BY <1>1, <1>20, <2>3, <2>7, <4>1, <4>2 DEF Looks
      <4>3. CASE n # i
        BY <2>3, <2>7, <4>1, <4>3 DEF Looks
      <4>4. QED
        BY <4>2, <4>3
    <3>2. ASSUME NEW n \in Keys, NEW c \in Cache!Copy, load'[i].key = n, load'[i].copy = c
          PROVE  Carried(i, n, c)'
      BY <1>20, <2>3, <2>7, <3>2, CacheTypes, RiskyServes DEF CacheInv
    <3>3. /\ \A n \in Keys, c \in Cache!Copy : l2'[n] = c => l2[n] = c \/ c.risky
          /\ \A j \in Clients, n \in Keys, c \in Cache!Copy :
               l1'[j][n] = c => l1[j][n] = c \/ c.risky
      BY <2>5, CacheTypes DEF CacheInv
    <3>4. QED
      BY <1>5, <1>20, <2>3, <2>7, <2>8, <3>1, <3>2, <3>3 DEF LookupStep
  <2>10. QED
    BY <1>1, <2>6, <2>9, LookupKeeps
<1> DEFINE Stray(j) == IF load[j].key = load[i].key
                       THEN [load[j] EXCEPT !.copy = Cache!Risk(load[j].copy)]
                       ELSE load[j]
<1>6. CASE /\ idx' = [idx EXCEPT ![load[i].doc] = [idx[load[i].doc] EXCEPT
                          ![f] = idx[load[i].doc][f] \union {load[i].key}]]
           /\ load' = [load EXCEPT ![i] = Noted(load[i])]
           /\ UNCHANGED <<l1, l2>>
  <2>1. idx' = [idx EXCEPT ![d][f] = idx[d][f] \union {k}]
    BY <1>6, <1>20
  <2> HIDE DEF Noted
  <2>2. QED
    BY <1>4, <1>6, <2>1
<1>7. CASE /\ l2' = [l2 EXCEPT ![load[i].key] = Cache!Risk(l2[load[i].key])]
           /\ l1' = [j \in Clients |->
                        [l1[j] EXCEPT ![load[i].key] = Cache!Risk(l1[j][load[i].key])]]
           /\ load' = [j \in Clients |-> IF j = i THEN Noted(Stray(i)) ELSE Stray(j)]
           /\ UNCHANGED idx
  <2>1. \A j \in Clients : Stray(j) = Unrecorded(j)
    BY <1>20
  <2> HIDE DEF Noted, Stray, Unrecorded
  <2>2. load' = [j \in Clients |-> IF j = i THEN Noted(Unrecorded(i)) ELSE Unrecorded(j)]
    BY <1>7, <2>1
  <2>3. l1' = [j \in Clients |-> [l1[j] EXCEPT ![k] = Cache!Risk(l1[j][k])]]
    BY <1>7, <1>20
  <2>4. l2' = [l2 EXCEPT ![k] = Cache!Risk(l2[k])]
    BY <1>7, <1>20
  <2>5. QED
    BY <1>5, <1>7, <2>2, <2>3, <2>4
<1>8. QED
  BY <1>6, <1>7, Zenon DEF Cache!Index

\* What a write makes of a copy.
LEMMA AgedTypes ==
  ASSUME Cache!TypeOK, NEW c \in Cache!Entry, NEW d \in Docs, NEW m \in BOOLEAN
  PROVE  /\ Cache!Aged(c, d, m) \in Cache!Entry
         /\ c = None => Cache!Aged(c, d, m) = None
         /\ c # None /\ c.doc # d => Cache!Aged(c, d, m) = c
         /\ c # None /\ c.doc = d =>
              /\ Cache!Aged(c, d, m) # None /\ Cache!Aged(c, d, m).doc = d
              /\ Cache!Aged(c, d, m).old
              /\ Cache!Aged(c, d, m).risky <=> (c.risky \/ m)
<1>1. CASE c = None \/ c.doc # d
  BY <1>1 DEF Cache!Aged, Cache!Entry
<1>2. CASE c # None /\ c.doc = d
  <2> DEFINE a == [[c EXCEPT !.old = TRUE] EXCEPT !.risky = c.risky \/ m]
  <2>1. c \in Cache!Copy
    BY <1>2 DEF Cache!Entry
  <2>2. a \in Cache!Copy /\ a.doc = d /\ a.old /\ (a.risky <=> (c.risky \/ m))
    BY <1>2, <2>1 DEF Cache!Copy
  <2>3. Cache!Aged(c, d, m) = a
    BY <1>2 DEF Cache!Aged
  <2> HIDE DEF a
  <2>4. a # None
    BY <2>2, CacheTypes
  <2>5. QED
    BY <1>2, <2>2, <2>3, <2>4 DEF Cache!Entry
<1>3. QED
  BY <1>1, <1>2

\* A write of d by an instance that writes nothing yet.
Begins(i, d) ==
  /\ inv[i].doc = None /\ inv'[i].doc = d
  /\ \A f \in Fields : inv'[i].at[f].pc = "read"
  /\ \A n \in Clients \ {i} : inv'[n] = inv[n]
  /\ idx' = idx
  /\ \A n \in Clients : /\ load'[n].pc = load[n].pc /\ load'[n].key = load[n].key
                        /\ load'[n].doc = load[n].doc /\ load'[n].todo = load[n].todo

\* What was promised of other documents still is; d's copies will all be found.
LEMMA WriteFrame ==
  ASSUME Cache!TypeOK, NEW i \in Clients, NEW d \in Docs, Begins(i, d)
  PROVE  /\ \A b \in Docs \ {d} : Cache!Busy(b)' <=> Cache!Busy(b)
         /\ \A b \in Docs \ {d}, k \in Keys : Untouched(k, b) => Untouched(k, b)'
         /\ \A b \in Docs, k \in Keys :
              /\ WillRead(k, b) => WillRead(k, b)'
              /\ WillDelete(k, b) => WillDelete(k, b)'
              /\ \A j : WillDrop(j, k, b) => WillDrop(j, k, b)'
         /\ \A k \in Keys :
              Untouched(k, d) /\ ~Cache!BeingSet(k) => WillRead(k, d)' /\ WillDelete(k, d)'
<1>1. None \notin Docs
  BY CacheTypes
<1>2. \A b \in Docs : /\ b # d => (Cache!Busy(b)' <=> Cache!Busy(b))
                      /\ Cache!Busy(b) => Cache!Busy(b)'
  BY <1>1 DEF Begins, Cache!Busy
<1>3. \A b \in Docs \ {d}, k \in Keys : Untouched(k, b) => Untouched(k, b)'
  BY <1>2 DEF Begins, Untouched, Recording
<1>4. Cache!Busy(d)'
  BY DEF Begins, Cache!Busy
<1>5. ASSUME NEW b \in Docs, NEW k \in Keys
      PROVE  /\ WillRead(k, b) => WillRead(k, b)'
             /\ WillDelete(k, b) => WillDelete(k, b)'
  BY <1>2 DEF Begins, WillRead, WillDelete
<1>6. ASSUME NEW b \in Docs, NEW k \in Keys, NEW j, WillDrop(j, k, b)
      PROVE  WillDrop(j, k, b)'
  <2>1. \A n \in Clients : inv[n].doc = b => inv'[n] = inv[n]
    BY <1>1 DEF Begins
  <2>2. QED
    BY <1>6, <2>1 DEF WillDrop
<1>7. ASSUME NEW k \in Keys, Untouched(k, d), ~Cache!BeingSet(k)
      PROVE  WillRead(k, d)' /\ WillDelete(k, d)'
  <2>1. \A f \in Fields : k \in idx[d][f]
    BY <1>7 DEF Untouched, Recording, Cache!BeingSet
  <2>2. \A n \in Clients \ {i} : inv'[n].doc # d
    BY <1>7 DEF Begins, Untouched, Cache!Busy
  <2>3. QED
    BY <1>4, <2>1, <2>2 DEF Begins, WillRead, WillDelete
<1>8. QED
  BY <1>2, <1>3, <1>5, <1>6, <1>7

LEMMA WriteKeeps ==
  ASSUME CacheInv, NEW i \in Clients, NEW d \in Docs, Cache!Write(i, d)
  PROVE  CacheInv'
<1> DEFINE old(c, m) == Cache!Aged(c, d, m)
           r(j) == [load[j] EXCEPT !.copy = old(load[j].copy, TRUE)]
           w == [doc |-> d, at |-> [f \in Fields |-> [Cache!Quiet EXCEPT !.pc = "read"]]]
<1>1. /\ inv[i].doc = None /\ writes < MaxWrites /\ writes' = writes + 1
      /\ l1' = [j \in Clients |-> [k \in Keys |-> old(l1[j][k], Cache!BeingSet(k))]]
      /\ l2' = [k \in Keys |-> old(l2[k], Cache!BeingSet(k))]
      /\ load' = [j \in Clients |-> r(j)]
      /\ inv' = [inv EXCEPT ![i] = w]
      /\ UNCHANGED <<idx, inbox, link>>
  BY DEF Cache!Write
<1>2. Cache!TypeOK
  BY DEF CacheInv
<1>3. \A k \in Keys : Cache!BeingSet(k) \in BOOLEAN
  BY DEF Cache!BeingSet
<1> HIDE DEF old
<1>4. ASSUME NEW c \in Cache!Entry, NEW m \in BOOLEAN
      PROVE  /\ old(c, m) \in Cache!Entry
             /\ c = None => old(c, m) = None
             /\ c # None /\ c.doc # d => old(c, m) = c
             /\ c # None /\ c.doc = d => /\ old(c, m) # None /\ old(c, m).doc = d
                                         /\ old(c, m).old
                                         /\ old(c, m).risky <=> (c.risky \/ m)
  BY <1>2, AgedTypes DEF old
<1>5. ASSUME NEW j \in Clients
      PROVE  /\ r(j) \in Cache!ReadState /\ r(j).pc = load[j].pc /\ r(j).key = load[j].key
             /\ r(j).doc = load[j].doc /\ r(j).todo = load[j].todo
             /\ r(j).copy = old(load[j].copy, TRUE) /\ load[j].copy \in Cache!Entry
  <2>1. load[j] \in Cache!ReadState
    BY <1>2, CacheTypes
  <2>2. load[j].copy \in Cache!Entry
    BY <2>1 DEF Cache!ReadState
  <2>3. old(load[j].copy, TRUE) \in Cache!Entry
    BY <1>4, <2>2
  <2>4. QED
    BY <2>1, <2>2, <2>3 DEF Cache!ReadState
<1> HIDE DEF r
<1>6. /\ w.doc = d /\ w \in [doc : Docs \union {None}, at : [Fields -> Cache!InvState]]
      /\ \A f \in Fields : w.at[f].pc = "read" /\ w.at[f].keys = {} /\ w.at[f].todo = {}
  BY DEF Cache!Quiet, Cache!InvState
<1> HIDE DEF w
<1>7. /\ inv' \in [Clients -> [doc : Docs \union {None}, at : [Fields -> Cache!InvState]]]
      /\ inv'[i] = w /\ \A n \in Clients \ {i} : inv'[n] = inv[n]
  BY <1>1, <1>2, <1>6 DEF Cache!TypeOK
<1>8. Cache!TypeOK'
  <2>1. l1' \in [Clients -> [Keys -> Cache!Entry]] /\ l2' \in [Keys -> Cache!Entry]
    BY <1>1, <1>2, <1>3, <1>4, CacheTypes
  <2>2. load' \in [Clients -> Cache!ReadState]
    BY <1>1, <1>5
  <2>3. writes' \in 0..MaxWrites
    BY <1>1, <1>2, CacheAssumption DEF Cache!TypeOK, Cache!ConstantsAssumption
  <2>4. QED
    BY <1>1, <1>2, <1>7, <2>1, <2>2, <2>3 DEF Cache!TypeOK
<1>9. Begins(i, d)
  BY <1>1, <1>5, <1>6, <1>7 DEF Begins
<1>10. \A n \in Clients : Looks(n)' /\ Writes(n)'
  <2>1. ASSUME NEW n \in Clients PROVE Looks(n)'
    <3>1. Looks(n)
      BY DEF CacheInv
    <3>2. load'[n] = r(n)
      BY <1>1
    <3>3. PICK b \in Cache!Entry : b = load[n].copy /\ r(n).copy = old(b, TRUE)
      BY <1>5
    <3>4. /\ b = None => old(b, TRUE) = None
          /\ b # None => old(b, TRUE) # None /\ old(b, TRUE).doc = b.doc
      <4>1. CASE b = None
        BY <1>4, <4>1
      <4>2. CASE b # None /\ b.doc # d
        BY <1>4, <4>2
      <4>3. CASE b # None /\ b.doc = d
        BY <1>4, <4>3
      <4>4. QED
        BY <4>1, <4>2, <4>3
    <3>5. QED
      BY <1>5, <3>1, <3>2, <3>3, <3>4 DEF Looks
  <2>2. ASSUME NEW n \in Clients PROVE Writes(n)'
    <3>1. Writes(n)
      BY DEF CacheInv
    <3>2. CASE n = i
      BY <1>6, <1>7, <3>2 DEF Writes
    <3>3. CASE n # i
      BY <1>7, <3>1, <3>3 DEF Writes
    <3>4. QED
      BY <3>2, <3>3
  <2>3. QED
    BY <2>1, <2>2
\* A copy in a cache either is of another document, or old now and promised away.
<1>11. ASSUME NEW k \in Keys, NEW c \in Cache!Copy, l2'[k] = c
       PROVE  Second(k, c)'
  <2>1. PICK b \in Cache!Entry : b = l2[k] /\ c = old(b, Cache!BeingSet(k))
    BY <1>1, <1>2, <1>11, CacheTypes
  <2>2. b \in Cache!Copy /\ Second(k, b)
    BY <1>2, <1>3, <1>4, <2>1, CacheTypes DEF CacheInv, Cache!Entry
  <2>3. c.doc = b.doc /\ c.doc \in Docs /\ b # None
    BY <1>2, <1>3, <1>4, <2>1, <2>2, CacheTypes
  <2>4. CASE b.doc # d
    BY <1>2, <1>3, <1>4, <1>9, <2>1, <2>2, <2>3, <2>4, WriteFrame DEF Second
  <2>5. CASE c.risky
    BY <2>5, RiskyServes
  <2>6. CASE b.doc = d /\ ~c.risky
    <3>1. c.old /\ ~b.risky /\ ~Cache!BeingSet(k)
      BY <1>3, <1>4, <2>1, <2>3, <2>6
    <3>2. Untouched(k, d) \/ WillDelete(k, d)
      BY <2>2, <2>6, <3>1, CacheTypes, <1>2 DEF Second, Clean, Aging
    <3>3. WillDelete(k, d)'
      BY <1>2, <1>9, <3>1, <3>2, WriteFrame
    <3>4. QED
      BY <2>3, <2>6, <3>1, <3>3 DEF Second, Clean
  <2>7. QED
    BY <2>4, <2>5, <2>6
<1>12. ASSUME NEW k \in Keys, NEW c \in Cache!Copy, NEW j \in Clients, l1'[j][k] = c
       PROVE  First(j, k, c)'
  <2>1. PICK b \in Cache!Entry : b = l1[j][k] /\ c = old(b, Cache!BeingSet(k))
    BY <1>1, <1>2, <1>12, CacheTypes
  <2>2. b \in Cache!Copy /\ First(j, k, b)
    BY <1>2, <1>3, <1>4, <2>1, CacheTypes DEF CacheInv, Cache!Entry
  <2>3. c.doc = b.doc /\ c.doc \in Docs /\ b # None
    BY <1>2, <1>3, <1>4, <2>1, <2>2, CacheTypes
  <2>4. CASE b.doc # d
    <3>1. c = b
      BY <1>3, <1>4, <2>1, <2>3, <2>4
    <3>2. QED
      BY <1>1, <1>2, <1>9, <2>2, <2>3, <2>4, <3>1, WriteFrame DEF First
  <2>5. CASE c.risky
    BY <2>5, RiskyServes
  <2>6. CASE b.doc = d /\ ~c.risky
    <3>1. c.old /\ ~b.risky /\ ~Cache!BeingSet(k)
      BY <1>3, <1>4, <2>1, <2>3, <2>6
    <3>2. Untouched(k, d) \/ k \in inbox[j] \/ WillDrop(j, k, d) \/ WillRead(k, d)
      BY <2>2, <2>6, <3>1, CacheTypes, <1>2 DEF First, Clean, Aging
    <3>3. k \in inbox'[j] \/ WillDrop(j, k, d)' \/ WillRead(k, d)'
      BY <1>1, <1>2, <1>9, <3>1, <3>2, WriteFrame
    <3>4. QED
      BY <2>3, <2>6, <3>1, <3>3 DEF First, Clean
  <2>7. QED
    BY <2>4, <2>5, <2>6
<1>13. ASSUME NEW k \in Keys, NEW c \in Cache!Copy, NEW j \in Clients,
              load'[j].key = k, load'[j].copy = c
       PROVE  Carried(j, k, c)'
  <2>1. PICK b \in Cache!Entry : b = load[j].copy /\ c = old(b, TRUE)
    BY <1>1, <1>5, <1>13
  <2>2. load[j].key = k /\ load'[j].pc = load[j].pc
    BY <1>1, <1>5, <1>13
  <2>3. b \in Cache!Copy /\ Carried(j, k, b)
    BY <1>2, <1>4, <2>1, <2>2, CacheTypes DEF CacheInv, Cache!Entry
  <2>4. c.doc = b.doc /\ c.doc \in Docs /\ b # None
    BY <1>2, <1>4, <2>1, <2>3, CacheTypes
  <2>5. CASE b.doc # d
    <3>1. c = b
      BY <1>4, <2>1, <2>4, <2>5
    <3>2. QED
      BY <1>2, <1>9, <2>2, <2>3, <2>4, <2>5, <3>1, WriteFrame DEF Carried
  <2>6. CASE b.doc = d
    BY <1>4, <2>1, <2>4, <2>6, RiskyServes
  <2>7. QED
    BY <2>5, <2>6
<1>14. QED
  BY <1>8, <1>10, <1>11, <1>12, <1>13 DEF CacheInv

\* A step of i's invalidation of d: other documents are left alone, and the copies of d
\* that are promised away stay so, unless they go or become risky.
InvalidationStep(i, d) ==
  /\ inv[i].doc = d /\ inv'[i].doc \in {d, None}
  /\ \A n \in Clients \ {i} : inv'[n] = inv[n]
  /\ \A n \in Clients : Writes(n)'
  /\ \A b \in Docs \ {d} : idx'[b] = idx[b]
  /\ load' = load
  /\ \A k \in Keys :
       \/ l2'[k] = None \/ l2'[k].risky
       \/ l2'[k] = l2[k] /\ (l2[k].doc = d /\ WillDelete(k, d) => WillDelete(k, d)')
  /\ \A j \in Clients, k \in Keys :
       \/ l1'[j][k] = None \/ l1'[j][k].risky
       \/ /\ l1'[j][k] = l1[j][k] /\ (k \in inbox[j] => k \in inbox'[j])
          /\ l1[j][k].doc = d /\ (WillDrop(j, k, d) \/ WillRead(k, d)) =>
               k \in inbox'[j] \/ WillDrop(j, k, d)' \/ WillRead(k, d)'

LEMMA InvalidationFrame ==
  ASSUME Cache!TypeOK, NEW i \in Clients, NEW d \in Docs, InvalidationStep(i, d)
  PROVE  /\ Cache!Busy(d)
         /\ \A b \in Docs \ {d} : Cache!Busy(b)' <=> Cache!Busy(b)
         /\ \A b \in Docs \ {d}, k \in Keys :
              /\ Untouched(k, b) => Untouched(k, b)'
              /\ WillRead(k, b) => WillRead(k, b)'
              /\ WillDelete(k, b) => WillDelete(k, b)'
              /\ \A j : WillDrop(j, k, b) => WillDrop(j, k, b)'
<1>1. \A b \in Docs \ {d}, n \in Clients :
        /\ inv'[n].doc = b <=> inv[n].doc = b
        /\ inv[n].doc = b => inv'[n] = inv[n]
  BY CacheTypes DEF InvalidationStep
<1>2. Cache!Busy(d) /\ \A b \in Docs \ {d} : Cache!Busy(b)' <=> Cache!Busy(b)
  BY <1>1 DEF Cache!Busy, InvalidationStep
<1>3. \A b \in Docs \ {d} : idx'[b] = idx[b]
  BY DEF InvalidationStep
<1>4. ASSUME NEW b \in Docs \ {d}, NEW k \in Keys
      PROVE  /\ Untouched(k, b) => Untouched(k, b)'
             /\ WillRead(k, b) => WillRead(k, b)'
             /\ WillDelete(k, b) => WillDelete(k, b)'
             /\ \A j : WillDrop(j, k, b) => WillDrop(j, k, b)'
  <2>1. Untouched(k, b) => Untouched(k, b)'
    BY <1>2, <1>3 DEF Untouched, Recording, InvalidationStep
  <2>2. WillRead(k, b) => WillRead(k, b)'
    BY <1>1, <1>2, <1>3 DEF WillRead
  <2>3. WillDelete(k, b) => WillDelete(k, b)'
    BY <1>1, <1>2, <1>3 DEF WillDelete
  <2>4. \A j : WillDrop(j, k, b) => WillDrop(j, k, b)'
    BY <1>1 DEF WillDrop
  <2>5. QED
    BY <2>1, <2>2, <2>3, <2>4
<1>5. QED
  BY <1>2, <1>4

LEMMA InvalidationKeeps ==
  ASSUME CacheInv, Cache!TypeOK', NEW i \in Clients, NEW d \in Docs, InvalidationStep(i, d)
  PROVE  CacheInv'
<1>1. Cache!TypeOK
  BY DEF CacheInv
<1>2. \A n \in Clients : Looks(n)' /\ Writes(n)'
  BY DEF CacheInv, Looks, InvalidationStep
<1>3. ASSUME NEW k \in Keys, NEW c \in Cache!Copy, l2'[k] = c
      PROVE  Second(k, c)'
  <2>1. CASE c.risky
    BY <2>1, RiskyServes
  <2>2. CASE ~c.risky
    <3>1. c.doc \in Docs /\ c # None
      BY <1>1, CacheTypes
    <3>2. /\ l2[k] = c
          /\ c.doc = d /\ WillDelete(k, d) => WillDelete(k, d)'
      BY <1>3, <2>2, <3>1 DEF InvalidationStep
    <3>3. Second(k, c)
      BY <3>2 DEF CacheInv
    <3>4. CASE c.doc = d
      BY <1>1, <3>2, <3>3, <3>4, InvalidationFrame DEF Second, Untouched
    <3>5. CASE c.doc # d
      BY <1>1, <3>1, <3>3, <3>5, InvalidationFrame DEF Second
    <3>6. QED
      BY <3>4, <3>5
  <2>3. QED
    BY <2>1, <2>2
<1>4. ASSUME NEW k \in Keys, NEW c \in Cache!Copy, NEW j \in Clients, l1'[j][k] = c
      PROVE  First(j, k, c)'
  <2>1. CASE c.risky
    BY <2>1, RiskyServes
  <2>2. CASE ~c.risky
    <3>1. c.doc \in Docs /\ c # None
      BY <1>1, CacheTypes
    <3>2. /\ l1[j][k] = c /\ (k \in inbox[j] => k \in inbox'[j])
          /\ c.doc = d /\ (WillDrop(j, k, d) \/ WillRead(k, d)) =>
               k \in inbox'[j] \/ WillDrop(j, k, d)' \/ WillRead(k, d)'
      BY <1>4, <2>2, <3>1 DEF InvalidationStep
    <3>3. First(j, k, c)
      BY <3>2 DEF CacheInv
    <3>4. CASE c.doc = d
      BY <1>1, <3>2, <3>3, <3>4, InvalidationFrame DEF First, Untouched
    <3>5. CASE c.doc # d
      BY <1>1, <3>1, <3>2, <3>3, <3>5, InvalidationFrame DEF First
    <3>6. QED
      BY <3>4, <3>5
  <2>3. QED
    BY <2>1, <2>2
<1>5. ASSUME NEW k \in Keys, NEW c \in Cache!Copy, NEW j \in Clients,
             load'[j].key = k, load'[j].copy = c
      PROVE  Carried(j, k, c)'
  <2>1. load' = load
    BY DEF InvalidationStep
  <2>2. Carried(j, k, c) /\ c.doc \in Docs
    BY <1>1, <1>5, <2>1, CacheTypes DEF CacheInv
  <2>3. CASE c.doc = d
    BY <1>1, <2>2, <2>3, InvalidationFrame DEF Carried
  <2>4. CASE c.doc # d
    BY <1>1, <2>1, <2>2, <2>4, InvalidationFrame DEF Carried
  <2>5. QED
    BY <2>3, <2>4
<1>6. QED
  BY <1>2, <1>3, <1>4, <1>5 DEF CacheInv

\* The invalidation of one id moves on to q; the others stay.
GoesOn(i, f, q) ==
  inv' = [inv EXCEPT ![i] = [inv[i] EXCEPT !.at = [inv[i].at EXCEPT ![f] = q]]]

LEMMA GoesOnTypes ==
  ASSUME CacheInv, NEW i \in Clients, NEW f \in Fields, NEW d \in Docs,
         NEW q \in Cache!InvState, inv[i].doc = d, GoesOn(i, f, q)
  PROVE  /\ inv' \in [Clients -> [doc : Docs \union {None}, at : [Fields -> Cache!InvState]]]
         /\ inv'[i].doc = d /\ inv'[i].at[f] = q
         /\ \A g \in Fields \ {f} : inv'[i].at[g] = inv[i].at[g]
         /\ \A n \in Clients \ {i} : inv'[n] = inv[n]
         /\ q.todo \subseteq q.keys /\ (q.pc = "read" => q.keys = {}) =>
              \A n \in Clients : Writes(n)'
<1> DEFINE s == [inv[i] EXCEPT !.at = [inv[i].at EXCEPT ![f] = q]]
<1>1. inv[i] \in [doc : Docs \union {None}, at : [Fields -> Cache!InvState]]
  BY DEF CacheInv, Cache!TypeOK
<1>2. /\ s \in [doc : Docs \union {None}, at : [Fields -> Cache!InvState]]
      /\ s.doc = d /\ s.at[f] = q /\ \A g \in Fields \ {f} : s.at[g] = inv[i].at[g]
  BY <1>1
<1>3. inv' = [inv EXCEPT ![i] = s]
  BY DEF GoesOn
<1> HIDE DEF s
<1>4. /\ inv' \in [Clients -> [doc : Docs \union {None}, at : [Fields -> Cache!InvState]]]
      /\ inv'[i] = s /\ \A n \in Clients \ {i} : inv'[n] = inv[n]
  BY <1>2, <1>3 DEF CacheInv, Cache!TypeOK
<1>5. ASSUME NEW n \in Clients, q.todo \subseteq q.keys, q.pc = "read" => q.keys = {}
      PROVE  Writes(n)'
  <2>1. Writes(n)
    BY DEF CacheInv
  <2>2. QED
    BY <1>2, <1>4, <1>5, <2>1 DEF Writes
<1>6. QED
  BY <1>2, <1>4, <1>5

\* It ends.
EndsAt(i, f) == inv' = [inv EXCEPT ![i] = Cache!Ended(i, f)]

LEMMA EndedTypes ==
  ASSUME CacheInv, NEW i \in Clients, NEW f \in Fields, NEW d \in Docs, inv[i].doc = d,
         EndsAt(i, f)
  PROVE  /\ inv' \in [Clients -> [doc : Docs \union {None}, at : [Fields -> Cache!InvState]]]
         /\ inv'[i].doc \in {d, None} /\ inv'[i].at[f].pc = "idle"
         /\ \A g \in Fields \ {f} : inv[i].at[g].pc # "idle" =>
              inv'[i].doc = d /\ inv'[i].at[g] = inv[i].at[g]
         /\ \A n \in Clients \ {i} : inv'[n] = inv[n]
         /\ \A n \in Clients : Writes(n)'
<1> DEFINE s == Cache!Ended(i, f)
<1>1. inv[i] \in [doc : Docs \union {None}, at : [Fields -> Cache!InvState]]
  BY DEF CacheInv, Cache!TypeOK
<1>2. /\ Cache!Quiet \in Cache!InvState /\ Cache!Quiet.pc = "idle"
      /\ Cache!Quiet.keys = {} /\ Cache!Quiet.todo = {}
  BY DEF Cache!Quiet, Cache!InvState
<1>3. /\ s \in [doc : Docs \union {None}, at : [Fields -> Cache!InvState]]
      /\ s.doc \in {d, None} /\ s.at[f] = Cache!Quiet
      /\ \A g \in Fields \ {f} : inv[i].at[g].pc # "idle" => s.doc = d /\ s.at[g] = inv[i].at[g]
      /\ \A g \in Fields : s.at[g] = Cache!Quiet \/ (s.doc = d /\ s.at[g] = inv[i].at[g])
  <2>1. CASE \A g \in Fields \ {f} : inv[i].at[g].pc = "idle"
    <3>1. s = [doc |-> None, at |-> [g \in Fields |-> Cache!Quiet]]
      BY <2>1 DEF Cache!Ended
    <3> HIDE DEF s
    <3>2. QED
      BY <1>2, <2>1, <3>1
  <2>2. CASE ~\A g \in Fields \ {f} : inv[i].at[g].pc = "idle"
    <3>1. s = [inv[i] EXCEPT !.at = [inv[i].at EXCEPT ![f] = Cache!Quiet]]
      BY <2>2 DEF Cache!Ended
    <3> HIDE DEF s
    <3>2. QED
      BY <1>1, <1>2, <3>1
  <2>3. QED
    BY <2>1, <2>2
<1> HIDE DEF s
<1>4. /\ inv' \in [Clients -> [doc : Docs \union {None}, at : [Fields -> Cache!InvState]]]
      /\ inv'[i] = s /\ \A n \in Clients \ {i} : inv'[n] = inv[n]
  BY <1>3 DEF CacheInv, Cache!TypeOK, EndsAt, s
<1>5. ASSUME NEW n \in Clients PROVE Writes(n)'
  <2>1. Writes(n)
    BY DEF CacheInv
  <2>2. CASE n = i
    <3>1. \A g \in Fields : \/ inv'[i].at[g] = Cache!Quiet
                            \/ inv'[i].doc = inv[i].doc /\ inv'[i].at[g] = inv[i].at[g]
      BY <1>3, <1>4
    <3>2. QED
      BY <1>2, <2>1, <2>2, <3>1 DEF Writes
  <2>3. CASE n # i
    BY <1>4, <2>1, <2>3 DEF Writes
  <2>4. QED
    BY <2>2, <2>3
<1>6. QED
  BY <1>2, <1>3, <1>4, <1>5

LEMMA RiskInTypes ==
  ASSUME Cache!TypeOK, NEW m \in [Keys -> Cache!Entry], NEW d \in Docs
  PROVE  /\ Cache!RiskIn(m, d) \in [Keys -> Cache!Entry]
         /\ \A k \in Keys :
              \/ Cache!RiskIn(m, d)[k] = None \/ Cache!RiskIn(m, d)[k].risky
              \/ Cache!RiskIn(m, d)[k] = m[k] /\ m[k].doc # d
<1>1. \A k \in Keys : /\ Cache!Risk(m[k]) \in Cache!Entry
                      /\ m[k] # None => Cache!Risk(m[k]).risky
  BY RiskTypes
<1>2. QED
  BY <1>1 DEF Cache!RiskIn

LEMMA InvReadKeeps ==
  ASSUME CacheInv, NEW i \in Clients, NEW f \in Fields, Cache!InvRead(i, f)
  PROVE  CacheInv'
<1>1. PICK d \in Docs : d = inv[i].doc
  BY DEF CacheInv, Writes, Cache!InvRead
<1>2. /\ inv[i].at[f].pc = "read" /\ UNCHANGED <<idx, inbox, link, load, writes>>
      /\ inv[i].at[f] \in Cache!InvState /\ inv[i].at[f].keys = {} /\ inv[i].at[f].todo = {}
  BY DEF CacheInv, Writes, Cache!InvRead, Cache!TypeOK
<1>3. Cache!TypeOK
  BY DEF CacheInv
<1>4. CASE /\ inv' = [inv EXCEPT ![i].at[f] =
                        [pc |-> "delete", keys |-> idx[d][f], todo |-> idx[d][f]]]
           /\ UNCHANGED <<l1, l2>>
  <2> DEFINE q == [pc |-> "delete", keys |-> idx[d][f], todo |-> idx[d][f]]
  <2>1. q \in Cache!InvState /\ q.pc = "delete" /\ q.keys = idx[d][f] /\ q.todo = idx[d][f]
    BY <1>3 DEF Cache!InvState, Cache!TypeOK
  <2>2. GoesOn(i, f, q)
    BY <1>4 DEF GoesOn
  <2> HIDE DEF q
  <2>3. /\ inv' \in [Clients -> [doc : Docs \union {None}, at : [Fields -> Cache!InvState]]]
        /\ inv'[i].doc = d /\ inv'[i].at[f] = q
        /\ \A g \in Fields \ {f} : inv'[i].at[g] = inv[i].at[g]
        /\ \A n \in Clients \ {i} : inv'[n] = inv[n]
        /\ \A n \in Clients : Writes(n)'
    BY <1>1, <2>1, <2>2, GoesOnTypes
  <2>4. ASSUME NEW k \in Keys, WillDelete(k, d) PROVE WillDelete(k, d)'
    <3>1. Cache!Busy(d)' /\ \A g \in Fields : k \in idx'[d][g]
      BY <1>2, <2>3, <2>4 DEF WillDelete, Cache!Busy
    <3>2. ASSUME NEW g \in Fields, NEW n \in Clients, inv'[n].doc = d
          PROVE  \/ inv'[n].at[g].pc = "read"
                 \/ inv'[n].at[g].pc = "delete" /\ k \in inv'[n].at[g].todo
      <4>1. CASE n = i /\ g = f
        BY <2>1, <2>3, <2>4, <4>1 DEF WillDelete
      <4>2. CASE ~(n = i /\ g = f)
        BY <1>1, <2>3, <2>4, <3>2, <4>2 DEF WillDelete
      <4>3. QED
        BY <4>1, <4>2
    <3>3. QED
      BY <3>1, <3>2 DEF WillDelete
  <2>5. ASSUME NEW k \in Keys, NEW j \in Clients, WillDrop(j, k, d)
        PROVE  WillDrop(j, k, d)'
    <3>1. PICK n \in Clients, g \in Fields :
            /\ inv[n].doc = d /\ k \in inv[n].at[g].keys
            /\ \/ inv[n].at[g].pc = "delete"
               \/ inv[n].at[g].pc \in {"unindex", "publish"} /\ n # j
      BY <2>5 DEF WillDrop
    <3>2. inv'[n].doc = d /\ inv'[n].at[g] = inv[n].at[g]
      BY <1>2, <2>3, <3>1
    <3>3. QED
      BY <3>1, <3>2 DEF WillDrop
  <2>6. ASSUME NEW k \in Keys, NEW j \in Clients, WillRead(k, d)
        PROVE  WillDrop(j, k, d)'
    BY <2>1, <2>3, <2>6 DEF WillRead, WillDrop
  <2>7. InvalidationStep(i, d)
    BY <1>1, <1>2, <1>4, <2>3, <2>4, <2>5, <2>6 DEF InvalidationStep
  <2>8. Cache!TypeOK'
    BY <1>2, <1>3, <1>4, <2>3 DEF Cache!TypeOK
  <2>9. QED
    BY <2>7, <2>8, InvalidationKeeps
<1>5. CASE /\ inv' = [inv EXCEPT ![i].at[f].pc = "delete"]
           /\ l1' = [j \in Clients |-> Cache!RiskIn(l1[j], d)]
           /\ l2' = Cache!RiskIn(l2, d)
  <2> DEFINE q == [inv[i].at[f] EXCEPT !.pc = "delete"]
  <2>1. q \in Cache!InvState /\ q.pc = "delete" /\ q.keys = {} /\ q.todo = {}
    BY <1>2 DEF Cache!InvState
  <2>2. GoesOn(i, f, q)
    BY <1>5 DEF GoesOn
  <2> HIDE DEF q
  <2>3. /\ inv' \in [Clients -> [doc : Docs \union {None}, at : [Fields -> Cache!InvState]]]
        /\ inv'[i].doc = d /\ \A n \in Clients \ {i} : inv'[n] = inv[n]
        /\ \A n \in Clients : Writes(n)'
    BY <1>1, <2>1, <2>2, GoesOnTypes
  <2>4. l2 \in [Keys -> Cache!Entry] /\ \A j \in Clients : l1[j] \in [Keys -> Cache!Entry]
    BY <1>3 DEF Cache!TypeOK
  <2>5. /\ l2' \in [Keys -> Cache!Entry]
        /\ \A k \in Keys : l2'[k] = None \/ l2'[k].risky \/ (l2'[k] = l2[k] /\ l2[k].doc # d)
    BY <1>3, <1>5, <2>4, RiskInTypes
  <2>6. /\ l1' \in [Clients -> [Keys -> Cache!Entry]]
        /\ \A j \in Clients, k \in Keys :
             l1'[j][k] = None \/ l1'[j][k].risky \/ (l1'[j][k] = l1[j][k] /\ l1[j][k].doc # d)
    BY <1>3, <1>5, <2>4, RiskInTypes
  <2>7. InvalidationStep(i, d)
    BY <1>1, <1>2, <2>3, <2>5, <2>6 DEF InvalidationStep
  <2>8. Cache!TypeOK'
    BY <1>2, <1>3, <2>3, <2>5, <2>6 DEF Cache!TypeOK
  <2>9. QED
    BY <2>7, <2>8, InvalidationKeeps
<1>6. QED
  BY <1>1, <1>4, <1>5 DEF Cache!InvRead

LEMMA InvDeleteKeeps ==
  ASSUME CacheInv, NEW i \in Clients, NEW f \in Fields, NEW k0 \in Keys,
         Cache!InvDelete(i, f, k0)
  PROVE  CacheInv'
<1>1. /\ inv[i].at[f].pc = "delete" /\ UNCHANGED <<l1, idx, inbox, link, load, writes>>
      /\ inv[i].at[f] \in Cache!InvState /\ inv[i].at[f].todo \subseteq inv[i].at[f].keys
      /\ (l2' = [l2 EXCEPT ![k0] = None] \/ l2' = [l2 EXCEPT ![k0] = Cache!Risk(l2[k0])])
  BY DEF CacheInv, Writes, Cache!InvDelete, Cache!TypeOK
<1>2. PICK d \in Docs : d = inv[i].doc
  BY <1>1 DEF CacheInv, Writes
<1>3. Cache!TypeOK
  BY DEF CacheInv
<1> DEFINE q == [inv[i].at[f] EXCEPT !.todo = inv[i].at[f].todo \ {k0}]
<1>4. /\ q \in Cache!InvState /\ q.pc = "delete" /\ q.keys = inv[i].at[f].keys
      /\ q.todo = inv[i].at[f].todo \ {k0} /\ q.todo \subseteq q.keys
  BY <1>1 DEF Cache!InvState
<1>5. GoesOn(i, f, q)
  BY DEF GoesOn, Cache!InvDelete
<1> HIDE DEF q
<1>6. /\ inv' \in [Clients -> [doc : Docs \union {None}, at : [Fields -> Cache!InvState]]]
      /\ inv'[i].doc = d /\ inv'[i].at[f] = q
      /\ \A g \in Fields \ {f} : inv'[i].at[g] = inv[i].at[g]
      /\ \A n \in Clients \ {i} : inv'[n] = inv[n]
      /\ \A n \in Clients : Writes(n)'
  BY <1>1, <1>2, <1>4, <1>5, GoesOnTypes
<1>7. /\ l2' \in [Keys -> Cache!Entry] /\ (l2'[k0] = None \/ l2'[k0].risky)
      /\ \A k \in Keys \ {k0} : l2'[k] = l2[k]
  <2>1. /\ l2[k0] \in Cache!Entry /\ Cache!Risk(l2[k0]) \in Cache!Entry
        /\ (Cache!Risk(l2[k0]) = None \/ Cache!Risk(l2[k0]).risky)
    BY <1>3, CacheTypes, RiskTypes
  <2>2. PICK c \in Cache!Entry : l2' = [l2 EXCEPT ![k0] = c] /\ (c = None \/ c.risky)
    BY <1>1, <2>1 DEF Cache!Entry
  <2>3. QED
    BY <1>3, <2>2 DEF Cache!TypeOK
<1>8. ASSUME NEW k \in Keys \ {k0}, WillDelete(k, d) PROVE WillDelete(k, d)'
  <2>1. Cache!Busy(d)' /\ \A g \in Fields : k \in idx'[d][g]
    BY <1>1, <1>6, <1>8 DEF WillDelete, Cache!Busy
  <2>2. ASSUME NEW g \in Fields, NEW n \in Clients, inv'[n].doc = d
        PROVE  \/ inv'[n].at[g].pc = "read"
               \/ inv'[n].at[g].pc = "delete" /\ k \in inv'[n].at[g].todo
    <3>1. CASE n = i /\ g = f
      BY <1>1, <1>2, <1>4, <1>6, <1>8, <3>1 DEF WillDelete
    <3>2. CASE ~(n = i /\ g = f)
      BY <1>2, <1>6, <1>8, <2>2, <3>2 DEF WillDelete
    <3>3. QED
      BY <3>1, <3>2
  <2>3. QED
    BY <2>1, <2>2 DEF WillDelete
<1>9. \A n \in Clients, g \in Fields :
        /\ inv'[n].doc = inv[n].doc /\ inv'[n].at[g].pc = inv[n].at[g].pc
        /\ inv'[n].at[g].keys = inv[n].at[g].keys
  BY <1>1, <1>2, <1>4, <1>6
<1>10. \A k \in Keys, j \in Clients : /\ WillDrop(j, k, d) => WillDrop(j, k, d)'
                                      /\ WillRead(k, d) => WillRead(k, d)'
  BY <1>1, <1>9 DEF WillDrop, WillRead, Cache!Busy
<1>11. InvalidationStep(i, d)
  BY <1>1, <1>2, <1>6, <1>7, <1>8, <1>10 DEF InvalidationStep
<1>12. Cache!TypeOK'
  BY <1>1, <1>3, <1>6, <1>7 DEF Cache!TypeOK
<1>13. QED
  BY <1>11, <1>12, InvalidationKeeps

\* Once an id's keys are deleted, nothing is about to be read or deleted under all ids.
LEMMA TooLate ==
  ASSUME NEW i \in Clients, NEW f \in Fields, NEW d, inv[i].doc = d,
         \/ inv[i].at[f].pc \in {"unindex", "publish"}
         \/ inv[i].at[f].pc = "delete" /\ inv[i].at[f].todo = {}
  PROVE  \A k : ~WillDelete(k, d) /\ ~WillRead(k, d)
  BY DEF WillDelete, WillRead

LEMMA InvDropL1Keeps ==
  ASSUME CacheInv, NEW i \in Clients, NEW f \in Fields, Cache!InvDropL1(i, f)
  PROVE  CacheInv'
<1>1. /\ inv[i].at[f].pc = "delete" /\ inv[i].at[f].todo = {}
      /\ UNCHANGED <<l2, idx, inbox, link, load, writes>>
      /\ inv[i].at[f] \in Cache!InvState
      /\ l1' = [l1 EXCEPT ![i] = [k \in Keys |-> IF k \in inv[i].at[f].keys THEN None
                                                 ELSE l1[i][k]]]
  BY DEF CacheInv, Cache!InvDropL1, Cache!TypeOK
<1>2. PICK d \in Docs : d = inv[i].doc
  BY <1>1 DEF CacheInv, Writes
<1>3. Cache!TypeOK
  BY DEF CacheInv
<1> DEFINE q == [inv[i].at[f] EXCEPT !.pc = "unindex"]
<1>4. /\ q \in Cache!InvState /\ q.pc = "unindex" /\ q.keys = inv[i].at[f].keys
      /\ q.todo = {}
  BY <1>1 DEF Cache!InvState
<1>5. GoesOn(i, f, q)
  BY DEF GoesOn, Cache!InvDropL1
<1> HIDE DEF q
<1>6. /\ inv' \in [Clients -> [doc : Docs \union {None}, at : [Fields -> Cache!InvState]]]
      /\ inv'[i].doc = d /\ inv'[i].at[f] = q
      /\ \A g \in Fields \ {f} : inv'[i].at[g] = inv[i].at[g]
      /\ \A n \in Clients \ {i} : inv'[n] = inv[n]
      /\ \A n \in Clients : Writes(n)'
  BY <1>1, <1>2, <1>4, <1>5, GoesOnTypes
<1>7. /\ l1' \in [Clients -> [Keys -> Cache!Entry]]
      /\ \A k \in Keys : k \in inv[i].at[f].keys => l1'[i][k] = None
      /\ \A j \in Clients, k \in Keys : l1'[j][k] = l1[j][k] \/ l1'[j][k] = None
  BY <1>1, <1>3 DEF Cache!TypeOK, Cache!Entry
<1>8. ASSUME NEW k \in Keys, NEW j \in Clients, l1'[j][k] # None, WillDrop(j, k, d)
      PROVE  WillDrop(j, k, d)'
  <2>1. PICK n \in Clients, g \in Fields :
          /\ inv[n].doc = d /\ k \in inv[n].at[g].keys
          /\ \/ inv[n].at[g].pc = "delete"
             \/ inv[n].at[g].pc \in {"unindex", "publish"} /\ n # j
    BY <1>8 DEF WillDrop
  <2>2. CASE n = i /\ g = f
    <3>1. inv'[i].doc = d /\ k \in inv'[i].at[f].keys /\ inv'[i].at[f].pc = "unindex" /\ i # j
      BY <1>4, <1>6, <1>7, <1>8, <2>1, <2>2
    <3>2. QED
      BY <3>1 DEF WillDrop
  <2>3. CASE ~(n = i /\ g = f)
    <3>1. inv'[n].doc = d /\ inv'[n].at[g] = inv[n].at[g]
      BY <1>6, <2>1, <2>3
    <3>2. QED
      BY <2>1, <3>1 DEF WillDrop
  <2>4. QED
    BY <2>2, <2>3
<1>9. \A k : ~WillDelete(k, d) /\ ~WillRead(k, d)
  BY <1>1, <1>2, TooLate
<1>10. InvalidationStep(i, d)
  BY <1>1, <1>2, <1>6, <1>7, <1>8, <1>9 DEF InvalidationStep
<1>11. Cache!TypeOK'
  BY <1>1, <1>3, <1>6, <1>7 DEF Cache!TypeOK
<1>12. QED
  BY <1>10, <1>11, InvalidationKeeps

\* What i was about to drop as the invalidation of f goes away, another still is.
LEMMA EndedDrops ==
  ASSUME CacheInv, NEW i \in Clients, NEW f \in Fields, NEW d \in Docs, inv[i].doc = d,
         EndsAt(i, f)
  PROVE  \A j, k : WillDrop(j, k, d) =>
           \/ WillDrop(j, k, d)'
           \/ k \in inv[i].at[f].keys
<1> SUFFICES ASSUME NEW j, NEW k, WillDrop(j, k, d), k \notin inv[i].at[f].keys
             PROVE  WillDrop(j, k, d)'
  OBVIOUS
<1>1. PICK n \in Clients, g \in Fields :
        /\ inv[n].doc = d /\ k \in inv[n].at[g].keys
        /\ \/ inv[n].at[g].pc = "delete"
           \/ inv[n].at[g].pc \in {"unindex", "publish"} /\ n # j
  BY DEF WillDrop
<1>2. inv'[n].doc = d /\ inv'[n].at[g] = inv[n].at[g]
  <2>1. /\ inv'[i].doc \in {d, None} /\ inv'[i].at[f].pc = "idle"
        /\ \A h \in Fields \ {f} : inv[i].at[h].pc # "idle" =>
             inv'[i].doc = d /\ inv'[i].at[h] = inv[i].at[h]
        /\ \A m \in Clients \ {i} : inv'[m] = inv[m]
    BY EndedTypes
  <2>2. CASE n = i
    BY <1>1, <2>1, <2>2
  <2>3. CASE n # i
    BY <1>1, <2>1, <2>3
  <2>4. QED
    BY <2>2, <2>3
<1>3. QED
  BY <1>1, <1>2 DEF WillDrop

LEMMA InvUnindexKeeps ==
  ASSUME CacheInv, NEW i \in Clients, NEW f \in Fields, Cache!InvUnindex(i, f)
  PROVE  CacheInv'
<1>1. /\ inv[i].at[f].pc = "unindex" /\ inv[i].at[f] \in Cache!InvState
      /\ inv[i].at[f].todo \subseteq inv[i].at[f].keys
      /\ UNCHANGED <<l1, l2, inbox, link, load, writes>>
  BY DEF CacheInv, Writes, Cache!InvUnindex, Cache!TypeOK
<1>2. PICK d \in Docs : d = inv[i].doc
  BY <1>1 DEF CacheInv, Writes
<1>3. Cache!TypeOK
  BY DEF CacheInv
<1>4. /\ idx' \in [Docs -> [Fields -> SUBSET Keys]]
      /\ \A b \in Docs \ {d} : idx'[b] = idx[b]
  <2>1. idx' = [idx EXCEPT ![d] = [idx[d] EXCEPT ![f] = {}]] \/ idx' = idx
    BY <1>2 DEF Cache!InvUnindex
  <2>2. CASE idx' = [idx EXCEPT ![d] = [idx[d] EXCEPT ![f] = {}]]
    <3>1. PICK m \in [Fields -> SUBSET Keys] : idx' = [idx EXCEPT ![d] = m]
      BY <1>3, <2>2 DEF Cache!TypeOK
    <3>2. QED
      BY <1>3, <3>1 DEF Cache!TypeOK
  <2>3. CASE idx' = idx
    BY <1>3, <2>3 DEF Cache!TypeOK
  <2>4. QED
    BY <2>1, <2>2, <2>3
<1>5. \A k : ~WillDelete(k, d) /\ ~WillRead(k, d)
  BY <1>1, <1>2, TooLate
<1>6. CASE inv[i].at[f].keys = {}
  <2>1. EndsAt(i, f)
    BY <1>6 DEF Cache!InvUnindex, EndsAt
  <2>2. /\ inv' \in [Clients -> [doc : Docs \union {None}, at : [Fields -> Cache!InvState]]]
        /\ inv'[i].doc \in {d, None} /\ \A n \in Clients \ {i} : inv'[n] = inv[n]
        /\ \A n \in Clients : Writes(n)'
    BY <1>2, <2>1, EndedTypes
  <2>3. \A j, k : WillDrop(j, k, d) => WillDrop(j, k, d)'
    BY <1>2, <1>6, <2>1, EndedDrops
  <2>4. InvalidationStep(i, d)
    BY <1>1, <1>2, <1>4, <1>5, <2>2, <2>3 DEF InvalidationStep
  <2>5. Cache!TypeOK'
    BY <1>1, <1>3, <1>4, <2>2 DEF Cache!TypeOK
  <2>6. QED
    BY <2>4, <2>5, InvalidationKeeps
<1>7. CASE inv[i].at[f].keys # {}
  <2> DEFINE q == [inv[i].at[f] EXCEPT !.pc = "publish"]
  <2>1. /\ q \in Cache!InvState /\ q.pc = "publish" /\ q.keys = inv[i].at[f].keys
        /\ q.todo \subseteq q.keys
    BY <1>1 DEF Cache!InvState
  <2>2. GoesOn(i, f, q)
    BY <1>7 DEF GoesOn, Cache!InvUnindex
  <2> HIDE DEF q
  <2>3. /\ inv' \in [Clients -> [doc : Docs \union {None}, at : [Fields -> Cache!InvState]]]
        /\ inv'[i].doc = d /\ inv'[i].at[f] = q
        /\ \A g \in Fields \ {f} : inv'[i].at[g] = inv[i].at[g]
        /\ \A n \in Clients \ {i} : inv'[n] = inv[n]
        /\ \A n \in Clients : Writes(n)'
    BY <1>1, <1>2, <2>1, <2>2, GoesOnTypes
  <2>4. ASSUME NEW k \in Keys, NEW j \in Clients, WillDrop(j, k, d)
        PROVE  WillDrop(j, k, d)'
    <3>1. PICK n \in Clients, g \in Fields :
            /\ inv[n].doc = d /\ k \in inv[n].at[g].keys
            /\ \/ inv[n].at[g].pc = "delete"
               \/ inv[n].at[g].pc \in {"unindex", "publish"} /\ n # j
      BY <2>4 DEF WillDrop
    <3>2. CASE n = i /\ g = f
      <4>1. inv'[i].doc = d /\ k \in inv'[i].at[f].keys /\ inv'[i].at[f].pc = "publish" /\ i # j
        BY <1>1, <2>1, <2>3, <3>1, <3>2
      <4>2. QED
        BY <4>1 DEF WillDrop
    <3>3. CASE ~(n = i /\ g = f)
      <4>1. inv'[n].doc = d /\ inv'[n].at[g] = inv[n].at[g]
        BY <2>3, <3>1, <3>3
      <4>2. QED
        BY <3>1, <4>1 DEF WillDrop
    <3>4. QED
      BY <3>2, <3>3
  <2>5. InvalidationStep(i, d)
    BY <1>1, <1>2, <1>4, <1>5, <2>3, <2>4 DEF InvalidationStep
  <2>6. Cache!TypeOK'
    BY <1>1, <1>3, <1>4, <2>3 DEF Cache!TypeOK
  <2>7. QED
    BY <2>5, <2>6, InvalidationKeeps
<1>8. QED
  BY <1>6, <1>7

LEMMA InvPublishKeeps ==
  ASSUME CacheInv, NEW i \in Clients, NEW f \in Fields, Cache!InvPublish(i, f)
  PROVE  CacheInv'
<1>1. /\ inv[i].at[f].pc = "publish" /\ EndsAt(i, f)
      /\ UNCHANGED <<l2, idx, link, load, writes>>
  BY DEF Cache!InvPublish, EndsAt
<1>2. PICK d \in Docs : d = inv[i].doc
  BY <1>1 DEF CacheInv, Writes
<1>3. PICK heard \in SUBSET Clients :
        /\ inbox' = [j \in Clients |-> IF j \in heard THEN inbox[j] \union inv[i].at[f].keys
                                       ELSE inbox[j]]
        /\ l1' = [j \in Clients |-> IF j \in heard THEN l1[j] ELSE Cache!RiskIn(l1[j], d)]
  <2>1. CASE /\ inbox' = [j \in Clients |->
                            IF j \in {n \in Clients : link[n] = "up"}
                            THEN inbox[j] \union inv[i].at[f].keys ELSE inbox[j]]
             /\ l1' = [j \in Clients |-> IF j \in {n \in Clients : link[n] = "up"} THEN l1[j]
                                         ELSE Cache!RiskIn(l1[j], inv[i].doc)]
    <3>1. {n \in Clients : link[n] = "up"} \in SUBSET Clients
      OBVIOUS
    <3>2. QED
      BY <1>2, <2>1, <3>1
  <2>2. CASE /\ inbox' = [j \in Clients |->
                            IF j \in {} THEN inbox[j] \union inv[i].at[f].keys ELSE inbox[j]]
             /\ l1' = [j \in Clients |-> IF j \in {} THEN l1[j]
                                         ELSE Cache!RiskIn(l1[j], inv[i].doc)]
    <3>1. {} \in SUBSET Clients
      OBVIOUS
    <3>2. QED
      BY <1>2, <2>2, <3>1
  <2>3. QED
    BY <2>1, <2>2 DEF Cache!InvPublish
<1>4. Cache!TypeOK
  BY DEF CacheInv
<1>5. /\ inv' \in [Clients -> [doc : Docs \union {None}, at : [Fields -> Cache!InvState]]]
      /\ inv'[i].doc \in {d, None} /\ \A n \in Clients \ {i} : inv'[n] = inv[n]
      /\ \A n \in Clients : Writes(n)'
  BY <1>1, <1>2, EndedTypes
<1>6. inv[i].at[f].keys \in SUBSET Keys
  BY <1>4 DEF Cache!TypeOK, Cache!InvState
<1>7. /\ inbox' \in [Clients -> SUBSET Keys]
      /\ \A j \in Clients : inbox[j] \subseteq inbox'[j]
      /\ \A j \in heard : inv[i].at[f].keys \subseteq inbox'[j]
  BY <1>3, <1>4, <1>6 DEF Cache!TypeOK
<1>8. /\ l1' \in [Clients -> [Keys -> Cache!Entry]]
      /\ \A j \in heard : l1'[j] = l1[j]
      /\ \A j \in Clients \ heard, k \in Keys :
           l1'[j][k] = None \/ l1'[j][k].risky \/ (l1'[j][k] = l1[j][k] /\ l1[j][k].doc # d)
  <2>1. \A j \in Clients : l1[j] \in [Keys -> Cache!Entry]
    BY <1>4 DEF Cache!TypeOK
  <2>2. \A j \in Clients :
          /\ Cache!RiskIn(l1[j], d) \in [Keys -> Cache!Entry]
          /\ \A k \in Keys :
               \/ Cache!RiskIn(l1[j], d)[k] = None \/ Cache!RiskIn(l1[j], d)[k].risky
               \/ Cache!RiskIn(l1[j], d)[k] = l1[j][k] /\ l1[j][k].doc # d
    BY <1>4, <2>1, RiskInTypes
  <2>3. QED
    BY <1>3, <2>1, <2>2
<1>9. \A j \in heard, k \in Keys : WillDrop(j, k, d) => k \in inbox'[j] \/ WillDrop(j, k, d)'
  BY <1>1, <1>2, <1>7, EndedDrops
<1>10. \A k : ~WillDelete(k, d) /\ ~WillRead(k, d)
  BY <1>1, <1>2, TooLate
<1>11. InvalidationStep(i, d)
  <2>1. ASSUME NEW j \in Clients, NEW k \in Keys
        PROVE  \/ l1'[j][k] = None \/ l1'[j][k].risky
               \/ /\ l1'[j][k] = l1[j][k] /\ (k \in inbox[j] => k \in inbox'[j])
                  /\ l1[j][k].doc = d /\ (WillDrop(j, k, d) \/ WillRead(k, d)) =>
                       k \in inbox'[j] \/ WillDrop(j, k, d)' \/ WillRead(k, d)'
    <3>1. CASE j \in heard
      BY <1>7, <1>8, <1>9, <1>10, <3>1
    <3>2. CASE j \notin heard
      BY <1>7, <1>8, <3>2
    <3>3. QED
      BY <3>1, <3>2
  <2>2. QED
    BY <1>1, <1>2, <1>5, <1>10, <2>1 DEF InvalidationStep
<1>12. Cache!TypeOK'
  BY <1>1, <1>4, <1>5, <1>7, <1>8 DEF Cache!TypeOK
<1>13. QED
  BY <1>11, <1>12, InvalidationKeeps

LEMMA CacheInit == Cache!Init => CacheInv
<1> SUFFICES ASSUME Cache!Init PROVE CacheInv
  OBVIOUS
<1>1. Cache!Reading \in Cache!ReadState /\ Cache!Reading.pc = "idle"
      /\ Cache!Reading.copy = None /\ Cache!Reading.todo = {}
  BY DEF Cache!Reading, Cache!ReadState, Cache!Entry
<1>2. Cache!Quiet \in Cache!InvState /\ Cache!Quiet.pc = "idle"
      /\ Cache!Quiet.keys = {} /\ Cache!Quiet.todo = {}
  BY DEF Cache!Quiet, Cache!InvState
<1>3. Cache!TypeOK
  BY <1>1, <1>2, CacheAssumption
  DEF Cache!Init, Cache!TypeOK, Cache!Entry, Cache!ConstantsAssumption
<1>4. \A i \in Clients : Looks(i) /\ Writes(i)
  BY <1>1, <1>2 DEF Cache!Init, Looks, Writes
<1>5. \A k \in Keys : /\ l2[k] = None
                      /\ \A j \in Clients : l1[j][k] = None /\ load[j].copy = None
  BY <1>1 DEF Cache!Init
<1>6. QED
  BY <1>3, <1>4, <1>5, CacheTypes DEF CacheInv

LEMMA CacheNext == CacheInv /\ [Cache!Next]_cache => CacheInv'
<1> SUFFICES ASSUME CacheInv, [Cache!Next]_cache PROVE CacheInv'
  OBVIOUS
<1>1. CASE UNCHANGED cache
  <2>1. Cache!TypeOK'
    BY <1>1 DEF cache, CacheInv, Cache!TypeOK
  <2>2. UNCHANGED <<l1, l2, idx, inbox, load, inv>>
    BY <1>1 DEF cache
  <2>3. QED
    BY <2>1, <2>2, FadingKeeps
<1>2. ASSUME NEW i \in Clients, NEW q \in Lookups, Cache!ReadL1(i, q) PROVE CacheInv'
  BY <1>2, ReadL1Keeps
<1>3. ASSUME NEW i \in Clients, Cache!ReadStep(i) PROVE CacheInv'
  BY <1>3, ReadL2Keeps, LoadKeeps, SetL2Keeps, FillKeeps, IndexKeeps DEF Cache!ReadStep
<1>4. ASSUME NEW i \in Clients, NEW d \in Docs, Cache!Write(i, d) PROVE CacheInv'
  BY <1>4, WriteKeeps
<1>5. ASSUME NEW i \in Clients, NEW f \in Fields, Cache!InvStep(i, f) PROVE CacheInv'
  BY <1>5, InvReadKeeps, InvDropL1Keeps, InvUnindexKeeps, InvPublishKeeps, InvDeleteKeeps
  DEF Cache!InvStep
<1>6. ASSUME NEW i \in Clients,
             \/ Cache!DropFromL1(i) \/ Cache!Unlink(i) \/ Cache!FlushL1(i)
             \/ Cache!Resubscribe(i)
      PROVE  CacheInv'
  BY <1>6, SubscriberKeeps
<1>7. ASSUME NEW k \in Keys, Cache!ExpireL2(k) \/ \E i \in Clients : Cache!ExpireL1(i, k)
      PROVE  CacheInv'
  BY <1>7, ExpiryKeeps
<1>8. QED
  BY <1>1, <1>2, <1>3, <1>4, <1>5, <1>6, <1>7 DEF Cache!Next

\* However lookups, writes and invalidations interleave, whatever messages the subscriber
\* loses and whatever Redis command fails: once no invalidation of a document is under way,
\* a copy that is stale overlapped a write on its way into the cache or met a failure
\* (getOrLoad and invalidateEntity, entity-cache.service.ts).
THEOREM StaleExplained == AllSpec => []StaleIsExplained
<1> DEFINE Inv == part = "cache" => CacheInv
<1>1. AllInit => Inv
  BY CacheInit DEF AllInit
<1>2. Inv /\ [AllNext]_allVars => Inv'
  BY CacheNext DEF AllNext, allVars, cache
<1>3. Inv => StaleIsExplained
  <2> SUFFICES ASSUME CacheInv PROVE Cache!TypeOK /\ Cache!StaleOnlyIfRisky
    BY DEF StaleIsExplained
  <2>1. Cache!TypeOK
    BY DEF CacheInv
  <2>2. ASSUME NEW k \in Keys, Cache!Stale(l2[k]), ~Cache!Busy(l2[k].doc)
        PROVE  l2[k].risky
    <3>1. PICK c \in Cache!Copy : c = l2[k]
      BY <2>1, <2>2, CacheTypes DEF Cache!Stale, Cache!Entry
    <3>2. Second(k, c)
      BY <3>1 DEF CacheInv
    <3>3. QED
      BY <2>2, <3>1, <3>2 DEF Second, Aging, WillDelete, Cache!Stale
  <2>3. ASSUME NEW k \in Keys, NEW j \in Clients, Cache!Stale(l1[j][k]),
               ~Cache!Busy(l1[j][k].doc)
        PROVE  l1[j][k].risky \/ k \in inbox[j]
    <3>1. PICK c \in Cache!Copy : c = l1[j][k]
      BY <2>1, <2>3, CacheTypes DEF Cache!Stale, Cache!Entry
    <3>2. First(j, k, c)
      BY <3>1 DEF CacheInv
    <3>3. QED
      BY <2>3, <3>1, <3>2 DEF First, Aging, WillDrop, WillRead, Cache!Busy, Cache!Stale
  <2>4. QED
    BY <2>1, <2>2, <2>3 DEF Cache!StaleOnlyIfRisky
<1>4. QED
  BY <1>1, <1>2, <1>3, PTL DEF AllSpec

-------------------------------------------------------------------------------
(* The quiz: what stands in its results, and where the leaderboard puts it. *)

LEMMA QuizzAssumed ==
  /\ \A p \in Papers : Len(p) \in Nat /\ DOMAIN p = 1..Len(p)
  /\ None \notin Papers /\ None \notin Quizz!Quiz /\ None \notin Quizz!Submission
  /\ MaxSubs \in Nat /\ Ids \subseteq {"own", "oid"}
BY QuizzAssumption DEF Quizz!ConstantsAssumption

LEMMA QuizzCount ==
  ASSUME NEW S
  PROVE  Quizz!Cardinality(S) = Cardinality(S)
BY DEF Quizz!Cardinality, Cardinality

\* Numbers from 1 on, finitely many.
LEMMA UpTo ==
  ASSUME NEW n \in Nat
  PROVE  IsFiniteSet(1..n) /\ Cardinality(1..n) = n
<1>1. 1 \in Int /\ n \in Int
  OBVIOUS
<1>2. QED
  BY <1>1, FS_Interval

\* Equal results are ranked as they stand: the ranks are the places, each given once.
LEMMA RanksOnce ==
  ASSUME quiz \in Quizz!Quiz
  PROVE  /\ \A k \in DOMAIN quiz.results : Quizz!Rank(k) \in DOMAIN quiz.results
         /\ \A i, j \in DOMAIN quiz.results : Quizz!Rank(i) = Quizz!Rank(j) => i = j
         /\ \A n \in DOMAIN quiz.results : \E k \in DOMAIN quiz.results : Quizz!Rank(k) = n
<1> DEFINE r == quiz.results
           S == DOMAIN r
           N == Len(r)
           ahead(k) == {j \in S : Quizz!Ahead(j, k)}
           rank == [k \in S |-> Quizz!Rank(k)]
<1>1. /\ r \in Seq(Quizz!Result) /\ N \in Nat /\ S = 1..N
      /\ \A k \in S : r[k].correct \in Nat /\ k \in Nat
  <2>1. r \in Seq(Quizz!Result)
    BY DEF Quizz!Quiz
  <2>2. N \in Nat /\ S = 1..N
    BY <2>1, LenProperties
  <2>3. \A k \in S : r[k] \in Quizz!Result
    BY <2>1, ElementOfSeq, <2>2
  <2>4. QED
    BY <2>1, <2>2, <2>3 DEF Quizz!Result
<1>2. IsFiniteSet(S) /\ Cardinality(S) = N
  BY <1>1, UpTo
<1>3. \A k \in S : k \in ahead(k)
  BY <1>1 DEF Quizz!Ahead
<1>4. ASSUME NEW k \in S
      PROVE  IsFiniteSet(ahead(k)) /\ Quizz!Rank(k) = Cardinality(ahead(k)) /\ Quizz!Rank(k) \in S
  <2>1. IsFiniteSet(ahead(k)) /\ Cardinality(ahead(k)) <= Cardinality(S)
    BY <1>2, FS_Subset
  <2>2. Cardinality(ahead(k)) \in Nat /\ Cardinality(ahead(k)) # 0
    BY <1>3, <2>1, FS_CardinalityType, FS_EmptySet
  <2>3. Quizz!Rank(k) = Cardinality(ahead(k))
    BY QuizzCount DEF Quizz!Rank
  <2>4. QED
    BY <1>1, <1>2, <2>1, <2>2, <2>3
<1>5. ASSUME NEW i \in S, NEW j \in S, i # j, Quizz!Ahead(i, j)
      PROVE  Quizz!Rank(i) # Quizz!Rank(j)
  <2>1. \A k \in S : Quizz!Ahead(k, i) => Quizz!Ahead(k, j)
    BY <1>1, <1>5 DEF Quizz!Ahead
  <2>2. ~ Quizz!Ahead(j, i)
    BY <1>1, <1>5 DEF Quizz!Ahead
  <2>3. ahead(i) \subseteq ahead(j) /\ ahead(i) # ahead(j)
    BY <1>3, <2>1, <2>2
  <2>4. Cardinality(ahead(i)) # Cardinality(ahead(j))
    BY <1>4, <2>3, FS_Subset
  <2>5. QED
    BY <1>4, <2>4
<1>6. \A i, j \in S : Quizz!Ahead(i, j) \/ Quizz!Ahead(j, i)
  BY <1>1 DEF Quizz!Ahead
<1>7. \A i, j \in S : Quizz!Rank(i) = Quizz!Rank(j) => i = j
  BY <1>5, <1>6
<1>8. rank \in Injection(S, S)
  BY <1>4, <1>7 DEF Injection, IsInjective
<1>9. rank \in Surjection(S, S)
  BY <1>2, <1>8, FS_Injection
<1>10. \A n \in S : \E k \in S : Quizz!Rank(k) = n
  BY <1>9 DEF Surjection
<1>11. QED
  BY <1>4, <1>7, <1>10

\* The leaderboard has the results, each once.
LEMMA BoardHas ==
  ASSUME quiz \in Quizz!Quiz
  PROVE  /\ DOMAIN Quizz!Leaderboard = DOMAIN quiz.results
         /\ \A k \in DOMAIN quiz.results : Quizz!Leaderboard[Quizz!Rank(k)] = quiz.results[k]
         /\ \A n \in DOMAIN quiz.results : \E k \in DOMAIN quiz.results :
              Quizz!Rank(k) = n /\ Quizz!Leaderboard[n] = quiz.results[k]
<1> DEFINE S == DOMAIN quiz.results
           at(n) == CHOOSE k \in S : Quizz!Rank(k) = n
<1>1. \A n \in S : at(n) \in S /\ Quizz!Rank(at(n)) = n
  BY RanksOnce
<1>2. \A n \in S : Quizz!Leaderboard[n] = quiz.results[at(n)]
  BY DEF Quizz!Leaderboard
<1>3. \A k \in S : Quizz!Rank(k) \in S /\ at(Quizz!Rank(k)) = k
  BY <1>1, RanksOnce
<1>4. DOMAIN Quizz!Leaderboard = S
  BY DEF Quizz!Leaderboard
<1> HIDE DEF at
<1>5. QED
  BY <1>1, <1>2, <1>3, <1>4

\* Who has one result stands once on the leaderboard, who has none nowhere.
LEMMA StandsOnce ==
  ASSUME quiz \in Quizz!Quiz, NEW u
  PROVE  /\ Quizz!Had(u) = {} => Quizz!Of(u, Quizz!Leaderboard) = {}
         /\ \A k : Quizz!Had(u) = {k} =>
              \E n \in DOMAIN Quizz!Leaderboard :
                Quizz!Of(u, Quizz!Leaderboard) = {n} /\ Quizz!Leaderboard[n] = quiz.results[k]
<1>1. Quizz!Had(u) = {} => Quizz!Of(u, Quizz!Leaderboard) = {}
  BY BoardHas DEF Quizz!Had, Quizz!Of
<1>2. ASSUME NEW k, Quizz!Had(u) = {k}
      PROVE  \E n \in DOMAIN Quizz!Leaderboard :
               Quizz!Of(u, Quizz!Leaderboard) = {n} /\ Quizz!Leaderboard[n] = quiz.results[k]
  <2>1. k \in DOMAIN quiz.results /\ quiz.results[k].user = u
    BY <1>2 DEF Quizz!Had
  <2>2. PICK n \in DOMAIN quiz.results : n = Quizz!Rank(k)
    BY <2>1, RanksOnce
  <2>3. Quizz!Leaderboard[n] = quiz.results[k] /\ n \in DOMAIN Quizz!Leaderboard
    BY <2>1, <2>2, BoardHas
  <2>4. ASSUME NEW m \in DOMAIN Quizz!Leaderboard, Quizz!Leaderboard[m].user = u PROVE m = n
    <3>1. PICK j \in DOMAIN quiz.results :
            Quizz!Rank(j) = m /\ Quizz!Leaderboard[m] = quiz.results[j]
      BY <2>4, BoardHas
    <3>2. j = k
      BY <1>2, <2>4, <3>1 DEF Quizz!Had
    <3>3. QED
      BY <2>2, <3>1, <3>2
  <2>5. Quizz!Of(u, Quizz!Leaderboard) = {n}
    BY <2>1, <2>3, <2>4 DEF Quizz!Of
  <2>6. QED
    BY <2>3, <2>5
<1>3. QED
  BY <1>1, <1>2

\* A paper that answers no question twice is graded by the questions it has right.
LEMMA GradedRight ==
  ASSUME NEW p \in Papers
  PROVE  /\ Quizz!Grade(p) \in Nat
         /\ Quizz!EachOnce(p) => Quizz!Grade(p) = Quizz!Cardinality(Quizz!RightOnes(p))
<1> DEFINE K == {k \in DOMAIN p : Quizz!IsCorrect(p[k])}
           Q == Quizz!RightOnes(p)
           q == [k \in K |-> p[k].question]
<1>1. IsFiniteSet(K) /\ Cardinality(K) \in Nat
  <2>1. Len(p) \in Nat /\ DOMAIN p = 1..Len(p)
    BY QuizzAssumed
  <2>2. IsFiniteSet(1..Len(p))
    BY <2>1, UpTo
  <2>3. QED
    BY <2>1, <2>2, FS_Subset, FS_CardinalityType
<1>2. Quizz!Grade(p) = Cardinality(K)
  BY QuizzCount DEF Quizz!Grade
<1>3. ASSUME Quizz!EachOnce(p) PROVE Cardinality(K) = Cardinality(Q)
  <2>1. q \in Surjection(K, Q)
    BY DEF Quizz!RightOnes, Surjection
  <2>2. q \in Injection(K, Q)
    BY <1>3, <2>1 DEF Quizz!EachOnce, Injection, IsInjective, Surjection
  <2>3. QED
    BY <1>1, <2>1, <2>2, FS_Surjection
<1>4. Quizz!Cardinality(Q) = Cardinality(Q)
  BY QuizzCount
<1>5. QED
  BY <1>1, <1>2, <1>3, <1>4

\* A submission in progress is graded, and knows whether its user had a result.
Graded(s) ==
  sub[s] # None =>
    /\ sub[s] \in Quizz!Submission
    /\ sub[s].correct = Quizz!Grade(sub[s].paper)
    /\ quiz # None /\ sub[s].user \notin both => (sub[s].had <=> Quizz!Had(sub[s].user) # {})

\* Who never had two submissions at once has one at most, and one result at most: that
\* of the last paper, unless it was written under another name.
Single(u) ==
  /\ \A s, t \in Requests :
       /\ sub[s] # None /\ sub[t] # None
       /\ sub[s].user = u /\ sub[t].user = u
       => s = t
  /\ quiz # None => Quizz!Had(u) = {} \/ \E k : Quizz!Had(u) = {k}
  /\ quiz # None /\ u \notin lost =>
       IF last[u] = None THEN Quizz!Had(u) = {}
       ELSE \E k : /\ Quizz!Had(u) = {k}
                   /\ quiz.results[k].paper = last[u]
                   /\ quiz.results[k].correct = Quizz!Grade(last[u])

QuizInv ==
  /\ Quizz!TypeOK
  /\ quiz # None => made
  /\ ~ made => (\A s \in Requests : sub[s] = None) /\ \A u \in Clients : last[u] = None
  /\ \A s \in Requests : Graded(s)
  /\ \A u \in Clients \ both : Single(u)

LEMMA QuizInit == Quizz!Init => QuizInv
<1>1. Quizz!Init => Quizz!TypeOK
  <2>1. Quizz!Init => made \in BOOLEAN
    BY DEF Quizz!Init
  <2>2. QED
    BY <2>1, QuizzAssumed DEF Quizz!Init, Quizz!TypeOK
<1>2. QED
  BY <1>1 DEF Quizz!Init, QuizInv, Graded, Single

\* The first of some numbers.
LEMMA FirstOf ==
  ASSUME NEW S \in SUBSET Nat, S # {}
  PROVE  \E x \in S : \A y \in S : x <= y
<1>1. PICK x \in S : \A y \in S : ~ (<<y, x>> \in OpToRel(<, Nat))
  BY NatLessThanWellFounded, WFMin, Zenon
<1>2. \A y \in S : ~ (y < x)
  BY <1>1, Zenon DEF OpToRel
<1>3. \A y \in S : y \in Nat /\ x \in Nat => x <= y
  BY <1>2
<1>4. QED
  BY <1>3

LEMMA OneMore ==
  ASSUME quiz \in Quizz!Quiz, NEW r \in Seq(Quizz!Result), NEW n \in Nat
  PROVE  [quiz EXCEPT !.results = r, !.total = n] \in Quizz!Quiz
<1> DEFINE R == Seq(Quizz!Result)
           B == BOOLEAN
           I == {"own", "oid"}
<1> HIDE DEF R, B, I
<1>1. Quizz!Quiz = [qid : I, status : Quizz!States, retake : B, results : R, total : Nat]
  BY DEF Quizz!Quiz, R, B, I
<1>2. r \in R
  BY DEF R
<1>3. QED
  BY <1>1, <1>2

\* The results after a submission is stored: its user's first one replaced, or one more.
LEMMA StoredWhere ==
  ASSUME quiz \in Quizz!Quiz, NEW q \in Quizz!Submission, q.user \in Clients, q.paper \in Papers,
         q.had => Quizz!Had(q.user) # {}, quiz' = Quizz!Stored(q)
  PROVE  /\ quiz' \in Quizz!Quiz /\ quiz'.qid = quiz.qid
         /\ \A u : u # q.user =>
              /\ Quizz!Had(u)' = Quizz!Had(u)
              /\ \A k \in Quizz!Had(u) : quiz'.results[k] = quiz.results[k]
         /\ \A j : (q.had /\ Quizz!Had(q.user) = {j}) \/ (~ q.had /\ Quizz!Had(q.user) = {}) =>
              \E k : Quizz!Had(q.user)' = {k} /\ quiz'.results[k] = Quizz!Entry(q)
<1> DEFINE r == quiz.results
           e == Quizz!Entry(q)
<1>1. /\ quiz = [qid |-> quiz.qid, status |-> quiz.status, retake |-> quiz.retake,
                 results |-> r, total |-> quiz.total]
      /\ quiz.qid \in {"own", "oid"} /\ quiz.status \in Quizz!States /\ quiz.retake \in BOOLEAN
      /\ quiz.total \in Nat
  BY DEF Quizz!Quiz
<1>2. r \in Seq(Quizz!Result) /\ Len(r) \in Nat /\ DOMAIN r = 1..Len(r)
  <2>1. r \in Seq(Quizz!Result)
    BY DEF Quizz!Quiz
  <2>2. QED
    BY <2>1, LenProperties
<1>3. e \in Quizz!Result /\ e.user = q.user
  BY DEF Quizz!Entry, Quizz!Result, Quizz!Submission
<1> HIDE DEF e
<1>4. CASE q.had
  <2>1. Quizz!Had(q.user) \subseteq 1..Len(r)
    BY <1>2 DEF Quizz!Had
  <2>2. Quizz!Had(q.user) \in SUBSET Nat /\ Quizz!Had(q.user) # {}
    BY <1>2, <1>4, <2>1
  <2>3. PICK k : k = CHOOSE i \in Quizz!Had(q.user) : \A j \in Quizz!Had(q.user) : i <= j
    OBVIOUS
  <2>4. k \in Quizz!Had(q.user)
    BY <2>2, <2>3, FirstOf
  <2>5. quiz' = [quiz EXCEPT !.results[k] = e]
    BY <1>4, <2>3 DEF Quizz!Stored, e
  <2>6. k \in DOMAIN r /\ r[k].user = q.user
    BY <2>4 DEF Quizz!Had
  <2>7. quiz'.results = [r EXCEPT ![k] = e] /\ quiz'.qid = quiz.qid
    BY <1>1, <2>5
  <2>8. quiz' \in Quizz!Quiz
    <3>1. [r EXCEPT ![k] = e] \in Seq(Quizz!Result)
      BY <1>2, <1>3, <2>6, ExceptSeq
    <3>2. QED
      BY <1>1, <2>5, <3>1 DEF Quizz!Quiz
  <2>9. \A i \in DOMAIN r : quiz'.results[i] = IF i = k THEN e ELSE r[i]
    BY <2>7
  <2>10. DOMAIN quiz'.results = DOMAIN r
    BY <2>7
  <2>11. QED
    BY <1>3, <1>4, <2>4, <2>6, <2>7, <2>8, <2>9, <2>10 DEF Quizz!Had, e
<1>5. CASE ~ q.had
  <2>1. quiz' = [quiz EXCEPT !.results = Append(r, e), !.total = quiz.total + 1]
    BY <1>1, <1>5 DEF Quizz!Stored, e
  <2>2. quiz'.results = Append(r, e) /\ quiz'.qid = quiz.qid
    BY <1>1, <2>1
  <2>3. /\ Append(r, e) \in Seq(Quizz!Result) /\ DOMAIN Append(r, e) = 1..(Len(r) + 1)
        /\ \A i \in 1..Len(r) : Append(r, e)[i] = r[i]
        /\ Append(r, e)[Len(r) + 1] = e
    BY <1>2, <1>3, AppendProperties, LenProperties
  <2>4. quiz' \in Quizz!Quiz
    <3>1. PICK a \in Seq(Quizz!Result) : a = Append(r, e)
      BY <2>3
    <3>2. PICK n \in Nat : n = quiz.total + 1
      BY <1>1
    <3>3. quiz' = [quiz EXCEPT !.results = a, !.total = n]
      BY <2>1, <3>1, <3>2
    <3>4. [quiz EXCEPT !.results = a, !.total = n] \in Quizz!Quiz
      BY OneMore
    <3>5. QED
      BY <3>3, <3>4
  <2>5. \A i : i \in 1..(Len(r) + 1) <=> i \in 1..Len(r) \/ i = Len(r) + 1
    BY <1>2
  <2>6. Len(r) + 1 \notin 1..Len(r)
    BY <1>2
  <2>7. QED
    BY <1>2, <1>3, <1>5, <2>2, <2>3, <2>4, <2>5, <2>6 DEF Quizz!Had, e
<1>6. QED
  BY <1>4, <1>5 DEF Quizz!Submission

LEMMA QuizCreate ==
  ASSUME QuizInv, NEW status \in Quizz!States, NEW retake \in BOOLEAN,
         Quizz!Create(status, retake)
  PROVE  QuizInv'
<1>1. quiz' = [qid |-> "own", status |-> status, retake |-> retake, results |-> <<>>, total |-> 0]
      /\ ~ made /\ UNCHANGED <<sub, last, both, lost, subbed>>
  BY DEF Quizz!Create
<1>2. quiz' \in Quizz!Quiz
  BY <1>1 DEF Quizz!Quiz
<1>3. made' = TRUE
  BY DEF Quizz!Create
<1>4. \A u : Quizz!Had(u)' = {}
  BY <1>1 DEF Quizz!Had
<1>6. Quizz!TypeOK'
  BY <1>1, <1>2, <1>3 DEF QuizInv, Quizz!TypeOK
<1>7. /\ \A s \in Requests : sub'[s] = None
      /\ \A u \in Clients : last'[u] = None
  BY <1>1 DEF QuizInv
<1>8. (\A s \in Requests : Graded(s)') /\ \A u \in Clients \ both' : Single(u)'
  BY <1>4, <1>7 DEF Graded, Single
<1>9. QED
  BY <1>3, <1>6, <1>7, <1>8 DEF QuizInv

\* The owner changes no result, or all go.
LEMMA QuizOwner ==
  ASSUME QuizInv, NEW id \in Ids
  PROVE  /\ \A status \in Quizz!States, retake \in BOOLEAN :
              Quizz!Update(id, status, retake) => QuizInv'
         /\ Quizz!Delete(id) => QuizInv'
<1>1. ASSUME NEW status \in Quizz!States, NEW retake \in BOOLEAN,
             Quizz!Update(id, status, retake)
      PROVE  QuizInv'
  <2>1. /\ quiz' = [quiz EXCEPT !.qid = id, !.status = status, !.retake = retake]
        /\ UNCHANGED <<made, sub, last, both, lost, subbed>>
        /\ quiz # None /\ quiz \in Quizz!Quiz
    BY <1>1 DEF Quizz!Update, Quizz!ById, QuizInv, Quizz!TypeOK
  <2>2. quiz'.results = quiz.results /\ id \in {"own", "oid"}
    BY <2>1, QuizzAssumed DEF Quizz!Quiz
  <2>3. quiz' \in Quizz!Quiz
    <3> DEFINE R == Seq(Quizz!Result)
               B == BOOLEAN
    <3> HIDE DEF R, B
    <3>1. Quizz!Quiz = [qid : {"own", "oid"}, status : Quizz!States, retake : B, results : R,
                        total : Nat]
      BY DEF Quizz!Quiz, R, B
    <3>2. retake \in B
      BY DEF B
    <3>3. QED
      BY <2>1, <2>2, <3>1, <3>2
  <2>4. \A u : Quizz!Had(u)' = Quizz!Had(u)
    BY <2>2 DEF Quizz!Had
  <2>5. Quizz!TypeOK'
    BY <2>1, <2>3 DEF QuizInv, Quizz!TypeOK
  <2>6. \A s \in Requests : Graded(s)'
    BY <2>1, <2>4 DEF QuizInv, Graded
  <2>7. ASSUME NEW u \in Clients \ both' PROVE Single(u)'
    <3>1. Single(u) /\ UNCHANGED <<sub, last, lost>> /\ quiz # None
      BY <2>1, <2>7 DEF QuizInv
    <3>2. Quizz!Had(u)' = Quizz!Had(u)
      BY <2>4
    <3>3. QED
      BY <2>2, <3>1, <3>2 DEF Single
  <2>8. QED
    BY <2>1, <2>5, <2>6, <2>7 DEF QuizInv
<1>2. ASSUME Quizz!Delete(id) PROVE QuizInv'
  <2>1. quiz' = None /\ quiz # None /\ UNCHANGED <<made, sub, last, both, lost, subbed>>
    BY <1>2 DEF Quizz!Delete, Quizz!ById
  <2>2. Quizz!TypeOK'
    BY <2>1 DEF QuizInv, Quizz!TypeOK
  <2>3. (\A s \in Requests : Graded(s)') /\ \A u \in Clients \ both' : Single(u)'
    BY <2>1 DEF QuizInv, Graded, Single
  <2>4. QED
    BY <2>1, <2>2, <2>3 DEF QuizInv
<1>3. QED
  BY <1>1, <1>2

LEMMA QuizSubmit ==
  ASSUME QuizInv, NEW s \in Requests, NEW u \in Clients, NEW id \in Ids, NEW p \in Papers,
         Quizz!Submit(s, u, id, p)
  PROVE  QuizInv'
<1> DEFINE q == [user |-> u, id |-> id, paper |-> p, correct |-> Quizz!Grade(p),
                 had |-> Quizz!Had(u) # {}]
<1>1. /\ sub' = [sub EXCEPT ![s] = q] /\ sub[s] = None /\ quiz # None
      /\ UNCHANGED <<quiz, made, last, lost>>
      /\ both' = both \union {v \in {u} : \E r \in Requests : sub[r] # None /\ sub[r].user = u}
  BY DEF Quizz!Submit, Quizz!ById
<1>2. q \in Quizz!Submission /\ q # None
  <2> DEFINE B == BOOLEAN
             had == Quizz!Had(u) # {}
  <2>1. had \in B
    OBVIOUS
  <2> HIDE DEF B, had
  <2>2. Quizz!Submission = [user : Clients, id : Ids, paper : Papers, correct : Nat, had : B]
    BY DEF Quizz!Submission, B
  <2>3. q = [user |-> u, id |-> id, paper |-> p, correct |-> Quizz!Grade(p), had |-> had]
    BY DEF had
  <2>4. q \in Quizz!Submission
    BY GradedRight, <2>1, <2>2, <2>3
  <2>5. QED
    BY <2>4, QuizzAssumed
<1>3. q.user = u /\ q.paper = p /\ q.correct = Quizz!Grade(p) /\ (q.had <=> Quizz!Had(u) # {})
  OBVIOUS
<1> HIDE DEF q
<1>4. \A r \in Requests : sub'[r] = IF r = s THEN q ELSE sub[r]
  BY <1>1 DEF QuizInv, Quizz!TypeOK
<1>5. /\ both' \subseteq Clients /\ both \subseteq both'
      /\ \A r \in Requests : sub[r] # None /\ sub[r].user = u => u \in both'
  BY <1>1 DEF QuizInv, Quizz!TypeOK
<1>6. subbed' \in 0..MaxSubs
  BY QuizzAssumed DEF Quizz!Submit, QuizInv, Quizz!TypeOK
<1>7. Quizz!TypeOK'
  <2>1. made' \in BOOLEAN
    BY <1>1 DEF QuizInv, Quizz!TypeOK
  <2>2. sub' \in [Requests -> Quizz!Submission \union {None}]
    BY <1>1, <1>2 DEF QuizInv, Quizz!TypeOK
  <2>3. QED
    BY <1>1, <1>5, <1>6, <2>1, <2>2 DEF QuizInv, Quizz!TypeOK
<1>8. \A v : Quizz!Had(v)' = Quizz!Had(v)
  BY <1>1 DEF Quizz!Had
<1>9. ASSUME NEW r \in Requests PROVE Graded(r)'
  BY <1>1, <1>2, <1>3, <1>4, <1>5, <1>8 DEF QuizInv, Graded
<1>10. ASSUME NEW v \in Clients \ both' PROVE Single(v)'
  <2>1. Single(v) /\ UNCHANGED <<quiz, last, lost>> /\ Quizz!Had(v)' = Quizz!Had(v)
    BY <1>1, <1>5, <1>8, <1>10 DEF QuizInv
  <2>2. \A r, t \in Requests :
          sub'[r] # None /\ sub'[t] # None /\ sub'[r].user = v /\ sub'[t].user = v => r = t
    BY <1>3, <1>4, <1>5, <1>10, <2>1 DEF Single
  <2>3. QED
    BY <2>1, <2>2 DEF Single
<1>11. QED
  BY <1>1, <1>7, <1>9, <1>10 DEF QuizInv

LEMMA QuizStore ==
  ASSUME QuizInv, NEW s \in Requests, Quizz!Store(s)
  PROVE  QuizInv'
<1>1. PICK q \in Quizz!Submission : q = sub[s]
  BY DEF QuizInv, Graded, Quizz!Store
<1>2. /\ q # None /\ last' = [last EXCEPT ![q.user] = q.paper]
      /\ sub' = [sub EXCEPT ![s] = None] /\ UNCHANGED <<made, both, subbed>>
      /\ lost' = IF quiz # None /\ quiz.qid # q.id THEN lost \union {q.user} ELSE lost \ {q.user}
      /\ IF quiz # None /\ quiz.qid = q.id /\ (q.had => Quizz!Had(q.user) # {})
         THEN quiz' = Quizz!Stored(q) ELSE quiz' = quiz
  BY <1>1 DEF Quizz!Store
<1>3. /\ q.user \in Clients /\ q.paper \in Papers /\ q.paper # None
      /\ q.correct = Quizz!Grade(q.paper)
  BY <1>1, <1>2, QuizzAssumed DEF Quizz!Submission, QuizInv, Graded
<1>4. \A r \in Requests : sub'[r] = IF r = s THEN None ELSE sub[r]
  BY <1>2 DEF QuizInv, Quizz!TypeOK
<1>5. \A v \in Clients : last'[v] = IF v = q.user THEN q.paper ELSE last[v]
  BY <1>2 DEF QuizInv, Quizz!TypeOK
<1>6. /\ last' \in [Clients -> Papers \union {None}]
      /\ sub' \in [Requests -> Quizz!Submission \union {None}]
  BY <1>2, <1>3 DEF QuizInv, Quizz!TypeOK
<1>7. /\ made' \in BOOLEAN /\ lost' \subseteq Clients
      /\ \A v \in Clients : v # q.user => (v \in lost' <=> v \in lost)
  BY <1>2, <1>3 DEF QuizInv, Quizz!TypeOK
<1>8. q.user \notin both => \A r \in Requests : sub[r] # None /\ sub[r].user = q.user => r = s
  BY <1>1, <1>2, <1>3 DEF QuizInv, Single
<1>9. made /\ (made' <=> made)
  BY <1>1, <1>2 DEF QuizInv
<1>10. CASE quiz = None
  <2>1. quiz' = None
    BY <1>2, <1>10
  <2>2. Quizz!TypeOK'
    BY <1>2, <1>6, <1>7, <2>1 DEF QuizInv, Quizz!TypeOK
  <2>3. \A r \in Requests : Graded(r)'
    BY <1>4, <2>1 DEF QuizInv, Graded
  <2>4. \A v \in Clients \ both' : Single(v)'
    BY <1>2, <1>4, <2>1 DEF QuizInv, Single
  <2>5. QED
    BY <1>9, <2>1, <2>2, <2>3, <2>4 DEF QuizInv
<1>11. CASE quiz # None /\ quiz.qid = q.id /\ (q.had => Quizz!Had(q.user) # {})
  <2>1. quiz \in Quizz!Quiz
    BY <1>11 DEF QuizInv, Quizz!TypeOK
  <2>2. quiz' = Quizz!Stored(q)
    BY <1>2, <1>11
  <2>3. /\ quiz' \in Quizz!Quiz
        /\ \A v : v # q.user =>
             /\ Quizz!Had(v)' = Quizz!Had(v)
             /\ \A k \in Quizz!Had(v) : quiz'.results[k] = quiz.results[k]
        /\ \A j : (q.had /\ Quizz!Had(q.user) = {j}) \/ (~ q.had /\ Quizz!Had(q.user) = {}) =>
             \E k : Quizz!Had(q.user)' = {k} /\ quiz'.results[k] = Quizz!Entry(q)
    BY <1>3, <1>11, <2>1, <2>2, StoredWhere
  <2>4. Quizz!TypeOK'
    BY <1>2, <1>6, <1>7, <2>3 DEF QuizInv, Quizz!TypeOK
  <2>5. ASSUME NEW r \in Requests, sub'[r] # None
        PROVE  Graded(r)'
    <3>1. r # s /\ sub'[r] = sub[r] /\ Graded(r) /\ sub[r] # None
      BY <1>4, <2>5 DEF QuizInv
    <3>2. PICK v : v = sub[r].user
      OBVIOUS
    <3>3. v \notin both => v # q.user
      BY <1>8, <3>1, <3>2
    <3>4. v \notin both => Quizz!Had(v)' = Quizz!Had(v)
      BY <2>3, <3>3
    <3>5. v \notin both => (sub[r].had <=> Quizz!Had(v)' # {})
      BY <1>11, <3>1, <3>2, <3>4, Zenon DEF Graded
    <3>6. QED
      BY <1>2, <3>1, <3>2, <3>5 DEF Graded
  <2>6. ASSUME NEW v \in Clients \ both', v # q.user PROVE Single(v)'
    BY <1>2, <1>4, <1>5, <1>7, <1>11, <2>3, <2>6 DEF QuizInv, Single
  <2>7. ASSUME NEW v \in Clients \ both', v = q.user PROVE Single(v)'
    <3>1. v \notin both /\ Single(v) /\ Graded(s)
      BY <1>2, <2>7 DEF QuizInv
    <3>2. q.had <=> Quizz!Had(v) # {}
      BY <1>1, <1>2, <1>11, <2>7, <3>1, Zenon DEF Graded
    <3>3. \E j : Quizz!Had(v) = {} \/ Quizz!Had(v) = {j}
      BY <1>11, <3>1 DEF Single
    <3>4. PICK j : (q.had /\ Quizz!Had(q.user) = {j}) \/ (~ q.had /\ Quizz!Had(q.user) = {})
      BY <2>7, <3>2, <3>3
    <3>5. PICK k : Quizz!Had(v)' = {k} /\ quiz'.results[k] = Quizz!Entry(q)
      BY <2>3, <2>7, <3>4
    <3>6. /\ quiz'.results[k].paper = q.paper
          /\ quiz'.results[k].correct = Quizz!Grade(q.paper)
      BY <1>3, <3>5 DEF Quizz!Entry
    <3>7. last'[v] = q.paper /\ q.paper # None
      BY <1>3, <1>5, <2>7
    <3>8. \A r, t \in Requests :
             /\ sub'[r] # None /\ sub'[t] # None
             /\ sub'[r].user = v /\ sub'[t].user = v
             => r = t
      BY <1>4, <3>1 DEF Single
    <3>9. QED
      BY <3>5, <3>6, <3>7, <3>8 DEF Single
  <2>8. \A r \in Requests : Graded(r)'
    BY <2>5 DEF Graded
  <2>9. \A v \in Clients \ both' : Single(v)'
    BY <2>6, <2>7
  <2>10. QED
    BY <1>9, <2>3, <2>4, <2>8, <2>9 DEF QuizInv
<1>12. CASE quiz # None /\ quiz.qid = q.id /\ q.had /\ Quizz!Had(q.user) = {}
  <2>1. quiz' = quiz /\ q.user \in both
    BY <1>1, <1>2, <1>12 DEF QuizInv, Graded
  <2>2. Quizz!TypeOK'
    BY <1>2, <1>6, <1>7, <2>1 DEF QuizInv, Quizz!TypeOK
  <2>3. \A v : Quizz!Had(v)' = Quizz!Had(v)
    BY <2>1 DEF Quizz!Had
  <2>4. \A r \in Requests : Graded(r)'
    BY <1>2, <1>4, <2>1, <2>3 DEF QuizInv, Graded
  <2>5. \A v \in Clients \ both' : Single(v)'
    BY <1>2, <1>4, <1>5, <1>7, <2>1, <2>3 DEF QuizInv, Single
  <2>6. QED
    BY <1>9, <2>1, <2>2, <2>4, <2>5 DEF QuizInv
<1>13. CASE quiz # None /\ quiz.qid # q.id
  <2>1. quiz' = quiz /\ q.user \in lost'
    BY <1>2, <1>13
  <2>2. Quizz!TypeOK'
    BY <1>2, <1>6, <1>7, <2>1 DEF QuizInv, Quizz!TypeOK
  <2>3. \A v : Quizz!Had(v)' = Quizz!Had(v)
    BY <2>1 DEF Quizz!Had
  <2>4. \A r \in Requests : Graded(r)'
    BY <1>2, <1>4, <2>1, <2>3 DEF QuizInv, Graded
  <2>5. \A v \in Clients \ both' : Single(v)'
    BY <1>2, <1>4, <1>5, <1>7, <2>1, <2>3 DEF QuizInv, Single
  <2>6. QED
    BY <1>9, <2>1, <2>2, <2>4, <2>5 DEF QuizInv
<1>14. QED
  BY <1>10, <1>11, <1>12, <1>13

LEMMA QuizFail ==
  ASSUME QuizInv, NEW s \in Requests, Quizz!Fail(s)
  PROVE  QuizInv'
<1>1. UNCHANGED <<quiz, made, last, both, lost, subbed>> /\ sub' = [sub EXCEPT ![s] = None]
      /\ sub[s] # None
  BY DEF Quizz!Fail
<1>2. \A r \in Requests : sub'[r] = IF r = s THEN None ELSE sub[r]
  BY <1>1 DEF QuizInv, Quizz!TypeOK
<1>3. Quizz!TypeOK'
  BY <1>1 DEF QuizInv, Quizz!TypeOK
<1>4. \A v : Quizz!Had(v)' = Quizz!Had(v)
  BY <1>1 DEF Quizz!Had
<1>5. \A r \in Requests : Graded(r)'
  BY <1>1, <1>2, <1>4 DEF QuizInv, Graded
<1>6. \A v \in Clients \ both' : Single(v)'
  BY <1>1, <1>2, <1>4 DEF QuizInv, Single
<1>7. QED
  BY <1>1, <1>2, <1>3, <1>5, <1>6 DEF QuizInv

LEMMA QuizKept == QuizInv /\ Quizz!Next => QuizInv'
<1> SUFFICES ASSUME QuizInv, Quizz!Next PROVE QuizInv'
  OBVIOUS
<1>1. ASSUME NEW status \in Quizz!States, NEW retake \in BOOLEAN,
             \/ Quizz!Create(status, retake)
             \/ \E id \in Ids : Quizz!Update(id, status, retake)
      PROVE  QuizInv'
  BY <1>1, QuizCreate, QuizOwner
<1>2. ASSUME NEW id \in Ids,
             \/ Quizz!Delete(id)
             \/ \E s \in Requests, u \in Clients, p \in Papers : Quizz!Submit(s, u, id, p)
      PROVE  QuizInv'
  BY <1>2, QuizOwner, QuizSubmit
<1>3. ASSUME NEW s \in Requests, Quizz!Store(s) \/ Quizz!Fail(s) PROVE QuizInv'
  BY <1>3, QuizStore, QuizFail
<1>4. QED
  BY <1>1, <1>2, <1>3 DEF Quizz!Next

LEMMA QuizRest ==
  ASSUME QuizInv, UNCHANGED quizz
  PROVE  QuizInv'
BY DEF quizz, QuizInv, Quizz!TypeOK, Graded, Single, Quizz!Had

\* Whatever names the quiz is asked under and given, the leaderboard shows who never had
\* two submissions at once, and whose last one was not written under a name other than
\* the quiz_id stored, with the last paper that was answered as submitted, once, and
\* graded by the questions it has right (quizz.service.ts, submitQuizz): for any quiz,
\* papers and submissions side by side.
THEOREM LastPaperCounts == AllSpec => []LastCounts
<1> DEFINE InvQ == part = "quiz" => QuizInv
<1>1. AllInit => InvQ
  BY QuizInit DEF AllInit
<1>2. InvQ /\ [AllNext]_allVars => InvQ'
  <2>1. ASSUME InvQ, part = "quiz" /\ Quizz!Next, UNCHANGED part PROVE InvQ'
    BY <2>1, QuizKept
  <2>2. ASSUME InvQ, UNCHANGED quizz, UNCHANGED part PROVE InvQ'
    BY <2>2, QuizRest
  <2>3. QED
    BY <2>1, <2>2 DEF AllNext, allVars
<1>3. InvQ => LastCounts
  <2> SUFFICES ASSUME QuizInv PROVE Quizz!TypeOK /\ Quizz!LastCounts
    BY DEF LastCounts
  <2>1. ASSUME quiz # None, NEW u \in Clients \ (both \union lost)
        PROVE  IF last[u] = None THEN Quizz!Of(u, Quizz!Leaderboard) = {}
               ELSE \E n \in DOMAIN Quizz!Leaderboard :
                 /\ Quizz!Of(u, Quizz!Leaderboard) = {n}
                 /\ Quizz!Leaderboard[n].paper = last[u]
                 /\ Quizz!EachOnce(last[u])
                      => Quizz!Leaderboard[n].correct
                           = Quizz!Cardinality(Quizz!RightOnes(last[u]))
    <3>1. quiz \in Quizz!Quiz /\ Single(u)
      BY <2>1 DEF QuizInv, Quizz!TypeOK
    <3>2. CASE last[u] = None
      BY <2>1, <3>1, <3>2, StandsOnce DEF Single
    <3>3. CASE last[u] # None
      <4>1. last[u] \in Papers
        BY <3>3 DEF QuizInv, Quizz!TypeOK
      <4>2. PICK k : /\ Quizz!Had(u) = {k} /\ quiz.results[k].paper = last[u]
                     /\ quiz.results[k].correct = Quizz!Grade(last[u])
        BY <2>1, <3>1, <3>3 DEF Single
      <4>3. PICK n \in DOMAIN Quizz!Leaderboard :
              Quizz!Of(u, Quizz!Leaderboard) = {n} /\ Quizz!Leaderboard[n] = quiz.results[k]
        BY <3>1, <4>2, StandsOnce
      <4>4. QED
        BY <3>3, <4>1, <4>2, <4>3, GradedRight
    <3>4. QED
      BY <3>2, <3>3
  <2>2. QED
    BY <2>1 DEF Quizz!LastCounts, QuizInv
<1>4. QED
  BY <1>1, <1>2, <1>3, PTL DEF AllSpec

-------------------------------------------------------------------------------
(* The call gateway *)

LEMMA Lengths ==
  /\ Gateway!Script("none") = <<>> /\ Len(Gateway!Script("none")) = 0
  /\ Gateway!Script("request") = Gateway!RequestScript /\ Len(Gateway!RequestScript) = 11
  /\ Gateway!Script("accept") = Gateway!AcceptScript /\ Len(Gateway!AcceptScript) = 11
  /\ Gateway!Script("join") = Gateway!JoinScript /\ Len(Gateway!JoinScript) = 8
  /\ Gateway!Script("end") = Gateway!EndScript /\ Len(Gateway!EndScript) = 8
  /\ Gateway!Script("miss") = Gateway!MissScript /\ Len(Gateway!MissScript) = 4
  /\ Gateway!Script("drop") = Gateway!DropScript /\ Len(Gateway!DropScript) = 16
<1>1. Len(Gateway!RequestScript) = 11 /\ Len(Gateway!AcceptScript) = 11
  BY DEF Gateway!RequestScript, Gateway!AcceptScript
<1>2. Len(Gateway!JoinScript) = 8 /\ Len(Gateway!EndScript) = 8 /\ Len(Gateway!MissScript) = 4
  BY DEF Gateway!JoinScript, Gateway!EndScript, Gateway!MissScript
<1>3. Len(Gateway!DropScript) = 16
  BY DEF Gateway!DropScript
<1>4. QED
  BY <1>1, <1>2, <1>3 DEF Gateway!Script

\* The handler q is about to take the step of that name.
Stands(q, step) ==
  q.at <= Len(Gateway!Script(q.kind)) /\ Gateway!Script(q.kind)[q.at] = step

LEMMA OnRequest ==
  ASSUME NEW q, q.kind = "request", q.at \in 1 .. 16, NEW step, Stands(q, step)
  PROVE  \/ q.at = 1 /\ step = "validate"
         \/ q.at = 2 /\ step = "clear"
         \/ q.at = 3 /\ step = "validateTargets"
         \/ q.at = 4 /\ step = "clear"
         \/ q.at = 5 /\ step = "create"
         \/ q.at = 6 /\ step = "mark"
         \/ q.at = 7 /\ step = "enlist"
         \/ q.at = 8 /\ step = "claimRead"
         \/ q.at = 9 /\ step = "claimWrite"
         \/ q.at = 10 /\ step = "invite"
         \/ q.at = 11 /\ step = "schedule"
<1>1. q.at \in 1 .. 11 /\ step = Gateway!RequestScript[q.at]
  BY Lengths DEF Stands
<1>2. QED
  BY <1>1 DEF Gateway!RequestScript

LEMMA OnAccept ==
  ASSUME NEW q, q.kind = "accept", q.at \in 1 .. 16, NEW step, Stands(q, step)
  PROVE  \/ q.at = 1 /\ step = "lockRead"
         \/ q.at = 2 /\ step = "validate"
         \/ q.at = 3 /\ step = "clear"
         \/ q.at = 4 /\ step = "lock"
         \/ q.at = 5 /\ step = "claimRead"
         \/ q.at = 6 /\ step = "claimWrite"
         \/ q.at = 7 /\ step = "acceptCall"
         \/ q.at = 8 /\ step = "mark"
         \/ q.at = 9 /\ step = "enlist"
         \/ q.at = 10 /\ step = "uninvite"
         \/ q.at = 11 /\ step = "cancel"
<1>1. q.at \in 1 .. 11 /\ step = Gateway!AcceptScript[q.at]
  BY Lengths DEF Stands
<1>2. QED
  BY <1>1 DEF Gateway!AcceptScript

LEMMA OnJoin ==
  ASSUME NEW q, q.kind = "join", q.at \in 1 .. 16, NEW step, Stands(q, step)
  PROVE  \/ q.at = 1 /\ step = "validate"
         \/ q.at = 2 /\ step = "clear"
         \/ q.at = 3 /\ step = "claimRead"
         \/ q.at = 4 /\ step = "claimWrite"
         \/ q.at = 5 /\ step = "acceptCall"
         \/ q.at = 6 /\ step = "mark"
         \/ q.at = 7 /\ step = "uninvite"
         \/ q.at = 8 /\ step = "cancel"
<1>1. q.at \in 1 .. 8 /\ step = Gateway!JoinScript[q.at]
  BY Lengths DEF Stands
<1>2. QED
  BY <1>1 DEF Gateway!JoinScript

LEMMA OnEnd ==
  ASSUME NEW q, q.kind = "end", q.at \in 1 .. 16, NEW step, Stands(q, step)
  PROVE  \/ q.at = 1 /\ step = "endCall"
         \/ q.at = 2 /\ step = "uninviteAll"
         \/ q.at = 3 /\ step = "unlock"
         \/ q.at = 4 /\ step = "delist"
         \/ q.at = 5 /\ step = "delistCount"
         \/ q.at = 6 /\ step = "delistDel"
         \/ q.at = 7 /\ step = "unmark"
         \/ q.at = 8 /\ step = "wipe"
<1>1. q.at \in 1 .. 8 /\ step = Gateway!EndScript[q.at]
  BY Lengths DEF Stands
<1>2. QED
  BY <1>1 DEF Gateway!EndScript

LEMMA OnMiss ==
  ASSUME NEW q, q.kind = "miss", q.at \in 1 .. 16, NEW step, Stands(q, step)
  PROVE  \/ q.at = 1 /\ step = "readInvite"
         \/ q.at = 2 /\ step = "readParts"
         \/ q.at = 3 /\ step = "endCall"
         \/ q.at = 4 /\ step = "uninvite"
<1>1. q.at \in 1 .. 4 /\ step = Gateway!MissScript[q.at]
  BY Lengths DEF Stands
<1>2. QED
  BY <1>1 DEF Gateway!MissScript

LEMMA OnDrop ==
  ASSUME NEW q, q.kind = "drop", q.at \in 1 .. 16, NEW step, Stands(q, step)
  PROVE  \/ q.at = 1 /\ step = "dropRead"
         \/ q.at = 2 /\ step = "sweepRead"
         \/ q.at = 3 /\ step = "sweepRem"
         \/ q.at = 4 /\ step = "sweepCount"
         \/ q.at = 5 /\ step = "sweepWipe"
         \/ q.at = 6 /\ step = "sweepDel"
         \/ q.at = 7 /\ step = "dropUnmark"
         \/ q.at = 8 /\ step = "dropSockRead"
         \/ q.at = 9 /\ step = "dropSockDel"
         \/ q.at = 10 /\ step = "leave"
         \/ q.at = 11 /\ step = "sweepRead"
         \/ q.at = 12 /\ step = "sweepRem"
         \/ q.at = 13 /\ step = "sweepCount"
         \/ q.at = 14 /\ step = "sweepWipe"
         \/ q.at = 15 /\ step = "sweepDel"
         \/ q.at = 16 /\ step = "unmark"
<1>1. q.at \in 1 .. 16 /\ step = Gateway!DropScript[q.at]
  BY Lengths DEF Stands
<1>2. QED
  BY <1>1 DEF Gateway!DropScript

LEMMA StepPlaces ==
  ASSUME NEW q \in Gateway!TaskState
  PROVE  /\ Stands(q, "validate") =>
           \/ q.kind = "request" /\ q.at = 1
           \/ q.kind = "accept" /\ q.at = 2
           \/ q.kind = "join" /\ q.at = 1
         /\ Stands(q, "clear") =>
           \/ q.kind = "request" /\ q.at \in {2, 4}
           \/ q.kind = "accept" /\ q.at = 3
           \/ q.kind = "join" /\ q.at = 2
         /\ Stands(q, "validateTargets") => q.kind = "request" /\ q.at = 3
         /\ Stands(q, "create") => q.kind = "request" /\ q.at = 5
         /\ Stands(q, "mark") =>
           \/ q.kind = "request" /\ q.at = 6
           \/ q.kind = "accept" /\ q.at = 8
           \/ q.kind = "join" /\ q.at = 6
         /\ Stands(q, "enlist") =>
           \/ q.kind = "request" /\ q.at = 7
           \/ q.kind = "accept" /\ q.at = 9
         /\ Stands(q, "claimRead") =>
           \/ q.kind = "request" /\ q.at = 8
           \/ q.kind = "accept" /\ q.at = 5
           \/ q.kind = "join" /\ q.at = 3
         /\ Stands(q, "claimWrite") =>
           \/ q.kind = "request" /\ q.at = 9
           \/ q.kind = "accept" /\ q.at = 6
           \/ q.kind = "join" /\ q.at = 4
         /\ Stands(q, "invite") => q.kind = "request" /\ q.at = 10
         /\ Stands(q, "schedule") => q.kind = "request" /\ q.at = 11
         /\ Stands(q, "lockRead") => q.kind = "accept" /\ q.at = 1
         /\ Stands(q, "lock") => q.kind = "accept" /\ q.at = 4
         /\ Stands(q, "acceptCall") =>
           \/ q.kind = "accept" /\ q.at = 7
           \/ q.kind = "join" /\ q.at = 5
         /\ Stands(q, "uninvite") =>
           \/ q.kind = "accept" /\ q.at = 10
           \/ q.kind = "join" /\ q.at = 7
           \/ q.kind = "miss" /\ q.at = 4
         /\ Stands(q, "cancel") =>
           \/ q.kind = "accept" /\ q.at = 11
           \/ q.kind = "join" /\ q.at = 8
         /\ Stands(q, "endCall") =>
           \/ q.kind = "end" /\ q.at = 1
           \/ q.kind = "miss" /\ q.at = 3
         /\ Stands(q, "uninviteAll") => q.kind = "end" /\ q.at = 2
         /\ Stands(q, "unlock") => q.kind = "end" /\ q.at = 3
         /\ Stands(q, "delist") => q.kind = "end" /\ q.at = 4
         /\ Stands(q, "delistCount") => q.kind = "end" /\ q.at = 5
         /\ Stands(q, "delistDel") => q.kind = "end" /\ q.at = 6
         /\ Stands(q, "unmark") =>
           \/ q.kind = "end" /\ q.at = 7
           \/ q.kind = "drop" /\ q.at = 16
         /\ Stands(q, "wipe") => q.kind = "end" /\ q.at = 8
         /\ Stands(q, "readInvite") => q.kind = "miss" /\ q.at = 1
         /\ Stands(q, "readParts") => q.kind = "miss" /\ q.at = 2
         /\ Stands(q, "dropRead") => q.kind = "drop" /\ q.at = 1
         /\ Stands(q, "sweepRead") => q.kind = "drop" /\ q.at \in {2, 11}
         /\ Stands(q, "sweepRem") => q.kind = "drop" /\ q.at \in {3, 12}
         /\ Stands(q, "sweepCount") => q.kind = "drop" /\ q.at \in {4, 13}
         /\ Stands(q, "sweepWipe") => q.kind = "drop" /\ q.at \in {5, 14}
         /\ Stands(q, "sweepDel") => q.kind = "drop" /\ q.at \in {6, 15}
         /\ Stands(q, "dropUnmark") => q.kind = "drop" /\ q.at = 7
         /\ Stands(q, "dropSockRead") => q.kind = "drop" /\ q.at = 8
         /\ Stands(q, "dropSockDel") => q.kind = "drop" /\ q.at = 9
         /\ Stands(q, "leave") => q.kind = "drop" /\ q.at = 10
<1>1. q.at \in 1 .. 16
  BY DEF Gateway!TaskState
<1>2. CASE q.kind = "none"
  BY <1>1, <1>2, Lengths DEF Stands
<1>3. CASE q.kind = "request"
  BY <1>1, <1>3, OnRequest
<1>4. CASE q.kind = "accept"
  BY <1>1, <1>4, OnAccept
<1>5. CASE q.kind = "join"
  BY <1>1, <1>5, OnJoin
<1>6. CASE q.kind = "end"
  BY <1>1, <1>6, OnEnd
<1>7. CASE q.kind = "miss"
  BY <1>1, <1>7, OnMiss
<1>8. CASE q.kind = "drop"
  BY <1>1, <1>8, OnDrop
<1>9. QED
  BY <1>2, <1>3, <1>4, <1>5, <1>6, <1>7, <1>8 DEF Gateway!TaskState


\* p is q, at another place.
Same(p, q) ==
  /\ p.kind = q.kind /\ p.user = q.user /\ p.sock = q.sock /\ p.call = q.call
  /\ p.as = q.as /\ p.stale = q.stale /\ p.seen = q.seen /\ p.swept = q.swept
  /\ p.live = q.live

LEMMA AtRestType ==
  /\ Gateway!Idle \in Gateway!TaskState
  /\ Gateway!Idle.kind = "none" /\ Gateway!Idle.at = 1
  BY DEF Gateway!Idle, Gateway!TaskState, Gateway!EndStatus

LEMMA AtStands ==
  ASSUME NEW t \in Slots, NEW step PROVE Gateway!At(t, step) <=> Stands(task[t], step)
  BY DEF Gateway!At, Stands

LEMMA PlaceType ==
  ASSUME NEW q \in Gateway!TaskState, NEW i \in 1 .. 16 PROVE [q EXCEPT !.at = i] \in Gateway!TaskState /\ Same([q EXCEPT !.at = i], q) /\ [q EXCEPT !.at = i].at = i
<1> DEFINE K == {"none", "request", "accept", "join", "end", "miss", "drop"}
           U == Users \union {None}  S == Sockets \union {None}  C == Calls \union {None}
           M == SUBSET Users  D == SUBSET Calls  A == Gateway!EndStatus  B == BOOLEAN
           N == 1 .. 16
<1>1. Gateway!TaskState = [kind : K, at : N, user : U, sock : S, call : C, as : A,
                           stale : M, seen : S, swept : D, live : B]
  BY DEF Gateway!TaskState
<1> HIDE DEF K, U, S, C, M, D, A, B, N
<1>2. ASSUME NEW j \in N, NEW r \in [kind : K, at : N, user : U, sock : S, call : C, as : A,
                           stale : M, seen : S, swept : D, live : B]
      PROVE  /\ [r EXCEPT !.at = j] \in [kind : K, at : N, user : U, sock : S, call : C, as : A,
                           stale : M, seen : S, swept : D, live : B]
             /\ Same([r EXCEPT !.at = j], r) /\ [r EXCEPT !.at = j].at = j
  BY DEF Same
<1>3. QED
  BY <1>1, <1>2 DEF N

\* A handler that goes on is the same one, further in its script, or has answered.
LEMMA Goes ==
  ASSUME Gateway!TypeOK, NEW t \in Slots, NEW n \in 1 .. 9, NEW q \in Gateway!TaskState,
         Gateway!Goto(t, n, q)
  PROVE  \E p \in Gateway!TaskState :
           /\ task' = [task EXCEPT ![t] = p]
           /\ \/ q.at + n > Len(Gateway!Script(q.kind)) /\ p = Gateway!Idle
              \/ q.at + n \leq Len(Gateway!Script(q.kind)) /\ Same(p, q) /\ p.at = q.at + n
<1>1. CASE q.at + n > Len(Gateway!Script(q.kind))
  BY <1>1, AtRestType DEF Gateway!Goto
<1>2. CASE ~(q.at + n > Len(Gateway!Script(q.kind)))
  <2>0. q.at \in 1 .. 16 /\ q.kind \in {"none", "request", "accept", "join", "end", "miss", "drop"}
    BY DEF Gateway!TaskState
  <2>1. Len(Gateway!Script(q.kind)) \in 0 .. 16
    BY <2>0, Lengths
  <2>2. \A i \in 1 .. 16, l \in 0 .. 16 : ~(i + n > l) => i + n \in 1 .. 16 /\ i + n \leq l
    OBVIOUS
  <2>3. task' = [task EXCEPT ![t] = [q EXCEPT !.at = q.at + n]]
    BY <1>2 DEF Gateway!Goto
  <2>4. q.at + n \in 1 .. 16 /\ q.at + n \leq Len(Gateway!Script(q.kind))
    BY <1>2, <2>0, <2>1, <2>2
  <2>5. QED
    BY <2>3, <2>4, PlaceType
<1>3. QED
  BY <1>1, <1>2


LEMMA FieldsType ==
  ASSUME NEW q \in Gateway!TaskState
  PROVE  /\ \A m \in SUBSET Users : LET p == [q EXCEPT !.stale = m] IN
              /\ p \in Gateway!TaskState /\ p.at = q.at /\ p.kind = q.kind /\ p.user = q.user
              /\ p.sock = q.sock /\ p.call = q.call /\ p.as = q.as /\ p.stale = m
              /\ p.seen = q.seen /\ p.swept = q.swept /\ p.live = q.live
         /\ \A s \in Sockets \union {None} : LET p == [q EXCEPT !.seen = s] IN
              /\ p \in Gateway!TaskState /\ p.at = q.at /\ p.kind = q.kind /\ p.user = q.user
              /\ p.sock = q.sock /\ p.call = q.call /\ p.as = q.as /\ p.stale = q.stale
              /\ p.seen = s /\ p.swept = q.swept /\ p.live = q.live
         /\ \A d \in SUBSET Calls : LET p == [q EXCEPT !.swept = d] IN
              /\ p \in Gateway!TaskState /\ p.at = q.at /\ p.kind = q.kind /\ p.user = q.user
              /\ p.sock = q.sock /\ p.call = q.call /\ p.as = q.as /\ p.stale = q.stale
              /\ p.seen = q.seen /\ p.swept = d /\ p.live = q.live
         /\ \A b \in BOOLEAN : LET p == [q EXCEPT !.live = b] IN
              /\ p \in Gateway!TaskState /\ p.at = q.at /\ p.kind = q.kind /\ p.user = q.user
              /\ p.sock = q.sock /\ p.call = q.call /\ p.as = q.as /\ p.stale = q.stale
              /\ p.seen = q.seen /\ p.swept = q.swept
<1> DEFINE K == {"none", "request", "accept", "join", "end", "miss", "drop"}
           U == Users \union {None}  S == Sockets \union {None}  C == Calls \union {None}
           M == SUBSET Users  D == SUBSET Calls  A == Gateway!EndStatus  B == BOOLEAN
           N == 1 .. 16
           T == [kind : K, at : N, user : U, sock : S, call : C, as : A,
                 stale : M, seen : S, swept : D, live : B]
<1>1. Gateway!TaskState = T
  BY DEF Gateway!TaskState
<1> HIDE DEF K, U, S, C, M, D, A, B, N
<1>4. q \in T
  BY <1>1
<1>5. ASSUME NEW m \in M
      PROVE  LET p == [q EXCEPT !.stale = m] IN
               /\ p \in T /\ p.at = q.at /\ p.kind = q.kind /\ p.user = q.user
               /\ p.sock = q.sock /\ p.call = q.call /\ p.as = q.as
               /\ p.stale = m /\ p.seen = q.seen /\ p.swept = q.swept /\ p.live = q.live
  BY <1>4
<1>6. ASSUME NEW s \in S
      PROVE  LET p == [q EXCEPT !.seen = s] IN
               /\ p \in T /\ p.at = q.at /\ p.kind = q.kind /\ p.user = q.user
               /\ p.sock = q.sock /\ p.call = q.call /\ p.as = q.as
               /\ p.stale = q.stale /\ p.seen = s /\ p.swept = q.swept /\ p.live = q.live
  BY <1>4
<1>7. ASSUME NEW e \in D
      PROVE  LET p == [q EXCEPT !.swept = e] IN
               /\ p \in T /\ p.at = q.at /\ p.kind = q.kind /\ p.user = q.user
               /\ p.sock = q.sock /\ p.call = q.call /\ p.as = q.as
               /\ p.stale = q.stale /\ p.seen = q.seen /\ p.swept = e /\ p.live = q.live
  BY <1>4
<1>8. ASSUME NEW b \in B
      PROVE  LET p == [q EXCEPT !.live = b] IN
               /\ p \in T /\ p.at = q.at /\ p.kind = q.kind /\ p.user = q.user
               /\ p.sock = q.sock /\ p.call = q.call /\ p.as = q.as
               /\ p.stale = q.stale /\ p.seen = q.seen /\ p.swept = q.swept
  BY <1>4
<1>9. QED
  BY <1>1, <1>5, <1>6, <1>7, <1>8 DEF M, S, D, B


\* The handler q knows what its script needs; one that has answered is gone.
Proper(q) ==
  /\ q.kind # "none" => q.user \in Users
  /\ q.kind \notin {"none", "drop"} => q.call \in Calls
  /\ q.kind = "miss" => q.as = "missed"
  /\ q.kind = "none" => q = Gateway!Idle

Typed == Gateway!TypeOK /\ \A t \in Slots : Proper(task[t])

\* What a step that changes only the locals of q leaves.
Alike(q, r) == q.kind = r.kind /\ q.user = r.user /\ q.call = r.call /\ q.as = r.as

LEMMA GoesTyped ==
  ASSUME Typed, NEW t \in Slots, NEW n \in 1 .. 9, NEW q \in Gateway!TaskState,
         Alike(q, task[t]), task[t].kind # "none", Gateway!Goto(t, n, q)
  PROVE  task' \in [Slots -> Gateway!TaskState] /\ \A s \in Slots : Proper(task'[s])
<1>1. PICK p \in Gateway!TaskState :
        /\ task' = [task EXCEPT ![t] = p]
        /\ p = Gateway!Idle \/ Same(p, q)
  BY Goes DEF Typed
<1>2. task \in [Slots -> Gateway!TaskState]
  BY DEF Typed, Gateway!TypeOK
<1>3. Proper(p)
  <2>1. CASE p = Gateway!Idle
    BY <2>1, AtRestType DEF Proper
  <2>2. CASE Same(p, q)
    BY <2>2 DEF Proper, Same, Alike, Typed
  <2>3. QED
    BY <1>1, <2>1, <2>2
<1>4. QED
  BY <1>1, <1>2, <1>3 DEF Typed

LEMMA AdvanceTyped ==
  ASSUME Typed, NEW t \in Slots, task[t].kind # "none", Gateway!Advance(t)
  PROVE  task' \in [Slots -> Gateway!TaskState] /\ \A s \in Slots : Proper(task'[s])
<1>1. task[t] \in Gateway!TaskState /\ Alike(task[t], task[t])
  BY DEF Typed, Gateway!TypeOK, Alike
<1>2. Gateway!Goto(t, 1, task[t])
  BY DEF Gateway!Advance
<1>3. QED
  BY <1>1, <1>2, GoesTyped

LEMMA AnswerTyped ==
  ASSUME Typed, NEW t \in Slots, Gateway!Answer(t)
  PROVE  task' \in [Slots -> Gateway!TaskState] /\ \A s \in Slots : Proper(task'[s])
  BY AtRestType DEF Typed, Gateway!TypeOK, Gateway!Answer, Proper

LEMMA OneStepTyped ==
  ASSUME Typed, NEW t \in Slots, Gateway!Continue(t)
  PROVE  Typed'
<1> DEFINE q == task[t]
           TaskTyped == task \in [Slots -> Gateway!TaskState] /\ \A s \in Slots : Proper(task[s])
<1>1. q \in Gateway!TaskState /\ Proper(q) /\ Alike(q, q)
  BY DEF Typed, Gateway!TypeOK, Alike
<1> USE DEF gateway, Gateway!db, Gateway!redis, Gateway!clients, Gateway!hist, Gateway!past
<1>2. ASSUME Gateway!Lock(t) PROVE Typed'
  <2>1. Stands(q, "lock") /\ Gateway!Advance(t)
    BY <1>2, AtStands DEF Gateway!Lock
  <2>2. q.kind = "accept"
    BY <1>1, <2>1, StepPlaces
  <2>3. TaskTyped'
    BY <2>1, <2>2, AdvanceTyped
  <2>4. QED
    BY <1>1, <1>2, <2>2, <2>3 DEF Gateway!Lock, Typed, Gateway!TypeOK, Gateway!TaskState, Proper
<1>3. ASSUME Gateway!Unlock(t) PROVE Typed'
  <2>1. Stands(q, "unlock") /\ Gateway!Advance(t)
    BY <1>3, AtStands DEF Gateway!Unlock
  <2>2. q.kind = "end"
    BY <1>1, <2>1, StepPlaces
  <2>3. TaskTyped'
    BY <2>1, <2>2, AdvanceTyped
  <2>4. QED
    BY <1>1, <1>3, <2>2, <2>3 DEF Gateway!Unlock, Typed, Gateway!TypeOK, Gateway!TaskState, Proper
<1>4. ASSUME Gateway!Mark(t) PROVE Typed'
  <2>1. Stands(q, "mark") /\ Gateway!Advance(t)
    BY <1>4, AtStands DEF Gateway!Mark
  <2>2. q.kind \in {"accept", "join", "request"}
    BY <1>1, <2>1, StepPlaces
  <2>3. TaskTyped'
    BY <2>1, <2>2, AdvanceTyped
  <2>4. QED
    BY <1>1, <1>4, <2>2, <2>3 DEF Gateway!Mark, Typed, Gateway!TypeOK, Gateway!TaskState, Proper
<1>5. ASSUME Gateway!Unmark(t) PROVE Typed'
  <2>1. Stands(q, "unmark") /\ Gateway!Advance(t)
    BY <1>5, AtStands DEF Gateway!Unmark
  <2>2. q.kind \in {"drop", "end"}
    BY <1>1, <2>1, StepPlaces
  <2>3. TaskTyped'
    BY <2>1, <2>2, AdvanceTyped
  <2>4. QED
    BY <1>1, <1>5, <2>2, <2>3 DEF Gateway!Unmark, Typed, Gateway!TypeOK, Gateway!TaskState, Proper
<1>6. ASSUME Gateway!Wipe(t) PROVE Typed'
  <2>1. Stands(q, "wipe") /\ Gateway!Advance(t)
    BY <1>6, AtStands DEF Gateway!Wipe
  <2>2. q.kind = "end"
    BY <1>1, <2>1, StepPlaces
  <2>3. TaskTyped'
    BY <2>1, <2>2, AdvanceTyped
  <2>4. QED
    BY <1>1, <1>6, <2>2, <2>3 DEF Gateway!Wipe, Typed, Gateway!TypeOK, Gateway!TaskState, Proper
<1>7. ASSUME Gateway!Enlist(t) PROVE Typed'
  <2>1. Stands(q, "enlist") /\ Gateway!Advance(t)
    BY <1>7, AtStands DEF Gateway!Enlist
  <2>2. q.kind \in {"accept", "request"}
    BY <1>1, <2>1, StepPlaces
  <2>3. TaskTyped'
    BY <2>1, <2>2, AdvanceTyped
  <2>4. QED
    BY <1>1, <1>7, <2>2, <2>3 DEF Gateway!Enlist, Typed, Gateway!TypeOK, Gateway!TaskState, Proper
<1>8. ASSUME Gateway!Delist(t) PROVE Typed'
  <2>1. Stands(q, "delist") /\ Gateway!Advance(t)
    BY <1>8, AtStands DEF Gateway!Delist
  <2>2. q.kind = "end"
    BY <1>1, <2>1, StepPlaces
  <2>3. TaskTyped'
    BY <2>1, <2>2, AdvanceTyped
  <2>4. QED
    BY <1>1, <1>8, <2>2, <2>3 DEF Gateway!Delist, Typed, Gateway!TypeOK, Gateway!TaskState, Proper
<1>9. ASSUME Gateway!DelistDelete(t) PROVE Typed'
  <2>1. Stands(q, "delistDel") /\ Gateway!Advance(t)
    BY <1>9, AtStands DEF Gateway!DelistDelete
  <2>2. q.kind = "end"
    BY <1>1, <2>1, StepPlaces
  <2>3. TaskTyped'
    BY <2>1, <2>2, AdvanceTyped
  <2>4. QED
    BY <1>1, <1>9, <2>2, <2>3 DEF Gateway!DelistDelete, Typed, Gateway!TypeOK, Gateway!TaskState, Proper
<1>10. ASSUME Gateway!SweepRemove(t) PROVE Typed'
  <2>1. Stands(q, "sweepRem") /\ Gateway!Advance(t)
    BY <1>10, AtStands DEF Gateway!SweepRemove
  <2>2. q.kind = "drop"
    BY <1>1, <2>1, StepPlaces
  <2>3. TaskTyped'
    BY <2>1, <2>2, AdvanceTyped
  <2>4. QED
    BY <1>1, <1>10, <2>2, <2>3 DEF Gateway!SweepRemove, Typed, Gateway!TypeOK, Gateway!TaskState, Proper
<1>11. ASSUME Gateway!SweepDelete(t) PROVE Typed'
  <2>1. Stands(q, "sweepDel") /\ Gateway!Advance(t)
    BY <1>11, AtStands DEF Gateway!SweepDelete
  <2>2. q.kind = "drop"
    BY <1>1, <2>1, StepPlaces
  <2>3. TaskTyped'
    BY <2>1, <2>2, AdvanceTyped
  <2>4. QED
    BY <1>1, <1>11, <2>2, <2>3 DEF Gateway!SweepDelete, Typed, Gateway!TypeOK, Gateway!TaskState, Proper
<1>12. ASSUME Gateway!Invite(t) PROVE Typed'
  <2>1. Stands(q, "invite") /\ Gateway!Advance(t)
    BY <1>12, AtStands DEF Gateway!Invite
  <2>2. q.kind = "request"
    BY <1>1, <2>1, StepPlaces
  <2>3. TaskTyped'
    BY <2>1, <2>2, AdvanceTyped
  <2>4. QED
    BY <1>1, <1>12, <2>2, <2>3 DEF Gateway!Invite, Typed, Gateway!TypeOK, Gateway!TaskState, Proper
<1>13. ASSUME Gateway!Schedule(t) PROVE Typed'
  <2>1. Stands(q, "schedule") /\ Gateway!Advance(t)
    BY <1>13, AtStands DEF Gateway!Schedule
  <2>2. q.kind = "request"
    BY <1>1, <2>1, StepPlaces
  <2>3. TaskTyped'
    BY <2>1, <2>2, AdvanceTyped
  <2>4. QED
    BY <1>1, <1>13, <2>2, <2>3 DEF Gateway!Schedule, Typed, Gateway!TypeOK, Gateway!TaskState, Proper
<1>14. ASSUME Gateway!Uninvite(t) PROVE Typed'
  <2>1. Stands(q, "uninvite") /\ Gateway!Advance(t)
    BY <1>14, AtStands DEF Gateway!Uninvite
  <2>2. q.kind \in {"accept", "join", "miss"}
    BY <1>1, <2>1, StepPlaces
  <2>3. TaskTyped'
    BY <2>1, <2>2, AdvanceTyped
  <2>4. QED
    BY <1>1, <1>14, <2>2, <2>3 DEF Gateway!Uninvite, Typed, Gateway!TypeOK, Gateway!TaskState, Proper
<1>15. ASSUME Gateway!Cancel(t) PROVE Typed'
  <2>1. Stands(q, "cancel") /\ Gateway!Advance(t)
    BY <1>15, AtStands DEF Gateway!Cancel
  <2>2. q.kind \in {"accept", "join"}
    BY <1>1, <2>1, StepPlaces
  <2>3. TaskTyped'
    BY <2>1, <2>2, AdvanceTyped
  <2>4. QED
    BY <1>1, <1>15, <2>2, <2>3 DEF Gateway!Cancel, Typed, Gateway!TypeOK, Gateway!TaskState, Proper
<1>16. ASSUME Gateway!UninviteAll(t) PROVE Typed'
  <2>1. Stands(q, "uninviteAll") /\ Gateway!Advance(t)
    BY <1>16, AtStands DEF Gateway!UninviteAll
  <2>2. q.kind = "end"
    BY <1>1, <2>1, StepPlaces
  <2>3. TaskTyped'
    BY <2>1, <2>2, AdvanceTyped
  <2>4. QED
    BY <1>1, <1>16, <2>2, <2>3 DEF Gateway!UninviteAll, Typed, Gateway!TypeOK, Gateway!TaskState, Proper
<1>17. ASSUME Gateway!DropUnmark(t) PROVE Typed'
  <2>1. Stands(q, "dropUnmark") /\ Gateway!Advance(t)
    BY <1>17, AtStands DEF Gateway!DropUnmark
  <2>2. q.kind = "drop"
    BY <1>1, <2>1, StepPlaces
  <2>3. TaskTyped'
    BY <2>1, <2>2, AdvanceTyped
  <2>4. QED
    BY <1>1, <1>17, <2>2, <2>3 DEF Gateway!DropUnmark, Typed, Gateway!TypeOK, Gateway!TaskState, Proper
<1>18. ASSUME Gateway!DropSockDelete(t) PROVE Typed'
  <2>1. Stands(q, "dropSockDel") /\ Gateway!Advance(t)
    BY <1>18, AtStands DEF Gateway!DropSockDelete
  <2>2. q.kind = "drop"
    BY <1>1, <2>1, StepPlaces
  <2>3. TaskTyped'
    BY <2>1, <2>2, AdvanceTyped
  <2>4. QED
    BY <1>1, <1>18, <2>2, <2>3 DEF Gateway!DropSockDelete, Typed, Gateway!TypeOK, Gateway!TaskState, Proper
<1>19. ASSUME Gateway!Validate(t) PROVE Typed'
  <2>1. q.kind \in {"request", "accept", "join"}
    BY <1>1, <1>19, AtStands, StepPlaces DEF Gateway!Validate
  <2>2. TaskTyped'
    <3>1. [q EXCEPT !.stale = {q.user}] \in Gateway!TaskState /\ Alike([q EXCEPT !.stale = {q.user}], q)
      BY <1>1, <2>1, FieldsType DEF Proper, Alike
    <3>2. \/ Gateway!Goto(t, 2, q) \/ Gateway!Goto(t, 1, [q EXCEPT !.stale = {q.user}])
          \/ Gateway!Answer(t)
      BY <1>19 DEF Gateway!Validate
    <3>3. QED
      BY <1>1, <2>1, <3>1, <3>2, GoesTyped, AnswerTyped
  <2>3. QED
    BY <1>19, <2>2 DEF Gateway!Validate, Typed, Gateway!TypeOK
<1>20. ASSUME Gateway!ValidateTargets(t) PROVE Typed'
  <2>1. q.kind = "request"
    BY <1>1, <1>20, AtStands, StepPlaces DEF Gateway!ValidateTargets
  <2>2. TaskTyped'
    <3>1. PICK m \in SUBSET Users : Gateway!Goto(t, 1, [q EXCEPT !.stale = m])
      BY <1>20 DEF Gateway!ValidateTargets
    <3>2. [q EXCEPT !.stale = m] \in Gateway!TaskState /\ Alike([q EXCEPT !.stale = m], q)
      BY <1>1, FieldsType DEF Alike
    <3>3. QED
      BY <1>1, <2>1, <3>1, <3>2, GoesTyped
  <2>3. QED
    BY <1>20, <2>2 DEF Gateway!ValidateTargets, Typed, Gateway!TypeOK
<1>21. ASSUME Gateway!ClearStale(t) PROVE Typed'
  <2>1. q.kind \in {"request", "accept", "join"}
    BY <1>1, <1>21, AtStands, StepPlaces DEF Gateway!ClearStale
  <2>2. TaskTyped'
    <3>1. [q EXCEPT !.stale = {}] \in Gateway!TaskState /\ Alike([q EXCEPT !.stale = {}], q)
      BY <1>1, FieldsType DEF Alike
    <3>2. QED
      BY <1>1, <1>21, <2>1, <3>1, GoesTyped DEF Gateway!ClearStale
  <2>3. QED
    BY <1>21, <2>2 DEF Gateway!ClearStale, Typed, Gateway!TypeOK
<1>22. ASSUME Gateway!ClaimRead(t) PROVE Typed'
  <2>1. q.kind \in {"request", "accept", "join"}
    BY <1>1, <1>22, AtStands, StepPlaces DEF Gateway!ClaimRead
  <2>2. TaskTyped'
    <3>1. callSock[q.user] \in Sockets \union {None}
      BY <1>1, <2>1 DEF Typed, Gateway!TypeOK, Proper
    <3>2. PICK s \in Sockets \union {None} : s = callSock[q.user]
      BY <3>1
    <3>3. [q EXCEPT !.seen = s] \in Gateway!TaskState /\ Alike([q EXCEPT !.seen = s], q)
      BY <1>1, FieldsType DEF Alike
    <3>4. QED
      BY <1>1, <1>22, <2>1, <3>2, <3>3, GoesTyped DEF Gateway!ClaimRead
  <2>3. QED
    BY <1>22, <2>2 DEF Gateway!ClaimRead, Typed, Gateway!TypeOK
<1>23. ASSUME Gateway!ClaimWrite(t) PROVE Typed'
  <2>1. q.kind \in {"request", "accept", "join"}
    BY <1>1, <1>23, AtStands, StepPlaces DEF Gateway!ClaimWrite
  <2>2. TaskTyped'
    <3>1. [q EXCEPT !.seen = None] \in Gateway!TaskState /\ Alike([q EXCEPT !.seen = None], q)
      BY <1>1, FieldsType DEF Alike
    <3>2. QED
      BY <1>1, <1>23, <2>1, <3>1, GoesTyped DEF Gateway!ClaimWrite
  <2>3. callSock' \in [Users -> Sockets \union {None}] /\ holds' \in [Sockets -> Calls \union {None}]
    BY <1>1, <1>23 DEF Gateway!ClaimWrite, Typed, Gateway!TypeOK, Gateway!TaskState
  <2>4. QED
    BY <1>23, <2>2, <2>3 DEF Gateway!ClaimWrite, Typed, Gateway!TypeOK
<1>24. ASSUME Gateway!LockRead(t) \/ Gateway!ReadInvite(t) PROVE Typed'
  <2>1. q.kind \in {"accept", "miss"}
    BY <1>1, <1>24, AtStands, StepPlaces DEF Gateway!LockRead, Gateway!ReadInvite
  <2>2. TaskTyped'
    BY <1>24, <2>1, AdvanceTyped, AnswerTyped DEF Gateway!LockRead, Gateway!ReadInvite
  <2>3. QED
    BY <1>24, <2>2 DEF Gateway!LockRead, Gateway!ReadInvite, Typed, Gateway!TypeOK
<1>25. ASSUME Gateway!Leave(t) PROVE Typed'
  <2>1. q.kind = "drop"
    BY <1>1, <1>25, AtStands, StepPlaces DEF Gateway!Leave
  <2>2. TaskTyped'
    BY <1>25, <2>1, AdvanceTyped, AnswerTyped DEF Gateway!Leave
  <2>3. QED
    BY <1>25, <2>2 DEF Gateway!Leave, Typed, Gateway!TypeOK
<1>26. ASSUME Gateway!DelistCount(t) PROVE Typed'
  <2>1. q.kind = "end"
    BY <1>1, <1>26, AtStands, StepPlaces DEF Gateway!DelistCount
  <2>2. TaskTyped'
    BY <1>1, <1>26, <2>1, GoesTyped DEF Gateway!DelistCount
  <2>3. QED
    BY <1>26, <2>2 DEF Gateway!DelistCount, Typed, Gateway!TypeOK
<1>27. ASSUME Gateway!ReadParts(t) PROVE Typed'
  <2>1. q.kind = "miss"
    BY <1>1, <1>27, AtStands, StepPlaces DEF Gateway!ReadParts
  <2>2. TaskTyped'
    BY <1>1, <1>27, <2>1, GoesTyped, AdvanceTyped DEF Gateway!ReadParts
  <2>3. QED
    BY <1>27, <2>2 DEF Gateway!ReadParts, Typed, Gateway!TypeOK
<1>28. ASSUME Gateway!DropRead(t) \/ Gateway!DropSockRead(t) PROVE Typed'
  <2>1. q.kind = "drop"
    BY <1>1, <1>28, AtStands, StepPlaces DEF Gateway!DropRead, Gateway!DropSockRead
  <2>2. TaskTyped'
    BY <1>1, <1>28, <2>1, GoesTyped, AdvanceTyped DEF Gateway!DropRead, Gateway!DropSockRead
  <2>3. QED
    BY <1>28, <2>2 DEF Gateway!DropRead, Gateway!DropSockRead, Typed, Gateway!TypeOK
<1>29. ASSUME Gateway!SweepRead(t) PROVE Typed'
  <2>1. q.kind = "drop" /\ q.user \in Users
    BY <1>1, <1>29, AtStands, StepPlaces DEF Gateway!SweepRead, Proper
  <2>2. TaskTyped'
    <3>1. PICK e \in SUBSET Calls : e = index[q.user]
      BY <2>1 DEF Typed, Gateway!TypeOK
    <3>2. [q EXCEPT !.swept = e] \in Gateway!TaskState /\ Alike([q EXCEPT !.swept = e], q)
      BY <1>1, FieldsType DEF Alike
    <3>3. Gateway!Goto(t, 5, q) \/ Gateway!Goto(t, 1, [q EXCEPT !.swept = e])
      BY <1>29, <3>1 DEF Gateway!SweepRead
    <3>4. QED
      BY <1>1, <2>1, <3>2, <3>3, GoesTyped
  <2>3. QED
    BY <1>29, <2>2 DEF Gateway!SweepRead, Typed, Gateway!TypeOK
<1>30. ASSUME Gateway!SweepCount(t) PROVE Typed'
  <2>1. q.kind = "drop"
    BY <1>1, <1>30, AtStands, StepPlaces DEF Gateway!SweepCount
  <2>2. TaskTyped'
    <3>1. PICK e \in SUBSET Calls : e = {c \in q.swept : parts[c] = {}}
      BY <1>1 DEF Gateway!TaskState
    <3>2. [q EXCEPT !.swept = e] \in Gateway!TaskState /\ Alike([q EXCEPT !.swept = e], q)
      BY <1>1, FieldsType DEF Alike
    <3>3. Gateway!Goto(t, 1, [q EXCEPT !.swept = e])
      BY <1>1, <1>30, <3>1 DEF Gateway!SweepCount, Gateway!TaskState
    <3>4. QED
      BY <1>1, <2>1, <3>2, <3>3, GoesTyped
  <2>3. QED
    BY <1>30, <2>2 DEF Gateway!SweepCount, Typed, Gateway!TypeOK
<1>31. ASSUME Gateway!SweepWipe(t) PROVE Typed'
  <2>1. q.kind = "drop"
    BY <1>1, <1>31, AtStands, StepPlaces DEF Gateway!SweepWipe
  <2>2. TaskTyped'
    <3>1. [q EXCEPT !.swept = {}] \in Gateway!TaskState /\ Alike([q EXCEPT !.swept = {}], q)
      BY <1>1, FieldsType DEF Alike
    <3>2. QED
      BY <1>1, <1>31, <2>1, <3>1, GoesTyped DEF Gateway!SweepWipe
  <2>3. QED
    BY <1>31, <2>2 DEF Gateway!SweepWipe, Typed, Gateway!TypeOK
<1>32. ASSUME Gateway!Create(t) \/ Gateway!AcceptCall(t) PROVE Typed'
  <2>1. q.kind \in {"request", "accept", "join"} /\ q.call \in Calls
    BY <1>1, <1>32, AtStands, StepPlaces DEF Gateway!Create, Gateway!AcceptCall, Proper
  <2>2. TaskTyped'
    BY <1>1, <1>32, <2>1, GoesTyped, AnswerTyped
    DEF Gateway!Create, Gateway!AcceptCall, Gateway!AfterGrpc
  <2>3. member' \in [Calls -> [Users -> Gateway!MemberStatus]]
    <3>1. PICK s \in [Users -> Gateway!MemberStatus] : member' = [member EXCEPT ![q.call] = s]
      <4>1. CASE Gateway!Create(t)
        BY <4>1 DEF Gateway!Create, Gateway!MemberStatus
      <4>2. CASE Gateway!AcceptCall(t)
        <5>1. member[q.call] \in [Users -> Gateway!MemberStatus]
          BY <2>1 DEF Typed, Gateway!TypeOK
        <5>2. [member[q.call] EXCEPT ![q.user] = IF @ = "absent" THEN @ ELSE "started"]
                \in [Users -> Gateway!MemberStatus]
          BY <5>1 DEF Gateway!MemberStatus
        <5>3. QED
          BY <4>2, <5>2 DEF Gateway!AcceptCall
      <4>3. QED
        BY <1>32, <4>1, <4>2
    <3>2. QED
      BY <2>1, <3>1 DEF Typed, Gateway!TypeOK
  <2>4. QED
    BY <1>32, <2>2, <2>3 DEF Gateway!Create, Gateway!AcceptCall, Typed, Gateway!TypeOK
<1>33. ASSUME Gateway!EndCall(t) PROVE Typed'
  <2>1. q.kind \in {"end", "miss"} /\ q.call \in Calls
    BY <1>1, <1>33, AtStands, StepPlaces DEF Gateway!EndCall, Proper
  <2>2. TaskTyped'
    <3>1. PICK b \in BOOLEAN, answered \in Gateway!Outcomes :
            Gateway!AfterGrpc(t, answered, [q EXCEPT !.live = b])
      BY <1>33 DEF Gateway!EndCall
    <3>2. [q EXCEPT !.live = b] \in Gateway!TaskState /\ Alike([q EXCEPT !.live = b], q)
      BY <1>1, FieldsType DEF Alike
    <3>3. Gateway!Goto(t, 1, [q EXCEPT !.live = b]) \/ Gateway!Answer(t)
      BY <3>1 DEF Gateway!AfterGrpc
    <3>4. QED
      BY <1>1, <2>1, <3>2, <3>3, GoesTyped, AnswerTyped
  <2>3. member' \in [Calls -> [Users -> Gateway!MemberStatus]]
    <3>1. q.as \in Gateway!MemberStatus
      BY <1>1 DEF Gateway!TaskState, Gateway!EndStatus, Gateway!MemberStatus
    <3>2. \A u \in Users : member[q.call][u] \in Gateway!MemberStatus
      BY <2>1 DEF Typed, Gateway!TypeOK
    <3>3. QED
      BY <1>33, <2>1, <3>1, <3>2
      DEF Gateway!EndCall, Typed, Gateway!TypeOK, Gateway!MemberStatus
  <2>4. over' \subseteq Calls /\ holds' \in [Sockets -> Calls \union {None}]
    BY <1>33, <2>1 DEF Gateway!EndCall, Typed, Gateway!TypeOK
  <2>5. QED
    BY <1>33, <2>2, <2>3, <2>4 DEF Gateway!EndCall, Typed, Gateway!TypeOK
<1>34. ASSUME Gateway!Lost(t) PROVE Typed'
  <2>1. q.kind \in {"request", "accept", "join", "end", "miss"}
    BY <1>1, <1>34, AtStands, StepPlaces DEF Gateway!Lost
  <2>2. TaskTyped'
    BY <1>1, <1>34, <2>1, GoesTyped, AnswerTyped DEF Gateway!Lost, Gateway!AfterGrpc
  <2>3. QED
    BY <1>34, <2>2 DEF Gateway!Lost, Typed, Gateway!TypeOK
<1>35. QED
  BY <1>2, <1>3, <1>4, <1>5, <1>6, <1>7, <1>8, <1>9, <1>10, <1>11, <1>12, <1>13, <1>14, <1>15, <1>16, <1>17, <1>18, <1>19, <1>20, <1>21, <1>22, <1>23, <1>24, <1>25, <1>26, <1>27, <1>28, <1>29, <1>30, <1>31, <1>32, <1>33, <1>34
  DEF Gateway!Continue

Kinds == {"request", "accept", "join", "end", "miss", "drop"}
MaybeSocket == Sockets \union {None}
MaybeCall == Calls \union {None}

\* The locals of a handler that starts.
Begun(kind, u, s, c, as) ==
  [Gateway!Idle EXCEPT !.kind = kind, !.user = u, !.sock = s, !.call = c, !.as = as]

IsBegun(p, kind, u, s, c, as) ==
  /\ p \in Gateway!TaskState /\ p.kind = kind /\ p.at = 1 /\ p.user = u
  /\ p.sock = s /\ p.call = c /\ p.as = as /\ p.stale = {} /\ p.seen = None

LEMMA BegunType ==
  ASSUME NEW kind \in Kinds, NEW u \in Users,
         NEW s \in MaybeSocket, NEW c \in MaybeCall,
         NEW as \in Gateway!EndStatus
  PROVE  IsBegun(Begun(kind, u, s, c, as), kind, u, s, c, as)
<1> DEFINE K == {"none", "request", "accept", "join", "end", "miss", "drop"}
           U == Users \union {None}  S == Sockets \union {None}  C == Calls \union {None}
           M == SUBSET Users  D == SUBSET Calls  A == Gateway!EndStatus  B == BOOLEAN
           N == 1 .. 16
           T == [kind : K, at : N, user : U, sock : S, call : C, as : A,
                 stale : M, seen : S, swept : D, live : B]
           i == Gateway!Idle
<1>1. Gateway!TaskState = T /\ kind \in K /\ u \in U /\ s \in S /\ c \in C /\ as \in A
  BY DEF Gateway!TaskState, Kinds, MaybeSocket, MaybeCall
<1>2. i \in T
  BY <1>1, AtRestType
<1>3. i.at = 1 /\ i.stale = {} /\ i.seen = None
  BY DEF Gateway!Idle
<1> HIDE DEF K, U, S, C, M, D, A, B, N, i
<1>4. LET p == [i EXCEPT !.kind = kind, !.user = u, !.sock = s, !.call = c, !.as = as] IN
        /\ p \in T /\ p.kind = kind /\ p.at = i.at /\ p.user = u
        /\ p.sock = s /\ p.call = c /\ p.as = as /\ p.stale = i.stale /\ p.seen = i.seen
  BY <1>1, <1>2
<1>5. QED
  BY <1>1, <1>3, <1>4 DEF Begun, IsBegun, i

LEMMA StartTyped ==
  ASSUME Typed, NEW t \in Slots,
         NEW kind \in Kinds, NEW u \in Users,
         NEW s \in MaybeSocket, NEW c \in MaybeCall,
         NEW as \in Gateway!EndStatus, Gateway!Start(t, kind, u, s, c, as),
         c \in Calls \/ kind = "drop", kind = "miss" => as = "missed"
  PROVE  /\ task' \in [Slots -> Gateway!TaskState] /\ \A r \in Slots : Proper(task'[r])
         /\ met' \subseteq Calls /\ cut' \subseteq Calls /\ asked' \subseteq Calls
<1> DEFINE p == Begun(kind, u, s, c, as)
<1>1. task' = [task EXCEPT ![t] = p]
  BY DEF Gateway!Start, Begun
<1>2. IsBegun(p, kind, u, s, c, as)
  BY BegunType
<1> HIDE DEF p
<1>3. Proper(p) /\ p \in Gateway!TaskState
  BY <1>2 DEF Proper, Kinds, IsBegun
<1>4. met' \subseteq Calls /\ cut' \subseteq Calls /\ asked' \subseteq Calls
  BY DEF Gateway!Start, Typed, Gateway!TypeOK
<1>5. QED
  BY <1>1, <1>3, <1>4 DEF Typed, Gateway!TypeOK

LEMMA OwnerIs == DeviceOwner \in [Sockets -> Users] /\ MaxEvents \in Nat
  BY GatewayAssumption DEF Gateway!ConstantsAssumption

LEMMA TypedStep == Typed /\ [Gateway!Next]_gateway => Typed'
<1> SUFFICES ASSUME Typed, [Gateway!Next]_gateway PROVE Typed'
  OBVIOUS
<1> USE DEF gateway, Gateway!db, Gateway!redis, Gateway!clients, Gateway!hist, Gateway!past
<1>1. ASSUME NEW t \in Slots, Gateway!Continue(t) PROVE Typed'
  BY <1>1, OneStepTyped
<1>2. ASSUME NEW t \in Slots, NEW u \in Users, NEW c \in Calls, Gateway!JobDue(t, u, c)
      PROVE  Typed'
  <2>1. /\ task' \in [Slots -> Gateway!TaskState] /\ \A r \in Slots : Proper(task'[r])
        /\ met' \subseteq Calls /\ cut' \subseteq Calls /\ asked' \subseteq Calls
    BY <1>2, StartTyped DEF Kinds, MaybeSocket, MaybeCall, Gateway!JobDue, Gateway!EndStatus
  <2>2. QED
    BY <1>2, <2>1 DEF Gateway!JobDue, Typed, Gateway!TypeOK
<1>3. ASSUME NEW t \in Slots, NEW s \in Sockets, NEW c \in Calls,
             NEW kind \in {"request", "accept", "join", "end"}, NEW as \in Gateway!EndStatus,
             Gateway!Receive(t, s, kind, c, as)
      PROVE  Typed'
  <2>1. DeviceOwner[s] \in Users
    BY OwnerIs
  <2>2. /\ task' \in [Slots -> Gateway!TaskState] /\ \A r \in Slots : Proper(task'[r])
        /\ met' \subseteq Calls /\ cut' \subseteq Calls /\ asked' \subseteq Calls
    BY <1>3, <2>1, StartTyped DEF Kinds, MaybeSocket, MaybeCall, Gateway!Receive
  <2>3. events' \in 0 .. MaxEvents
    BY <1>3, OwnerIs DEF Gateway!Receive, Typed, Gateway!TypeOK
  <2>4. QED
    BY <1>3, <2>2, <2>3 DEF Gateway!Receive, Typed, Gateway!TypeOK
<1>4. ASSUME NEW t \in Slots, NEW s \in Sockets, Gateway!Disconnect(t, s) PROVE Typed'
  <2>1. DeviceOwner[s] \in Users
    BY OwnerIs
  <2>2. /\ task' \in [Slots -> Gateway!TaskState] /\ \A r \in Slots : Proper(task'[r])
        /\ met' \subseteq Calls /\ cut' \subseteq Calls /\ asked' \subseteq Calls
    BY <1>4, <2>1, StartTyped DEF Kinds, MaybeSocket, MaybeCall, Gateway!Disconnect, Gateway!EndStatus
  <2>3. events' \in 0 .. MaxEvents
    BY <1>4, OwnerIs DEF Gateway!Disconnect, Typed, Gateway!TypeOK
  <2>4. QED
    BY <1>4, <2>2, <2>3 DEF Gateway!Disconnect, Typed, Gateway!TypeOK
<1>5. ASSUME NEW s \in Sockets, Gateway!Toggle(s) PROVE Typed'
  <2>1. DeviceOwner[s] \in Users
    BY OwnerIs
  <2>2. events' \in 0 .. MaxEvents
    BY <1>5, OwnerIs DEF Gateway!Toggle, Typed, Gateway!TypeOK
  <2>3. QED
    BY <1>5, <2>1, <2>2 DEF Gateway!Toggle, Typed, Gateway!TypeOK
<1>6. CASE UNCHANGED gateway
  BY <1>6 DEF Typed, Gateway!TypeOK
<1>7. "ended" \in Gateway!EndStatus
  BY DEF Gateway!EndStatus
<1>8. CASE Gateway!Next
  BY <1>1, <1>2, <1>3, <1>4, <1>5, <1>7, <1>8 DEF Gateway!Next, Gateway!RunJob
<1>9. QED
  BY <1>6, <1>8

LEMMA TypedFirst == Gateway!Init => Typed
  BY AtRestType, OwnerIs DEF Gateway!Init, Typed, Gateway!TypeOK, Gateway!MemberStatus, Proper

-------------------------------------------------------------------------------
(* A call whose handlers never met: its markers and its invites *)

\* One handler at most is at work on the call.
Alone(c) == \A s, t \in Slots : task[s].call = c /\ task[t].call = c => s = t

\* The call has been accepted for q's user, whose invite is still to be removed.
Picking(q) ==
  \/ q.kind = "accept" /\ q.at \in 8 .. 10
  \/ q.kind = "join" /\ q.at \in 6 .. 7

\* The call has been ended for q's user, whose marker is still to be removed.
Leaving(q) == q.kind = "end" /\ q.at \in 2 .. 7

Over(q) == q.kind = "end" /\ q.at = 2

\* What q knows of its call.
Serves(q) ==
  /\ q.kind \in {"accept", "join", "end", "miss"} => Gateway!Exists(q.call)
  /\ q.kind = "request" /\ q.at \leq 5 => ~Gateway!Exists(q.call)
  /\ q.kind = "request" /\ q.at > 5 =>
       /\ q.call \notin over
       /\ \A u \in Users : member[q.call][u] = IF u = q.user THEN "started" ELSE "pending"
  /\ q.kind = "accept" /\ q.at > 7 => member[q.call][q.user] = "started"
  /\ q.kind = "join" /\ q.at > 5 => member[q.call][q.user] = "started"
  /\ q.kind = "miss" /\ q.at \in 2 .. 3 => q.call \in invites[q.user]

\* requestCall makes a member of everybody.
Whole(c) == \A u, v \in Users : member[c][u] = "absent" => member[c][v] = "absent"

\* Of a call that was never requested there is nothing.
Unborn(c) ==
  ~Gateway!Exists(c) =>
    c \notin over /\ \A u \in Users : c \notin invites[u] /\ inCall[u] # c /\ <<u, c>> \notin jobs

\* EndCall closes a call that somebody left and nobody is in.
Abandoned(c) ==
  (\E u \in Users : member[c][u] = "ended") /\ (\A u \in Users : member[c][u] # "started")
    => c \in over

\* Who is in a call has no invite to it.
Invited(c) ==
  \A u \in Users : c \in invites[u] /\ member[c][u] = "started" =>
    \E t \in Slots : Picking(task[t]) /\ task[t].user = u /\ task[t].call = c

Phantom(c) ==
  \A u \in Users : c \in over /\ c \in invites[u] =>
    \E t \in Slots : Over(task[t]) /\ task[t].call = c

Marked(c) ==
  \A u \in Users : inCall[u] = c =>
    \/ member[c][u] = "started"
    \/ \E t \in Slots : Leaving(task[t]) /\ task[t].user = u /\ task[t].call = c

CallInv(c) ==
  /\ Alone(c)
  /\ Whole(c) /\ Unborn(c) /\ Abandoned(c) /\ Invited(c) /\ Phantom(c) /\ Marked(c)
  /\ \A t \in Slots : task[t].call = c => Serves(task[t])

\* What a step does for a call that it is not about: it may clear the marker of a user, and
\* drop a job.
CallUntouched(c) ==
  /\ member'[c] = member[c] /\ (c \in over' <=> c \in over)
  /\ \A u \in Users : /\ c \in invites'[u] <=> c \in invites[u]
                      /\ <<u, c>> \in jobs' => <<u, c>> \in jobs
                      /\ inCall'[u] = c => inCall[u] = c
  /\ \A s \in Slots : task'[s].call = c \/ task[s].call = c => task'[s] = task[s]

LEMMA CallUntouchedKeeps ==
  ASSUME Typed, NEW c \in Calls, CallInv(c), CallUntouched(c)
  PROVE  CallInv(c)'
<1>1. Gateway!Exists(c)' <=> Gateway!Exists(c)
  BY DEF CallUntouched, Gateway!Exists
<1>2. Alone(c)'
  BY DEF CallInv, CallUntouched, Alone
<1>3. Whole(c)' /\ Unborn(c)' /\ Abandoned(c)'
  BY <1>1 DEF CallInv, CallUntouched, Whole, Unborn, Abandoned
<1>4. Invited(c)'
  <2> SUFFICES ASSUME NEW u \in Users, c \in invites'[u], member'[c][u] = "started"
               PROVE  \E t \in Slots : Picking(task'[t]) /\ task'[t].user = u /\ task'[t].call = c
    BY DEF Invited
  <2>1. PICK t \in Slots : Picking(task[t]) /\ task[t].user = u /\ task[t].call = c
    BY DEF CallInv, Invited, CallUntouched
  <2>2. task'[t] = task[t]
    BY <2>1 DEF CallUntouched
  <2>3. QED
    BY <2>1, <2>2
<1>5. Phantom(c)'
  <2> SUFFICES ASSUME NEW u \in Users, c \in over', c \in invites'[u]
               PROVE  \E t \in Slots : Over(task'[t]) /\ task'[t].call = c
    BY DEF Phantom
  <2>1. PICK t \in Slots : Over(task[t]) /\ task[t].call = c
    BY DEF CallInv, Phantom, CallUntouched
  <2>2. task'[t] = task[t]
    BY <2>1 DEF CallUntouched
  <2>3. QED
    BY <2>1, <2>2
<1>6. Marked(c)'
  <2> SUFFICES ASSUME NEW u \in Users, inCall'[u] = c, member'[c][u] # "started"
               PROVE  \E t \in Slots : Leaving(task'[t]) /\ task'[t].user = u /\ task'[t].call = c
    BY DEF Marked
  <2>1. PICK t \in Slots : Leaving(task[t]) /\ task[t].user = u /\ task[t].call = c
    BY DEF CallInv, Marked, CallUntouched
  <2>2. task'[t] = task[t]
    BY <2>1 DEF CallUntouched
  <2>3. QED
    BY <2>1, <2>2
<1>7. \A t \in Slots : task'[t].call = c => Serves(task[t])'
  <2> SUFFICES ASSUME NEW t \in Slots, task'[t].call = c PROVE Serves(task[t])'
    OBVIOUS
  <2>1. PICK q \in Gateway!TaskState : q = task[t] /\ task'[t] = q /\ q.call = c /\ Serves(q)
    BY DEF CallInv, CallUntouched, Typed, Gateway!TypeOK
  <2>2. \/ q.user \in Users /\ (c \in invites'[q.user] <=> c \in invites[q.user])
        \/ q.kind \in {"none", "drop"}
    BY <2>1 DEF CallUntouched, Typed, Proper
  <2>3. Serves(q)'
    BY <1>1, <2>1, <2>2 DEF Serves, CallUntouched
  <2>4. QED
    BY <2>1, <2>3
<1>8. QED
  BY <1>2, <1>3, <1>4, <1>5, <1>6, <1>7 DEF CallInv

\* The call keeps its only handler.
LEMMA OnlyHandler ==
  ASSUME Typed, NEW c \in Calls, CallInv(c), NEW t \in Slots, task[t].call = c, NEW p,
         task' = [task EXCEPT ![t] = p]
  PROVE  /\ Alone(c)' /\ task'[t] = p
         /\ \A s \in Slots : task[s].call = c => s = t
         /\ \A s \in Slots : task'[s].call = c => s = t
  BY DEF CallInv, Alone, Typed, Gateway!TypeOK

\* What a step that touches no membership and no invite may do to its handler.
CarriesOn(p, q) ==
  /\ p = Gateway!Idle \/ Alike(p, q)
  /\ Picking(q) => Picking(p)
  /\ ~Over(q)
  /\ Leaving(q) => Leaving(p) \/ inCall'[q.user] = None
  /\ p.kind = "request" /\ p.at \leq 5 => q.at \leq 5
  /\ p.kind = "request" /\ p.at > 5 => q.at > 5
  /\ p.kind = "accept" /\ p.at > 7 => q.at > 7
  /\ p.kind = "join" /\ p.at > 5 => q.at > 5
  /\ p.kind = "miss" /\ p.at \in 2 .. 3 => q.at \in 2 .. 3

PlainTo(t, p) ==
  /\ task' = [task EXCEPT ![t] = p] /\ CarriesOn(p, task[t])
  /\ UNCHANGED <<member, over, invites, met>> /\ jobs' \subseteq jobs
  /\ \A u \in Users : inCall'[u] \in {inCall[u], None}

Plain(t) == \E p \in Gateway!TaskState : PlainTo(t, p)

LEMMA NoneIs == None \notin Calls /\ Gateway!Idle.call = None
  BY GatewayAssumption DEF Gateway!ConstantsAssumption, Gateway!Idle

LEMMA PlainKeeps ==
  ASSUME Typed, NEW c \in Calls, CallInv(c), NEW t \in Slots, task[t].call = c, Plain(t)
  PROVE  CallInv(c)'
<1> DEFINE q == task[t]
<1>0. PICK p \in Gateway!TaskState : PlainTo(t, p)
  BY DEF Plain
<1>1. /\ Alone(c)' /\ task'[t] = p
      /\ \A s \in Slots : task[s].call = c => s = t
      /\ \A s \in Slots : task'[s].call = c => s = t
  BY <1>0, OnlyHandler DEF PlainTo
<1>2. /\ Proper(q) /\ q \in Gateway!TaskState /\ CarriesOn(p, q)
      /\ UNCHANGED <<member, over, invites>> /\ jobs' \subseteq jobs
      /\ \A u \in Users : inCall'[u] \in {inCall[u], None}
  BY <1>0 DEF Typed, Gateway!TypeOK, PlainTo
<1>3. Whole(c)' /\ Abandoned(c)' /\ Unborn(c)'
  BY <1>2, NoneIs DEF CallInv, Whole, Abandoned, Unborn, Gateway!Exists
<1>4. Invited(c)'
  <2> SUFFICES ASSUME NEW u \in Users, c \in invites[u], member[c][u] = "started"
               PROVE  Picking(p) /\ p.user = u /\ p.call = c
    BY <1>1, <1>2 DEF Invited
  <2>1. Picking(q) /\ q.user = u
    BY <1>1 DEF CallInv, Invited
  <2>2. p # Gateway!Idle
    BY <1>2, <2>1, AtRestType DEF CarriesOn, Picking
  <2>3. QED
    BY <1>2, <2>1, <2>2 DEF CarriesOn, Alike
<1>5. Phantom(c)'
  BY <1>1, <1>2 DEF CallInv, Phantom, CarriesOn
<1>6. Marked(c)'
  <2> SUFFICES ASSUME NEW u \in Users, inCall'[u] = c, member[c][u] # "started"
               PROVE  Leaving(p) /\ p.user = u /\ p.call = c
    BY <1>1, <1>2 DEF Marked
  <2>0. inCall[u] = c
    BY <1>2, NoneIs
  <2>1. Leaving(q) /\ q.user = u
    BY <1>1, <2>0 DEF CallInv, Marked
  <2>2. Leaving(p)
    BY <1>2, <2>1, NoneIs DEF CarriesOn
  <2>3. p # Gateway!Idle
    BY <2>2, AtRestType DEF Leaving
  <2>4. QED
    BY <1>2, <2>1, <2>2, <2>3 DEF CarriesOn, Alike
<1>7. Serves(p)'
  <2>1. CASE p = Gateway!Idle
    BY <2>1, AtRestType DEF Serves
  <2>2. CASE Alike(p, q)
    <3>1. Serves(q)
      BY DEF CallInv
    <3>2. p.at \in 1 .. 16 /\ q.at \in 1 .. 16
      BY <1>2 DEF Gateway!TaskState
    <3>3. QED
      BY <1>2, <2>2, <3>1, <3>2 DEF Serves, Alike, CarriesOn, Gateway!Exists
  <2>3. QED
    BY <1>2, <2>1, <2>2 DEF CarriesOn
<1>8. QED
  BY <1>1, <1>3, <1>4, <1>5, <1>6, <1>7 DEF CallInv

LEMMA PlainElsewhere ==
  ASSUME Typed, NEW c \in Calls, NEW t \in Slots, task[t].call # c, Plain(t)
  PROVE  CallUntouched(c)
<1>0. PICK p \in Gateway!TaskState : PlainTo(t, p)
  BY DEF Plain
<1>1. p.call # c
  BY <1>0, NoneIs DEF PlainTo, CarriesOn, Alike
<1>2. QED
  BY <1>0, <1>1, NoneIs DEF PlainTo, CallUntouched, Typed, Gateway!TypeOK

\* The length of a script.
Size(kind) ==
  CASE kind \in {"request", "accept"} -> 11
    [] kind \in {"join", "end"} -> 8
    [] kind = "miss" -> 4
    [] kind = "drop" -> 16
    [] OTHER -> 0

LEMMA SizeIs ==
  ASSUME NEW q \in Gateway!TaskState
  PROVE  Len(Gateway!Script(q.kind)) = Size(q.kind)
  BY Lengths DEF Size, Gateway!TaskState

\* Where the handler of t is after n steps, or after its answer.
Further(p, t, n) ==
  /\ task' = [task EXCEPT ![t] = p]
  /\ \/ task[t].at + n > Size(task[t].kind) /\ p = Gateway!Idle
     \/ task[t].at + n \leq Size(task[t].kind) /\ Alike(p, task[t]) /\ p.at = task[t].at + n

LEMMA GoesFurther ==
  ASSUME Typed, NEW t \in Slots, NEW n \in 1 .. 9, NEW q \in Gateway!TaskState,
         Alike(q, task[t]), q.at = task[t].at, Gateway!Goto(t, n, q)
  PROVE  \E p \in Gateway!TaskState : Further(p, t, n)
<1>1. PICK p \in Gateway!TaskState :
        /\ task' = [task EXCEPT ![t] = p]
        /\ \/ q.at + n > Len(Gateway!Script(q.kind)) /\ p = Gateway!Idle
           \/ q.at + n \leq Len(Gateway!Script(q.kind)) /\ Same(p, q) /\ p.at = q.at + n
  BY Goes DEF Typed
<1>2. q.kind = task[t].kind /\ Len(Gateway!Script(q.kind)) = Size(q.kind)
  BY SizeIs DEF Alike
<1>3. Further(p, t, n)
  BY <1>1, <1>2 DEF Further, Same, Alike
<1>4. QED
  BY <1>3

LEMMA AdvancesFurther ==
  ASSUME Typed, NEW t \in Slots, Gateway!Advance(t)
  PROVE  \E p \in Gateway!TaskState : Further(p, t, 1)
<1>1. task[t] \in Gateway!TaskState /\ Alike(task[t], task[t]) /\ Gateway!Goto(t, 1, task[t])
  BY DEF Typed, Gateway!TypeOK, Alike, Gateway!Advance
<1>2. QED
  BY <1>1, GoesFurther

\* The same of a handler that has written one of its locals.
LEMMA WritesFurther ==
  ASSUME Typed, NEW t \in Slots, NEW n \in 1 .. 9
  PROVE  /\ \A m \in SUBSET Users : Gateway!Goto(t, n, [task[t] EXCEPT !.stale = m]) =>
              \E p \in Gateway!TaskState : Further(p, t, n)
         /\ \A s \in MaybeSocket : Gateway!Goto(t, n, [task[t] EXCEPT !.seen = s]) =>
              \E p \in Gateway!TaskState : Further(p, t, n)
         /\ \A e \in SUBSET Calls : Gateway!Goto(t, n, [task[t] EXCEPT !.swept = e]) =>
              \E p \in Gateway!TaskState : Further(p, t, n)
         /\ \A b \in BOOLEAN : Gateway!Goto(t, n, [task[t] EXCEPT !.live = b]) =>
              \E p \in Gateway!TaskState : Further(p, t, n)
<1>0. task[t] \in Gateway!TaskState
  BY DEF Typed, Gateway!TypeOK
<1>1. ASSUME NEW m \in SUBSET Users, Gateway!Goto(t, n, [task[t] EXCEPT !.stale = m])
      PROVE  \E p \in Gateway!TaskState : Further(p, t, n)
  <2> DEFINE r == [task[t] EXCEPT !.stale = m]
  <2>1. r \in Gateway!TaskState /\ Alike(r, task[t]) /\ r.at = task[t].at
    BY <1>0, FieldsType DEF Alike
  <2>2. QED
    BY <1>1, <2>1, GoesFurther
<1>2. ASSUME NEW s \in MaybeSocket, Gateway!Goto(t, n, [task[t] EXCEPT !.seen = s])
      PROVE  \E p \in Gateway!TaskState : Further(p, t, n)
  <2> DEFINE r == [task[t] EXCEPT !.seen = s]
  <2>1. r \in Gateway!TaskState /\ Alike(r, task[t]) /\ r.at = task[t].at
    BY <1>0, FieldsType DEF Alike, MaybeSocket
  <2>2. QED
    BY <1>2, <2>1, GoesFurther
<1>3. ASSUME NEW e \in SUBSET Calls, Gateway!Goto(t, n, [task[t] EXCEPT !.swept = e])
      PROVE  \E p \in Gateway!TaskState : Further(p, t, n)
  <2> DEFINE r == [task[t] EXCEPT !.swept = e]
  <2>1. r \in Gateway!TaskState /\ Alike(r, task[t]) /\ r.at = task[t].at
    BY <1>0, FieldsType DEF Alike
  <2>2. QED
    BY <1>3, <2>1, GoesFurther
<1>4. ASSUME NEW b \in BOOLEAN, Gateway!Goto(t, n, [task[t] EXCEPT !.live = b])
      PROVE  \E p \in Gateway!TaskState : Further(p, t, n)
  <2> DEFINE r == [task[t] EXCEPT !.live = b]
  <2>1. r \in Gateway!TaskState /\ Alike(r, task[t]) /\ r.at = task[t].at
    BY <1>0, FieldsType DEF Alike
  <2>2. QED
    BY <1>4, <2>1, GoesFurther
<1>5. QED
  BY <1>1, <1>2, <1>3, <1>4

LEMMA PlainStep ==
  ASSUME Typed, NEW t \in Slots, Gateway!Continue(t)
  PROVE  \/ Plain(t)
         \/ Gateway!Create(t) \/ Gateway!AcceptCall(t) \/ Gateway!EndCall(t) \/ Gateway!Mark(t)
         \/ Gateway!Invite(t) \/ Gateway!Schedule(t) \/ Gateway!Uninvite(t)
         \/ Gateway!UninviteAll(t) \/ Gateway!ReadInvite(t)
<1> DEFINE q == task[t]
           C(p) == CarriesOn(p, q)
<1>0. /\ Typed' /\ q \in Gateway!TaskState /\ Proper(q) /\ Alike(q, q)
      /\ inCall' \in [Users -> Calls \union {None}]
  BY OneStepTyped DEF Typed, Gateway!TypeOK, Alike
<1>00. q.at \in 1 .. 16
  BY <1>0 DEF Gateway!TaskState
<1> USE DEF gateway, Gateway!db, Gateway!redis, Gateway!clients, Gateway!hist, Gateway!past
<1>1. ASSUME Gateway!Validate(t) PROVE Plain(t)
  <2>1. \/ q.kind = "request" /\ q.at = 1
        \/ q.kind = "accept" /\ q.at = 2
        \/ q.kind = "join" /\ q.at = 1
    BY <1>0, <1>1, AtStands, StepPlaces DEF Gateway!Validate
  <2>2. \E p \in Gateway!TaskState :
          \/ Further(p, t, 2)
          \/ Further(p, t, 1)
          \/ task' = [task EXCEPT ![t] = p] /\ p = Gateway!Idle
    <3>1. \/ Gateway!Goto(t, 2, q)
          \/ Gateway!Answer(t)
          \/ \E m \in SUBSET Users : Gateway!Goto(t, 1, [q EXCEPT !.stale = m])
      BY <1>0, <1>1, <2>1 DEF Gateway!Validate, Proper, Typed, Gateway!TypeOK, Gateway!TaskState
    <3>2. (\E m \in SUBSET Users : Gateway!Goto(t, 1, [q EXCEPT !.stale = m])) =>
            \E p \in Gateway!TaskState : Further(p, t, 1)
      BY WritesFurther
    <3>3. Gateway!Goto(t, 2, q) => \E p \in Gateway!TaskState : Further(p, t, 2)
      BY <1>0, GoesFurther
    <3>4. Gateway!Answer(t) => task' = [task EXCEPT ![t] = Gateway!Idle]
      BY DEF Gateway!Answer
    <3>5. QED
      BY <3>1, <3>2, <3>3, <3>4, AtRestType
  <2>3. PICK p \in Gateway!TaskState :
          \/ Further(p, t, 2)
          \/ Further(p, t, 1)
          \/ task' = [task EXCEPT ![t] = p] /\ p = Gateway!Idle
    BY <2>2
  <2>4. task' = [task EXCEPT ![t] = p] /\ C(p)
    BY <1>0, <1>00, <1>1, <2>1, <2>3, AtRestType
    DEF Further, Size, CarriesOn, Alike, Picking, Over, Leaving
  <2>5. QED
    BY <1>0, <1>1, <2>4 DEF Plain, PlainTo, Gateway!Validate
<1>2. ASSUME Gateway!ValidateTargets(t) PROVE Plain(t)
  <2>1. q.kind = "request" /\ q.at = 3
    BY <1>0, <1>2, AtStands, StepPlaces DEF Gateway!ValidateTargets
  <2>2. \E p \in Gateway!TaskState : Further(p, t, 1)
    <3>1. \E m \in SUBSET Users : Gateway!Goto(t, 1, [q EXCEPT !.stale = m])
      BY <1>0, <1>2 DEF Gateway!ValidateTargets, Proper, Typed, Gateway!TypeOK, Gateway!TaskState
    <3>2. QED
      BY <3>1, WritesFurther
  <2>3. PICK p \in Gateway!TaskState : Further(p, t, 1)
    BY <2>2
  <2>4. task' = [task EXCEPT ![t] = p] /\ C(p)
    BY <1>0, <1>00, <1>2, <2>1, <2>3, AtRestType
    DEF Further, Size, CarriesOn, Alike, Picking, Over, Leaving
  <2>5. QED
    BY <1>0, <1>2, <2>4 DEF Plain, PlainTo, Gateway!ValidateTargets
<1>3. ASSUME Gateway!ClearStale(t) PROVE Plain(t)
  <2>1. \/ q.kind = "request" /\ q.at \in {2, 4}
        \/ q.kind = "accept" /\ q.at = 3
        \/ q.kind = "join" /\ q.at = 2
    BY <1>0, <1>3, AtStands, StepPlaces DEF Gateway!ClearStale
  <2>2. \E p \in Gateway!TaskState : Further(p, t, 1)
    <3>1. \E m \in SUBSET Users : Gateway!Goto(t, 1, [q EXCEPT !.stale = m])
      BY <1>0, <1>3 DEF Gateway!ClearStale, Proper, Typed, Gateway!TypeOK, Gateway!TaskState
    <3>2. QED
      BY <3>1, WritesFurther
  <2>3. PICK p \in Gateway!TaskState : Further(p, t, 1)
    BY <2>2
  <2>4. task' = [task EXCEPT ![t] = p] /\ C(p)
    BY <1>0, <1>00, <1>3, <2>1, <2>3, AtRestType
    DEF Further, Size, CarriesOn, Alike, Picking, Over, Leaving, Gateway!ClearStale, Proper
  <2>5. QED
    BY <1>0, <1>3, <2>4 DEF Plain, PlainTo, Gateway!ClearStale
<1>4. ASSUME Gateway!LockRead(t) PROVE Plain(t)
  <2>1. q.kind = "accept" /\ q.at = 1
    BY <1>0, <1>4, AtStands, StepPlaces DEF Gateway!LockRead
  <2>2. \E p \in Gateway!TaskState :
          \/ Further(p, t, 1)
          \/ task' = [task EXCEPT ![t] = p] /\ p = Gateway!Idle
    BY <1>0, <1>4, AdvancesFurther, AtRestType DEF Gateway!LockRead, Gateway!Answer
  <2>3. PICK p \in Gateway!TaskState :
          \/ Further(p, t, 1)
          \/ task' = [task EXCEPT ![t] = p] /\ p = Gateway!Idle
    BY <2>2
  <2>4. task' = [task EXCEPT ![t] = p] /\ C(p)
    BY <1>0, <1>00, <1>4, <2>1, <2>3, AtRestType
    DEF Further, Size, CarriesOn, Alike, Picking, Over, Leaving
  <2>5. QED
    BY <1>0, <1>4, <2>4 DEF Plain, PlainTo, Gateway!LockRead
<1>5. ASSUME Gateway!Lock(t) PROVE Plain(t)
  <2>1. q.kind = "accept" /\ q.at = 4
    BY <1>0, <1>5, AtStands, StepPlaces DEF Gateway!Lock
  <2>2. \E p \in Gateway!TaskState : Further(p, t, 1)
    BY <1>0, <1>5, AdvancesFurther DEF Gateway!Lock
  <2>3. PICK p \in Gateway!TaskState : Further(p, t, 1)
    BY <2>2
  <2>4. task' = [task EXCEPT ![t] = p] /\ C(p)
    BY <1>0, <1>00, <1>5, <2>1, <2>3, AtRestType
    DEF Further, Size, CarriesOn, Alike, Picking, Over, Leaving
  <2>5. QED
    BY <1>0, <1>5, <2>4 DEF Plain, PlainTo, Gateway!Lock
<1>6. ASSUME Gateway!Unlock(t) PROVE Plain(t)
  <2>1. q.kind = "end" /\ q.at = 3
    BY <1>0, <1>6, AtStands, StepPlaces DEF Gateway!Unlock
  <2>2. \E p \in Gateway!TaskState : Further(p, t, 1)
    BY <1>0, <1>6, AdvancesFurther DEF Gateway!Unlock
  <2>3. PICK p \in Gateway!TaskState : Further(p, t, 1)
    BY <2>2
  <2>4. task' = [task EXCEPT ![t] = p] /\ C(p)
    BY <1>0, <1>00, <1>6, <2>1, <2>3, AtRestType
    DEF Further, Size, CarriesOn, Alike, Picking, Over, Leaving
  <2>5. QED
    BY <1>0, <1>6, <2>4 DEF Plain, PlainTo, Gateway!Unlock
<1>7. ASSUME Gateway!ClaimRead(t) PROVE Plain(t)
  <2>1. \/ q.kind = "request" /\ q.at = 8
        \/ q.kind = "accept" /\ q.at = 5
        \/ q.kind = "join" /\ q.at = 3
    BY <1>0, <1>7, AtStands, StepPlaces DEF Gateway!ClaimRead
  <2>2. \E p \in Gateway!TaskState : Further(p, t, 1)
    <3>1. \E s \in MaybeSocket : Gateway!Goto(t, 1, [q EXCEPT !.seen = s])
      BY <1>0, <1>7, <2>1 DEF MaybeSocket, Gateway!ClaimRead, Proper, Typed, Gateway!TypeOK, Gateway!TaskState
    <3>2. QED
      BY <3>1, WritesFurther
  <2>3. PICK p \in Gateway!TaskState : Further(p, t, 1)
    BY <2>2
  <2>4. task' = [task EXCEPT ![t] = p] /\ C(p)
    BY <1>0, <1>00, <1>7, <2>1, <2>3, AtRestType
    DEF Further, Size, CarriesOn, Alike, Picking, Over, Leaving
  <2>5. QED
    BY <1>0, <1>7, <2>4 DEF Plain, PlainTo, Gateway!ClaimRead
<1>8. ASSUME Gateway!ClaimWrite(t) PROVE Plain(t)
  <2>1. \/ q.kind = "request" /\ q.at = 9
        \/ q.kind = "accept" /\ q.at = 6
        \/ q.kind = "join" /\ q.at = 4
    BY <1>0, <1>8, AtStands, StepPlaces DEF Gateway!ClaimWrite
  <2>2. \E p \in Gateway!TaskState : Further(p, t, 1)
    <3>1. \E s \in MaybeSocket : Gateway!Goto(t, 1, [q EXCEPT !.seen = s])
      BY <1>0, <1>8 DEF MaybeSocket, Gateway!ClaimWrite, Proper, Typed, Gateway!TypeOK, Gateway!TaskState
    <3>2. QED
      BY <3>1, WritesFurther
  <2>3. PICK p \in Gateway!TaskState : Further(p, t, 1)
    BY <2>2
  <2>4. task' = [task EXCEPT ![t] = p] /\ C(p)
    BY <1>0, <1>00, <1>8, <2>1, <2>3, AtRestType
    DEF Further, Size, CarriesOn, Alike, Picking, Over, Leaving
  <2>5. QED
    BY <1>0, <1>8, <2>4 DEF Plain, PlainTo, Gateway!ClaimWrite
<1>9. ASSUME Gateway!Unmark(t) PROVE Plain(t)
  <2>1. \/ q.kind = "end" /\ q.at = 7
        \/ q.kind = "drop" /\ q.at = 16
    BY <1>0, <1>9, AtStands, StepPlaces DEF Gateway!Unmark
  <2>2. \E p \in Gateway!TaskState : Further(p, t, 1)
    BY <1>0, <1>9, AdvancesFurther DEF Gateway!Unmark
  <2>3. PICK p \in Gateway!TaskState : Further(p, t, 1)
    BY <2>2
  <2>4. task' = [task EXCEPT ![t] = p] /\ C(p)
    BY <1>0, <1>00, <1>9, <2>1, <2>3, AtRestType
    DEF Further, Size, CarriesOn, Alike, Picking, Over, Leaving, Gateway!Unmark, Proper
  <2>5. QED
    BY <1>0, <1>9, <2>4 DEF Plain, PlainTo, Gateway!Unmark
<1>10. ASSUME Gateway!Wipe(t) PROVE Plain(t)
  <2>1. q.kind = "end" /\ q.at = 8
    BY <1>0, <1>10, AtStands, StepPlaces DEF Gateway!Wipe
  <2>2. \E p \in Gateway!TaskState : Further(p, t, 1)
    BY <1>0, <1>10, AdvancesFurther DEF Gateway!Wipe
  <2>3. PICK p \in Gateway!TaskState : Further(p, t, 1)
    BY <2>2
  <2>4. task' = [task EXCEPT ![t] = p] /\ C(p)
    BY <1>0, <1>00, <1>10, <2>1, <2>3, AtRestType
    DEF Further, Size, CarriesOn, Alike, Picking, Over, Leaving, Gateway!Wipe, Proper
  <2>5. QED
    BY <1>0, <1>10, <2>4 DEF Plain, PlainTo, Gateway!Wipe
<1>11. ASSUME Gateway!Enlist(t) PROVE Plain(t)
  <2>1. \/ q.kind = "request" /\ q.at = 7
        \/ q.kind = "accept" /\ q.at = 9
    BY <1>0, <1>11, AtStands, StepPlaces DEF Gateway!Enlist
  <2>2. \E p \in Gateway!TaskState : Further(p, t, 1)
    BY <1>0, <1>11, AdvancesFurther DEF Gateway!Enlist
  <2>3. PICK p \in Gateway!TaskState : Further(p, t, 1)
    BY <2>2
  <2>4. task' = [task EXCEPT ![t] = p] /\ C(p)
    BY <1>0, <1>00, <1>11, <2>1, <2>3, AtRestType
    DEF Further, Size, CarriesOn, Alike, Picking, Over, Leaving
  <2>5. QED
    BY <1>0, <1>11, <2>4 DEF Plain, PlainTo, Gateway!Enlist
<1>12. ASSUME Gateway!Delist(t) PROVE Plain(t)
  <2>1. q.kind = "end" /\ q.at = 4
    BY <1>0, <1>12, AtStands, StepPlaces DEF Gateway!Delist
  <2>2. \E p \in Gateway!TaskState : Further(p, t, 1)
    BY <1>0, <1>12, AdvancesFurther DEF Gateway!Delist
  <2>3. PICK p \in Gateway!TaskState : Further(p, t, 1)
    BY <2>2
  <2>4. task' = [task EXCEPT ![t] = p] /\ C(p)
    BY <1>0, <1>00, <1>12, <2>1, <2>3, AtRestType
    DEF Further, Size, CarriesOn, Alike, Picking, Over, Leaving
  <2>5. QED
    BY <1>0, <1>12, <2>4 DEF Plain, PlainTo, Gateway!Delist
<1>13. ASSUME Gateway!DelistCount(t) PROVE Plain(t)
  <2>1. q.kind = "end" /\ q.at = 5
    BY <1>0, <1>13, AtStands, StepPlaces DEF Gateway!DelistCount
  <2>2. \E p \in Gateway!TaskState :
          \/ Further(p, t, 1)
          \/ Further(p, t, 2)
    BY <1>0, <1>13, GoesFurther DEF Gateway!DelistCount
  <2>3. PICK p \in Gateway!TaskState :
          \/ Further(p, t, 1)
          \/ Further(p, t, 2)
    BY <2>2
  <2>4. task' = [task EXCEPT ![t] = p] /\ C(p)
    BY <1>0, <1>00, <1>13, <2>1, <2>3, AtRestType
    DEF Further, Size, CarriesOn, Alike, Picking, Over, Leaving
  <2>5. QED
    BY <1>0, <1>13, <2>4 DEF Plain, PlainTo, Gateway!DelistCount
<1>14. ASSUME Gateway!DelistDelete(t) PROVE Plain(t)
  <2>1. q.kind = "end" /\ q.at = 6
    BY <1>0, <1>14, AtStands, StepPlaces DEF Gateway!DelistDelete
  <2>2. \E p \in Gateway!TaskState : Further(p, t, 1)
    BY <1>0, <1>14, AdvancesFurther DEF Gateway!DelistDelete
  <2>3. PICK p \in Gateway!TaskState : Further(p, t, 1)
    BY <2>2
  <2>4. task' = [task EXCEPT ![t] = p] /\ C(p)
    BY <1>0, <1>00, <1>14, <2>1, <2>3, AtRestType
    DEF Further, Size, CarriesOn, Alike, Picking, Over, Leaving
  <2>5. QED
    BY <1>0, <1>14, <2>4 DEF Plain, PlainTo, Gateway!DelistDelete
<1>15. ASSUME Gateway!SweepRead(t) PROVE Plain(t)
  <2>1. q.kind = "drop" /\ q.at \in {2, 11}
    BY <1>0, <1>15, AtStands, StepPlaces DEF Gateway!SweepRead
  <2>2. \E p \in Gateway!TaskState :
          \/ Further(p, t, 5)
          \/ Further(p, t, 1)
    <3>1. \/ Gateway!Goto(t, 5, q)
          \/ \E e \in SUBSET Calls : Gateway!Goto(t, 1, [q EXCEPT !.swept = e])
      BY <1>0, <1>15, <2>1 DEF Gateway!SweepRead, Proper, Typed, Gateway!TypeOK, Gateway!TaskState
    <3>2. (\E e \in SUBSET Calls : Gateway!Goto(t, 1, [q EXCEPT !.swept = e])) =>
            \E p \in Gateway!TaskState : Further(p, t, 1)
      BY WritesFurther
    <3>3. Gateway!Goto(t, 5, q) => \E p \in Gateway!TaskState : Further(p, t, 5)
      BY <1>0, GoesFurther
    <3>4. QED
      BY <3>1, <3>2, <3>3
  <2>3. PICK p \in Gateway!TaskState :
          \/ Further(p, t, 5)
          \/ Further(p, t, 1)
    BY <2>2
  <2>4. task' = [task EXCEPT ![t] = p] /\ C(p)
    BY <1>0, <1>00, <1>15, <2>1, <2>3, AtRestType
    DEF Further, Size, CarriesOn, Alike, Picking, Over, Leaving
  <2>5. QED
    BY <1>0, <1>15, <2>4 DEF Plain, PlainTo, Gateway!SweepRead
<1>16. ASSUME Gateway!SweepRemove(t) PROVE Plain(t)
  <2>1. q.kind = "drop" /\ q.at \in {3, 12}
    BY <1>0, <1>16, AtStands, StepPlaces DEF Gateway!SweepRemove
  <2>2. \E p \in Gateway!TaskState : Further(p, t, 1)
    BY <1>0, <1>16, AdvancesFurther DEF Gateway!SweepRemove
  <2>3. PICK p \in Gateway!TaskState : Further(p, t, 1)
    BY <2>2
  <2>4. task' = [task EXCEPT ![t] = p] /\ C(p)
    BY <1>0, <1>00, <1>16, <2>1, <2>3, AtRestType
    DEF Further, Size, CarriesOn, Alike, Picking, Over, Leaving
  <2>5. QED
    BY <1>0, <1>16, <2>4 DEF Plain, PlainTo, Gateway!SweepRemove
<1>17. ASSUME Gateway!SweepCount(t) PROVE Plain(t)
  <2>1. q.kind = "drop" /\ q.at \in {4, 13}
    BY <1>0, <1>17, AtStands, StepPlaces DEF Gateway!SweepCount
  <2>2. \E p \in Gateway!TaskState : Further(p, t, 1)
    <3>1. \E e \in SUBSET Calls : Gateway!Goto(t, 1, [q EXCEPT !.swept = e])
      BY <1>0, <1>17 DEF Gateway!SweepCount, Proper, Typed, Gateway!TypeOK, Gateway!TaskState
    <3>2. QED
      BY <3>1, WritesFurther
  <2>3. PICK p \in Gateway!TaskState : Further(p, t, 1)
    BY <2>2
  <2>4. task' = [task EXCEPT ![t] = p] /\ C(p)
    BY <1>0, <1>00, <1>17, <2>1, <2>3, AtRestType
    DEF Further, Size, CarriesOn, Alike, Picking, Over, Leaving
  <2>5. QED
    BY <1>0, <1>17, <2>4 DEF Plain, PlainTo, Gateway!SweepCount
<1>18. ASSUME Gateway!SweepWipe(t) PROVE Plain(t)
  <2>1. q.kind = "drop" /\ q.at \in {5, 14}
    BY <1>0, <1>18, AtStands, StepPlaces DEF Gateway!SweepWipe
  <2>2. \E p \in Gateway!TaskState : Further(p, t, 1)
    <3>1. \E e \in SUBSET Calls : Gateway!Goto(t, 1, [q EXCEPT !.swept = e])
      BY <1>0, <1>18 DEF Gateway!SweepWipe, Proper, Typed, Gateway!TypeOK, Gateway!TaskState
    <3>2. QED
      BY <3>1, WritesFurther
  <2>3. PICK p \in Gateway!TaskState : Further(p, t, 1)
    BY <2>2
  <2>4. task' = [task EXCEPT ![t] = p] /\ C(p)
    BY <1>0, <1>00, <1>18, <2>1, <2>3, AtRestType
    DEF Further, Size, CarriesOn, Alike, Picking, Over, Leaving
  <2>5. QED
    BY <1>0, <1>18, <2>4 DEF Plain, PlainTo, Gateway!SweepWipe
<1>19. ASSUME Gateway!SweepDelete(t) PROVE Plain(t)
  <2>1. q.kind = "drop" /\ q.at \in {6, 15}
    BY <1>0, <1>19, AtStands, StepPlaces DEF Gateway!SweepDelete
  <2>2. \E p \in Gateway!TaskState : Further(p, t, 1)
    BY <1>0, <1>19, AdvancesFurther DEF Gateway!SweepDelete
  <2>3. PICK p \in Gateway!TaskState : Further(p, t, 1)
    BY <2>2
  <2>4. task' = [task EXCEPT ![t] = p] /\ C(p)
    BY <1>0, <1>00, <1>19, <2>1, <2>3, AtRestType
    DEF Further, Size, CarriesOn, Alike, Picking, Over, Leaving
  <2>5. QED
    BY <1>0, <1>19, <2>4 DEF Plain, PlainTo, Gateway!SweepDelete
<1>20. ASSUME Gateway!Cancel(t) PROVE Plain(t)
  <2>1. \/ q.kind = "accept" /\ q.at = 11
        \/ q.kind = "join" /\ q.at = 8
    BY <1>0, <1>20, AtStands, StepPlaces DEF Gateway!Cancel
  <2>2. \E p \in Gateway!TaskState : Further(p, t, 1)
    BY <1>0, <1>20, AdvancesFurther DEF Gateway!Cancel
  <2>3. PICK p \in Gateway!TaskState : Further(p, t, 1)
    BY <2>2
  <2>4. task' = [task EXCEPT ![t] = p] /\ C(p)
    BY <1>0, <1>00, <1>20, <2>1, <2>3, AtRestType
    DEF Further, Size, CarriesOn, Alike, Picking, Over, Leaving
  <2>5. QED
    BY <1>0, <1>20, <2>4 DEF Plain, PlainTo, Gateway!Cancel
<1>21. ASSUME Gateway!ReadParts(t) PROVE Plain(t)
  <2>1. q.kind = "miss" /\ q.at = 2
    BY <1>0, <1>21, AtStands, StepPlaces DEF Gateway!ReadParts
  <2>2. \E p \in Gateway!TaskState :
          \/ Further(p, t, 1)
          \/ Further(p, t, 2)
    BY <1>0, <1>21, GoesFurther, AdvancesFurther DEF Gateway!ReadParts
  <2>3. PICK p \in Gateway!TaskState :
          \/ Further(p, t, 1)
          \/ Further(p, t, 2)
    BY <2>2
  <2>4. task' = [task EXCEPT ![t] = p] /\ C(p)
    BY <1>0, <1>00, <1>21, <2>1, <2>3, AtRestType
    DEF Further, Size, CarriesOn, Alike, Picking, Over, Leaving
  <2>5. QED
    BY <1>0, <1>21, <2>4 DEF Plain, PlainTo, Gateway!ReadParts
<1>22. ASSUME Gateway!DropRead(t) PROVE Plain(t)
  <2>1. q.kind = "drop" /\ q.at = 1
    BY <1>0, <1>22, AtStands, StepPlaces DEF Gateway!DropRead
  <2>2. \E p \in Gateway!TaskState :
          \/ Further(p, t, 1)
          \/ Further(p, t, 9)
    BY <1>0, <1>22, GoesFurther, AdvancesFurther DEF Gateway!DropRead
  <2>3. PICK p \in Gateway!TaskState :
          \/ Further(p, t, 1)
          \/ Further(p, t, 9)
    BY <2>2
  <2>4. task' = [task EXCEPT ![t] = p] /\ C(p)
    BY <1>0, <1>00, <1>22, <2>1, <2>3, AtRestType
    DEF Further, Size, CarriesOn, Alike, Picking, Over, Leaving
  <2>5. QED
    BY <1>0, <1>22, <2>4 DEF Plain, PlainTo, Gateway!DropRead
<1>23. ASSUME Gateway!DropUnmark(t) PROVE Plain(t)
  <2>1. q.kind = "drop" /\ q.at = 7
    BY <1>0, <1>23, AtStands, StepPlaces DEF Gateway!DropUnmark
  <2>2. \E p \in Gateway!TaskState : Further(p, t, 1)
    BY <1>0, <1>23, AdvancesFurther DEF Gateway!DropUnmark
  <2>3. PICK p \in Gateway!TaskState : Further(p, t, 1)
    BY <2>2
  <2>4. task' = [task EXCEPT ![t] = p] /\ C(p)
    BY <1>0, <1>00, <1>23, <2>1, <2>3, AtRestType
    DEF Further, Size, CarriesOn, Alike, Picking, Over, Leaving, Gateway!DropUnmark, Proper
  <2>5. QED
    BY <1>0, <1>23, <2>4 DEF Plain, PlainTo, Gateway!DropUnmark
<1>24. ASSUME Gateway!DropSockRead(t) PROVE Plain(t)
  <2>1. q.kind = "drop" /\ q.at = 8
    BY <1>0, <1>24, AtStands, StepPlaces DEF Gateway!DropSockRead
  <2>2. \E p \in Gateway!TaskState :
          \/ Further(p, t, 1)
          \/ Further(p, t, 2)
    BY <1>0, <1>24, GoesFurther, AdvancesFurther DEF Gateway!DropSockRead
  <2>3. PICK p \in Gateway!TaskState :
          \/ Further(p, t, 1)
          \/ Further(p, t, 2)
    BY <2>2
  <2>4. task' = [task EXCEPT ![t] = p] /\ C(p)
    BY <1>0, <1>00, <1>24, <2>1, <2>3, AtRestType
    DEF Further, Size, CarriesOn, Alike, Picking, Over, Leaving
  <2>5. QED
    BY <1>0, <1>24, <2>4 DEF Plain, PlainTo, Gateway!DropSockRead
<1>25. ASSUME Gateway!DropSockDelete(t) PROVE Plain(t)
  <2>1. q.kind = "drop" /\ q.at = 9
    BY <1>0, <1>25, AtStands, StepPlaces DEF Gateway!DropSockDelete
  <2>2. \E p \in Gateway!TaskState : Further(p, t, 1)
    BY <1>0, <1>25, AdvancesFurther DEF Gateway!DropSockDelete
  <2>3. PICK p \in Gateway!TaskState : Further(p, t, 1)
    BY <2>2
  <2>4. task' = [task EXCEPT ![t] = p] /\ C(p)
    BY <1>0, <1>00, <1>25, <2>1, <2>3, AtRestType
    DEF Further, Size, CarriesOn, Alike, Picking, Over, Leaving
  <2>5. QED
    BY <1>0, <1>25, <2>4 DEF Plain, PlainTo, Gateway!DropSockDelete
<1>26. ASSUME Gateway!Leave(t) PROVE Plain(t)
  <2>1. q.kind = "drop" /\ q.at = 10
    BY <1>0, <1>26, AtStands, StepPlaces DEF Gateway!Leave
  <2>2. \E p \in Gateway!TaskState :
          \/ Further(p, t, 1)
          \/ task' = [task EXCEPT ![t] = p] /\ p = Gateway!Idle
    BY <1>0, <1>26, AdvancesFurther, AtRestType DEF Gateway!Leave, Gateway!Answer
  <2>3. PICK p \in Gateway!TaskState :
          \/ Further(p, t, 1)
          \/ task' = [task EXCEPT ![t] = p] /\ p = Gateway!Idle
    BY <2>2
  <2>4. task' = [task EXCEPT ![t] = p] /\ C(p)
    BY <1>0, <1>00, <1>26, <2>1, <2>3, AtRestType
    DEF Further, Size, CarriesOn, Alike, Picking, Over, Leaving
  <2>5. QED
    BY <1>0, <1>26, <2>4 DEF Plain, PlainTo, Gateway!Leave
<1>27. ~Gateway!Lost(t)
  BY DEF Gateway!Lost
<1>28. QED
  BY <1>1, <1>2, <1>3, <1>4, <1>5, <1>6, <1>7, <1>8, <1>9, <1>10, <1>11, <1>12, <1>13, <1>14, <1>15, <1>16, <1>17, <1>18, <1>19, <1>20, <1>21, <1>22, <1>23, <1>24, <1>25, <1>26, <1>27 DEF Gateway!Continue

\* A handler whose step is not refused has this one successor.
LEMMA Answered1 ==
  ASSUME NEW t \in Slots, NEW q, NEW b \in Gateway!Outcomes, Gateway!AfterGrpc(t, b, q)
  PROVE  Gateway!Goto(t, 1, q)
  BY DEF Gateway!Outcomes, Gateway!AfterGrpc

LEMMA CreateKeeps ==
  ASSUME Typed, NEW c \in Calls, CallInv(c), NEW t \in Slots, task[t].call = c,
         Gateway!Create(t)
  PROVE  CallInv(c)'
<1> DEFINE q == task[t]
<1>1. q \in Gateway!TaskState /\ Proper(q) /\ Alike(q, q) /\ q.at \in 1 .. 16
  BY DEF Typed, Gateway!TypeOK, Alike, Gateway!TaskState
<1> USE DEF gateway, Gateway!db, Gateway!redis, Gateway!clients
<1>2. q.kind = "request" /\ q.at = 5 /\ q.user \in Users
  BY <1>1, AtStands, StepPlaces DEF Gateway!Create, Proper
<1>3. PICK p \in Gateway!TaskState : Further(p, t, 1)
  BY <1>1, GoesFurther, Answered1 DEF Gateway!Create
<1>4. task' = [task EXCEPT ![t] = p] /\ p.kind = "request" /\ p.at = 6 /\ p.user = q.user /\ p.call = c
  BY <1>1, <1>2, <1>3 DEF Further, Size, Alike
<1>5. /\ Alone(c)' /\ task'[t] = p
      /\ \A s \in Slots : task[s].call = c => s = t
      /\ \A s \in Slots : task'[s].call = c => s = t
  BY <1>4, OnlyHandler
<1>6. c \notin over /\ ~Gateway!Exists(c) /\ \A u \in Users : c \notin invites[u] /\ inCall[u] # c
  <2>1. ~Gateway!Exists(c)
    BY <1>2 DEF CallInv, Serves
  <2>2. QED
    BY <2>1 DEF CallInv, Unborn
<1>7. /\ \A u \in Users : member'[c][u] = IF u = q.user THEN "started" ELSE "pending"
      /\ UNCHANGED <<over, inCall, invites, jobs>>
  BY <1>2 DEF Gateway!Create, Typed, Gateway!TypeOK
<1>8. Whole(c)' /\ Abandoned(c)' /\ Unborn(c)' /\ Invited(c)' /\ Phantom(c)' /\ Marked(c)'
  BY <1>2, <1>6, <1>7
  DEF Whole, Abandoned, Unborn, Invited, Phantom, Marked, Gateway!Exists
<1>9. Serves(p)'
  BY <1>4, <1>6, <1>7 DEF Serves
<1>10. QED
  BY <1>5, <1>8, <1>9 DEF CallInv

LEMMA AcceptCallKeeps ==
  ASSUME Typed, NEW c \in Calls, CallInv(c), NEW t \in Slots, task[t].call = c,
         Gateway!AcceptCall(t)
  PROVE  CallInv(c)'
<1> DEFINE q == task[t]
<1>1. q \in Gateway!TaskState /\ Proper(q) /\ Alike(q, q) /\ q.at \in 1 .. 16
  BY DEF Typed, Gateway!TypeOK, Alike, Gateway!TaskState
<1> USE DEF gateway, Gateway!db, Gateway!redis, Gateway!clients
<1>2. /\ q.user \in Users
      /\ \/ q.kind = "accept" /\ q.at = 7
         \/ q.kind = "join" /\ q.at = 5
  BY <1>1, AtStands, StepPlaces DEF Gateway!AcceptCall, Proper
<1>3. PICK p \in Gateway!TaskState : Further(p, t, 1)
  BY <1>1, GoesFurther, Answered1 DEF Gateway!AcceptCall
<1>4. /\ task' = [task EXCEPT ![t] = p]
      /\ p.kind = q.kind /\ p.at = q.at + 1 /\ p.user = q.user /\ p.call = c
  BY <1>1, <1>2, <1>3 DEF Further, Size, Alike
<1>5. /\ Alone(c)' /\ task'[t] = p
      /\ \A s \in Slots : task[s].call = c => s = t
      /\ \A s \in Slots : task'[s].call = c => s = t
  BY <1>4, OnlyHandler
<1>6. \A u \in Users : member[c][u] # "absent"
  BY <1>2 DEF CallInv, Serves, Whole, Gateway!Exists
<1>7. /\ member'[c][q.user] = "started"
      /\ \A u \in Users : u # q.user => member'[c][u] = member[c][u]
      /\ UNCHANGED <<over, inCall, invites, jobs>>
  BY <1>2, <1>6 DEF Gateway!AcceptCall, Typed, Gateway!TypeOK
<1>8. Whole(c)' /\ Abandoned(c)' /\ Unborn(c)'
  BY <1>2, <1>6, <1>7 DEF CallInv, Whole, Abandoned, Unborn, Gateway!Exists
<1>9. ~Picking(q) /\ ~Over(q) /\ ~Leaving(q) /\ Picking(p)
  BY <1>2, <1>4 DEF Picking, Over, Leaving
<1>10. Invited(c)'
  <2> SUFFICES ASSUME NEW u \in Users, c \in invites[u], member'[c][u] = "started"
               PROVE  u = q.user
    BY <1>4, <1>5, <1>7, <1>9 DEF Invited
  <2>1. member[c][u] # "started"
    BY <1>5, <1>9 DEF CallInv, Invited
  <2>2. QED
    BY <1>7, <2>1
<1>11. Phantom(c)' /\ Marked(c)'
  BY <1>5, <1>7, <1>9 DEF CallInv, Phantom, Marked
<1>12. Serves(p)'
  BY <1>2, <1>4, <1>6, <1>7 DEF Serves, Gateway!Exists
<1>13. QED
  BY <1>5, <1>8, <1>10, <1>11, <1>12 DEF CallInv

LEMMA MarkKeeps ==
  ASSUME Typed, NEW c \in Calls, CallInv(c), NEW t \in Slots, task[t].call = c,
         Gateway!Mark(t)
  PROVE  CallInv(c)'
<1> DEFINE q == task[t]
<1>1. q \in Gateway!TaskState /\ Proper(q) /\ q.at \in 1 .. 16
  BY DEF Typed, Gateway!TypeOK, Gateway!TaskState
<1> USE DEF gateway, Gateway!db, Gateway!redis, Gateway!clients
<1>2. /\ q.user \in Users
      /\ \/ q.kind = "request" /\ q.at = 6
         \/ q.kind = "accept" /\ q.at = 8
         \/ q.kind = "join" /\ q.at = 6
  BY <1>1, AtStands, StepPlaces DEF Gateway!Mark, Proper
<1>3. PICK p \in Gateway!TaskState : Further(p, t, 1)
  BY AdvancesFurther DEF Gateway!Mark
<1>4. /\ task' = [task EXCEPT ![t] = p]
      /\ p.kind = q.kind /\ p.at = q.at + 1 /\ p.user = q.user /\ p.call = c
  BY <1>1, <1>2, <1>3 DEF Further, Size, Alike
<1>5. /\ Alone(c)' /\ task'[t] = p
      /\ \A s \in Slots : task[s].call = c => s = t
      /\ \A s \in Slots : task'[s].call = c => s = t
  BY <1>4, OnlyHandler
<1>6. Serves(q) /\ member[c][q.user] = "started" /\ Gateway!Exists(c)
  BY <1>2 DEF CallInv, Serves, Gateway!Exists
<1>7. /\ \A u \in Users : inCall'[u] = IF u = q.user THEN c ELSE inCall[u]
      /\ UNCHANGED <<member, over, invites, jobs>>
  BY <1>2 DEF Gateway!Mark, Typed, Gateway!TypeOK
<1>8. ~Over(q) /\ ~Leaving(q) /\ (Picking(q) => Picking(p))
  BY <1>2, <1>4 DEF Picking, Over, Leaving
<1>9. Whole(c)' /\ Abandoned(c)' /\ Unborn(c)' /\ Phantom(c)'
  BY <1>5, <1>6, <1>7, <1>8
  DEF CallInv, Whole, Abandoned, Unborn, Phantom, Gateway!Exists
<1>10. Invited(c)'
  BY <1>4, <1>5, <1>7, <1>8 DEF CallInv, Invited
<1>11. Marked(c)'
  BY <1>5, <1>6, <1>7, <1>8 DEF CallInv, Marked
<1>12. Serves(p)'
  BY <1>2, <1>4, <1>6, <1>7 DEF Serves, Gateway!Exists
<1>13. QED
  BY <1>5, <1>9, <1>10, <1>11, <1>12 DEF CallInv

LEMMA InviteKeeps ==
  ASSUME Typed, NEW c \in Calls, CallInv(c), NEW t \in Slots, task[t].call = c,
         Gateway!Invite(t) \/ Gateway!Schedule(t)
  PROVE  CallInv(c)'
<1> DEFINE q == task[t]
<1>1. q \in Gateway!TaskState /\ Proper(q) /\ q.at \in 1 .. 16
  BY DEF Typed, Gateway!TypeOK, Gateway!TaskState
<1> USE DEF gateway, Gateway!db, Gateway!redis, Gateway!clients
<1>2. q.user \in Users /\ q.kind = "request" /\ q.at \in 10 .. 11
  BY <1>1, AtStands, StepPlaces DEF Gateway!Invite, Gateway!Schedule, Proper
<1>3. PICK p \in Gateway!TaskState : Further(p, t, 1)
  BY AdvancesFurther DEF Gateway!Invite, Gateway!Schedule
<1>4. /\ task' = [task EXCEPT ![t] = p]
      /\ \/ p = Gateway!Idle
         \/ p.kind = "request" /\ p.at = 11 /\ p.user = q.user /\ p.call = c
  <2>1. CASE q.at = 10
    BY <1>2, <1>3, <2>1 DEF Further, Size, Alike
  <2>2. CASE q.at = 11
    <3>1. Size(q.kind) = 11
      BY <1>2 DEF Size
    <3>2. QED
      BY <1>3, <2>2, <3>1 DEF Further
  <2>3. QED
    BY <1>2, <2>1, <2>2
<1>5. /\ Alone(c)' /\ task'[t] = p
      /\ \A s \in Slots : task[s].call = c => s = t
      /\ \A s \in Slots : task'[s].call = c => s = t
  BY <1>4, OnlyHandler
<1>6. /\ c \notin over /\ Gateway!Exists(c)
      /\ \A u \in Users : member[c][u] = IF u = q.user THEN "started" ELSE "pending"
  BY <1>2 DEF CallInv, Serves, Gateway!Exists
<1>7. /\ \A u \in Users : c \in invites'[u] => c \in invites[u] \/ u # q.user
      /\ UNCHANGED <<member, over, inCall>>
  BY DEF Gateway!Invite, Gateway!Schedule
<1>8. ~Picking(q) /\ ~Over(q) /\ ~Leaving(q)
  BY <1>2 DEF Picking, Over, Leaving
<1>9. Whole(c)' /\ Abandoned(c)' /\ Unborn(c)' /\ Phantom(c)' /\ Marked(c)'
  BY <1>5, <1>6, <1>7, <1>8
  DEF CallInv, Whole, Abandoned, Unborn, Phantom, Marked, Gateway!Exists
<1>10. Invited(c)'
  <2> SUFFICES ASSUME NEW u \in Users, c \in invites'[u], member[c][u] = "started" PROVE FALSE
    BY <1>7 DEF Invited
  <2>1. c \notin invites[u]
    BY <1>5, <1>8 DEF CallInv, Invited
  <2>2. QED
    BY <1>6, <1>7, <2>1
<1>11. Serves(p)'
  BY <1>4, <1>6, <1>7, AtRestType DEF Serves
<1>12. QED
  BY <1>5, <1>9, <1>10, <1>11 DEF CallInv

LEMMA UninviteKeeps ==
  ASSUME Typed, NEW c \in Calls, CallInv(c), NEW t \in Slots, task[t].call = c,
         Gateway!Uninvite(t)
  PROVE  CallInv(c)'
<1> DEFINE q == task[t]
<1>1. q \in Gateway!TaskState /\ Proper(q) /\ q.at \in 1 .. 16
  BY DEF Typed, Gateway!TypeOK, Gateway!TaskState
<1> USE DEF gateway, Gateway!db, Gateway!redis, Gateway!clients
<1>2. /\ q.user \in Users
      /\ \/ q.kind = "accept" /\ q.at = 10
         \/ q.kind = "join" /\ q.at = 7
         \/ q.kind = "miss" /\ q.at = 4
  BY <1>1, AtStands, StepPlaces DEF Gateway!Uninvite, Proper
<1>3. PICK p \in Gateway!TaskState : Further(p, t, 1)
  BY AdvancesFurther DEF Gateway!Uninvite
<1>4. /\ task' = [task EXCEPT ![t] = p]
      /\ \/ p = Gateway!Idle
         \/ q.kind # "miss" /\ p.kind = q.kind /\ p.at = q.at + 1 /\ p.user = q.user /\ p.call = c
  BY <1>1, <1>2, <1>3 DEF Further, Size, Alike
<1>5. /\ Alone(c)' /\ task'[t] = p
      /\ \A s \in Slots : task[s].call = c => s = t
      /\ \A s \in Slots : task'[s].call = c => s = t
  BY <1>4, OnlyHandler
<1>6. /\ \A u \in Users : c \in invites'[u] <=> c \in invites[u] /\ u # q.user
      /\ UNCHANGED <<member, over, inCall, jobs>>
  BY <1>2 DEF Gateway!Uninvite, Typed, Gateway!TypeOK
<1>7. ~Over(q) /\ ~Leaving(q)
  BY <1>2 DEF Over, Leaving
<1>8. Whole(c)' /\ Abandoned(c)' /\ Unborn(c)' /\ Phantom(c)' /\ Marked(c)'
  BY <1>5, <1>6, <1>7
  DEF CallInv, Whole, Abandoned, Unborn, Phantom, Marked, Gateway!Exists
<1>9. Invited(c)'
  BY <1>5, <1>6 DEF CallInv, Invited
<1>10. Serves(p)'
  <2>1. CASE p = Gateway!Idle
    BY <2>1, AtRestType DEF Serves
  <2>2. CASE p # Gateway!Idle
    BY <1>2, <1>4, <1>6, <2>2 DEF CallInv, Serves, Gateway!Exists
  <2>3. QED
    BY <2>1, <2>2
<1>11. QED
  BY <1>5, <1>8, <1>9, <1>10 DEF CallInv

LEMMA UninviteAllKeeps ==
  ASSUME Typed, NEW c \in Calls, CallInv(c), NEW t \in Slots, task[t].call = c,
         Gateway!UninviteAll(t)
  PROVE  CallInv(c)'
<1> DEFINE q == task[t]
<1>1. q \in Gateway!TaskState /\ Proper(q) /\ q.at \in 1 .. 16
  BY DEF Typed, Gateway!TypeOK, Gateway!TaskState
<1> USE DEF gateway, Gateway!db, Gateway!redis, Gateway!clients
<1>2. q.user \in Users /\ q.kind = "end" /\ q.at = 2
  BY <1>1, AtStands, StepPlaces DEF Gateway!UninviteAll, Proper
<1>3. PICK p \in Gateway!TaskState : Further(p, t, 1)
  BY AdvancesFurther DEF Gateway!UninviteAll
<1>4. /\ task' = [task EXCEPT ![t] = p]
      /\ p.kind = "end" /\ p.at = 3 /\ p.user = q.user /\ p.call = c
  BY <1>1, <1>2, <1>3 DEF Further, Size, Alike
<1>5. /\ Alone(c)' /\ task'[t] = p
      /\ \A s \in Slots : task[s].call = c => s = t
      /\ \A s \in Slots : task'[s].call = c => s = t
  BY <1>4, OnlyHandler
<1>6. Gateway!Exists(c) /\ \A u \in Users : member[c][u] # "absent"
  BY <1>2 DEF CallInv, Serves, Whole, Gateway!Exists
<1>7. /\ \A u \in Users : c \notin invites'[u]
      /\ UNCHANGED <<member, over, inCall, jobs>>
  BY <1>6 DEF Gateway!UninviteAll
<1>8. Whole(c)' /\ Abandoned(c)' /\ Unborn(c)' /\ Invited(c)' /\ Phantom(c)'
  BY <1>7 DEF CallInv, Whole, Abandoned, Unborn, Invited, Phantom, Gateway!Exists
<1>9. Marked(c)'
  BY <1>2, <1>4, <1>5, <1>7 DEF CallInv, Marked, Leaving
<1>10. Serves(p)'
  BY <1>4, <1>6, <1>7 DEF Serves, Gateway!Exists
<1>11. QED
  BY <1>5, <1>8, <1>9, <1>10 DEF CallInv

LEMMA ReadInviteKeeps ==
  ASSUME Typed, NEW c \in Calls, CallInv(c), NEW t \in Slots, task[t].call = c,
         Gateway!ReadInvite(t)
  PROVE  CallInv(c)'
<1> DEFINE q == task[t]
<1>1. q \in Gateway!TaskState /\ Proper(q) /\ q.at \in 1 .. 16
  BY DEF Typed, Gateway!TypeOK, Gateway!TaskState
<1> USE DEF gateway, Gateway!db, Gateway!redis, Gateway!clients
<1>2. q.user \in Users /\ q.kind = "miss" /\ q.at = 1
  BY <1>1, AtStands, StepPlaces DEF Gateway!ReadInvite, Proper
<1>3. \E p \in Gateway!TaskState :
        /\ task' = [task EXCEPT ![t] = p]
        /\ p = Gateway!Idle \/ (c \in invites[q.user] /\ Further(p, t, 1))
  <2>1. CASE c \in invites[q.user]
    <3>1. PICK p \in Gateway!TaskState : Further(p, t, 1)
      BY <2>1, AdvancesFurther DEF Gateway!ReadInvite
    <3>2. QED
      BY <2>1, <3>1 DEF Further
  <2>2. CASE c \notin invites[q.user]
    BY <2>2, AtRestType DEF Gateway!ReadInvite, Gateway!Answer
  <2>3. QED
    BY <2>1, <2>2
<1>4. PICK p \in Gateway!TaskState :
        /\ task' = [task EXCEPT ![t] = p]
        /\ p = Gateway!Idle \/ (c \in invites[q.user] /\ Further(p, t, 1))
  BY <1>3
<1>5. \/ p = Gateway!Idle
      \/ c \in invites[q.user] /\ p.kind = "miss" /\ p.at = 2 /\ p.user = q.user /\ p.call = c
  BY <1>1, <1>2, <1>4 DEF Further, Size, Alike
<1>6. /\ Alone(c)' /\ task'[t] = p
      /\ \A s \in Slots : task[s].call = c => s = t
      /\ \A s \in Slots : task'[s].call = c => s = t
  BY <1>4, OnlyHandler
<1>7. UNCHANGED <<member, over, inCall, invites, jobs>>
  BY DEF Gateway!ReadInvite
<1>8. ~Picking(q) /\ ~Over(q) /\ ~Leaving(q)
  BY <1>2 DEF Picking, Over, Leaving
<1>9. Whole(c)' /\ Unborn(c)' /\ Abandoned(c)' /\ Marked(c)' /\ Invited(c)' /\ Phantom(c)'
  BY <1>6, <1>7, <1>8
  DEF CallInv, Whole, Unborn, Abandoned, Marked, Invited, Phantom, Gateway!Exists
<1>10. Serves(p)'
  <2>1. CASE p = Gateway!Idle
    BY <2>1, AtRestType DEF Serves
  <2>2. CASE p # Gateway!Idle
    BY <1>2, <1>5, <1>7, <2>2 DEF CallInv, Serves, Gateway!Exists
  <2>3. QED
    BY <2>1, <2>2
<1>11. QED
  BY <1>6, <1>9, <1>10 DEF CallInv

\* The timer finds nobody in the call whom it would miss.
LEMMA MissedIsOut ==
  ASSUME Typed, NEW c \in Calls, CallInv(c), NEW t \in Slots, task[t].call = c,
         task[t].kind = "miss", task[t].at \in 2 .. 3
  PROVE  member[c][task[t].user] # "started" /\ c \notin over
<1>1. task[t].user \in Users /\ \A s \in Slots : task[s].call = c => s = t
  BY DEF Typed, Proper, CallInv, Alone
<1>2. c \in invites[task[t].user]
  BY DEF CallInv, Serves
<1>3. ~Picking(task[t]) /\ ~Over(task[t])
  BY DEF Picking, Over
<1>4. QED
  BY <1>1, <1>2, <1>3 DEF CallInv, Invited, Phantom

\* What EndCall makes of a group call.
LEMMA EndedFor ==
  ASSUME Typed, NEW c \in Calls, CallInv(c), NEW t \in Slots, task[t].call = c,
         Gateway!EndCall(t)
  PROVE  /\ task[t].user \in Users
         /\ \/ task[t].kind = "end" /\ task[t].at = 1
            \/ task[t].kind = "miss" /\ task[t].at = 3 /\ task[t].as = "missed"
         /\ task[t].as \in Gateway!EndStatus
         /\ \A u \in Users : member[c][u] # "absent"
         /\ \A u \in Users : member'[c][u] = IF u = task[t].user THEN task[t].as
                                             ELSE member[c][u]
         /\ c \in over' <=>
              \/ c \in over
              \/ /\ \A u \in Users : member'[c][u] # "started"
                 /\ \E u \in Users : member'[c][u] = "ended"
         /\ UNCHANGED <<inCall, invites, jobs>>
         /\ \E p \in Gateway!TaskState : Further(p, t, 1)
<1> DEFINE q == task[t]
<1>1. /\ q \in Gateway!TaskState /\ Proper(q) /\ Alike(q, q)
      /\ task \in [Slots -> Gateway!TaskState]
  BY DEF Typed, Gateway!TypeOK, Alike
<1> USE DEF gateway, Gateway!db, Gateway!redis, Gateway!clients
<1>2. \/ q.kind = "end" /\ q.at = 1
      \/ q.kind = "miss" /\ q.at = 3
  BY <1>1, AtStands, StepPlaces DEF Gateway!EndCall
<1>3. /\ q.user \in Users /\ q.as \in Gateway!EndStatus
      /\ q.kind = "miss" => q.as = "missed"
  BY <1>1, <1>2 DEF Proper, Gateway!TaskState
<1>4. \A u \in Users : member[c][u] # "absent"
  BY <1>2, <1>3 DEF CallInv, Serves, Whole, Gateway!Exists
<1> DEFINE after == [u \in Users |-> IF u = q.user THEN q.as ELSE member[c][u]]
<1>5. /\ member' = [member EXCEPT ![c] = after]
      /\ over' = IF (\A u \in Users : after[u] # "started") /\ \E u \in Users : after[u] = "ended"
                 THEN over \union {c} ELSE over
      /\ UNCHANGED <<inCall, invites, jobs>>
  BY <1>3, <1>4 DEF Gateway!EndCall
<1>6. member'[c] = after
  BY <1>3, <1>5 DEF Typed, Gateway!TypeOK
<1>7. \E p \in Gateway!TaskState : Further(p, t, 1)
  <2>1. \E b \in BOOLEAN : \E answered \in Gateway!Outcomes :
          Gateway!AfterGrpc(t, answered, [q EXCEPT !.live = b])
    BY DEF Gateway!EndCall
  <2>2. \E b \in BOOLEAN : Gateway!Goto(t, 1, [q EXCEPT !.live = b])
    BY <2>1, Answered1
  <2>3. QED
    BY <2>2, WritesFurther
<1>8. QED
  BY <1>2, <1>3, <1>4, <1>5, <1>6, <1>7

LEMMA EndKeeps ==
  ASSUME Typed, NEW c \in Calls, CallInv(c), NEW t \in Slots, task[t].call = c,
         Gateway!EndCall(t)
  PROVE  CallInv(c)'
<1> DEFINE q == task[t]
<1>1. q \in Gateway!TaskState /\ q.at \in 1 .. 16
  BY DEF Typed, Gateway!TypeOK, Gateway!TaskState
<1>2. /\ q.user \in Users /\ q.as \in Gateway!EndStatus
      /\ \/ q.kind = "end" /\ q.at = 1
         \/ q.kind = "miss" /\ q.at = 3 /\ q.as = "missed"
      /\ \A u \in Users : member[c][u] # "absent"
      /\ UNCHANGED <<inCall, invites, jobs>>
  BY EndedFor
<1>3. /\ \A u \in Users : member'[c][u] = IF u = q.user THEN q.as ELSE member[c][u]
      /\ c \in over' <=>
           \/ c \in over
           \/ /\ \A u \in Users : member'[c][u] # "started"
              /\ \E u \in Users : member'[c][u] = "ended"
  BY EndedFor
<1>4. PICK p \in Gateway!TaskState : Further(p, t, 1)
  BY EndedFor
<1>5. /\ task' = [task EXCEPT ![t] = p]
      /\ p.kind = q.kind /\ p.at = q.at + 1 /\ p.user = q.user /\ p.call = c
  BY <1>1, <1>2, <1>4 DEF Further, Size, Alike
<1>6. /\ Alone(c)' /\ task'[t] = p
      /\ \A s \in Slots : task[s].call = c => s = t
      /\ \A s \in Slots : task'[s].call = c => s = t
  BY <1>5, OnlyHandler
<1>7. /\ \A u \in Users : member'[c][u] = "started" => member[c][u] = "started"
      /\ \A u \in Users : member'[c][u] # "absent"
  BY <1>2, <1>3 DEF Gateway!EndStatus
<1>8. ~Picking(q) /\ ~Over(q) /\ ~Leaving(q)
  BY <1>2 DEF Picking, Over, Leaving
<1>9. Whole(c)' /\ Unborn(c)' /\ Abandoned(c)'
  BY <1>2, <1>3, <1>7 DEF Whole, Unborn, Abandoned, Gateway!Exists
<1>10. Invited(c)'
  BY <1>2, <1>6, <1>7, <1>8 DEF CallInv, Invited
<1>11. q.kind = "miss" => c \notin over'
  <2> SUFFICES ASSUME q.kind = "miss", c \in over' PROVE FALSE
    OBVIOUS
  <2>1. q.as = "missed" /\ member[c][q.user] # "started" /\ c \notin over
    BY <1>2, MissedIsOut
  <2>2. /\ \A u \in Users : member[c][u] # "started"
        /\ \E u \in Users : member[c][u] = "ended"
    BY <1>2, <1>3, <2>1
  <2>3. QED
    BY <2>1, <2>2 DEF CallInv, Abandoned
<1>12. Phantom(c)'
  BY <1>2, <1>5, <1>6, <1>8, <1>11 DEF CallInv, Phantom, Over
<1>13. Marked(c)'
  <2> SUFFICES ASSUME NEW u \in Users, inCall[u] = c, member'[c][u] # "started"
               PROVE  Leaving(p) /\ p.user = u /\ p.call = c
    BY <1>2, <1>6 DEF Marked
  <2>1. member[c][u] = "started"
    BY <1>6, <1>8 DEF CallInv, Marked
  <2>2. u = q.user
    BY <1>3, <2>1
  <2>3. q.kind = "end" /\ q.at = 1
    BY <1>2, <2>1, <2>2, MissedIsOut
  <2>4. QED
    BY <1>5, <2>2, <2>3 DEF Leaving
<1>14. Serves(p)'
  BY <1>2, <1>5, <1>7 DEF Serves, Gateway!Exists
<1>15. QED
  BY <1>6, <1>9, <1>10, <1>12, <1>13, <1>14 DEF CallInv

\* The same steps for any other call.
LEMMA StepElsewhere ==
  ASSUME Typed, NEW c \in Calls, NEW t \in Slots, task[t].call # c, Gateway!Continue(t)
  PROVE  CallUntouched(c)
<1> DEFINE q == task[t]
<1>1. q \in Gateway!TaskState /\ Proper(q) /\ Alike(q, q)
  BY DEF Typed, Gateway!TypeOK, Alike
<1>2. ASSUME NEW p, task' = [task EXCEPT ![t] = p], p = Gateway!Idle \/ Alike(p, q)
      PROVE  \A s \in Slots : task'[s].call = c \/ task[s].call = c => task'[s] = task[s]
  BY <1>2, NoneIs DEF Alike, Typed, Gateway!TypeOK
<1>3. ASSUME \E p \in Gateway!TaskState : Further(p, t, 1)
      PROVE  \A s \in Slots : task'[s].call = c \/ task[s].call = c => task'[s] = task[s]
  BY <1>2, <1>3 DEF Further
<1> USE DEF gateway, Gateway!db, Gateway!redis, Gateway!clients
<1>4. ASSUME Gateway!Create(t) PROVE CallUntouched(c)
  <2>1. \E p \in Gateway!TaskState : Further(p, t, 1)
    BY <1>1, <1>4, GoesFurther, Answered1 DEF Gateway!Create
  <2>2. member'[c] = member[c]
    BY <1>4 DEF Gateway!Create, Typed, Gateway!TypeOK
  <2>3. QED
    BY <1>3, <1>4, <2>1, <2>2 DEF Gateway!Create, CallUntouched
<1>5. ASSUME Gateway!AcceptCall(t) PROVE CallUntouched(c)
  <2>1. \E p \in Gateway!TaskState : Further(p, t, 1)
    BY <1>1, <1>5, GoesFurther, Answered1 DEF Gateway!AcceptCall
  <2>2. member'[c] = member[c]
    BY <1>5 DEF Gateway!AcceptCall, Typed, Gateway!TypeOK
  <2>3. QED
    BY <1>3, <1>5, <2>1, <2>2 DEF Gateway!AcceptCall, CallUntouched
<1>6. ASSUME Gateway!EndCall(t) PROVE CallUntouched(c)
  <2>1. \E p \in Gateway!TaskState : Further(p, t, 1)
    <3>1. \E b \in BOOLEAN : \E answered \in Gateway!Outcomes :
            Gateway!AfterGrpc(t, answered, [q EXCEPT !.live = b])
      BY <1>6 DEF Gateway!EndCall
    <3>2. \E b \in BOOLEAN : Gateway!Goto(t, 1, [q EXCEPT !.live = b])
      BY <3>1, Answered1
    <3>3. QED
      BY <3>2, WritesFurther
  <2>2. /\ member'[c] = member[c] /\ (c \in over' <=> c \in over)
        /\ UNCHANGED <<inCall, invites, jobs>>
    BY <1>6 DEF Gateway!EndCall, Typed, Gateway!TypeOK
  <2>3. QED
    BY <1>3, <2>1, <2>2 DEF CallUntouched
<1>7. ASSUME Gateway!Mark(t) PROVE CallUntouched(c)
  <2>1. \E p \in Gateway!TaskState : Further(p, t, 1)
    BY <1>7, AdvancesFurther DEF Gateway!Mark
  <2>2. \A u \in Users : inCall'[u] = c => inCall[u] = c
    BY <1>7 DEF Gateway!Mark, Typed, Gateway!TypeOK
  <2>3. QED
    BY <1>3, <1>7, <2>1, <2>2 DEF Gateway!Mark, CallUntouched
<1>8. ASSUME Gateway!Invite(t) PROVE CallUntouched(c)
  <2>1. \E p \in Gateway!TaskState : Further(p, t, 1)
    BY <1>8, AdvancesFurther DEF Gateway!Invite
  <2>2. QED
    BY <1>3, <1>8, <2>1 DEF Gateway!Invite, CallUntouched
<1>9. ASSUME Gateway!Schedule(t) PROVE CallUntouched(c)
  <2>1. \E p \in Gateway!TaskState : Further(p, t, 1)
    BY <1>9, AdvancesFurther DEF Gateway!Schedule
  <2>2. QED
    BY <1>3, <1>9, <2>1 DEF Gateway!Schedule, CallUntouched
<1>10. ASSUME Gateway!Uninvite(t) PROVE CallUntouched(c)
  <2>1. \E p \in Gateway!TaskState : Further(p, t, 1)
    BY <1>10, AdvancesFurther DEF Gateway!Uninvite
  <2>2. \A u \in Users : c \in invites'[u] <=> c \in invites[u]
    BY <1>10 DEF Gateway!Uninvite, Typed, Gateway!TypeOK
  <2>3. QED
    BY <1>3, <1>10, <2>1, <2>2 DEF Gateway!Uninvite, CallUntouched
<1>11. ASSUME Gateway!UninviteAll(t) PROVE CallUntouched(c)
  <2>1. \E p \in Gateway!TaskState : Further(p, t, 1)
    BY <1>11, AdvancesFurther DEF Gateway!UninviteAll
  <2>2. QED
    BY <1>3, <1>11, <2>1 DEF Gateway!UninviteAll, CallUntouched
<1>12. ASSUME Gateway!ReadInvite(t) PROVE CallUntouched(c)
  <2>1. \E p \in Gateway!TaskState :
          task' = [task EXCEPT ![t] = p] /\ (p = Gateway!Idle \/ Alike(p, q))
    <3>1. CASE Gateway!Answer(t)
      BY <3>1, AtRestType DEF Gateway!Answer
    <3>2. CASE Gateway!Advance(t)
      BY <3>2, AdvancesFurther DEF Further
    <3>3. QED
      BY <1>12, <3>1, <3>2 DEF Gateway!ReadInvite
  <2>2. \A s \in Slots : task'[s].call = c \/ task[s].call = c => task'[s] = task[s]
    BY <1>2, <2>1
  <2>3. QED
    BY <1>12, <2>2 DEF Gateway!ReadInvite, CallUntouched
<1>13. QED
  BY <1>4, <1>5, <1>6, <1>7, <1>8, <1>9, <1>10, <1>11, <1>12, PlainStep, PlainElsewhere

\* No step of a running handler is the meeting of two.
LEMMA StepMeetsNone ==
  ASSUME NEW t \in Slots, Gateway!Continue(t)
  PROVE  UNCHANGED <<met, cut, asked>>
<1> USE DEF Gateway!hist, Gateway!past
<1>1. CASE Gateway!Validate(t) \/ Gateway!ValidateTargets(t) \/ Gateway!ClearStale(t)
           \/ Gateway!Create(t) \/ Gateway!AcceptCall(t) \/ Gateway!EndCall(t)
  BY <1>1 DEF Gateway!Validate, Gateway!ValidateTargets, Gateway!ClearStale, Gateway!Create,
    Gateway!AcceptCall, Gateway!EndCall
<1>2. CASE Gateway!Lost(t) \/ Gateway!LockRead(t) \/ Gateway!Lock(t) \/ Gateway!Unlock(t)
           \/ Gateway!Mark(t) \/ Gateway!ClaimRead(t) \/ Gateway!ClaimWrite(t)
  BY <1>2 DEF Gateway!Lost, Gateway!LockRead, Gateway!Lock, Gateway!Unlock, Gateway!Mark,
    Gateway!ClaimRead, Gateway!ClaimWrite
<1>3. CASE Gateway!Unmark(t) \/ Gateway!Wipe(t) \/ Gateway!Enlist(t) \/ Gateway!Delist(t)
           \/ Gateway!DelistCount(t) \/ Gateway!DelistDelete(t)
  BY <1>3 DEF Gateway!Unmark, Gateway!Wipe, Gateway!Enlist, Gateway!Delist,
    Gateway!DelistCount, Gateway!DelistDelete
<1>4. CASE Gateway!SweepRead(t) \/ Gateway!SweepRemove(t) \/ Gateway!SweepCount(t)
           \/ Gateway!SweepWipe(t) \/ Gateway!SweepDelete(t)
  BY <1>4 DEF Gateway!SweepRead, Gateway!SweepRemove, Gateway!SweepCount, Gateway!SweepWipe,
    Gateway!SweepDelete
<1>5. CASE Gateway!Invite(t) \/ Gateway!Schedule(t) \/ Gateway!Uninvite(t) \/ Gateway!Cancel(t)
           \/ Gateway!UninviteAll(t) \/ Gateway!ReadInvite(t) \/ Gateway!ReadParts(t)
  BY <1>5 DEF Gateway!Invite, Gateway!Schedule, Gateway!Uninvite, Gateway!Cancel,
    Gateway!UninviteAll, Gateway!ReadInvite, Gateway!ReadParts
<1>6. CASE Gateway!DropRead(t) \/ Gateway!DropUnmark(t) \/ Gateway!DropSockRead(t)
           \/ Gateway!DropSockDelete(t) \/ Gateway!Leave(t)
  BY <1>6 DEF Gateway!DropRead, Gateway!DropUnmark, Gateway!DropSockRead,
    Gateway!DropSockDelete, Gateway!Leave
<1>7. QED
  BY <1>1, <1>2, <1>3, <1>4, <1>5, <1>6 DEF Gateway!Continue

\* A handler that starts finds no other one of its call, or the two have met.
LEMMA StartKeeps ==
  ASSUME Typed, NEW d \in Calls, CallInv(d), d \notin met',
         NEW t \in Slots, NEW kind \in Kinds, NEW u \in Users,
         NEW s \in MaybeSocket, NEW c \in MaybeCall, NEW as \in Gateway!EndStatus,
         Gateway!Start(t, kind, u, s, c, as),
         UNCHANGED <<member, over, inCall, invites>>, jobs' \subseteq jobs,
         c = d /\ kind \in {"accept", "join", "end", "miss"} => Gateway!Exists(d),
         c = d /\ kind = "request" => ~Gateway!Exists(d)
  PROVE  CallInv(d)'
<1> DEFINE p == Begun(kind, u, s, c, as)
<1>1. task' = [task EXCEPT ![t] = p] /\ task[t] = Gateway!Idle
  BY DEF Gateway!Start, Begun
<1>2. IsBegun(p, kind, u, s, c, as)
  BY BegunType
<1> HIDE DEF p
<1>3. task \in [Slots -> Gateway!TaskState] /\ task'[t] = p /\ p.call = c
  BY <1>1, <1>2 DEF Typed, Gateway!TypeOK, IsBegun
<1>4. CASE c # d
  <2>1. CallUntouched(d)
    BY <1>1, <1>3, <1>4, NoneIs DEF CallUntouched
  <2>2. QED
    BY <2>1, CallUntouchedKeeps
<1>5. CASE c = d
  <2>1. \A r \in Slots : task[r].call # d
    BY <1>5 DEF Gateway!Start
  <2>2. Alone(d)'
    BY <1>1, <1>3, <2>1 DEF Alone
  <2>3. Whole(d)' /\ Unborn(d)' /\ Abandoned(d)' /\ Marked(d)' /\ Invited(d)' /\ Phantom(d)'
    BY <2>1 DEF CallInv, Whole, Unborn, Abandoned, Marked, Invited, Phantom, Gateway!Exists
  <2>4. Serves(p)'
    BY <1>2, <1>5 DEF Serves, IsBegun, Gateway!Exists
  <2>5. \A r \in Slots : task'[r].call = d => r = t
    BY <1>1, <1>3, <2>1
  <2>6. QED
    BY <1>3, <2>2, <2>3, <2>4, <2>5 DEF CallInv
<1>6. QED
  BY <1>4, <1>5

CallsInv == \A c \in Calls \ met : CallInv(c)

LEMMA CallStep == Typed /\ CallsInv /\ [Gateway!Next]_gateway => CallsInv'
<1> SUFFICES ASSUME Typed, CallsInv, [Gateway!Next]_gateway, NEW d \in Calls, d \notin met'
             PROVE  CallInv(d)'
  BY DEF CallsInv
<1> USE DEF gateway, Gateway!db, Gateway!redis, Gateway!clients, Gateway!hist, Gateway!past
<1>0. ASSUME d \notin met PROVE CallInv(d)
  BY <1>0 DEF CallsInv
<1>00. ASSUME UNCHANGED <<member, over, inCall, invites, jobs, task>>, d \notin met
       PROVE  CallInv(d)'
  <2>1. CallUntouched(d)
    BY <1>00 DEF CallUntouched
  <2>2. QED
    BY <1>0, <1>00, <2>1, CallUntouchedKeeps
<1>1. ASSUME NEW t \in Slots, Gateway!Continue(t) PROVE CallInv(d)'
  <2>1. CallInv(d)
    BY <1>0, <1>1, StepMeetsNone
  <2>2. CASE task[t].call # d
    BY <1>1, <2>1, <2>2, StepElsewhere, CallUntouchedKeeps
  <2>3. CASE task[t].call = d
    BY <1>1, <2>1, <2>3, PlainStep, PlainKeeps, CreateKeeps, AcceptCallKeeps, EndKeeps, MarkKeeps,
       InviteKeeps, UninviteKeeps, UninviteAllKeeps, ReadInviteKeeps
  <2>4. QED
    BY <2>2, <2>3
<1>2. ASSUME NEW t \in Slots, NEW u \in Users, NEW c \in Calls, Gateway!JobDue(t, u, c)
      PROVE  CallInv(d)'
  <2>0. /\ Gateway!Start(t, "miss", u, None, c, "missed")
        /\ UNCHANGED <<member, over, inCall, invites>>
        /\ jobs' \subseteq jobs /\ <<u, c>> \in jobs
    BY <1>2 DEF Gateway!JobDue
  <2>1. CallInv(d)
    BY <1>0, <2>0 DEF Gateway!Start
  <2>2. c = d => Gateway!Exists(d)
    BY <2>0, <2>1 DEF CallInv, Unborn
  <2>3. None \in MaybeSocket /\ c \in MaybeCall /\ "miss" \in Kinds /\ "missed" \in Gateway!EndStatus
    BY DEF MaybeSocket, MaybeCall, Kinds, Gateway!EndStatus
  <2>4. QED
    BY <2>0, <2>1, <2>2, <2>3, StartKeeps
<1>3. ASSUME NEW t \in Slots, NEW s \in Sockets, NEW c \in Calls,
             NEW kind \in {"request", "accept", "join", "end"}, NEW as \in Gateway!EndStatus,
             Gateway!Receive(t, s, kind, c, as)
      PROVE  CallInv(d)'
  <2>1. DeviceOwner[s] \in Users /\ s \in MaybeSocket /\ c \in MaybeCall /\ kind \in Kinds
    BY OwnerIs DEF MaybeSocket, MaybeCall, Kinds
  <2>2. /\ Gateway!Start(t, kind, DeviceOwner[s], s, c, as)
        /\ UNCHANGED <<member, over, inCall, invites>> /\ jobs' \subseteq jobs
        /\ kind \in {"accept", "join", "end", "miss"} => Gateway!Exists(c)
        /\ kind = "request" => ~Gateway!Exists(c)
    BY <1>3 DEF Gateway!Receive, Gateway!Fresh, Gateway!Announced
  <2>3. CallInv(d)
    BY <1>0, <2>2 DEF Gateway!Start
  <2>4. QED
    BY <2>1, <2>2, <2>3, StartKeeps
<1>4. ASSUME NEW t \in Slots, NEW s \in Sockets, Gateway!Disconnect(t, s) PROVE CallInv(d)'
  <2>1. /\ DeviceOwner[s] \in Users /\ s \in MaybeSocket /\ None \in MaybeCall /\ "drop" \in Kinds
        /\ "ended" \in Gateway!EndStatus
    BY OwnerIs DEF MaybeSocket, MaybeCall, Kinds, Gateway!EndStatus
  <2>2. /\ Gateway!Start(t, "drop", DeviceOwner[s], s, None, "ended")
        /\ UNCHANGED <<member, over, inCall, invites>> /\ jobs' \subseteq jobs
    BY <1>4 DEF Gateway!Disconnect
  <2>3. CallInv(d) /\ None # d
    BY <1>0, <2>2, NoneIs DEF Gateway!Start
  <2>4. QED
    BY <2>1, <2>2, <2>3, StartKeeps
<1>6. ASSUME NEW s \in Sockets, Gateway!Toggle(s) PROVE CallInv(d)'
  BY <1>00, <1>6 DEF Gateway!Toggle
<1>7. CASE UNCHANGED gateway
  BY <1>00, <1>7
<1>8. "ended" \in Gateway!EndStatus
  BY DEF Gateway!EndStatus
<1>9. CASE Gateway!Next
  BY <1>1, <1>2, <1>3, <1>4, <1>6, <1>8, <1>9 DEF Gateway!Next, Gateway!RunJob
<1>10. QED
  BY <1>7, <1>9

LEMMA CallFirst == Gateway!Init => CallsInv
<1> SUFFICES ASSUME Gateway!Init, NEW c \in Calls PROVE CallInv(c)
  BY DEF CallsInv
<1>1. \A t \in Slots : task[t] = Gateway!Idle
  BY DEF Gateway!Init
<1>2. QED
  BY <1>1, NoneIs
  DEF Gateway!Init, CallInv, Alone, Whole, Unborn, Abandoned, Marked, Invited, Phantom

GatewayInv == Typed /\ CallsInv

LEMMA GatewayInvariance == AllSpec => [](part = "calls" => GatewayInv)
<1> DEFINE InvG == part = "calls" => GatewayInv
<1>1. AllInit => InvG
  BY TypedFirst, CallFirst DEF AllInit, GatewayInv
<1>2. InvG /\ [AllNext]_allVars => InvG'
  <2> SUFFICES ASSUME InvG, [AllNext]_allVars, part' = "calls" PROVE GatewayInv'
    OBVIOUS
  <2>1. part = "calls" /\ [Gateway!Next]_gateway
    BY DEF AllNext, allVars
  <2>2. QED
    BY <2>1, TypedStep, CallStep DEF GatewayInv
<1>3. QED
  BY <1>1, <1>2, PTL DEF AllSpec

\* Of a call whose handlers never met, and however those of other calls and the
\* disconnects interleave with them: between two handlers every marker is of a call its user
\* is in, and no invite is left of a call that is over.
THEOREM MarkersAndInvitesFollow == AllSpec => []MarkersFollow
<1>1. (part = "calls" => GatewayInv) => MarkersFollow
  <2> SUFFICES ASSUME Typed, CallsInv PROVE Gateway!NoPhantomInvite /\ Gateway!NotLockedOut
    BY DEF MarkersFollow, GatewayInv, Typed
  <2>1. ASSUME NEW c \in Calls, Gateway!Settled(c)
        PROVE  CallInv(c) /\ \A t \in Slots : task[t].call # c
    BY <2>1 DEF Gateway!Settled, CallsInv
  <2>2. Gateway!NoPhantomInvite
    BY <2>1 DEF Gateway!NoPhantomInvite, CallInv, Phantom, Typed, Gateway!TypeOK
  <2>3. Gateway!NotLockedOut
    BY <2>1 DEF Gateway!NotLockedOut, CallInv, Marked
  <2>4. QED
    BY <2>2, <2>3
<1>2. QED
  BY <1>1, GatewayInvariance, PTL

\* Three steps write a status: requestCall's, acceptCall's and endCall's.
LEMMA StatusWritten ==
  ASSUME Gateway!Next, member' # member
  PROVE  \E t \in Slots : Gateway!Create(t) \/ Gateway!AcceptCall(t) \/ Gateway!EndCall(t)
<1> USE DEF Gateway!db
<1>1. ASSUME NEW t \in Slots,
        \/ Gateway!Validate(t) \/ Gateway!ValidateTargets(t) \/ Gateway!ClearStale(t)
        \/ Gateway!Lost(t) \/ Gateway!LockRead(t) \/ Gateway!Lock(t)
      PROVE  member' = member
  BY <1>1 DEF Gateway!Validate, Gateway!ValidateTargets, Gateway!ClearStale, Gateway!Lost,
    Gateway!LockRead, Gateway!Lock
<1>2. ASSUME NEW t \in Slots,
        \/ Gateway!Unlock(t) \/ Gateway!Mark(t) \/ Gateway!ClaimRead(t)
        \/ Gateway!ClaimWrite(t) \/ Gateway!Unmark(t) \/ Gateway!Wipe(t)
      PROVE  member' = member
  BY <1>2 DEF Gateway!Unlock, Gateway!Mark, Gateway!ClaimRead, Gateway!ClaimWrite, Gateway!Unmark,
    Gateway!Wipe
<1>3. ASSUME NEW t \in Slots,
        \/ Gateway!Enlist(t) \/ Gateway!Delist(t) \/ Gateway!DelistCount(t)
        \/ Gateway!DelistDelete(t) \/ Gateway!SweepRead(t) \/ Gateway!SweepRemove(t)
      PROVE  member' = member
  BY <1>3 DEF Gateway!Enlist, Gateway!Delist, Gateway!DelistCount, Gateway!DelistDelete,
    Gateway!SweepRead, Gateway!SweepRemove
<1>4. ASSUME NEW t \in Slots,
        \/ Gateway!SweepCount(t) \/ Gateway!SweepWipe(t) \/ Gateway!SweepDelete(t)
        \/ Gateway!Invite(t) \/ Gateway!Schedule(t) \/ Gateway!Uninvite(t)
      PROVE  member' = member
  BY <1>4 DEF Gateway!SweepCount, Gateway!SweepWipe, Gateway!SweepDelete, Gateway!Invite,
    Gateway!Schedule, Gateway!Uninvite
<1>5. ASSUME NEW t \in Slots,
        \/ Gateway!Cancel(t) \/ Gateway!UninviteAll(t) \/ Gateway!ReadInvite(t)
        \/ Gateway!ReadParts(t) \/ Gateway!DropRead(t) \/ Gateway!DropUnmark(t)
      PROVE  member' = member
  BY <1>5 DEF Gateway!Cancel, Gateway!UninviteAll, Gateway!ReadInvite, Gateway!ReadParts,
    Gateway!DropRead, Gateway!DropUnmark
<1>6. ASSUME NEW t \in Slots,
        \/ Gateway!DropSockRead(t) \/ Gateway!DropSockDelete(t) \/ Gateway!Leave(t)
      PROVE  member' = member
  BY <1>6 DEF Gateway!DropSockRead, Gateway!DropSockDelete, Gateway!Leave
<1>7. PICK t \in Slots : Gateway!Continue(t)
  BY DEF Gateway!Next, Gateway!RunJob, Gateway!JobDue, Gateway!Receive, Gateway!Disconnect,
         Gateway!Toggle
<1>8. QED
  BY <1>1, <1>2, <1>3, <1>4, <1>5, <1>6, <1>7 DEF Gateway!Continue

\* Nor does the timer flip a participant of a group call whose handlers never met: only the
\* user's own call:end may say "missed" of one who is in it.
THEOREM TimerSparesParticipants == AllSpec => LiveNotMissed
<1> DEFINE InvG == part = "calls" => GatewayInv
           Spared ==
             part = "calls" =>
               \A c \in Calls, u \in Users : Gateway!Missed(c, u) =>
                 \E t \in Slots : task[t].kind = "end" /\ task[t].user = u /\ Gateway!EndCall(t)
<1>1. InvG /\ [AllNext]_allVars => [Spared]_allVars
  <2> SUFFICES ASSUME Typed, CallsInv, AllNext, part = "calls",
                      NEW c \in Calls, NEW u \in Users, c \notin met,
                      member[c][u] = "started", member'[c][u] = "missed"
               PROVE  \E t \in Slots : /\ task[t].kind = "end" /\ task[t].user = u
                                       /\ Gateway!EndCall(t)
    BY DEF GatewayInv, Gateway!Missed
  <2>1. Gateway!Next
    BY DEF AllNext
  <2>2. member' # member
    OBVIOUS
  <2>3. PICK t \in Slots : Gateway!Create(t) \/ Gateway!AcceptCall(t) \/ Gateway!EndCall(t)
    BY <2>1, <2>2, StatusWritten
  <2>4. ~Gateway!Create(t) /\ ~Gateway!AcceptCall(t)
    <3> DEFINE q == task[t]
    <3>1. member \in [Calls -> [Users -> Gateway!MemberStatus]]
      BY DEF Typed, Gateway!TypeOK
    <3>2. ASSUME NEW f, member' = [member EXCEPT ![q.call] = f] PROVE f[u] = "missed"
      BY <3>1, <3>2
    <3>3. ~Gateway!Create(t)
      BY <3>2 DEF Gateway!Create
    <3>4. ASSUME Gateway!AcceptCall(t) PROVE FALSE
      <4> DEFINE f == [member[q.call] EXCEPT ![q.user] = IF @ = "absent" THEN @ ELSE "started"]
      <4>1. member' = [member EXCEPT ![q.call] = f]
        BY <3>4 DEF Gateway!AcceptCall
      <4>2. c = q.call
        BY <3>1, <4>1
      <4>3. f[u] # "missed"
        BY <3>1, <4>2
      <4>4. QED
        BY <3>2, <4>1, <4>3
    <3>5. QED
      BY <3>3, <3>4
  <2>5. Gateway!EndCall(t)
    BY <2>3, <2>4
  <2>6. c = task[t].call /\ u = task[t].user
    <3>1. CallInv(c)
      BY DEF CallsInv
    <3>2. c = task[t].call
      BY <2>5 DEF Gateway!EndCall, Typed, Gateway!TypeOK
    <3>3. QED
      BY <2>5, <3>1, <3>2, EndedFor
  <2>7. \/ task[t].kind = "end"
        \/ task[t].kind = "miss" /\ task[t].at = 3
    BY <2>5, <2>6, EndedFor DEF CallsInv
  <2>8. task[t].kind = "end"
    BY <2>6, <2>7, MissedIsOut DEF CallsInv
  <2>9. QED
    BY <2>5, <2>6, <2>8
<1>2. QED
  BY <1>1, GatewayInvariance, PTL DEF AllSpec, LiveNotMissed

===============================================================================
