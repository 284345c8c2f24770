---------------------------- MODULE WorkspaceProofs ----------------------------
(***************************************************************************)
(* Proofs about what MCWorkspace instantiates, for any values of the       *)
(* constants: documents (any users, documents, edits and requests) and     *)
(* boards (any boards, todos, first columns, names and requests).          *)
(***************************************************************************)
EXTENDS MCWorkspace, FiniteSetTheorems, SequenceTheorems, TLAPS

-------------------------------------------------------------------------------
(* Documents *)

Active(r) == req[r].pc # "idle"
HasRead(r) == req[r].pc \in {"check", "write"}

\* What a request is made of.
Formed(q) ==
  /\ q.pc # "idle" => q.by \in Users /\ q.doc \in Docs
  /\ q.pc = "check" => q.got \in Doc /\ q.op \notin OwnerOps
  /\ q.op \in {"share", "unshare"} => q.to \in Users
  /\ q.op = "share" => q.give \in Roles
  /\ q.op = "show" => q.give \in Visibility

\* Nothing is known of a document that was not made yet, and whoever has one open is in
\* its room.
Made ==
  /\ \A r \in Requests : Formed(req[r]) /\ (HasRead(r) => docs[req[r].doc] # None)
  /\ \A d \in Docs : docs[d] = None =>
       acked[d] = {} /\ announced[d] = {} /\ \A u \in Users : granted[d][u] = "none"
  /\ \A u \in Users :
       /\ sock[u].open # None => sock[u].open \in sock[u].rooms
       /\ sock[u].ready => sock[u].open # None /\ docs[sock[u].open] # None

\* What was answered and met no other save.
Sure(d) == acked[d] \ parallel[d]

\* Two saves of one document at a time have met; what a save has read holds what is sure.
Saving ==
  /\ \A r, s \in Requests :
       /\ r # s /\ Active(r) /\ Active(s) /\ req[r].op = "save" /\ req[s].op = "save"
       /\ req[r].doc = req[s].doc
       => req[r].edits \subseteq parallel[req[r].doc]
  /\ \A r \in Requests : HasRead(r) /\ req[r].op = "save" /\ There(req[r].doc) =>
       Sure(req[r].doc) \subseteq req[r].snap
  /\ \A d \in Docs : There(d) => Sure(d) \subseteq docs[d].snapshot

\* The edits u is to have of document d.
Owed(u, d) == {m[2] : m \in {n \in announced[d] : n[1] # u /\ n[2] \notin parallel[d]}}

\* What was announced is in what was read for an editor, or has reached it meanwhile.
Showing ==
  /\ \A d \in Docs : \A m \in announced[d] : m[2] \in acked[d]
  /\ \A r \in Requests : LET q == req[r] IN
       HasRead(r) /\ q.op = "open" /\ sock[q.by].open = q.doc =>
         Owed(q.by, q.doc) \subseteq q.snap \union sock[q.by].view
  /\ \A u \in Users :
       sock[u].ready => Owed(u, sock[u].open) \subseteq sock[u].view

\* Two requests about one entry at a time blur it; a share that is alone knows whether
\* there is an entry.
Sharing ==
  /\ \A r, s \in Requests :
       r # s /\ Active(r) /\ Active(s) /\ req[r].doc = req[s].doc =>
         About(req[r]) \intersect About(req[s]) \subseteq blurred[req[r].doc]
  /\ \A r \in Requests : LET q == req[r] IN
       /\ q.op = "share" /\ q.pc = "write" /\ There(q.doc) /\ q.to \notin blurred[q.doc]
       => (q.role = "none" <=> docs[q.doc].shared[q.to] = <<>>)
  /\ \A d \in Docs : There(d) => \A u \in Users \ blurred[d] :
       LET role == RoleOf(docs[d].shared, u) IN
       IF granted[d][u] = "none" THEN role # "editor" ELSE role = granted[d][u]

DocsInv == TypeOK /\ Made /\ Saving /\ Showing /\ Sharing

LEMMA IdleRequest ==
  /\ Idle \in Request /\ Formed(Idle)
  /\ Idle.pc = "idle" /\ Idle.op = "open" /\ Idle.by = None /\ Idle.doc = None
<1>1. Idle.pc = "idle" /\ Idle.op = "open" /\ Idle.by = None /\ Idle.doc = None
  BY DEF Idle
<1>2. Idle \in Request
  BY DEF Idle, Request, Ops, Roles
<1>3. QED
  BY <1>1, <1>2 DEF Formed

\* The requests other than r are left alone.
Others(r) == \A s \in Requests : s # r => req'[s] = req[s]

LEMMA Answered ==
  ASSUME TypeOK, NEW r \in Requests, Answer(r)
  PROVE  /\ req' \in [Requests -> Request] /\ req'[r] = Idle /\ Others(r)
  BY IdleRequest DEF TypeOK, Answer, Others

\* A request that goes on, with some of its fields set.
LEMMA Went ==
  ASSUME TypeOK, NEW r \in Requests, NEW q \in Request, req' = [req EXCEPT ![r] = q]
  PROVE  req' \in [Requests -> Request] /\ req'[r] = q /\ Others(r)
  BY DEF TypeOK, Others

LEMMA SocketType ==
  /\ NoSocket \in Socket /\ NoSocket.open = None /\ NoSocket.rooms = {}
  /\ NoSocket.ready = FALSE /\ NoSocket.view = {}
<1>1. NoSocket.ready = FALSE /\ NoSocket.ready \in BOOLEAN
  BY DEF NoSocket
<1>2. QED
  BY <1>1 DEF NoSocket, Socket

\* What Tell does to a socket.
LEMMA Told ==
  ASSUME TypeOK, NEW d \in Docs, NEW from \in Users, NEW edits \in SUBSET Edits
  PROVE  /\ Tell(d, from, edits) \in [Users -> Socket]
         /\ \A u \in Users :
              /\ Tell(d, from, edits)[u].open = sock[u].open
              /\ Tell(d, from, edits)[u].rooms = sock[u].rooms
              /\ Tell(d, from, edits)[u].ready = sock[u].ready
              /\ Tell(d, from, edits)[u].view =
                   sock[u].view \union (IF u # from /\ d \in sock[u].rooms /\ sock[u].open = d
                                        THEN edits ELSE {})
<1>1. ASSUME NEW u \in Users
      PROVE  LET t == Tell(d, from, edits)[u] IN
             /\ t \in Socket /\ t.open = sock[u].open /\ t.rooms = sock[u].rooms
             /\ t.ready = sock[u].ready
             /\ t.view = sock[u].view \union
                  (IF u # from /\ d \in sock[u].rooms /\ sock[u].open = d THEN edits ELSE {})
  <2>1. sock[u] \in Socket
    BY DEF TypeOK
  <2>2. [sock[u] EXCEPT !.view = @ \union edits] \in Socket
    BY <2>1 DEF Socket
  <2>3. QED
    BY <2>1, <2>2 DEF Tell, Socket
<1>2. QED
  BY <1>1 DEF Tell

\* A request that is refused leaves the editor that waits for it.
LEMMA Refused ==
  ASSUME TypeOK, NEW r \in Requests, Refuse(r), req[r].pc # "idle" => req[r].by \in Users
  PROVE  /\ req' \in [Requests -> Request] /\ req'[r] = Idle /\ Others(r)
         /\ sock' \in [Users -> Socket]
         /\ \A u \in Users :
              \/ sock'[u] = sock[u]
              \/ /\ sock'[u].open = None /\ sock'[u].ready = FALSE
                 /\ sock'[u].rooms = sock[u].rooms
<1>1. req' \in [Requests -> Request] /\ req'[r] = Idle /\ Others(r)
  BY Answered DEF Refuse
<1>2. CASE sock' = sock
  BY <1>1, <1>2 DEF TypeOK
<1>3. CASE sock' # sock
  <2> DEFINE u == req[r].by
             n == [NoSocket EXCEPT !.rooms = sock[u].rooms]
  <2>1. sock' = [sock EXCEPT ![u] = n]
    BY <1>3 DEF Refuse
  <2>2. u \in Users
    <3>1. u \in Users \union {None}
      BY DEF TypeOK, Request
    <3>2. u \in DOMAIN sock
      BY <1>3, <2>1 DEF TypeOK
    <3>3. QED
      BY <3>2 DEF TypeOK
  <2>3. n \in Socket /\ n.open = None /\ n.ready = FALSE /\ n.rooms = sock[u].rooms
    BY <2>2, SocketType DEF NoSocket, Socket, TypeOK
  <2> HIDE DEF n, u
  <2>4. QED
    BY <1>1, <2>1, <2>2, <2>3 DEF TypeOK
<1>4. QED
  BY <1>2, <1>3

\* A document that is shown is in the editor that waits for it.
LEMMA Shown ==
  ASSUME TypeOK, NEW q \in Request, q.by \in Users, sock' = Opened(q)
  PROVE  /\ sock' \in [Users -> Socket]
         /\ \A u \in Users :
              \/ sock'[u] = sock[u] /\ ~(u = q.by /\ sock[u].open = q.doc)
              \/ /\ u = q.by /\ sock[u].open = q.doc
                 /\ sock'[u].open = q.doc /\ sock'[u].rooms = sock[u].rooms
                 /\ sock'[u].ready = TRUE /\ sock'[u].view = sock[u].view \union q.snap
<1> DEFINE u == q.by
           n == [sock[u] EXCEPT !.ready = TRUE, !.view = @ \union q.snap]
<1>1. sock[u] \in Socket
  BY DEF TypeOK
<1>2. /\ n \in Socket /\ n.open = sock[u].open /\ n.rooms = sock[u].rooms
      /\ n.ready = TRUE /\ n.view = sock[u].view \union q.snap
  BY <1>1 DEF Socket, Request
<1>3. sock' = IF sock[u].open = q.doc THEN [sock EXCEPT ![u] = n] ELSE sock
  BY DEF Opened, TypeOK
<1> HIDE DEF n
<1>4. QED
  BY <1>2, <1>3 DEF TypeOK

\* The fields of a request that begins.
LEMMA Begun ==
  ASSUME TypeOK, NEW r \in Requests, NEW q \in Request, q.by \in Users, q.doc \in Docs,
         Formed([q EXCEPT !.pc = "read"]), Begin(r, q)
  PROVE  /\ req' \in [Requests -> Request] /\ Others(r) /\ req[r] = Idle
         /\ req'[r].pc = "read" /\ req'[r].op = q.op /\ req'[r].by = q.by /\ req'[r].doc = q.doc
         /\ req'[r].edits = q.edits /\ req'[r].to = q.to /\ Formed(req'[r])
         /\ parallel' \in [Docs -> SUBSET Edits] /\ blurred' \in [Docs -> SUBSET Users]
         /\ \A d \in Docs : parallel[d] \subseteq parallel'[d] /\ blurred[d] \subseteq blurred'[d]
         /\ begun' \in 0..MaxBegun
         /\ UNCHANGED <<docs, acked, announced, granted>>
<1> DEFINE n == [q EXCEPT !.pc = "read"]
           d == q.doc
           saves == {s \in Busy(d) : req[s].op = "save"}
           more == q.edits \union UNION {req[s].edits : s \in saves}
           met == {u \in About(q) : \E s \in Busy(d) : u \in About(req[s])}
<1>1. /\ n \in Request /\ n.pc = "read" /\ n.op = q.op /\ n.by = q.by /\ n.doc = q.doc
      /\ n.edits = q.edits /\ n.to = q.to
  BY DEF Request
<1>2. req' = [req EXCEPT ![r] = n] /\ req[r] = Idle
  BY DEF Begin
<1>3. parallel' = parallel \/ parallel' = [parallel EXCEPT ![d] = parallel[d] \union more]
  BY DEF Begin, TypeOK
<1>4. more \subseteq Edits
  BY DEF TypeOK, Request, Busy
<1>5. blurred' = [blurred EXCEPT ![d] = blurred[d] \union met]
  BY DEF Begin, TypeOK
<1>6. met \subseteq Users
  <2>1. q.op \in {"share", "unshare"} => q.to \in Users
    BY <1>1 DEF Formed
  <2>2. QED
    BY <2>1 DEF About
<1>7. begun' \in 0..MaxBegun /\ UNCHANGED <<docs, acked, announced, granted>>
  BY ConstantsAssumption DEF Begin, TypeOK
<1>8. parallel' \in [Docs -> SUBSET Edits] /\ \A e \in Docs : parallel[e] \subseteq parallel'[e]
  <2> HIDE DEF more
  <2>1. QED
    BY <1>3, <1>4 DEF TypeOK
<1>9. blurred' \in [Docs -> SUBSET Users] /\ \A e \in Docs : blurred[e] \subseteq blurred'[e]
  <2> HIDE DEF met
  <2>1. QED
    BY <1>5, <1>6 DEF TypeOK
<1> HIDE DEF n
<1>10. QED
  BY <1>1, <1>2, <1>7, <1>8, <1>9, Went DEF n

\* A request begins, and its socket may join the room of a document.
Starts(r, q) ==
  /\ q \in Request /\ q.by \in Users /\ q.doc \in Docs /\ Formed([q EXCEPT !.pc = "read"])
  /\ Begin(r, q)
  /\ \/ sock' = sock
     \/ /\ sock[q.by].open = None
        /\ \A s \in Requests : ~(req[s].op = "open" /\ req[s].by = q.by)
        /\ sock' = [sock EXCEPT ![q.by].rooms = @ \union {q.doc}, ![q.by].open = q.doc]

LEMMA Joined ==
  ASSUME TypeOK, NEW r \in Requests, NEW q, Starts(r, q)
  PROVE  /\ sock' \in [Users -> Socket]
         /\ \A u \in Users :
              \/ sock'[u] = sock[u]
              \/ /\ u = q.by /\ sock[u].open = None /\ sock'[u].open = q.doc
                 /\ q.doc \in sock'[u].rooms /\ sock'[u].ready = sock[u].ready
                 /\ \A s \in Requests : ~(req[s].op = "open" /\ req[s].by = u)
<1>1. CASE sock' = sock
  BY <1>1 DEF TypeOK
<1>2. CASE sock' # sock
  <2> DEFINE u == q.by
             n == [sock[u] EXCEPT !.rooms = @ \union {q.doc}, !.open = q.doc]
  <2>1. u \in Users /\ q.doc \in Docs /\ sock[u] \in Socket
    BY DEF Starts, TypeOK
  <2>2. /\ n \in Socket /\ n.open = q.doc /\ q.doc \in n.rooms /\ n.ready = sock[u].ready
    BY <2>1 DEF Socket
  <2>3. sock' = [sock EXCEPT ![u] = n]
    BY <1>2, <2>1 DEF Starts, TypeOK
  <2> HIDE DEF n
  <2>4. QED
    BY <1>2, <2>1, <2>2, <2>3 DEF Starts, TypeOK
<1>3. QED
  BY <1>1, <1>2

LEMMA StartMade ==
  ASSUME TypeOK, Made, NEW r \in Requests, NEW q, Starts(r, q)
  PROVE  TypeOK' /\ Made'
<1>1. q \in Request /\ q.by \in Users /\ q.doc \in Docs /\ Formed([q EXCEPT !.pc = "read"]) /\ Begin(r, q)
  BY DEF Starts
<1>2. TypeOK'
  BY <1>1, Begun, Joined DEF TypeOK
<1>3. ASSUME NEW s \in Requests PROVE Formed(req'[s]) /\ (HasRead(s)' => docs'[req'[s].doc] # None)
  <2>1. CASE s = r
    BY <1>1, <2>1, Begun DEF HasRead
  <2>2. CASE s # r
    BY <1>1, <2>2, Begun DEF HasRead, Others, Made
  <2>3. QED
    BY <2>1, <2>2
<1>4. ASSUME NEW d \in Docs, docs'[d] = None
      PROVE  acked'[d] = {} /\ announced'[d] = {} /\ \A u \in Users : granted'[d][u] = "none"
  BY <1>1, <1>4, Begun DEF Made
<1>5. ASSUME NEW u \in Users
      PROVE  /\ sock'[u].open # None => sock'[u].open \in sock'[u].rooms
             /\ sock'[u].ready => sock'[u].open # None /\ docs'[sock'[u].open] # None
  <2>1. CASE sock'[u] = sock[u]
    BY <1>1, <2>1, Begun DEF Made
  <2>2. CASE sock'[u] # sock[u]
    BY <2>2, Joined DEF Made
  <2>3. QED
    BY <2>1, <2>2
<1>6. QED
  BY <1>2, <1>3, <1>4, <1>5 DEF Made

LEMMA StartSaving ==
  ASSUME TypeOK, Made, Saving, NEW r \in Requests, NEW q, Starts(r, q)
  PROVE  Saving'
<1>1. q \in Request /\ q.by \in Users /\ q.doc \in Docs /\ Formed([q EXCEPT !.pc = "read"]) /\ Begin(r, q)
  BY DEF Starts
<1>2. \A d \in Docs : Sure(d)' \subseteq Sure(d)
  BY <1>1, Begun DEF Sure
<1>3. ASSUME NEW s \in Requests, NEW t \in Requests, s # t, Active(s)', Active(t)',
             req'[s].op = "save", req'[t].op = "save", req'[s].doc = req'[t].doc
      PROVE  req'[s].edits \subseteq parallel'[req'[s].doc]
  <2>1. CASE s # r /\ t # r
    <3>1. req'[s] = req[s] /\ req'[t] = req[t] /\ req[s].doc \in Docs
      BY <1>1, <1>3, <2>1, Begun DEF Others, Made, Formed, Active
    <3>2. req[s].edits \subseteq parallel[req[s].doc]
      BY <1>3, <2>1, <3>1 DEF Saving, Active
    <3>3. QED
      BY <1>1, <3>1, <3>2, Begun
  <2>2. CASE s = r \/ t = r
    <3>1. PICK o \in Requests : o # r /\ {s, t} = {r, o}
      BY <1>3, <2>2
    <3>2. req'[o] = req[o] /\ o \in Busy(q.doc) /\ req[o].op = "save" /\ q.op = "save" /\ req'[s].doc = q.doc
      <4>1. req'[o] = req[o] /\ req'[r].op = q.op /\ req'[r].doc = q.doc
        BY <1>1, <3>1, Begun DEF Others
      <4>2. req'[o].pc # "idle" /\ req'[o].op = "save" /\ req'[r].op = "save" /\ req'[o].doc = req'[r].doc
        BY <1>3, <3>1 DEF Active
      <4>3. req'[s].doc = q.doc
        BY <3>1, <4>1, <4>2
      <4>4. QED
        BY <4>1, <4>2, <4>3 DEF Busy
    <3>3. parallel' = [parallel EXCEPT ![q.doc] = @ \union q.edits \union
                          UNION {req[x].edits : x \in {y \in Busy(q.doc) : req[y].op = "save"}}]
      BY <1>1, <3>2 DEF Begin
    <3>4. q.edits \union req[o].edits \subseteq parallel'[q.doc]
      BY <1>1, <3>2, <3>3 DEF TypeOK
    <3>5. req'[s].edits = q.edits \/ req'[s].edits = req[o].edits
      BY <1>1, <3>1, <3>2, Begun
    <3>6. QED
      BY <3>2, <3>4, <3>5
  <2>3. QED
    BY <2>1, <2>2
<1>4. ASSUME NEW s \in Requests, HasRead(s)', req'[s].op = "save", NEW d \in Docs,
             req'[s].doc = d, There(d)'
      PROVE  Sure(d)' \subseteq req'[s].snap
  <2>1. req'[s] = req[s] /\ HasRead(s) /\ docs' = docs
    BY <1>1, <1>4, Begun DEF HasRead, Others
  <2>2. Sure(d) \subseteq req[s].snap
    BY <1>4, <2>1 DEF Saving, There
  <2>3. QED
    BY <1>2, <2>1, <2>2
<1>5. ASSUME NEW d \in Docs, There(d)' PROVE Sure(d)' \subseteq docs'[d].snapshot
  BY <1>1, <1>2, <1>5, Begun DEF Saving, There
<1>6. \A s \in Requests : HasRead(s)' => req'[s].doc \in Docs
  BY StartMade DEF Made, Formed, HasRead
<1>7. QED
  BY <1>3, <1>4, <1>5, <1>6 DEF Saving, HasRead

LEMMA StartShowing ==
  ASSUME TypeOK, Made, Showing, NEW r \in Requests, NEW q, Starts(r, q)
  PROVE  Showing'
<1>1. q \in Request /\ q.by \in Users /\ q.doc \in Docs /\ Formed([q EXCEPT !.pc = "read"]) /\ Begin(r, q)
  BY DEF Starts
<1>2. /\ UNCHANGED <<docs, acked, announced>> /\ Others(r) /\ req'[r].pc = "read"
      /\ \A d \in Docs : parallel[d] \subseteq parallel'[d]
  BY <1>1, Begun
<1>3. ASSUME NEW u, NEW d \in Docs PROVE Owed(u, d)' \subseteq Owed(u, d)
  BY <1>2 DEF Owed
<1>4. Made'
  BY StartMade
<1>5. ASSUME NEW s \in Requests, HasRead(s)', req'[s].op = "open",
             NEW u \in Users, req'[s].by = u, NEW d \in Docs, req'[s].doc = d, sock'[u].open = d
      PROVE  Owed(u, d)' \subseteq req'[s].snap \union sock'[u].view
  <2>1. s # r /\ req'[s] = req[s] /\ HasRead(s)
    BY <1>2, <1>5 DEF HasRead, Others
  <2>2. sock'[u] = sock[u]
    BY <1>5, <2>1, Joined
  <2>3. Owed(u, d) \subseteq req[s].snap \union sock[u].view
    BY <1>5, <2>1, <2>2 DEF Showing
  <2>4. QED
    BY <1>3, <2>1, <2>2, <2>3
<1>6. ASSUME NEW u \in Users, sock'[u].ready, NEW d \in Docs, sock'[u].open = d
      PROVE  Owed(u, d)' \subseteq sock'[u].view
  <2>1. sock'[u] = sock[u]
    BY <1>6, Joined DEF Made
  <2>2. QED
    BY <1>3, <1>6, <2>1 DEF Showing
<1>7. \A d \in Docs : \A m \in announced'[d] : m[2] \in acked'[d]
  BY <1>2 DEF Showing
<1>8. /\ \A s \in Requests : HasRead(s)' => req'[s].by \in Users /\ req'[s].doc \in Docs
      /\ \A u \in Users : sock'[u].ready => sock'[u].open \in Docs
  <2>1. sock' \in [Users -> Socket]
    BY Joined
  <2>2. QED
    BY <1>4, <2>1 DEF Made, Formed, HasRead, Socket
<1>9. QED
  BY <1>5, <1>6, <1>7, <1>8 DEF Showing, HasRead

LEMMA StartSharing ==
  ASSUME TypeOK, Made, Sharing, NEW r \in Requests, NEW q, Starts(r, q)
  PROVE  Sharing'
<1>1. q \in Request /\ q.by \in Users /\ q.doc \in Docs /\ Formed([q EXCEPT !.pc = "read"]) /\ Begin(r, q)
  BY DEF Starts
<1>2. /\ UNCHANGED <<docs, granted>> /\ Others(r) /\ req'[r].pc = "read"
      /\ req'[r].doc = q.doc /\ req'[r].op = q.op /\ req'[r].by = q.by /\ req'[r].to = q.to
      /\ \A d \in Docs : blurred[d] \subseteq blurred'[d]
  BY <1>1, Begun
<1>3. About(req'[r]) = About(q)
  BY <1>2 DEF About
<1>4. Made'
  BY StartMade
<1>5. ASSUME NEW s \in Requests, NEW t \in Requests, s # t, Active(s)', Active(t)',
             NEW d \in Docs, req'[s].doc = d, req'[t].doc = d
      PROVE  About(req'[s]) \intersect About(req'[t]) \subseteq blurred'[d]
  <2>1. CASE s # r /\ t # r
    <3>1. req'[s] = req[s] /\ req'[t] = req[t]
      BY <1>2, <2>1 DEF Others
    <3>2. About(req[s]) \intersect About(req[t]) \subseteq blurred[d]
      BY <1>5, <3>1 DEF Sharing, Active
    <3>3. QED
      BY <1>2, <3>1, <3>2
  <2>2. CASE s = r \/ t = r
    <3>1. PICK o \in Requests : o # r /\ {s, t} = {r, o}
      BY <1>5, <2>2
    <3>2. req'[o] = req[o] /\ o \in Busy(q.doc) /\ d = q.doc
      BY <1>2, <1>5, <3>1 DEF Others, Busy, Active
    <3>3. ASSUME NEW u \in About(q) \intersect About(req[o]) PROVE u \in blurred'[d]
      BY <1>1, <3>2, <3>3 DEF Begin, TypeOK
    <3>4. QED
      BY <1>3, <3>1, <3>2, <3>3
  <2>3. QED
    BY <2>1, <2>2
<1>6. ASSUME NEW s \in Requests, req'[s].op = "share", req'[s].pc = "write", NEW d \in Docs,
             req'[s].doc = d, There(d)', req'[s].to \notin blurred'[d]
      PROVE  req'[s].role = "none" <=> docs'[d].shared[req'[s].to] = <<>>
  <2>1. req'[s] = req[s]
    BY <1>2, <1>6 DEF Others
  <2>2. QED
    BY <1>2, <1>6, <2>1 DEF Sharing, There
<1>7. ASSUME NEW d \in Docs, There(d)', NEW u \in Users \ blurred'[d]
      PROVE  LET role == RoleOf(docs'[d].shared, u) IN
             IF granted'[d][u] = "none" THEN role # "editor" ELSE role = granted'[d][u]
  BY <1>2, <1>7 DEF Sharing, There
<1>8. \A s \in Requests : Active(s)' => req'[s].doc \in Docs
  BY <1>4 DEF Made, Formed, Active
<1>9. QED
  BY <1>5, <1>6, <1>7, <1>8 DEF Sharing, Active

LEMMA Start ==
  ASSUME DocsInv, NEW r \in Requests, NEW q, Starts(r, q)
  PROVE  DocsInv'
  BY StartMade, StartSaving, StartShowing, StartSharing DEF DocsInv

\* A socket is left alone, or without its document, or it has received something.
Calm(u) ==
  \/ sock'[u] = sock[u]
  \/ /\ sock'[u].open = None /\ sock'[u].ready = FALSE
  \/ /\ sock'[u].open = sock[u].open /\ sock'[u].rooms = sock[u].rooms
     /\ sock'[u].ready = sock[u].ready /\ sock[u].view \subseteq sock'[u].view

\* Or it is shown the document it waits for, which request r has read.
Shows(r, u) ==
  /\ HasRead(r) /\ req[r].op = "open" /\ req[r].by = u /\ sock[u].open = req[r].doc
  /\ sock'[u].open = sock[u].open /\ sock'[u].rooms = sock[u].rooms
  /\ sock'[u].view = sock[u].view \union req[r].snap

\* A step that changes no document and tells of none: sockets, or the end of a request.
LEMMA Quiet ==
  ASSUME DocsInv, UNCHANGED <<docs, history, begun>>,
         sock' \in [Users -> Socket],
         \/ req' = req /\ \A u \in Users : Calm(u)
         \/ \E r \in Requests : /\ Others(r) /\ req'[r] = Idle /\ req' \in [Requests -> Request]
                                /\ \A u \in Users : Calm(u) \/ Shows(r, u)
  PROVE  DocsInv'
<1>1. \A s \in Requests : req'[s] = req[s] \/ req'[s] = Idle
  BY DEF Others
<1>2. \A u \in Users : Calm(u) \/ \E r \in Requests : Shows(r, u)
  OBVIOUS
<1>3. TypeOK'
  BY DEF DocsInv, TypeOK, history
<1>4. /\ TypeOK /\ Made /\ Saving /\ Showing /\ Sharing
      /\ UNCHANGED <<docs, acked, announced, parallel, granted, blurred>>
  BY DEF DocsInv, history
<1>5. Made'
  <2>1. ASSUME NEW s \in Requests PROVE Formed(req'[s]) /\ (HasRead(s)' => docs'[req'[s].doc] # None)
    BY <1>1, <1>4, IdleRequest DEF Made, HasRead
  <2>2. ASSUME NEW u \in Users
        PROVE  /\ sock'[u].open # None => sock'[u].open \in sock'[u].rooms
               /\ sock'[u].ready => sock'[u].open # None /\ docs'[sock'[u].open] # None
    <3>1. CASE Calm(u)
      BY <1>4, <3>1 DEF Calm, Made
    <3>2. ASSUME NEW r \in Requests, Shows(r, u)
          PROVE  /\ sock'[u].open # None => sock'[u].open \in sock'[u].rooms
                 /\ sock'[u].open # None /\ docs'[sock'[u].open] # None
      BY <1>4, <3>2, ConstantsAssumption DEF Shows, Made, Formed, HasRead
    <3>3. QED
      BY <1>2, <3>1, <3>2
  <2>3. QED
    BY <1>4, <2>1, <2>2 DEF Made
<1>6. Saving'
  BY <1>1, <1>4, IdleRequest DEF Saving, Active, HasRead, Sure, There
<1>7. Sharing'
  BY <1>1, <1>4, IdleRequest DEF Sharing, Active, There
<1>8. Showing'
  <2>1. \A u, d : Owed(u, d)' = Owed(u, d)
    BY <1>4 DEF Owed
  <2>2. ASSUME NEW s \in Requests, HasRead(s)', req'[s].op = "open",
               NEW u \in Users, req'[s].by = u, NEW d \in Docs, req'[s].doc = d, sock'[u].open = d
        PROVE  Owed(u, d) \subseteq req'[s].snap \union sock'[u].view
    <3>1. req'[s] = req[s] /\ HasRead(s)
      BY <1>1, <2>2, IdleRequest DEF HasRead
    <3>2. sock[u].open = d /\ sock[u].view \subseteq sock'[u].view
      BY <1>2, <2>2, ConstantsAssumption DEF Calm, Shows
    <3>3. Owed(u, d) \subseteq req[s].snap \union sock[u].view
      BY <1>4, <2>2, <3>1, <3>2 DEF Showing
    <3>4. QED
      BY <3>1, <3>2, <3>3
  <2>3. ASSUME NEW u \in Users, sock'[u].ready, NEW d \in Docs, sock'[u].open = d
        PROVE  Owed(u, d) \subseteq sock'[u].view
    <3>1. CASE Calm(u)
      BY <1>4, <2>3, <3>1 DEF Calm, Showing
    <3>2. ASSUME NEW r \in Requests, Shows(r, u) PROVE Owed(u, d) \subseteq sock'[u].view
      BY <1>4, <2>3, <3>2 DEF Shows, Showing
    <3>3. QED
      BY <1>2, <3>1, <3>2
  <2>4. /\ \A s \in Requests : HasRead(s)' => req'[s].by \in Users /\ req'[s].doc \in Docs
        /\ \A u \in Users : sock'[u].ready => sock'[u].open \in Docs
    BY <1>5 DEF Made, Formed, HasRead, Socket
  <2>5. QED
    BY <1>4, <2>1, <2>2, <2>3, <2>4 DEF Showing, HasRead
<1>9. QED
  BY <1>3, <1>5, <1>6, <1>7, <1>8 DEF DocsInv

LEMMA SocketSteps ==
  ASSUME DocsInv, NEW u \in Users,
         \/ Close(u) \/ Disconnect(u)
         \/ \E e \in Edits : Edit(u, e)
  PROVE  DocsInv'
<1>0. TypeOK /\ Made
  BY DEF DocsInv
<1>1. CASE Close(u) \/ Disconnect(u)
  <2>1. PICK n \in Socket :
          /\ n.open = None /\ n.ready = FALSE /\ sock' = [sock EXCEPT ![u] = n]
          /\ UNCHANGED <<docs, req, history, begun>>
    <3>1. CASE Close(u)
      <4> DEFINE m == [NoSocket EXCEPT !.rooms = sock[u].rooms \ {sock[u].open}]
      <4>1. sock[u].rooms \ {sock[u].open} \in SUBSET Docs
        BY <1>0 DEF TypeOK, Socket
      <4>2. m \in Socket /\ m.open = None /\ m.ready = FALSE
        BY <4>1, SocketType DEF NoSocket, Socket
      <4>3. sock' = [sock EXCEPT ![u] = m] /\ UNCHANGED <<docs, req, history, begun>>
        BY <3>1 DEF Close
      <4>4. QED
        BY <4>2, <4>3
    <3>2. CASE Disconnect(u)
      BY <3>2, SocketType DEF Disconnect
    <3>3. QED
      BY <1>1, <3>1, <3>2
  <2>3. sock' \in [Users -> Socket] /\ \A v \in Users : Calm(v)
    BY <1>0, <2>1 DEF TypeOK, Calm
  <2>4. QED
    BY <2>1, <2>3, Quiet
<1>2. ASSUME NEW e \in Edits, Edit(u, e) PROVE DocsInv'
  <2> DEFINE d == sock[u].open
             t == Tell(d, u, {e})
             n == [t[u] EXCEPT !.view = @ \union {e}]
  <2>1. d \in Docs
    BY <1>0, <1>2, ConstantsAssumption DEF Edit, Made, TypeOK, Socket
  <2>2. /\ t \in [Users -> Socket]
        /\ \A v \in Users : /\ t[v].open = sock[v].open /\ t[v].rooms = sock[v].rooms
                            /\ t[v].ready = sock[v].ready /\ sock[v].view \subseteq t[v].view
    BY <1>0, <2>1, Told
  <2>3. sock' = [t EXCEPT ![u].view = @ \union {e}] /\ UNCHANGED <<docs, req, history, begun>>
    BY <1>2 DEF Edit
  <2> HIDE DEF t
  <2>4. /\ n \in Socket /\ n.open = sock[u].open /\ n.rooms = sock[u].rooms
        /\ n.ready = sock[u].ready /\ sock[u].view \subseteq n.view
    BY <2>2 DEF Socket
  <2>5. sock' = [t EXCEPT ![u] = n]
    BY <2>2, <2>3
  <2> HIDE DEF n
  <2>6. sock' \in [Users -> Socket] /\ \A v \in Users : Calm(v)
    BY <2>2, <2>4, <2>5 DEF Calm
  <2>7. QED
    BY <2>3, <2>6, Quiet
<1>3. QED
  BY <1>1, <1>2

LEMMA RefuseKeeps ==
  ASSUME DocsInv, NEW r \in Requests, Refuse(r), UNCHANGED <<docs, history, begun>>
  PROVE  DocsInv'
<1>1. TypeOK /\ (req[r].pc # "idle" => req[r].by \in Users)
  BY DEF DocsInv, Made, Formed
<1>2. \A u \in Users : Calm(u)
  BY <1>1, Refused DEF Calm
<1>3. QED
  BY <1>1, <1>2, Refused, Quiet

\* A request goes on: it knows what it has to.
LEMMA GoesOn ==
  ASSUME DocsInv, NEW r \in Requests, NEW n \in Request, req' = [req EXCEPT ![r] = n],
         UNCHANGED <<docs, sock, history, begun>>,
         Active(r), Formed(n), n.pc \in {"check", "write"},
         n.op = req[r].op, n.by = req[r].by, n.doc = req[r].doc, n.edits = req[r].edits,
         n.to = req[r].to, docs[n.doc] # None,
         n.op = "save" /\ There(n.doc) => Sure(n.doc) \subseteq n.snap,
         n.op = "open" /\ sock[n.by].open = n.doc =>
           Owed(n.by, n.doc) \subseteq n.snap \union sock[n.by].view,
         /\ n.op = "share" /\ n.pc = "write" /\ There(n.doc) /\ n.to \notin blurred[n.doc]
         => (n.role = "none" <=> docs[n.doc].shared[n.to] = <<>>)
  PROVE  DocsInv'
<1>1. /\ TypeOK /\ Made /\ Saving /\ Showing /\ Sharing
      /\ UNCHANGED <<docs, sock, acked, announced, parallel, granted, blurred>>
  BY DEF DocsInv, history
<1>2. req' \in [Requests -> Request] /\ req'[r] = n /\ Others(r)
  BY <1>1, Went
<1>3. \A s \in Requests : s = r \/ req'[s] = req[s]
  BY <1>2 DEF Others
<1>4. TypeOK'
  BY <1>1, <1>2 DEF DocsInv, TypeOK
<1>5. Made'
  BY <1>1, <1>2, <1>3 DEF Made, HasRead
<1>6. Saving'
  BY <1>1, <1>2, <1>3 DEF Saving, Active, HasRead, Sure, There
<1>7. Showing'
  <2>1. \A u, d : Owed(u, d)' = Owed(u, d)
    BY <1>1 DEF Owed
  <2>2. ASSUME NEW s \in Requests, HasRead(s)', req'[s].op = "open",
               NEW u, req'[s].by = u, NEW d, req'[s].doc = d, sock[u].open = d
        PROVE  Owed(u, d) \subseteq req'[s].snap \union sock[u].view
    <3>1. CASE s = r
      BY <1>2, <2>2, <3>1
    <3>2. CASE s # r
      BY <1>1, <1>3, <2>2, <3>2 DEF Showing, HasRead
    <3>3. QED
      BY <3>1, <3>2
  <2>3. QED
    BY <1>1, <2>1, <2>2 DEF Showing, HasRead
<1>8. Sharing'
  <2>1. \A s \in Requests : Active(s)' =>
          /\ Active(s) /\ req'[s].op = req[s].op /\ req'[s].doc = req[s].doc
          /\ About(req'[s]) = About(req[s])
    BY <1>1, <1>2, <1>3 DEF Active, About
  <2>2. ASSUME NEW s \in Requests, NEW t \in Requests, s # t, Active(s)', Active(t)',
               NEW d, req'[s].doc = d, req'[t].doc = d
        PROVE  About(req'[s]) \intersect About(req'[t]) \subseteq blurred'[d]
    BY <1>1, <2>1, <2>2 DEF Sharing
  <2>3. ASSUME NEW s \in Requests, req'[s].op = "share", req'[s].pc = "write",
               NEW d, req'[s].doc = d, There(d)', req'[s].to \notin blurred'[d]
        PROVE  req'[s].role = "none" <=> docs'[d].shared[req'[s].to] = <<>>
    BY <1>1, <1>2, <1>3, <2>3 DEF Sharing, There
  <2>4. ASSUME NEW d \in Docs, There(d)', NEW v \in Users \ blurred'[d]
        PROVE  LET role == RoleOf(docs'[d].shared, v) IN
               IF granted'[d][v] = "none" THEN role # "editor" ELSE role = granted'[d][v]
    BY <1>1, <2>4 DEF Sharing, There
  <2>5. \A d \in Docs : There(d)' => \A v \in Users \ blurred'[d] :
          LET role == RoleOf(docs'[d].shared, v) IN
          IF granted'[d][v] = "none" THEN role # "editor" ELSE role = granted'[d][v]
    BY <2>4
  <2>6. \A s, t \in Requests :
          s # t /\ Active(s)' /\ Active(t)' /\ req'[s].doc = req'[t].doc =>
            About(req'[s]) \intersect About(req'[t]) \subseteq blurred'[req'[s].doc]
    BY <2>2
  <2>7. \A s \in Requests :
          /\ req'[s].op = "share" /\ req'[s].pc = "write"
          /\ docs'[req'[s].doc] \notin {None, Gone} /\ req'[s].to \notin blurred'[req'[s].doc]
          => (req'[s].role = "none" <=> docs'[req'[s].doc].shared[req'[s].to] = <<>>)
    BY <2>3 DEF There
  <2>8. QED
    BY <2>5, <2>6, <2>7 DEF Sharing, There, Active
<1>9. QED
  BY <1>4, <1>5, <1>6, <1>7, <1>8 DEF DocsInv

LEMMA RoleTypes ==
  ASSUME TypeOK, NEW doc \in Doc, NEW u \in Users
  PROVE  /\ RoleOf(doc.shared, u) \in Roles \union {"none"}
         /\ RoleOf(doc.shared, u) = "none" <=> doc.shared[u] = <<>>
         /\ FormattedRole(doc, u) \in Roles \union {"none"}
<1>1. doc.shared[u] \in Seq(Roles)
  BY DEF Doc
<1>2. doc.shared[u] # <<>> => doc.shared[u][1] \in Roles
  BY <1>1
<1>3. /\ RoleOf(doc.shared, u) \in Roles \union {"none"}
      /\ RoleOf(doc.shared, u) = "none" <=> doc.shared[u] = <<>>
  BY <1>2 DEF RoleOf, Roles
<1>4. RoomRole(u) \in Roles \union {"none"}
  BY DEF RoomRole, Roles
<1>5. QED
  BY <1>3, <1>4 DEF FormattedRole

\* What is announced and is sure is owed to the others.
LEMMA OwedIsSure ==
  ASSUME Showing, NEW d \in Docs, NEW u
  PROVE  Owed(u, d) \subseteq Sure(d)
  BY DEF Showing, Owed, Sure

LEMMA ReadKeeps ==
  ASSUME DocsInv, NEW r \in Requests, Read(r)
  PROVE  DocsInv'
<1> DEFINE q == req[r]
           doc == docs[q.doc]
<1>1. TypeOK /\ Made /\ Saving /\ Showing /\ UNCHANGED <<docs, history, begun>>
  BY DEF DocsInv, Read
<1>2. q \in Request /\ q.pc = "read" /\ q.by \in Users /\ q.doc \in Docs /\ Formed(q) /\ Active(r)
  BY <1>1 DEF Read, TypeOK, Made, Formed, Active
<1>3. CASE Refuse(r)
  BY <1>1, <1>3, RefuseKeeps
<1>4. CASE There(q.doc) /\ q.op \in OwnerOps /\ ~Refuse(r)
  <2> DEFINE role == IF q.op = "share" THEN RoleOf(doc.shared, q.to) ELSE "none"
             n == [q EXCEPT !.pc = "write", !.role = role]
  <2>1. doc \in Doc
    BY <1>1, <1>2, <1>4 DEF TypeOK, There
  <2>2. q.op = "share" => q.to \in Users
    BY <1>2 DEF Formed
  <2>3. role \in Roles \union {"none"} /\ (q.op = "share" => (role = "none" <=> doc.shared[q.to] = <<>>))
    BY <1>1, <2>1, <2>2, RoleTypes
  <2>4. req' = [req EXCEPT ![r] = n] /\ UNCHANGED sock
    BY <1>2, <1>4 DEF Read
  <2> HIDE DEF role
  <2>5. /\ n \in Request /\ n.pc = "write" /\ n.role = role /\ n.op = q.op /\ n.by = q.by
        /\ n.doc = q.doc /\ n.edits = q.edits /\ n.to = q.to /\ n.give = q.give
    BY <1>2, <2>3 DEF Request
  <2> HIDE DEF n
  <2>6. Formed(n) /\ n.op # "save" /\ n.op # "open" /\ docs[n.doc] # None
    BY <1>2, <1>4, <2>5 DEF Formed, OwnerOps, There
  <2>7. n.op = "share" => (n.role = "none" <=> docs[n.doc].shared[n.to] = <<>>)
    BY <2>3, <2>5
  <2>8. QED
    BY <1>1, <1>2, <2>4, <2>5, <2>6, <2>7, GoesOn
<1>5. CASE There(q.doc) /\ q.op \notin OwnerOps /\ ~Refuse(r)
  <2> DEFINE role == IF q.op = "open" THEN FormattedRole(doc, q.by) ELSE RoleOf(doc.shared, q.by)
             n == [q EXCEPT !.pc = "check", !.got = doc, !.snap = doc.snapshot, !.role = role]
  <2>1. doc \in Doc /\ doc.snapshot \in SUBSET Edits
    BY <1>1, <1>2, <1>5 DEF TypeOK, There, Doc
  <2>2. role \in Roles \union {"none"}
    BY <1>1, <1>2, <2>1, RoleTypes
  <2>3. req' = [req EXCEPT ![r] = n] /\ UNCHANGED sock
    BY <1>2, <1>5 DEF Read
  <2> HIDE DEF role
  <2>4. /\ n \in Request /\ n.pc = "check" /\ n.got = doc /\ n.snap = doc.snapshot
        /\ n.op = q.op /\ n.by = q.by /\ n.doc = q.doc /\ n.edits = q.edits /\ n.to = q.to
        /\ n.give = q.give
    BY <1>2, <2>1, <2>2 DEF Request
  <2> HIDE DEF n
  <2>5. Formed(n) /\ docs[n.doc] # None
    BY <1>2, <1>5, <2>1, <2>4 DEF Formed, There
  <2>6. Sure(n.doc) \subseteq n.snap /\ Owed(n.by, n.doc) \subseteq n.snap
    BY <1>1, <1>2, <1>5, <2>4, OwedIsSure DEF Saving
  <2>7. QED
    BY <1>1, <1>2, <2>3, <2>4, <2>5, <2>6, GoesOn
<1>6. There(q.doc) \/ Refuse(r)
  BY DEF Read
<1>7. QED
  BY <1>3, <1>4, <1>5, <1>6

LEMMA CheckKeeps ==
  ASSUME DocsInv, NEW r \in Requests, Check(r)
  PROVE  DocsInv'
<1> DEFINE q == req[r]
<1>1. TypeOK /\ Made /\ Saving /\ Showing /\ UNCHANGED <<docs, history, begun>>
  BY DEF DocsInv, Check
<1>2. /\ q \in Request /\ q.pc = "check" /\ q.by \in Users /\ q.doc \in Docs /\ Formed(q)
      /\ Active(r) /\ HasRead(r) /\ q.op \notin OwnerOps /\ docs[q.doc] # None
  BY <1>1 DEF Check, TypeOK, Made, Formed, Active, HasRead
<1>3. CASE Refuse(r)
  BY <1>1, <1>3, RefuseKeeps
<1>4. CASE q.op = "open" /\ Answer(r) /\ sock' = Opened(q)
  <2>1. ASSUME NEW u \in Users PROVE Calm(u) \/ Shows(r, u)
    <3>1. \/ sock'[u] = sock[u]
          \/ /\ u = q.by /\ sock[u].open = q.doc
             /\ sock'[u].open = q.doc /\ sock'[u].rooms = sock[u].rooms
             /\ sock'[u].view = sock[u].view \union q.snap
      BY <1>1, <1>2, <1>4, Shown
    <3>2. QED
      BY <1>2, <1>4, <3>1 DEF Calm, Shows
  <2>2. QED
    BY <1>1, <1>2, <1>4, <2>1, Answered, Shown, Quiet
<1> DEFINE n == [q EXCEPT !.pc = "write", !.got = None, !.role = "none"]
<1>5. CASE req' = [req EXCEPT ![r] = n] /\ UNCHANGED sock
  <2>1. /\ n \in Request /\ n.pc = "write" /\ n.snap = q.snap /\ n.op = q.op /\ n.by = q.by
        /\ n.doc = q.doc /\ n.edits = q.edits /\ n.to = q.to /\ n.give = q.give
    BY <1>2 DEF Request
  <2> HIDE DEF n
  <2>2. Formed(n) /\ n.op # "share"
    BY <1>2, <2>1 DEF Formed, OwnerOps
  <2>3. n.op = "save" /\ There(n.doc) => Sure(n.doc) \subseteq n.snap
    BY <1>1, <1>2, <2>1 DEF Saving
  <2>4. n.op = "open" /\ sock[n.by].open = n.doc =>
          Owed(n.by, n.doc) \subseteq n.snap \union sock[n.by].view
    BY <1>1, <1>2, <2>1 DEF Showing
  <2>5. QED
    BY <1>1, <1>2, <1>5, <2>1, <2>2, <2>3, <2>4, GoesOn
<1>6. QED
  BY <1>3, <1>4, <1>5 DEF Check

\* The role an owner gave a user, with what is shared of a document.
Right(shared, given, u) ==
  IF given[u] = "none" THEN RoleOf(shared, u) # "editor" ELSE RoleOf(shared, u) = given[u]

\* A write that leaves the content alone, and the entries no other request is about.
LEMMA Written ==
  ASSUME DocsInv, NEW r \in Requests, req[r].pc = "write", Answer(r),
         NEW d, d = req[r].doc, NEW doc, Set(d, doc),
         There(d) /\ doc # Gone => doc \in Doc /\ doc.snapshot = docs[d].snapshot,
         granted' \in [Docs -> [Users -> Roles \union {"none"}]],
         \A c \in Docs : c # d => granted'[c] = granted[c],
         There(d) /\ doc # Gone => \A u \in Users :
           IF u \in About(req[r]) THEN u \in blurred[d] \/ Right(doc.shared, granted'[d], u)
           ELSE doc.shared[u] = docs[d].shared[u] /\ granted'[d][u] = granted[d][u],
         UNCHANGED <<acked, announced, parallel, blurred, begun>>,
         sock' \in [Users -> Socket], \A u \in Users : Calm(u) \/ Shows(r, u)
  PROVE  DocsInv'
<1>1. TypeOK /\ Made /\ Saving /\ Showing /\ Sharing
  BY DEF DocsInv
<1>2. /\ req' \in [Requests -> Request] /\ req'[r] = Idle
      /\ \A s \in Requests : s # r => req'[s] = req[s]
  BY <1>1, Answered DEF Others
<1>3. d \in Docs /\ docs[d] # None /\ HasRead(r) /\ Active(r)
  BY <1>1 DEF Made, HasRead, Formed, Active
<1>4. /\ docs' = docs \/ (There(d) /\ docs' = [docs EXCEPT ![d] = doc])
      /\ There(d) => doc \in Doc \union {Gone}
  BY DEF Set
<1>5. TypeOK'
  <2>1. docs' \in [Docs -> Doc \union {None, Gone}]
    BY <1>1, <1>3, <1>4 DEF TypeOK
  <2>2. QED
    BY <1>1, <1>2, <2>1 DEF TypeOK
<1>6. \A c \in Docs : /\ docs'[c] = None <=> docs[c] = None
                      /\ There(c)' => There(c) /\ docs'[c].snapshot = docs[c].snapshot
                      /\ c # d => docs'[c] = docs[c]
  BY <1>1, <1>3, <1>4, ConstantsAssumption DEF TypeOK, There
<1>7. Made'
  <2>1. ASSUME NEW s \in Requests PROVE Formed(req'[s]) /\ (HasRead(s)' => docs'[req'[s].doc] # None)
    <3>1. CASE s = r
      BY <1>2, <3>1, IdleRequest DEF HasRead
    <3>2. CASE s # r
      BY <1>1, <1>2, <1>6, <3>2 DEF Made, HasRead, Formed
    <3>3. QED
      BY <3>1, <3>2
  <2>2. ASSUME NEW u \in Users
        PROVE  /\ sock'[u].open # None => sock'[u].open \in sock'[u].rooms
               /\ sock'[u].ready => sock'[u].open # None /\ docs[sock'[u].open] # None
    <3>1. CASE Calm(u)
      BY <1>1, <3>1 DEF Calm, Made
    <3>2. CASE Shows(r, u)
      BY <1>1, <1>3, <3>2, ConstantsAssumption DEF Shows, Made
    <3>3. QED
      BY <3>1, <3>2
  <2>3. \A u \in Users : sock'[u].open \in Docs \union {None}
    BY DEF Socket
  <2>4. ASSUME NEW c \in Docs, docs'[c] = None
        PROVE  acked'[c] = {} /\ announced'[c] = {} /\ \A u \in Users : granted'[c][u] = "none"
    BY <1>1, <1>3, <1>6, <2>4 DEF Made
  <2>5. QED
    BY <1>6, <2>1, <2>2, <2>3, <2>4 DEF Made
<1>8. \A s \in Requests : Active(s)' => s # r /\ req'[s] = req[s] /\ Active(s)
  BY <1>2, IdleRequest DEF Active
<1>9. \A s \in Requests : Active(s)' => req'[s].by \in Users /\ req'[s].doc \in Docs
  BY <1>7 DEF Made, Formed, Active
<1>10. Saving'
  <2>1. \A c : Sure(c)' = Sure(c)
    BY DEF Sure
  <2>2. ASSUME NEW s \in Requests, NEW t \in Requests, s # t, Active(s)', Active(t)',
               req'[s].op = "save", req'[t].op = "save", NEW c, req'[s].doc = c, req'[t].doc = c
        PROVE  req'[s].edits \subseteq parallel'[c]
    BY <1>1, <1>8, <2>2 DEF Saving
  <2>3. ASSUME NEW s \in Requests, HasRead(s)', req'[s].op = "save", NEW c \in Docs,
               req'[s].doc = c, There(c)'
        PROVE  Sure(c)' \subseteq req'[s].snap
    BY <1>1, <1>6, <1>8, <2>1, <2>3 DEF Saving, HasRead, Active
  <2>4. ASSUME NEW c \in Docs, There(c)' PROVE Sure(c)' \subseteq docs'[c].snapshot
    BY <1>1, <1>6, <2>1, <2>4 DEF Saving
  <2>5. QED
    BY <1>9, <2>2, <2>3, <2>4 DEF Saving, HasRead, Active
<1>11. Showing'
  <2>1. \A u, c : Owed(u, c)' = Owed(u, c)
    BY DEF Owed
  <2>2. ASSUME NEW s \in Requests, HasRead(s)', req'[s].op = "open",
               NEW u \in Users, req'[s].by = u, NEW c \in Docs, req'[s].doc = c, sock'[u].open = c
        PROVE  Owed(u, c) \subseteq req'[s].snap \union sock'[u].view
    <3>1. req'[s] = req[s] /\ HasRead(s)
      BY <1>8, <2>2 DEF HasRead, Active
    <3>2. sock[u].open = c /\ sock[u].view \subseteq sock'[u].view
      BY <2>2, ConstantsAssumption DEF Calm, Shows
    <3>3. Owed(u, c) \subseteq req[s].snap \union sock[u].view
      BY <1>1, <2>2, <3>1, <3>2 DEF Showing
    <3>4. QED
      BY <3>1, <3>2, <3>3
  <2>3. ASSUME NEW u \in Users, sock'[u].ready, NEW c \in Docs, sock'[u].open = c
        PROVE  Owed(u, c) \subseteq sock'[u].view
    <3>1. CASE Calm(u)
      BY <1>1, <2>3, <3>1 DEF Calm, Showing
    <3>2. CASE Shows(r, u)
      BY <1>1, <2>3, <3>2 DEF Shows, Showing
    <3>3. QED
      BY <3>1, <3>2
  <2>4. \A u \in Users : sock'[u].ready => sock'[u].open \in Docs
    BY <1>7 DEF Made, Socket
  <2>5. \A s \in Requests : HasRead(s)' => req'[s].by \in Users /\ req'[s].doc \in Docs
    BY <1>9 DEF HasRead, Active
  <2>6. \A c \in Docs : \A m \in announced'[c] : m[2] \in acked'[c]
    BY <1>1 DEF Showing
  <2>7. QED
    BY <2>1, <2>2, <2>3, <2>4, <2>5, <2>6 DEF Showing, HasRead
<1>12. Sharing'
  <2>1. ASSUME NEW s \in Requests, NEW t \in Requests, s # t, Active(s)', Active(t)',
               NEW c, req'[s].doc = c, req'[t].doc = c
        PROVE  About(req'[s]) \intersect About(req'[t]) \subseteq blurred'[c]
    <3>1. Active(s) /\ Active(t) /\ req'[s] = req[s] /\ req'[t] = req[t]
      BY <1>8, <2>1
    <3>2. s # t /\ req[s].doc = c /\ req[t].doc = c
      BY <2>1, <3>1
    <3>3. About(req[s]) \intersect About(req[t]) \subseteq blurred[c]
      BY <1>1, <3>1, <3>2 DEF Sharing
    <3>4. QED
      BY <3>1, <3>3
  <2>2. ASSUME NEW c \in Docs, There(c)', NEW u \in Users
        PROVE  \/ docs'[c].shared[u] = docs[c].shared[u] /\ granted'[c][u] = granted[c][u]
               \/ c = d /\ u \in About(req[r]) /\ (u \in blurred[d] \/ Right(docs'[d].shared, granted'[d], u))
    <3>1. CASE c # d
      BY <1>6, <3>1
    <3>2. CASE c = d
      <4>1. There(d) /\ docs' = [docs EXCEPT ![d] = doc]
        BY <1>6, <2>2, <3>2 DEF Set
      <4>2. docs'[d] = doc /\ doc # Gone
        BY <1>1, <1>3, <2>2, <3>2, <4>1 DEF TypeOK, There
      <4>3. QED
        BY <2>2, <3>2, <4>1, <4>2
    <3>3. QED
      BY <3>1, <3>2
  <2>3. ASSUME NEW s \in Requests, req'[s].op = "share", req'[s].pc = "write",
               NEW c, req'[s].doc = c, There(c)', req'[s].to \notin blurred'[c]
        PROVE  req'[s].role = "none" <=> docs'[c].shared[req'[s].to] = <<>>
    <3> DEFINE u == req'[s].to
    <3>1. s # r /\ req'[s] = req[s] /\ Active(s) /\ c \in Docs
      BY <1>2, <1>9, <2>3, IdleRequest DEF Active
    <3>2. u \in Users /\ u \in About(req[s])
      BY <1>7, <2>3, <3>1 DEF Made, Formed, About
    <3>3. There(c) /\ (req[s].role = "none" <=> docs[c].shared[u] = <<>>)
      BY <1>1, <1>6, <2>3, <3>1 DEF Sharing
    <3>4. c = d => u \notin About(req[r])
      BY <1>1, <1>3, <2>3, <3>1, <3>2 DEF Sharing
    <3>5. docs'[c].shared[u] = docs[c].shared[u]
      BY <2>2, <2>3, <3>1, <3>2, <3>4
    <3>6. QED
      BY <3>1, <3>3, <3>5
  <2>4. ASSUME NEW c \in Docs, There(c)', NEW u \in Users \ blurred'[c]
        PROVE  LET role == RoleOf(docs'[c].shared, u) IN
               IF granted'[c][u] = "none" THEN role # "editor" ELSE role = granted'[c][u]
    BY <1>1, <1>6, <2>2, <2>4 DEF Sharing, Right, RoleOf
  <2>5. QED
    BY <1>9, <2>1, <2>3, <2>4 DEF Sharing, Active
<1>13. QED
  BY <1>5, <1>7, <1>10, <1>11, <1>12 DEF DocsInv

LEMMA FirstReplaced ==
  ASSUME NEW T, NEW s \in Seq(T), s # <<>>, NEW x \in T
  PROVE  LET e == [s EXCEPT ![1] = x] IN e \in Seq(T) /\ e # <<>> /\ e[1] = x
<1>1. 1 \in DOMAIN s /\ DOMAIN s = 1..Len(s) /\ Len(s) \in Nat
  OBVIOUS
<1> DEFINE e == [s EXCEPT ![1] = x]
<1>2. e \in [1..Len(s) -> T] /\ e[1] = x
  BY <1>1
<1>3. QED
  BY <1>1, <1>2

\* An entry follows those a user has: it counts if there are none.
LEMMA EntryFollows ==
  ASSUME NEW f \in [Users -> Seq(Roles)], NEW u \in Users, NEW role \in Roles
  PROVE  /\ Entered(f, u, role) \in [Users -> Seq(Roles)]
         /\ \A v \in Users \ {u} : Entered(f, u, role)[v] = f[v]
         /\ RoleOf(Entered(f, u, role), u) = IF f[u] = <<>> THEN role ELSE RoleOf(f, u)
<1> DEFINE e == Append(f[u], role)
<1>1. /\ e \in Seq(Roles) /\ e # <<>>
      /\ e[1] = IF f[u] = <<>> THEN role ELSE f[u][1]
  <2>1. ASSUME NEW s \in Seq(Roles)
        PROVE  /\ Append(s, role) \in Seq(Roles) /\ Append(s, role) # <<>>
               /\ s = <<>> => Append(s, role)[1] = role
               /\ s # <<>> => Append(s, role)[1] = s[1]
    <3>1. s = <<>> => Len(s) = 0
      OBVIOUS
    <3>2. s # <<>> => Len(s) >= 1
      BY EmptySeq
    <3>3. QED
      BY <3>1, <3>2, AppendProperties
  <2>2. f[u] \in Seq(Roles)
    OBVIOUS
  <2>3. QED
    BY <2>1, <2>2
<1>2. Entered(f, u, role) = [f EXCEPT ![u] = e]
  BY DEF Entered
<1> HIDE DEF e
<1>3. Entered(f, u, role) \in [Users -> Seq(Roles)] /\ Entered(f, u, role)[u] = e
  BY <1>1, <1>2
<1>4. QED
  BY <1>1, <1>2, <1>3 DEF RoleOf

\* The writes that answer with nothing but the document.
LEMMA PlainKeeps ==
  ASSUME DocsInv, NEW r \in Requests,
         UpdateTitle(r) \/ UpdateVisibility(r) \/ ShareForRoom(r) \/ Delete(r)
  PROVE  DocsInv'
<1> DEFINE q == req[r]
           d == q.doc
<1>1. TypeOK /\ Made /\ Sharing
  BY DEF DocsInv
<1>2. PICK doc :
        /\ Set(d, doc) /\ Answer(r) /\ q.pc = "write" /\ About(q) = {}
        /\ There(d) /\ doc # Gone =>
             doc \in Doc /\ doc.snapshot = docs[d].snapshot /\ doc.shared = docs[d].shared
        /\ UNCHANGED <<sock, history, begun>>
  <2>1. q.pc # "idle" => d \in Docs /\ Formed(q)
    BY <1>1 DEF Made, Formed
  <2>2. There(d) /\ d \in Docs => docs[d] \in Doc
    BY <1>1 DEF TypeOK, There
  <2>3. CASE UpdateTitle(r)
    BY <2>1, <2>2, <2>3 DEF UpdateTitle, Plain, Writes, About
  <2>4. CASE UpdateVisibility(r)
    <3> DEFINE doc == [docs[d] EXCEPT !.visibility = q.give]
    <3>1. Set(d, doc) /\ Answer(r) /\ q.pc = "write" /\ q.op = "show" /\ UNCHANGED <<sock, history, begun>>
      BY <2>4 DEF UpdateVisibility, Plain, Writes
    <3>2. There(d) => doc \in Doc /\ doc.snapshot = docs[d].snapshot /\ doc.shared = docs[d].shared
      BY <2>1, <2>2, <3>1 DEF Doc, Formed
    <3>3. QED
      BY <3>1, <3>2 DEF About
  <2>5. CASE ShareForRoom(r)
    <3> DEFINE doc == [docs[d] EXCEPT !.inRoom = TRUE]
    <3>1. Set(d, doc) /\ Answer(r) /\ q.pc = "write" /\ q.op = "room" /\ UNCHANGED <<sock, history, begun>>
      BY <2>5 DEF ShareForRoom, Plain, Writes
    <3>2. There(d) => doc \in Doc /\ doc.snapshot = docs[d].snapshot /\ doc.shared = docs[d].shared
      BY <2>1, <2>2, <3>1 DEF Doc
    <3>3. QED
      BY <3>1, <3>2 DEF About
  <2>6. CASE Delete(r)
    BY <2>6 DEF Delete, Plain, Writes, About
  <2>7. QED
    BY <2>3, <2>4, <2>5, <2>6
<1>3. /\ granted' \in [Docs -> [Users -> Roles \union {"none"}]] /\ UNCHANGED granted
      /\ UNCHANGED <<acked, announced, parallel, blurred, begun>>
      /\ sock' \in [Users -> Socket] /\ \A u \in Users : Calm(u)
  BY <1>1, <1>2 DEF TypeOK, history, Calm
<1>4. QED
  BY <1>2, <1>3, Written

\* A user who comes to a public document gets an entry, after those they have.
LEMMA VisitKeeps ==
  ASSUME DocsInv, NEW r \in Requests, Visit(r)
  PROVE  DocsInv'
<1> DEFINE q == req[r]
           d == q.doc
           shared == Entered(docs[d].shared, q.by, "viewer")
           doc == [docs[d] EXCEPT !.shared = shared]
<1>1. TypeOK /\ Made /\ Sharing
  BY DEF DocsInv
<1>2. /\ q \in Request /\ q.pc = "write" /\ q.op = "open" /\ Answer(r) /\ sock' = Opened(q)
      /\ UNCHANGED <<acked, announced, parallel, granted, blurred, begun>>
  BY <1>1 DEF Visit, Writes, TypeOK, history
<1>3. Set(d, doc)
  BY DEF Visit
<1>4. q.by \in Users /\ d \in Docs
  BY <1>1, <1>2 DEF Made, Formed
<1>5. About(q) = {q.by}
  BY <1>2 DEF About
<1>6. ASSUME There(d)
      PROVE  /\ doc \in Doc /\ doc.snapshot = docs[d].snapshot
             /\ \A u \in Users \ {q.by} : doc.shared[u] = docs[d].shared[u]
             /\ q.by \in blurred[d] \/ Right(doc.shared, granted[d], q.by)
  <2>1. docs[d] \in Doc
    BY <1>1, <1>4, <1>6 DEF TypeOK, There
  <2>2. docs[d].shared \in [Users -> Seq(Roles)] /\ "viewer" \in Roles
    BY <2>1 DEF Doc, Roles
  <2>3. /\ shared \in [Users -> Seq(Roles)]
        /\ \A u \in Users \ {q.by} : shared[u] = docs[d].shared[u]
        /\ RoleOf(shared, q.by) = IF docs[d].shared[q.by] = <<>> THEN "viewer"
                                  ELSE RoleOf(docs[d].shared, q.by)
    BY <1>4, <2>2, EntryFollows
  <2>5. q.by \notin blurred[d] => Right(docs[d].shared, granted[d], q.by)
    BY <1>1, <1>4, <1>6 DEF Sharing, Right
  <2>6. docs[d].shared[q.by] = <<>> => RoleOf(docs[d].shared, q.by) = "none"
    BY DEF RoleOf
  <2>7. q.by \notin blurred[d] => Right(shared, granted[d], q.by)
    BY <2>3, <2>5, <2>6 DEF Right
  <2> HIDE DEF shared
  <2>8. doc \in Doc /\ doc.snapshot = docs[d].snapshot /\ doc.shared = shared
    BY <2>1, <2>3 DEF Doc
  <2>9. QED
    BY <2>3, <2>7, <2>8
<1>7. sock' \in [Users -> Socket] /\ \A u \in Users : Calm(u) \/ Shows(r, u)
  <2>1. ASSUME NEW u \in Users PROVE Calm(u) \/ Shows(r, u)
    <3>1. \/ sock'[u] = sock[u]
          \/ /\ u = q.by /\ sock[u].open = q.doc
             /\ sock'[u].open = q.doc /\ sock'[u].rooms = sock[u].rooms
             /\ sock'[u].view = sock[u].view \union q.snap
      BY <1>1, <1>2, <1>4, Shown
    <3>2. QED
      BY <1>2, <3>1 DEF Calm, Shows, HasRead
  <2>2. QED
    BY <1>1, <1>2, <1>4, <2>1, Shown
<1> HIDE DEF doc
<1>8. QED
  BY <1>1, <1>2, <1>3, <1>5, <1>6, <1>7, Written DEF TypeOK

\* What an owner gives a user, and takes from them.
LEMMA ShareKeeps ==
  ASSUME DocsInv, NEW r \in Requests, Share(r) \/ Unshare(r)
  PROVE  DocsInv'
<1> DEFINE q == req[r]
           d == q.doc
           shared == IF q.op = "share" THEN Shared(q, docs[d].shared)
                     ELSE Unshared(q, docs[d].shared)
           role == IF q.op = "share" THEN q.give ELSE "none"
           doc == [docs[d] EXCEPT !.shared = shared]
<1>1. TypeOK /\ Made /\ Sharing
  BY DEF DocsInv
<1>2. /\ q.pc = "write" /\ q.op \in {"share", "unshare"} /\ Answer(r) /\ Set(d, doc)
      /\ granted' = [granted EXCEPT ![d][q.to] = role]
      /\ UNCHANGED <<sock, acked, announced, parallel, blurred, begun>>
  BY DEF Share, Unshare, Writes
<1>3. /\ d \in Docs /\ q.to \in Users
      /\ q.op = "share" => q.give \in Roles
      /\ About(q) = {q.to}
  BY <1>1, <1>2 DEF Made, Formed, About
<1>4. /\ granted' \in [Docs -> [Users -> Roles \union {"none"}]]
      /\ \A c \in Docs : c # d => granted'[c] = granted[c]
      /\ \A u \in Users : u # q.to => granted'[d][u] = granted[d][u]
      /\ granted'[d][q.to] = role
  BY <1>1, <1>2, <1>3 DEF TypeOK
<1>5. ASSUME There(d)
      PROVE  /\ doc \in Doc /\ doc.snapshot = docs[d].snapshot
             /\ \A u \in Users \ {q.to} : doc.shared[u] = docs[d].shared[u]
             /\ q.to \in blurred[d] \/ Right(doc.shared, granted'[d], q.to)
  <2> DEFINE old == docs[d].shared
  <2>1. docs[d] \in Doc /\ old \in [Users -> Seq(Roles)]
    BY <1>1, <1>3, <1>5 DEF TypeOK, There, Doc
  <2>2. /\ shared \in [Users -> Seq(Roles)]
        /\ \A u \in Users \ {q.to} : shared[u] = old[u]
        /\ RoleOf(shared, q.to) =
             IF q.op # "share" THEN "none"
             ELSE IF q.role # "none" THEN IF old[q.to] = <<>> THEN "none" ELSE q.give
             ELSE IF old[q.to] = <<>> THEN q.give ELSE RoleOf(old, q.to)
    <3>1. CASE q.op # "share"
      <4>1. shared = [old EXCEPT ![q.to] = <<>>] /\ <<>> \in Seq(Roles)
        BY <3>1 DEF Unshared
      <4>2. QED
        BY <1>3, <2>1, <3>1, <4>1 DEF RoleOf
    <3>2. CASE q.op = "share" /\ q.role = "none"
      <4>1. shared = Entered(old, q.to, q.give) /\ q.give \in Roles
        BY <1>3, <3>2 DEF Shared
      <4>2. LET e == Entered(old, q.to, q.give) IN
            /\ e \in [Users -> Seq(Roles)] /\ \A u \in Users \ {q.to} : e[u] = old[u]
            /\ RoleOf(e, q.to) = IF old[q.to] = <<>> THEN q.give ELSE RoleOf(old, q.to)
        BY <1>3, <2>1, <4>1, EntryFollows
      <4>3. QED
        BY <3>2, <4>1, <4>2
    <3>3. CASE q.op = "share" /\ q.role # "none" /\ old[q.to] = <<>>
      <4>1. shared = old
        BY <3>3 DEF Shared, Reshared
      <4>2. QED
        BY <1>3, <2>1, <3>3, <4>1 DEF RoleOf
    <3>4. CASE q.op = "share" /\ q.role # "none" /\ old[q.to] # <<>>
      <4> DEFINE e == [old[q.to] EXCEPT ![1] = q.give]
      <4>1. shared = [old EXCEPT ![q.to] = e] /\ q.give \in Roles
        BY <1>3, <2>1, <3>4 DEF Shared, Reshared
      <4>2. e \in Seq(Roles) /\ e # <<>> /\ e[1] = q.give
        <5>1. old[q.to] \in Seq(Roles) /\ old[q.to] # <<>> /\ q.give \in Roles
          BY <1>3, <2>1, <3>4, <4>1
        <5>2. QED
          BY <5>1, FirstReplaced
      <4> HIDE DEF e
      <4>3. QED
        BY <1>3, <2>1, <3>4, <4>1, <4>2 DEF RoleOf
    <3>5. QED
      BY <3>1, <3>2, <3>3, <3>4
  <2>3. q.op = "share" /\ q.to \notin blurred[d] => (q.role = "none" <=> old[q.to] = <<>>)
    BY <1>1, <1>2, <1>5 DEF Sharing
  <2>4. q.to \notin blurred[d] => Right(shared, granted'[d], q.to)
    BY <1>3, <1>4, <2>2, <2>3 DEF Right, Roles
  <2> HIDE DEF shared
  <2>5. doc \in Doc /\ doc.snapshot = docs[d].snapshot /\ doc.shared = shared
    BY <2>1, <2>2 DEF Doc
  <2>6. QED
    BY <2>2, <2>4, <2>5
<1>6. sock' \in [Users -> Socket] /\ \A u \in Users : Calm(u)
  BY <1>1, <1>2 DEF TypeOK, Calm
<1> HIDE DEF doc, role
<1>7. ASSUME There(d), NEW u \in Users
      PROVE  IF u \in About(q) THEN u \in blurred[d] \/ Right(doc.shared, granted'[d], u)
             ELSE doc.shared[u] = docs[d].shared[u] /\ granted'[d][u] = granted[d][u]
  BY <1>3, <1>4, <1>5, <1>7
<1> HIDE DEF d, q
<1>8. /\ d = req[r].doc /\ req[r].pc = "write" /\ Answer(r) /\ Set(d, doc)
      /\ UNCHANGED <<acked, announced, parallel, blurred, begun>>
  BY <1>2 DEF d, q
<1>9. There(d) /\ doc # Gone => doc \in Doc /\ doc.snapshot = docs[d].snapshot
  BY <1>5
<1>10. There(d) /\ doc # Gone => \A u \in Users :
         IF u \in About(req[r]) THEN u \in blurred[d] \/ Right(doc.shared, granted'[d], u)
         ELSE doc.shared[u] = docs[d].shared[u] /\ granted'[d][u] = granted[d][u]
  BY <1>7 DEF q
<1>11. \A u \in Users : Calm(u) \/ Shows(r, u)
  BY <1>6
<1>12. QED
  BY <1>4, <1>6, <1>8, <1>9, <1>10, <1>11, Written, SMTT(120)

\* A save writes what it has read with its own edits: what another has saved in between
\* met it, and what nobody has is in what it has read.
LEMMA SaveKeeps ==
  ASSUME DocsInv, NEW r \in Requests, NEW answered \in BOOLEAN, SaveWrite(r, answered)
  PROVE  DocsInv'
<1> DEFINE q == req[r]
           d == q.doc
           doc == [docs[d] EXCEPT !.snapshot = Merged(q)]
<1>1. TypeOK /\ Made /\ Saving /\ Showing /\ Sharing
  BY DEF DocsInv
<1>2. /\ q \in Request /\ q.pc = "write" /\ q.op = "save" /\ Answer(r) /\ Set(d, doc)
      /\ Active(r) /\ HasRead(r) /\ UNCHANGED <<parallel, granted, blurred, begun>>
  BY <1>1 DEF SaveWrite, Writes, Active, HasRead, TypeOK
<1>3. q.by \in Users /\ d \in Docs /\ docs[d] # None /\ q.edits \in SUBSET Edits /\ q.snap \in SUBSET Edits
  BY <1>1, <1>2 DEF Made, Formed, Request
<1>4. /\ req' \in [Requests -> Request] /\ req'[r] = Idle
      /\ \A s \in Requests : Active(s)' => s # r /\ req'[s] = req[s] /\ Active(s)
  BY <1>1, <1>2, Answered, IdleRequest DEF Others, Active
<1>5. There(d) => /\ doc \in Doc /\ doc.snapshot = q.snap \union q.edits /\ doc.shared = docs[d].shared
                  /\ docs' = [docs EXCEPT ![d] = doc]
  <2>1. There(d) => docs[d] \in Doc
    BY <1>1, <1>3 DEF TypeOK, There
  <2>2. q.snap \union q.edits \in SUBSET Edits
    BY <1>3
  <2>3. QED
    BY <1>2, <2>1, <2>2 DEF Doc, Merged, Set
<1> HIDE DEF doc
<1>6. /\ docs' \in [Docs -> Doc \union {None, Gone}]
      /\ \A c \in Docs :
           /\ docs'[c] = None <=> docs[c] = None
           /\ There(c)' => There(c) /\ docs'[c].shared = docs[c].shared
           /\ There(c)' /\ c # d => docs'[c].snapshot = docs[c].snapshot
           /\ There(c)' /\ c = d => docs'[c].snapshot = q.snap \union q.edits
  <2>1. CASE There(d)
    BY <1>1, <1>3, <1>5, <2>1, ConstantsAssumption DEF TypeOK, There
  <2>2. CASE ~There(d)
    <3>1. docs' = docs
      BY <1>2, <2>2 DEF Set
    <3>2. QED
      BY <1>1, <2>2, <3>1 DEF TypeOK, There
  <2>3. QED
    BY <2>1, <2>2
<1>7. /\ acked' \in [Docs -> SUBSET Edits]
      /\ \A c \in Docs : /\ acked[c] \subseteq acked'[c]
                         /\ c # d => acked'[c] = acked[c]
                         /\ acked'[c] \subseteq acked[c] \union q.edits
  BY <1>1, <1>3 DEF SaveWrite, TypeOK
<1>8. \/ UNCHANGED <<announced, sock>>
      \/ /\ q.edits \subseteq acked'[d] /\ sock' = Tell(d, q.by, q.edits)
         /\ announced' = [announced EXCEPT ![d] = @ \union ({q.by} \X q.edits)]
  BY <1>1, <1>3 DEF SaveWrite, TypeOK
<1>9. /\ announced' \in [Docs -> SUBSET (Users \X Edits)]
      /\ \A c \in Docs : c # d => announced'[c] = announced[c]
      /\ \A c \in Docs : \A m \in announced'[c] :
           m \in announced[c] \/ (c = d /\ m[1] = q.by /\ m[2] \in q.edits /\ m[2] \in acked'[d])
  <2>1. {q.by} \X q.edits \in SUBSET (Users \X Edits)
    BY <1>3
  <2>2. \A m \in {q.by} \X q.edits : m[1] = q.by /\ m[2] \in q.edits
    OBVIOUS
  <2>3. QED
    BY <1>1, <1>3, <1>8, <2>1, <2>2 DEF TypeOK
<1>10. /\ sock' \in [Users -> Socket]
       /\ \A u \in Users :
            /\ sock'[u].open = sock[u].open /\ sock'[u].rooms = sock[u].rooms
            /\ sock'[u].ready = sock[u].ready /\ sock[u].view \subseteq sock'[u].view
            /\ announced' # announced /\ u # q.by /\ sock[u].open = d => q.edits \subseteq sock'[u].view
  <2>1. CASE UNCHANGED <<announced, sock>>
    BY <1>1, <2>1 DEF TypeOK
  <2>2. CASE sock' = Tell(d, q.by, q.edits)
    <3>1. \A u \in Users : sock[u].open = d => d \in sock[u].rooms
      BY <1>1, <1>3, ConstantsAssumption DEF Made
    <3>2. QED
      BY <1>1, <1>3, <2>2, <3>1, Told
  <2>3. QED
    BY <1>8, <2>1, <2>2
<1>11. TypeOK'
  BY <1>1, <1>2, <1>4, <1>6, <1>7, <1>9, <1>10 DEF TypeOK
<1>12. Made'
  <2>1. ASSUME NEW s \in Requests PROVE Formed(req'[s]) /\ (HasRead(s)' => docs'[req'[s].doc] # None)
    <3>1. req'[s] = Idle \/ req'[s] = req[s]
      BY <1>1, <1>2, Answered DEF Others
    <3>2. QED
      BY <1>1, <1>6, <3>1, IdleRequest DEF Made, HasRead, Formed
  <2>2. ASSUME NEW u \in Users
        PROVE  /\ sock'[u].open # None => sock'[u].open \in sock'[u].rooms
               /\ sock'[u].ready => sock'[u].open # None /\ docs'[sock'[u].open] # None
    <3>1. sock[u].open \in Docs \union {None}
      BY <1>1 DEF TypeOK, Socket
    <3>2. QED
      BY <1>1, <1>6, <1>10, <3>1 DEF Made
  <2>3. ASSUME NEW c \in Docs, docs'[c] = None
        PROVE  acked'[c] = {} /\ announced'[c] = {} /\ \A u \in Users : granted'[c][u] = "none"
    BY <1>1, <1>2, <1>3, <1>6, <1>7, <1>9, <2>3 DEF Made
  <2>4. QED
    BY <2>1, <2>2, <2>3 DEF Made
<1>13. \A s \in Requests : Active(s)' => req'[s].by \in Users /\ req'[s].doc \in Docs
  BY <1>12 DEF Made, Formed, Active
<1>14. Saving'
  <2>1. \A c \in Docs : Sure(c)' \subseteq Sure(c) \union (IF c = d THEN q.edits \ parallel[d] ELSE {})
    BY <1>2, <1>7 DEF Sure
  <2>2. ASSUME NEW s \in Requests, NEW t \in Requests, s # t, Active(s)', Active(t)',
               req'[s].op = "save", req'[t].op = "save", NEW c, req'[s].doc = c, req'[t].doc = c
        PROVE  req'[s].edits \subseteq parallel'[c]
    BY <1>1, <1>2, <1>4, <2>2 DEF Saving
  <2>3. ASSUME NEW s \in Requests, HasRead(s)', req'[s].op = "save", NEW c \in Docs,
               req'[s].doc = c, There(c)'
        PROVE  Sure(c)' \subseteq req'[s].snap
    <3>1. s # r /\ req'[s] = req[s] /\ Active(s) /\ HasRead(s)
      BY <1>4, <2>3 DEF HasRead, Active
    <3>2. Sure(c) \subseteq req[s].snap
      BY <1>1, <1>6, <2>3, <3>1 DEF Saving
    <3>3. c = d => q.edits \subseteq parallel[d]
      BY <1>1, <1>2, <2>3, <3>1 DEF Saving
    <3>4. QED
      BY <2>1, <3>1, <3>2, <3>3
  <2>4. ASSUME NEW c \in Docs, There(c)' PROVE Sure(c)' \subseteq docs'[c].snapshot
    <3>1. There(c) /\ Sure(c) \subseteq docs[c].snapshot
      BY <1>1, <1>6, <2>4 DEF Saving
    <3>2. c = d => Sure(c) \subseteq q.snap
      BY <1>1, <1>2, <3>1 DEF Saving
    <3>3. QED
      BY <1>6, <2>1, <2>4, <3>1, <3>2
  <2>5. QED
    BY <1>13, <2>2, <2>3, <2>4 DEF Saving, HasRead, Active
<1>15. Showing'
  <2>1. ASSUME NEW u \in Users, NEW c \in Docs, sock[u].open = c, NEW e \in Owed(u, c)'
        PROVE  e \in Owed(u, c) \/ e \in sock'[u].view
    <3>1. PICK m \in announced'[c] : m[1] # u /\ m[2] \notin parallel[c] /\ e = m[2]
      BY <1>2, <2>1 DEF Owed
    <3>2. CASE m \in announced[c]
      BY <3>1, <3>2 DEF Owed
    <3>3. CASE m \notin announced[c]
      BY <1>9, <1>10, <2>1, <3>1, <3>3
    <3>4. QED
      BY <3>2, <3>3
  <2>2. ASSUME NEW s \in Requests, HasRead(s)', req'[s].op = "open",
               NEW u \in Users, req'[s].by = u, NEW c \in Docs, req'[s].doc = c, sock'[u].open = c
        PROVE  Owed(u, c)' \subseteq req'[s].snap \union sock'[u].view
    <3>1. req'[s] = req[s] /\ HasRead(s)
      BY <1>4, <2>2 DEF HasRead, Active
    <3>2. Owed(u, c) \subseteq req[s].snap \union sock[u].view
      BY <1>1, <1>10, <2>2, <3>1 DEF Showing
    <3>3. QED
      BY <1>10, <2>1, <2>2, <3>1, <3>2
  <2>3. ASSUME NEW u \in Users, sock'[u].ready, NEW c \in Docs, sock'[u].open = c
        PROVE  Owed(u, c)' \subseteq sock'[u].view
    <3>1. Owed(u, c) \subseteq sock[u].view
      BY <1>1, <1>10, <2>3 DEF Showing
    <3>2. QED
      BY <1>10, <2>1, <2>3, <3>1
  <2>4. \A u \in Users : sock'[u].ready => sock'[u].open \in Docs
    BY <1>10, <1>12 DEF Made, Socket
  <2>5. \A s \in Requests : HasRead(s)' => req'[s].by \in Users /\ req'[s].doc \in Docs
    BY <1>13 DEF HasRead, Active
  <2>6. \A c \in Docs : \A m \in announced'[c] : m[2] \in acked'[c]
    BY <1>1, <1>7, <1>9 DEF Showing
  <2>7. QED
    BY <2>2, <2>3, <2>4, <2>5, <2>6 DEF Showing, HasRead
<1>16. Sharing'
  <2>1. ASSUME NEW s \in Requests, NEW t \in Requests, s # t, Active(s)', Active(t)',
               NEW c, req'[s].doc = c, req'[t].doc = c
        PROVE  About(req'[s]) \intersect About(req'[t]) \subseteq blurred[c]
    <3>1. Active(s) /\ Active(t) /\ req'[s] = req[s] /\ req'[t] = req[t]
      BY <1>4, <2>1
    <3>2. s # t /\ req[s].doc = c /\ req[t].doc = c
      BY <2>1, <3>1
    <3>3. About(req[s]) \intersect About(req[t]) \subseteq blurred[c]
      BY <1>1, <3>1, <3>2 DEF Sharing
    <3>4. QED
      BY <3>1, <3>3
  <2>2. ASSUME NEW s \in Requests, req'[s].op = "share", req'[s].pc = "write",
               NEW c, req'[s].doc = c, There(c)', req'[s].to \notin blurred[c]
        PROVE  req'[s].role = "none" <=> docs'[c].shared[req'[s].to] = <<>>
    <3>1. req'[s] = req[s] /\ c \in Docs
      BY <1>4, <1>13, <2>2 DEF Active
    <3>2. There(c) /\ docs'[c].shared = docs[c].shared
      BY <1>6, <2>2, <3>1
    <3>3. QED
      BY <1>1, <2>2, <3>1, <3>2 DEF Sharing
  <2>3. ASSUME NEW c \in Docs, There(c)', NEW u \in Users \ blurred[c]
        PROVE  LET role == RoleOf(docs'[c].shared, u) IN
               IF granted[c][u] = "none" THEN role # "editor" ELSE role = granted[c][u]
    <3>1. There(c) /\ docs'[c].shared = docs[c].shared
      BY <1>6, <2>3
    <3>2. QED
      BY <1>1, <2>3, <3>1 DEF Sharing
  <2>4. QED
    BY <1>2, <2>1, <2>2, <2>3 DEF Sharing, Active
<1>17. QED
  BY <1>11, <1>12, <1>14, <1>15, <1>16 DEF DocsInv

\* Nothing is known of a document before it is made.
LEMMA MakeKeeps ==
  ASSUME DocsInv, NEW d \in Docs, docs[d] = None, NEW doc \in Doc,
         docs' = [docs EXCEPT ![d] = doc], \A u \in Users : doc.shared[u] = <<>>,
         req' \in [Requests -> Request], \A s \in Requests : req'[s] = req[s] \/ req'[s] = Idle,
         begun' \in 0..MaxBegun, UNCHANGED <<sock, history>>
  PROVE  DocsInv'
<1>1. /\ TypeOK /\ Made /\ Saving /\ Showing /\ Sharing
      /\ UNCHANGED <<sock, acked, announced, parallel, granted, blurred>>
  BY DEF DocsInv, history
<1>2. /\ docs'[d] = doc /\ doc # None /\ docs' \in [Docs -> Doc \union {None, Gone}]
      /\ \A c \in Docs : c # d => docs'[c] = docs[c]
  BY <1>1, ConstantsAssumption DEF TypeOK
<1>3. /\ acked[d] = {} /\ announced[d] = {} /\ \A u \in Users : granted[d][u] = "none"
      /\ Sure(d)' = {}
  BY <1>1 DEF Made, Sure
<1>4. \A s \in Requests : /\ Active(s)' => Active(s) /\ req'[s] = req[s]
                          /\ HasRead(s)' => req[s].doc # d
  BY <1>1, IdleRequest DEF Active, HasRead, Made
<1>5. TypeOK'
  BY <1>1, <1>2 DEF TypeOK
<1>6. Made'
  <2>1. ASSUME NEW s \in Requests PROVE Formed(req'[s]) /\ (HasRead(s)' => docs'[req'[s].doc] # None)
    <3>1. req'[s] = req[s] \/ req'[s] = Idle
      OBVIOUS
    <3>2. QED
      BY <1>1, <1>2, <3>1, IdleRequest DEF Made, HasRead, Formed
  <2>2. ASSUME NEW u \in Users
        PROVE  /\ sock'[u].open # None => sock'[u].open \in sock'[u].rooms
               /\ sock'[u].ready => sock'[u].open # None /\ docs'[sock'[u].open] # None
    <3>1. sock[u].open \in Docs \union {None}
      BY <1>1 DEF TypeOK, Socket
    <3>2. QED
      BY <1>1, <1>2, <3>1 DEF Made
  <2>3. ASSUME NEW c \in Docs, docs'[c] = None
        PROVE  acked'[c] = {} /\ announced'[c] = {} /\ \A u \in Users : granted'[c][u] = "none"
    BY <1>1, <1>2, <2>3 DEF Made
  <2>4. QED
    BY <2>1, <2>2, <2>3 DEF Made
<1>7. \A s \in Requests : Active(s)' => req'[s].by \in Users /\ req'[s].doc \in Docs
  BY <1>6 DEF Made, Formed, Active
<1>8. Saving'
  <2>1. \A c : Sure(c)' = Sure(c)
    BY <1>1 DEF Sure
  <2>2. ASSUME NEW s \in Requests, NEW t \in Requests, s # t, Active(s)', Active(t)',
               req'[s].op = "save", req'[t].op = "save", NEW c, req'[s].doc = c, req'[t].doc = c
        PROVE  req'[s].edits \subseteq parallel'[c]
    BY <1>1, <1>4, <2>2 DEF Saving
  <2>3. ASSUME NEW s \in Requests, HasRead(s)', req'[s].op = "save", NEW c \in Docs,
               req'[s].doc = c, There(c)'
        PROVE  Sure(c)' \subseteq req'[s].snap
    <3>1. req'[s] = req[s] /\ HasRead(s) /\ c # d /\ There(c)
      BY <1>2, <1>4, <2>3 DEF HasRead, Active, There
    <3>2. QED
      BY <1>1, <2>1, <2>3, <3>1 DEF Saving
  <2>4. ASSUME NEW c \in Docs, There(c)' PROVE Sure(c)' \subseteq docs'[c].snapshot
    BY <1>1, <1>2, <1>3, <2>1, <2>4 DEF Saving, There
  <2>5. QED
    BY <1>7, <2>2, <2>3, <2>4 DEF Saving, HasRead, Active
<1>9. Showing'
  <2>1. \A u, c : Owed(u, c)' = Owed(u, c)
    BY <1>1 DEF Owed
  <2>2. ASSUME NEW s \in Requests, HasRead(s)', req'[s].op = "open",
               NEW u \in Users, req'[s].by = u, NEW c \in Docs, req'[s].doc = c, sock[u].open = c
        PROVE  Owed(u, c) \subseteq req'[s].snap \union sock[u].view
    <3>1. req'[s] = req[s] /\ HasRead(s)
      BY <1>4, <2>2 DEF HasRead, Active
    <3>2. QED
      BY <1>1, <2>2, <3>1 DEF Showing
  <2>3. \A s \in Requests : HasRead(s)' => req'[s].by \in Users /\ req'[s].doc \in Docs
    BY <1>7 DEF HasRead, Active
  <2>4. QED
    BY <1>1, <2>1, <2>2, <2>3 DEF Showing, HasRead
<1>10. Sharing'
  <2>1. ASSUME NEW s \in Requests, NEW t \in Requests, s # t, Active(s)', Active(t)',
               NEW c, req'[s].doc = c, req'[t].doc = c
        PROVE  About(req'[s]) \intersect About(req'[t]) \subseteq blurred[c]
    <3>1. Active(s) /\ Active(t) /\ req'[s] = req[s] /\ req'[t] = req[t]
      BY <1>4, <2>1
    <3>2. s # t /\ req[s].doc = c /\ req[t].doc = c
      BY <2>1, <3>1
    <3>3. About(req[s]) \intersect About(req[t]) \subseteq blurred[c]
      BY <1>1, <3>1, <3>2 DEF Sharing
    <3>4. QED
      BY <3>1, <3>3
  <2>2. ASSUME NEW s \in Requests, req'[s].op = "share", req'[s].pc = "write",
               NEW c, req'[s].doc = c, There(c)', req'[s].to \notin blurred[c]
        PROVE  req'[s].role = "none" <=> docs'[c].shared[req'[s].to] = <<>>
    <3>1. req'[s] = req[s] /\ c \in Docs /\ c # d
      BY <1>4, <1>7, <2>2 DEF Active, HasRead
    <3>2. There(c) /\ docs'[c] = docs[c]
      BY <1>2, <2>2, <3>1 DEF There
    <3>3. QED
      BY <1>1, <2>2, <3>1, <3>2 DEF Sharing
  <2>3. ASSUME NEW c \in Docs, There(c)', NEW u \in Users \ blurred[c]
        PROVE  LET role == RoleOf(docs'[c].shared, u) IN
               IF granted[c][u] = "none" THEN role # "editor" ELSE role = granted[c][u]
    <3>1. CASE c = d
      BY <1>2, <1>3, <3>1 DEF RoleOf
    <3>2. CASE c # d
      BY <1>1, <1>2, <2>3, <3>2 DEF Sharing, There
    <3>3. QED
      BY <3>1, <3>2
  <2>4. QED
    BY <1>1, <2>1, <2>2, <2>3 DEF Sharing, Active
<1>11. QED
  BY <1>5, <1>6, <1>8, <1>9, <1>10 DEF DocsInv

LEMMA NewDocument ==
  ASSUME NEW u \in Users, NEW v \in Visibility, NEW in \in BOOLEAN, NEW s \in SUBSET Edits
  PROVE  LET doc == [NewDoc(u, v, in) EXCEPT !.snapshot = s] IN
         /\ NewDoc(u, v, in) \in Doc /\ doc \in Doc
         /\ \A x \in Users : NewDoc(u, v, in).shared[x] = <<>> /\ doc.shared[x] = <<>>
<1>1. NewDoc(u, v, in) \in Doc /\ \A x \in Users : NewDoc(u, v, in).shared[x] = <<>>
  BY DEF NewDoc, Doc
<1>2. QED
  BY <1>1 DEF Doc

LEMMA CreateKeeps ==
  ASSUME DocsInv, NEW u \in Users, NEW d \in Docs, NEW v \in Visibility, NEW in \in BOOLEAN,
         Create(u, d, v, in)
  PROVE  DocsInv'
<1>1. NewDoc(u, v, in) \in Doc /\ \A x \in Users : NewDoc(u, v, in).shared[x] = <<>>
  BY NewDocument
<1>2. /\ docs[d] = None /\ docs' = [docs EXCEPT ![d] = NewDoc(u, v, in)]
      /\ begun' \in 0..MaxBegun /\ UNCHANGED <<sock, req, history>> /\ req' \in [Requests -> Request]
  BY ConstantsAssumption DEF Create, DocsInv, TypeOK
<1>3. QED
  BY <1>1, <1>2, MakeKeeps

LEMMA DuplicateKeeps ==
  ASSUME DocsInv, NEW r \in Requests, NEW d \in Docs, Duplicate(r, d)
  PROVE  DocsInv'
<1> DEFINE doc == [NewDoc(req[r].by, "private", FALSE) EXCEPT !.snapshot = req[r].snap]
<1>1. TypeOK /\ Made
  BY DEF DocsInv
<1>2. req[r].by \in Users /\ req[r].snap \in SUBSET Edits
  BY <1>1 DEF Duplicate, Writes, Made, Formed, TypeOK, Request
<1>3. doc \in Doc /\ \A x \in Users : doc.shared[x] = <<>>
  BY <1>2, NewDocument DEF Visibility
<1>4. /\ docs[d] = None /\ docs' = [docs EXCEPT ![d] = doc] /\ Answer(r)
      /\ UNCHANGED <<sock, history>> /\ begun' \in 0..MaxBegun
  BY <1>1 DEF Duplicate, TypeOK
<1>5. req' \in [Requests -> Request] /\ \A s \in Requests : req'[s] = req[s] \/ req'[s] = Idle
  BY <1>1, <1>4, Answered DEF Others
<1> HIDE DEF doc
<1>6. QED
  BY <1>3, <1>4, <1>5, MakeKeeps

LEMMA Beginnings ==
  ASSUME DocsInv, NEW r \in Requests, NEW u \in Users,
         \/ \E d \in Docs : Open(r, u, d) \/ Get(r, u, d)
         \/ \E viaSocket \in BOOLEAN : Save(r, u, viaSocket)
         \/ \E d \in Docs, a \in Asked : Ask(r, u, d, a[1], a[2], a[3])
  PROVE  DocsInv'
<1>1. TypeOK /\ Made
  BY DEF DocsInv
<1>2. ASSUME NEW d \in Docs, Open(r, u, d) PROVE DocsInv'
  <2> DEFINE q == [Idle EXCEPT !.op = "open", !.by = u, !.doc = d, !.socket = TRUE]
  <2>1. q \in Request /\ q.by = u /\ q.doc = d /\ Formed([q EXCEPT !.pc = "read"])
    BY IdleRequest DEF Idle, Request, Formed, Ops, Roles, Visibility
  <2>2. Starts(r, q)
    BY <1>2, <2>1 DEF Open, Starts
  <2>3. QED
    BY <2>2, Start
<1>3. ASSUME NEW d \in Docs, Get(r, u, d) PROVE DocsInv'
  <2> DEFINE q == [Idle EXCEPT !.op = "open", !.by = u, !.doc = d]
  <2>1. q \in Request /\ q.by = u /\ q.doc = d /\ Formed([q EXCEPT !.pc = "read"])
    BY DEF Idle, Request, Formed, Ops, Roles, Visibility
  <2>2. Starts(r, q)
    BY <1>3, <2>1 DEF Get, Starts
  <2>3. QED
    BY <2>2, Start
<1>4. ASSUME NEW viaSocket \in BOOLEAN, Save(r, u, viaSocket) PROVE DocsInv'
  <2> DEFINE q == [Idle EXCEPT !.op = "save", !.by = u, !.doc = sock[u].open,
                               !.edits = sock[u].view, !.socket = viaSocket]
  <2>1. sock[u].open \in Docs /\ sock[u].view \in SUBSET Edits
    BY <1>1, <1>4 DEF Save, Made, TypeOK, Socket
  <2>2. q \in Request /\ q.by = u /\ q.doc = sock[u].open /\ Formed([q EXCEPT !.pc = "read"])
    BY <2>1 DEF Idle, Request, Formed, Ops, Roles, Visibility
  <2>3. Starts(r, q)
    BY <1>4, <2>1, <2>2 DEF Save, Starts
  <2>4. QED
    BY <2>3, Start
<1>5. ASSUME NEW d \in Docs, NEW a \in Asked, Ask(r, u, d, a[1], a[2], a[3]) PROVE DocsInv'
  <2> DEFINE q == [Idle EXCEPT !.op = a[1], !.by = u, !.doc = d, !.to = a[2], !.give = a[3]]
  <2>1. /\ a[1] \in Ops /\ a[2] \in Users \union {None} /\ a[3] \in Roles \union Visibility
        /\ a[1] \in {"share", "unshare"} => a[2] \in Users
        /\ a[1] = "share" => a[3] \in Roles
        /\ a[1] = "show" => a[3] \in Visibility
    BY DEF Asked, Ops, Roles, Visibility
  <2>2. q \in Request /\ q.by = u /\ q.doc = d /\ Formed([q EXCEPT !.pc = "read"])
    BY <2>1 DEF Idle, Request, Formed, Roles
  <2>3. Starts(r, q)
    BY <1>5, <2>2 DEF Ask, Starts
  <2>4. QED
    BY <2>3, Start
<1>6. QED
  BY <1>2, <1>3, <1>4, <1>5

LEMMA DocsStep == ASSUME DocsInv, [Next]_vars PROVE DocsInv'
<1>1. ASSUME NEW u \in Users,
             \/ Close(u) \/ Disconnect(u)
             \/ \E e \in Edits : Edit(u, e)
      PROVE  DocsInv'
  BY <1>1, SocketSteps
<1>2. ASSUME NEW u \in Users, NEW d \in Docs, NEW v \in Visibility, NEW in \in BOOLEAN,
             Create(u, d, v, in)
      PROVE  DocsInv'
  BY <1>2, CreateKeeps
<1>3. ASSUME NEW r \in Requests,
             \/ Read(r) \/ Check(r) \/ Visit(r) \/ Fail(r)
             \/ \E answered \in BOOLEAN : SaveWrite(r, answered)
             \/ Share(r) \/ Unshare(r) \/ UpdateTitle(r) \/ UpdateVisibility(r)
             \/ ShareForRoom(r) \/ Delete(r)
             \/ \E d \in Docs : Duplicate(r, d)
      PROVE  DocsInv'
  <2>1. CASE Fail(r)
    BY <2>1, RefuseKeeps DEF Fail
  <2>2. QED
    BY <1>3, <2>1, ReadKeeps, CheckKeeps, VisitKeeps, SaveKeeps, ShareKeeps, PlainKeeps, DuplicateKeeps
<1>4. ASSUME NEW r \in Requests, NEW u \in Users,
             \/ \E d \in Docs : Open(r, u, d) \/ Get(r, u, d)
             \/ \E viaSocket \in BOOLEAN : Save(r, u, viaSocket)
             \/ \E d \in Docs, a \in Asked : Ask(r, u, d, a[1], a[2], a[3])
      PROVE  DocsInv'
  BY <1>4, Beginnings
<1>5. CASE UNCHANGED vars
  <2>1. sock' \in [Users -> Socket] /\ \A u \in Users : Calm(u)
    BY <1>5 DEF vars, DocsInv, TypeOK, Calm
  <2>2. QED
    BY <1>5, <2>1, Quiet DEF vars, history
<1>6. QED
  BY <1>1, <1>2, <1>3, <1>4, <1>5 DEF Next

LEMMA DocsInit == ASSUME Init PROVE DocsInv
<1>1. \A d \in Docs : ~There(d) /\ acked[d] = {} /\ announced[d] = {} /\ Sure(d) = {}
  BY DEF Init, There, Sure
<1>2. \A r \in Requests : ~Active(r) /\ ~HasRead(r) /\ Formed(req[r])
  BY IdleRequest DEF Init, Active, HasRead
<1>3. \A u \in Users : sock[u].open = None /\ sock[u].ready = FALSE
  BY SocketType DEF Init
<1>4. TypeOK
  BY IdleRequest, SocketType, ConstantsAssumption DEF Init, TypeOK
<1>5. Made
  BY <1>1, <1>2, <1>3 DEF Made, Init
<1>6. Saving /\ Showing /\ Sharing
  BY <1>1, <1>2, <1>3 DEF Saving, Showing, Sharing, Active, HasRead
<1>7. QED
  BY <1>4, <1>5, <1>6 DEF DocsInv

LEMMA DocsAlways == AllSpec => []DocsInv
<1>1. AllInit => DocsInv
  BY DocsInit DEF AllInit
<1>2. DocsInv /\ [AllNext]_allVars => DocsInv'
  BY DocsStep DEF AllNext, allVars
<1>3. QED
  BY <1>1, <1>2, PTL DEF AllSpec

\* Every variable has a value of its type, and what a save that met no other has put into
\* a document stays in it (documents.service.ts, updateDoc: read, merge, write).
THEOREM SavesAreKeptAlways == AllSpec => []DocumentsKept
<1>1. DocsInv => DocumentsKept
  BY DEF DocsInv, Saving, Sure, DocumentsKept, SavesAreKept
<1>2. QED
  BY <1>1, DocsAlways, PTL

\* Whoever has a document open has what the sockets of the others have put into it, saved
\* before they joined its room, while their copy was read, or after (doc.gateway.ts,
\* doc:open joins before it asks for the document).
THEOREM EditorsMissNothing == AllSpec => []NothingMissed
<1>1. ASSUME DocsInv PROVE NothingMissed
  <2>1. ASSUME NEW u \in Users, sock[u].ready, NEW m \in announced[sock[u].open],
               m[1] # u, m[2] \notin parallel[sock[u].open]
        PROVE  m[2] \in sock[u].view
    <3>1. m[2] \in Owed(u, sock[u].open)
      BY <2>1 DEF Owed
    <3>2. QED
      BY <1>1, <2>1, <3>1 DEF DocsInv, Showing
  <2>2. QED
    BY <2>1 DEF NothingMissed
<1>2. QED
  BY <1>1, DocsAlways, PTL

\* A user's role is the one the owner gave last, unless two requests were about it at once
\* (documents.service.ts, shareDoc and unshareDoc, and the entry a visit pushes).
THEOREM RoleFollowsTheOwner == AllSpec => []RoleIsLastGiven
<1>1. DocsInv => RoleIsLastGiven
  BY DEF DocsInv, Sharing, RoleIsLastGiven
<1>2. QED
  BY <1>1, DocsAlways, PTL

\* What a user is listed they can open and copy (documents.service.ts: the conditions of
\* the lists and those of checkAccess are written apart).
THEOREM ListedDocumentsOpen == AllSpec => []ListedOpens
<1>1. ASSUME DocsInv, NEW u \in Users, NEW room \in BOOLEAN, NEW d \in Listed(u, room)
      PROVE  /\ Access(docs[d], FormattedRole(docs[d], u), u, FALSE)
             /\ Access(docs[d], RoleOf(docs[d].shared, u), u, FALSE)
  <2>1. /\ d \in Docs /\ There(d) /\ docs[d].inRoom = room
        /\ \/ docs[d].owner = u \/ RoleOf(docs[d].shared, u) # "none"
           \/ docs[d].visibility = "public"
           \/ room /\ Member[u] # "none" /\ docs[d].visibility = "room"
    BY <1>1 DEF Listed
  <2>2. docs[d] \in Doc /\ docs[d].inRoom \in BOOLEAN
    BY <1>1, <2>1 DEF DocsInv, TypeOK, There, Doc
  <2>3. Member[u] # "none" => RoomRole(u) # "none"
    BY DEF RoomRole
  <2>4. QED
    BY <2>1, <2>2, <2>3 DEF Access, FormattedRole
<1>2. DocsInv => ListedOpens
  BY <1>1 DEF ListedOpens
<1>3. QED
  BY <1>2, DocsAlways, PTL


-------------------------------------------------------------------------------
(* Boards *)

ColumnOps == {"add", "rename", "order", "drop"}
Todo == [board : Docs, status : Names]
JobOps == ColumnOps \union {"none", "todo", "update", "default"}
Steps == {"idle", "read", "save", "pick", "check", "default", "make", "write"}
ColumnIds == Names \union (Names \X (1..MaxJobs))
Seen == Seq(Kanban!Column) \union Seq(Todo)
Job == [op : JobOps, at : Steps, board : Docs \union {None}, todo : Todos \union {None},
        id : ColumnIds \union {None}, name : Names \union {None}, pos : Nat, seen : Seen,
        there : BOOLEAN, fresh : BOOLEAN, on : Docs \union {None}]

Fits(b, s) == b \in Docs /\ board[b] # None /\ s \in Kanban!Allowed(b)

\* A column's request.
Columned(q) ==
  /\ q.op \in ColumnOps => q.at \in {"read", "save"} /\ q.board \in Docs
  /\ q.at = "save" => q.op \in ColumnOps /\ q.seen \in Seq(Kanban!Column)
  /\ q.op \in {"add", "rename"} => q.name \in Names
  /\ q.at = "save" /\ q.op # "add" => q.id \in Kanban!Ids(q.seen)
  /\ q.at = "save" /\ q.op = "drop" => Len(q.seen) > 1
  /\ q.at = "save" /\ q.there => board[q.board] # None
  /\ q.at = "save" /\ q.there /\ q.fresh =>
       /\ Len(q.seen) = Len(board[q.board])
       /\ \A k \in DOMAIN q.seen : q.seen[k].id = board[q.board][k].id

\* A todo's request: what it has checked is so, unless the board has changed since.
Placed(q) ==
  /\ q.op \in {"todo", "update"} => q.todo \in Todos
  /\ q.at \in {"check", "write"} =>
       \/ q.op = "todo" /\ q.name \in Names
       \/ q.op = "update" /\ q.seen \in Seq(Todo) /\ Len(q.seen) = 1
  /\ q.at \in {"default", "make"} => q.op \in {"default", "todo"}
  /\ q.at = "pick" => q.op = "todo" /\ q.board # None
  /\ q.at = "write" => q.on \in Docs /\ (q.op = "update" => q.on = Kanban!Target(q).board)
  /\ q.at = "write" /\ q.fresh => Fits(q.on, Kanban!Target(q).status)

\* No two columns have one id, and a new one has none's.
Named ==
  /\ \A b \in Docs : board[b] # None =>
       /\ board[b] \in Seq(Kanban!Column) /\ board[b] # <<>>
       /\ \A i, k \in DOMAIN board[b] : board[b][i].id = board[b][k].id => i = k
       /\ Kanban!Ids(board[b]) \subseteq Names \union (Names \X (1..jobbed))
       /\ \A j \in Requests : job[j].op = "add" => job[j].id \notin Kanban!Ids(board[b])
  /\ \A j \in Requests : job[j].op = "add" => job[j].id \in Names \X (1..jobbed)
  /\ \A i, j \in Requests :
       i # j /\ job[i].op = "add" /\ job[j].op = "add" => job[i].id[2] # job[j].id[2]

\* The default project is one that is there.
DefaultThere == default # None => board[default] # None

KanbanInv ==
  /\ Kanban!TypeOK /\ DefaultThere
  /\ board \in [Docs -> {None} \union Seq(Kanban!Column)]
  /\ todo \in [Todos -> {None} \union Todo]
  /\ job \in [Requests -> Job]
  /\ Named
  /\ \A j \in Requests : Columned(job[j]) /\ Placed(job[j])
  /\ Kanban!NumberedInOrder /\ Kanban!TodoFits

\* The instance counts as this module does.
LEMMA CountsAlike == ASSUME NEW S PROVE Kanban!Cardinality(S) = Cardinality(S)
  BY DEF Kanban!Cardinality, Cardinality

\* By lists the positions it is given, each once.
LEMMA PositionsOnce ==
  ASSUME NEW n \in Nat, NEW S \in SUBSET (1..n), NEW key, \A i \in S : key[i] \in Nat
  PROVE  /\ Cardinality(S) \in Nat /\ Kanban!By(S, key) \in [1..Cardinality(S) -> S]
         /\ \A i, k \in 1..Cardinality(S) :
              Kanban!By(S, key)[i] = Kanban!By(S, key)[k] => i = k
<1> DEFINE upTo(k) == Kanban!UpTo(S, key, k)
           c == Cardinality(S)
           rank == [k \in S |-> Cardinality(upTo(k))]
           by == Kanban!By(S, key)
<1>1. IsFiniteSet(S) /\ c \in Nat
  <2>1. IsFiniteSet(1..n)
    BY FS_Interval
  <2>2. IsFiniteSet(S)
    BY <2>1, FS_Subset
  <2>3. QED
    BY <2>2, FS_CardinalityType
<1>2. IsFiniteSet(1..c) /\ Cardinality(1..c) = c
  <2>1. 1 \in Int /\ c \in Int
    BY <1>1
  <2>2. QED
    BY <1>1, <2>1, FS_Interval
<1>3. ASSUME NEW k \in S
      PROVE  IsFiniteSet(upTo(k)) /\ Cardinality(upTo(k)) \in 1..c
  <2>1. upTo(k) \in SUBSET S /\ k \in upTo(k)
    BY DEF Kanban!UpTo
  <2> HIDE DEF upTo
  <2>2. IsFiniteSet(upTo(k)) /\ Cardinality(upTo(k)) <= c
    BY <1>1, <2>1, FS_Subset
  <2>3. Cardinality(upTo(k)) \in Nat /\ Cardinality(upTo(k)) # 0
    BY <2>1, <2>2, FS_CardinalityType, FS_EmptySet
  <2>4. QED
    BY <1>1, <2>2, <2>3
<1>4. ASSUME NEW i \in S, NEW k \in S, i # k
      PROVE  Cardinality(upTo(i)) # Cardinality(upTo(k))
  <2>1. S \subseteq Nat
    OBVIOUS
  <2>2. ASSUME NEW x \in S, NEW y \in S, key[x] < key[y] \/ (key[x] = key[y] /\ x < y)
        PROVE  upTo(x) \subseteq upTo(y) /\ y \notin upTo(x) /\ y \in upTo(y)
    <3>1. x \in Nat /\ y \in Nat /\ key[x] \in Nat /\ key[y] \in Nat
      BY <2>1
    <3>2. y \in upTo(y) /\ y \notin upTo(x)
      BY <2>2, <3>1 DEF Kanban!UpTo
    <3>3. ASSUME NEW z \in S, key[z] < key[x] \/ (key[z] = key[x] /\ z <= x)
          PROVE  key[z] < key[y] \/ (key[z] = key[y] /\ z <= y)
      <4>1. z \in Nat /\ key[z] \in Nat
        BY <2>1
      <4>2. QED
        BY <2>2, <3>1, <3>3, <4>1
    <3>4. QED
      BY <3>2, <3>3 DEF Kanban!UpTo
  <2>3. key[i] < key[k] \/ key[k] < key[i] \/ (key[i] = key[k] /\ (i < k \/ k < i))
    BY <1>4, <2>1
  <2> HIDE DEF upTo
  <2>4. /\ upTo(i) # upTo(k)
        /\ upTo(i) \subseteq upTo(k) \/ upTo(k) \subseteq upTo(i)
    BY <2>2, <2>3
  <2>5. QED
    BY <1>3, <2>4, FS_Subset
<1>5. rank \in Surjection(S, 1..c)
  <2>1. rank \in Injection(S, 1..c)
    BY <1>3, <1>4 DEF Injection, IsInjective
  <2>2. QED
    BY <1>1, <1>2, <2>1, FS_Injection
<1>6. \A i \in 1..c : \E k \in S : Cardinality(upTo(k)) = i
  BY <1>5 DEF Surjection
<1>7. by = [i \in 1..c |-> CHOOSE k \in S : Cardinality(upTo(k)) = i]
  BY CountsAlike DEF Kanban!By
<1>8. \A i \in 1..c : by[i] \in S /\ Cardinality(upTo(by[i])) = i
  BY <1>6, <1>7
<1> HIDE DEF upTo
<1>9. QED
  BY <1>1, <1>7, <1>8

\* What no two columns share.
Distinct(cs) == \A i, k \in DOMAIN cs : cs[i].id = cs[k].id => i = k

\* The columns at some positions, each once.
LEMMA ColumnsTaken ==
  ASSUME NEW cs \in Seq(Kanban!Column), Distinct(cs), NEW S \in SUBSET (DOMAIN cs), NEW key,
         \A i \in S : key[i] \in Nat
  PROVE  LET t == Kanban!Taken(cs, Kanban!By(S, key)) IN
         /\ t \in Seq(Kanban!Column) /\ Len(t) = Cardinality(S) /\ Distinct(t)
         /\ Kanban!Ids(t) \subseteq Kanban!Ids(cs)
<1> DEFINE by == Kanban!By(S, key)
           c == Cardinality(S)
           t == Kanban!Taken(cs, by)
<1>1. DOMAIN cs = 1..Len(cs) /\ Len(cs) \in Nat /\ \A k \in DOMAIN cs : cs[k] \in Kanban!Column
  OBVIOUS
<1>2. /\ c \in Nat /\ by \in [1..c -> S]
      /\ \A i, k \in 1..c : by[i] = by[k] => i = k
  BY <1>1, PositionsOnce
<1> HIDE DEF by, c
<1>3. t = [n \in 1..c |-> cs[by[n]]]
  BY <1>2 DEF Kanban!Taken
<1>4. \A n \in 1..c : by[n] \in DOMAIN cs /\ t[n] = cs[by[n]]
  BY <1>2, <1>3
<1>5. t \in Seq(Kanban!Column) /\ Len(t) = c /\ DOMAIN t = 1..c
  <2>1. t \in [1..c -> Kanban!Column]
    BY <1>1, <1>2, <1>3, <1>4
  <2>2. QED
    BY <1>2, <2>1
<1> HIDE DEF t
<1>6. Distinct(t)
  BY <1>2, <1>4, <1>5 DEF Distinct
<1>7. Kanban!Ids(t) \subseteq Kanban!Ids(cs)
  BY <1>4, <1>5 DEF Kanban!Ids
<1>8. QED
  BY <1>5, <1>6, <1>7 DEF t, by, c

\* Numbering the columns changes nothing else.
LEMMA ColumnsNumbered ==
  ASSUME NEW cs \in Seq(Kanban!Column), Distinct(cs)
  PROVE  LET t == Kanban!Renumbered(cs) IN
         /\ t \in Seq(Kanban!Column) /\ Len(t) = Len(cs) /\ Distinct(t)
         /\ Kanban!Ids(t) = Kanban!Ids(cs) /\ \A k \in DOMAIN t : t[k].order = k
<1> DEFINE t == Kanban!Renumbered(cs)
<1>0. ASSUME NEW c \in Kanban!Column, NEW k \in Nat
      PROVE  LET e == [c EXCEPT !.order = k] IN e \in Kanban!Column /\ e.id = c.id /\ e.order = k
  BY DEF Kanban!Column
<1>1. DOMAIN cs = 1..Len(cs) /\ Len(cs) \in Nat /\ \A k \in DOMAIN cs : cs[k] \in Kanban!Column
  OBVIOUS
<1>2. \A k \in DOMAIN cs : LET e == [cs[k] EXCEPT !.order = k] IN
        e \in Kanban!Column /\ e.id = cs[k].id /\ e.order = k
  BY <1>0, <1>1
<1>3. t = [k \in DOMAIN cs |-> [cs[k] EXCEPT !.order = k]]
  BY DEF Kanban!Renumbered
<1>4. t \in [1..Len(cs) -> Kanban!Column]
  BY <1>1, <1>2, <1>3
<1>5. DOMAIN t = DOMAIN cs /\ \A k \in DOMAIN cs : t[k].id = cs[k].id /\ t[k].order = k
  BY <1>2, <1>3
<1>6. t \in Seq(Kanban!Column) /\ Len(t) = Len(cs)
  BY <1>1, <1>4
<1> HIDE DEF t
<1>7. QED
  BY <1>5, <1>6 DEF Distinct, Kanban!Ids, t

LEMMA NoRequest ==
  /\ Kanban!NoJob \in Job /\ Kanban!NoJob.op = "none" /\ Kanban!NoJob.at = "idle"
<1>1. Kanban!NoJob.op = "none" /\ Kanban!NoJob.at = "idle"
  BY DEF Kanban!NoJob
<1>2. <<>> \in Seq(Todo)
  OBVIOUS
<1>3. QED
  BY <1>1, <1>2 DEF Kanban!NoJob, Job, JobOps, Steps, ColumnIds, Seen

\* One request goes on, and writes nothing.
LEMMA JobGoes ==
  ASSUME KanbanInv, NEW j \in Requests, NEW n \in Job, job' = [job EXCEPT ![j] = n],
         UNCHANGED <<board, default, todo, torn, loose, split>>,
         jobbed' \in Nat, jobbed <= jobbed', jobbed' <= MaxJobs, Columned(n), Placed(n),
         n.op = "add" => \/ job[j].op = "add" /\ n.id = job[j].id
                         \/ n.id \in Names \X {jobbed + 1} /\ jobbed' = jobbed + 1
  PROVE  KanbanInv'
<1>1. /\ job' \in [Requests -> Job] /\ job'[j] = n
      /\ \A i \in Requests : i # j => job'[i] = job[i]
  BY DEF KanbanInv
<1>2. Named /\ jobbed \in Nat /\ MaxJobs \in Nat
  BY KanbanAssumption DEF KanbanInv, Kanban!TypeOK, Kanban!ConstantsAssumption
<1>3. Kanban!TypeOK' /\ DefaultThere'
  BY <1>2 DEF KanbanInv, Kanban!TypeOK, DefaultThere
<1>4. ASSUME NEW i \in Requests PROVE Columned(job[i])' /\ Placed(job[i])'
  <2>1. job'[i] = n \/ job'[i] = job[i]
    BY <1>1
  <2>2. Columned(n)' /\ Placed(n)'
    BY DEF Columned, Placed, Fits, Kanban!Allowed, Kanban!Statuses
  <2>3. Columned(job[i]) /\ Placed(job[i])
    BY DEF KanbanInv
  <2>4. Columned(job'[i]) /\ Placed(job'[i])
    BY <2>1, <2>3
  <2>5. QED
    BY <2>4 DEF Columned, Placed, Fits, Kanban!Allowed, Kanban!Statuses
<1>5. Named'
  <2>1. ASSUME NEW i \in Requests, job'[i].op = "add"
        PROVE  job'[i].id \in Names \X (1..jobbed')
    BY <1>1, <1>2, <2>1 DEF Named
  <2>2. \A e \in Names \X {jobbed + 1} : jobbed' = jobbed + 1 =>
          e \notin Names /\ e \notin Names \X (1..jobbed) /\ e[2] = jobbed + 1
    BY <1>2, KanbanAssumption DEF Kanban!ConstantsAssumption
  <2>3. ASSUME NEW b \in Docs, board[b] # None, NEW i \in Requests, job'[i].op = "add"
        PROVE  job'[i].id \notin Kanban!Ids(board[b])
    BY <1>1, <1>2, <2>2, <2>3 DEF Named
  <2>4. ASSUME NEW i \in Requests, NEW k \in Requests, i # k, job'[i].op = "add", job'[k].op = "add"
        PROVE  job'[i].id[2] # job'[k].id[2]
    <3>1. ASSUME NEW x \in Requests, job[x].op = "add" PROVE job[x].id[2] # jobbed + 1
      BY <1>2, <3>1 DEF Named
    <3>2. QED
      BY <1>1, <1>2, <2>2, <2>4, <3>1 DEF Named
  <2>5. \A b \in Docs : Kanban!Ids(board[b])' = Kanban!Ids(board[b])
    BY DEF Kanban!Ids
  <2>6. Names \X (1..jobbed) \subseteq Names \X (1..jobbed')
    BY <1>2
  <2>7. QED
    BY <1>2, <2>1, <2>3, <2>4, <2>5, <2>6 DEF Named
<1>6. Kanban!NumberedInOrder' /\ Kanban!TodoFits'
  BY DEF KanbanInv, Kanban!NumberedInOrder, Kanban!TodoFits, Kanban!Allowed, Kanban!Statuses, Kanban!Ids
<1>7. QED
  BY <1>1, <1>3, <1>4, <1>5, <1>6 DEF KanbanInv

\* A request that may know less than it did.
Older(p, q) ==
  /\ p.op = q.op /\ p.at = q.at /\ p.board = q.board /\ p.todo = q.todo /\ p.id = q.id
  /\ p.name = q.name /\ p.seen = q.seen /\ p.on = q.on
  /\ p.there => q.there
  /\ p.fresh => q.fresh

\* A request that has nothing to know of a board.
Resting(p) ==
  \/ p.op = "none" /\ p.at = "idle"
  \/ /\ p.op = "todo" /\ p.todo \in Todos
     /\ p.at = "check" /\ p.name \in Names

\* A new todo's request that has just found board b, whose columns are cs.
Settled(p, b, cs) ==
  /\ p.op = "todo" /\ p.todo \in Todos /\ p.at = "write" /\ p.on = b
  /\ p.name \in Names /\ p.name # None /\ cs # None /\ p.name \in Kanban!Statuses(cs)

SameIds(cs, ds) == Len(cs) = Len(ds) /\ \A k \in DOMAIN cs : cs[k].id = ds[k].id

\* A board that has gained columns, or as many.
Grows(b, cs) == cs # None /\ Kanban!Allowed(b) \subseteq Kanban!Statuses(cs)

\* A request, when board b has become cs.
Follows(p, q, b, cs) ==
  \/ Resting(p)
  \/ Settled(p, b, cs)
  \/ /\ Older(p, q)
     /\ q.board = b /\ q.at = "save" /\ p.there => cs # None /\ (p.fresh => SameIds(q.seen, cs))
     /\ q.on = b /\ q.at = "write" => ~p.fresh \/ Grows(b, cs)

\* What is assumed of the constants.
LEMMA Named0 ==
  /\ MaxJobs \in Nat /\ Defaults \in Seq(Names) /\ Defaults # <<>>
  /\ \A i, k \in DOMAIN Defaults : Defaults[i] = Defaults[k] => i = k
  /\ \A e \in Names \X (1..MaxJobs) : e \notin Names
  /\ None \notin Docs /\ None \notin Names /\ None \notin Todos /\ None \notin Seq(Kanban!Column)
BY KanbanAssumption DEF Kanban!ConstantsAssumption

\* One board is written.
LEMMA Rewritten ==
  ASSUME KanbanInv, NEW b \in Docs, NEW cs \in {None} \union Seq(Kanban!Column),
         board' = [board EXCEPT ![b] = cs], UNCHANGED <<todo, split, jobbed>>,
         cs # None => /\ cs # <<>> /\ Distinct(cs)
                      /\ Kanban!Ids(cs) \subseteq Names \union (Names \X (1..jobbed))
                      /\ \A i \in Requests : job'[i].op = "add" => job'[i].id \notin Kanban!Ids(cs),
         job' \in [Requests -> Job], \A i \in Requests : Follows(job'[i], job[i], b, cs),
         default' \in {None, default, b}, cs = None => default' # b,
         torn' \subseteq Docs, torn \ {b} \subseteq torn',
         cs # None /\ b \notin torn' => \A k \in DOMAIN cs : cs[k].order = k,
         loose' \subseteq Todos, loose \subseteq loose',
         \A t \in Todos \ loose' : t \notin split /\ todo[t] # None /\ todo[t].board = b =>
           cs # None /\ todo[t].status \in {cs[k].name : k \in DOMAIN cs} \union Kanban!Ids(cs)
  PROVE  KanbanInv'
<1>1. /\ board' \in [Docs -> {None} \union Seq(Kanban!Column)] /\ board'[b] = cs
      /\ \A c \in Docs : c # b => board'[c] = board[c]
  BY DEF KanbanInv
<1>2. Named /\ Kanban!TypeOK /\ Kanban!NumberedInOrder /\ Kanban!TodoFits
      /\ todo \in [Todos -> {None} \union Todo]
  BY DEF KanbanInv
<1>3. Kanban!TypeOK' /\ DefaultThere'
  <2>1. \A c \in Docs : board'[c] # None => board'[c] \in Seq(Kanban!Column)
    BY <1>1
  <2>2. default' \in Docs \union {None}
    BY <1>2 DEF Kanban!TypeOK
  <2>3. default' # None => board'[default'] # None
    BY <1>1, <1>2, <2>2 DEF KanbanInv, DefaultThere
  <2>4. QED
    BY <1>2, <2>1, <2>2, <2>3 DEF Kanban!TypeOK, DefaultThere
<1>4. Named'
  <2>1. ASSUME NEW c \in Docs, board'[c] # None
        PROVE  /\ board'[c] \in Seq(Kanban!Column) /\ board'[c] # <<>> /\ Distinct(board'[c])
               /\ Kanban!Ids(board'[c]) \subseteq Names \union (Names \X (1..jobbed))
               /\ \A i \in Requests : job'[i].op = "add" => job'[i].id \notin Kanban!Ids(board'[c])
    <3>1. CASE c = b
      BY <1>1, <2>1, <3>1
    <3>2. CASE c # b
      <4>1. \A i \in Requests : job'[i].op = "add" => job[i].op = "add" /\ job'[i].id = job[i].id
        BY DEF Follows, Resting, Settled, Older
      <4>2. QED
        BY <1>1, <1>2, <2>1, <3>2, <4>1 DEF Named, Distinct
    <3>3. QED
      BY <3>1, <3>2
  <2>2. \A i \in Requests : job'[i].op = "add" => job[i].op = "add" /\ job'[i].id = job[i].id
    BY DEF Follows, Resting, Settled, Older
  <2>3. \A c \in Docs : Kanban!Ids(board[c])' = Kanban!Ids(board'[c])
    BY DEF Kanban!Ids
  <2>4. QED
    BY <1>2, <2>1, <2>2, <2>3 DEF Named, Distinct
<1>5. ASSUME NEW i \in Requests PROVE Columned(job[i])'
  <2> DEFINE p == job'[i]
             q == job[i]
  <2>1. Columned(q) /\ Follows(p, q, b, cs)
    BY DEF KanbanInv
  <2>2. CASE Resting(p)
    BY <2>2 DEF Resting, Columned, ColumnOps
  <2>5. CASE Settled(p, b, cs)
    BY <2>5 DEF Settled, Columned, ColumnOps
  <2>3. CASE Older(p, q) /\ ~Resting(p) /\ ~Settled(p, b, cs)
    <3>1. /\ p.op \in ColumnOps => p.at \in {"read", "save"} /\ p.board \in Docs
          /\ p.at = "save" => p.op \in ColumnOps /\ p.seen \in Seq(Kanban!Column)
          /\ p.op \in {"add", "rename"} => p.name \in Names
          /\ p.at = "save" /\ p.op # "add" => p.id \in Kanban!Ids(p.seen)
          /\ p.at = "save" /\ p.op = "drop" => Len(p.seen) > 1
      BY <2>1, <2>3 DEF Columned, Older
    <3>2. ASSUME p.at = "save", p.there
          PROVE  board'[p.board] # None /\ (p.fresh => SameIds(p.seen, board'[p.board]))
      <4>1. /\ q.at = "save" /\ q.there /\ p.board = q.board /\ q.board \in Docs /\ p.seen = q.seen
            /\ p.fresh => q.fresh
        BY <2>1, <2>3, <3>2 DEF Columned, Older
      <4>2. board[q.board] # None /\ (q.fresh => SameIds(q.seen, board[q.board]))
        BY <2>1, <4>1 DEF Columned, SameIds
      <4>3. q.board = b => cs # None /\ (p.fresh => SameIds(q.seen, cs))
        BY <2>1, <2>3, <3>2, <4>1 DEF Follows
      <4>4. QED
        BY <1>1, <4>1, <4>2, <4>3
    <3>3. QED
      BY <3>1, <3>2 DEF Columned, SameIds, Kanban!Ids
  <2>4. QED
    BY <2>1, <2>2, <2>3, <2>5 DEF Follows
<1>6. ASSUME NEW i \in Requests PROVE Placed(job[i])'
  <2> DEFINE p == job'[i]
             q == job[i]
  <2>1. Placed(q) /\ Follows(p, q, b, cs)
    BY DEF KanbanInv
  <2>2. CASE Resting(p)
    BY <2>2 DEF Resting, Placed
  <2>5. CASE Settled(p, b, cs)
    <3>1. Kanban!Target(p).status = p.name /\ Kanban!Target(job[i])'.status = p.name
      BY <2>5, Named0 DEF Settled, Kanban!Target
    <3>2. Fits(job[i].on, Kanban!Target(job[i]).status)'
      BY <1>1, <2>5, <3>1 DEF Settled, Fits, Kanban!Allowed, Kanban!Statuses, Kanban!Ids
    <3>3. QED
      BY <2>5, <3>2 DEF Settled, Placed
  <2>3. CASE Older(p, q) /\ ~Resting(p) /\ ~Settled(p, b, cs)
    <3>1. Kanban!Target(p) = Kanban!Target(q) /\ Kanban!Target(job[i])' = Kanban!Target(q)
      BY <2>3 DEF Older, Kanban!Target
    <3>2. /\ p.op \in {"todo", "update"} => p.todo \in Todos
          /\ p.at \in {"check", "write"} =>
               \/ p.op = "todo" /\ p.name \in Names
               \/ p.op = "update" /\ p.seen \in Seq(Todo) /\ Len(p.seen) = 1
          /\ p.at \in {"default", "make"} => p.op \in {"default", "todo"}
          /\ p.at = "pick" => p.op = "todo" /\ p.board # None
          /\ p.at = "write" => p.on \in Docs /\ (p.op = "update" => p.on = Kanban!Target(q).board)
      BY <2>1, <2>3 DEF Placed, Older
    <3>3. ASSUME p.at = "write", p.fresh, NEW c, p.on = c
          PROVE  /\ c \in Docs /\ board'[c] # None
                 /\ Kanban!Target(q).status \in Kanban!Allowed(c)'
      <4>1. q.at = "write" /\ q.fresh /\ q.on = c /\ (c = b => Grows(b, cs))
        BY <2>1, <2>3, <3>3 DEF Older, Follows
      <4>2. Fits(c, Kanban!Target(q).status)
        BY <2>1, <4>1 DEF Placed
      <4>3. CASE c = b
        <5>1. board'[c] = cs /\ Kanban!Allowed(c)' = Kanban!Statuses(cs)
          BY <1>1, <4>3 DEF Kanban!Allowed, Kanban!Statuses, Kanban!Ids
        <5>2. QED
          BY <4>1, <4>2, <4>3, <5>1 DEF Fits, Grows
      <4>4. CASE c # b
        <5>1. board'[c] = board[c] /\ Kanban!Allowed(c)' = Kanban!Allowed(c)
          BY <1>1, <4>2, <4>4 DEF Fits, Kanban!Allowed, Kanban!Statuses, Kanban!Ids
        <5>2. QED
          BY <4>2, <5>1 DEF Fits
      <4>5. QED
        BY <4>3, <4>4
    <3>4. p.at = "write" /\ p.fresh => Fits(job[i].on, Kanban!Target(job[i]).status)'
      BY <3>1, <3>3 DEF Fits, Kanban!Allowed, Kanban!Statuses
    <3>5. QED
      BY <3>1, <3>2, <3>4 DEF Placed
  <2>4. QED
    BY <2>1, <2>2, <2>3, <2>5 DEF Follows
<1>7. Kanban!NumberedInOrder'
  BY <1>1, <1>2 DEF Kanban!NumberedInOrder
<1>8. ASSUME NEW t \in Todos \ (loose' \union split), todo[t] # None
      PROVE  board'[todo[t].board] # None /\ todo[t].status \in Kanban!Allowed(todo[t].board)'
  <2>1. todo[t].board \in Docs
    BY <1>2, <1>8 DEF Todo
  <2>2. CASE todo[t].board = b
    BY <1>1, <1>8, <2>2 DEF Kanban!Allowed, Kanban!Statuses, Kanban!Ids
  <2>3. CASE todo[t].board # b
    <3>1. board[todo[t].board] # None /\ todo[t].status \in Kanban!Allowed(todo[t].board)
      BY <1>2, <1>8 DEF Kanban!TodoFits
    <3>2. QED
      BY <1>1, <2>1, <2>3, <3>1 DEF Kanban!Allowed, Kanban!Statuses, Kanban!Ids
  <2>4. QED
    BY <2>2, <2>3
<1>9. Kanban!TodoFits'
  BY <1>8 DEF Kanban!TodoFits, Kanban!Allowed, Kanban!Statuses, Kanban!Ids
<1>10. QED
  BY <1>1, <1>2, <1>3, <1>4, <1>5, <1>6, <1>7, <1>9 DEF KanbanInv

LEMMA JobFinished ==
  ASSUME KanbanInv, NEW j \in Requests, job' = Kanban!Finish(j),
         UNCHANGED <<board, default, todo, torn, loose, split, jobbed>>
  PROVE  KanbanInv'
<1>1. job' = [job EXCEPT ![j] = Kanban!NoJob]
  BY DEF Kanban!Finish
<1>2. Columned(Kanban!NoJob) /\ Placed(Kanban!NoJob) /\ Kanban!NoJob.op # "add"
  BY NoRequest DEF Columned, Placed, ColumnOps
<1>3. jobbed' \in Nat /\ jobbed <= jobbed' /\ jobbed' <= MaxJobs
  BY KanbanAssumption DEF KanbanInv, Kanban!TypeOK, Kanban!ConstantsAssumption
<1>4. QED
  BY <1>1, <1>2, <1>3, NoRequest, JobGoes

\* A request begins.
LEMMA JobBegins ==
  ASSUME KanbanInv, NEW j \in Requests, NEW n \in Job, Kanban!Begin(j, n),
         Columned(n), Placed(n), n.op = "add" => n.id \in Names \X {jobbed + 1}
  PROVE  KanbanInv'
<1>1. jobbed \in Nat /\ MaxJobs \in Nat
  BY Named0 DEF KanbanInv, Kanban!TypeOK
<1>2. /\ job' = [job EXCEPT ![j] = n] /\ UNCHANGED <<board, default, todo, torn, loose, split>>
      /\ jobbed' = jobbed + 1 /\ jobbed' \in Nat /\ jobbed <= jobbed' /\ jobbed' <= MaxJobs
  BY <1>1 DEF Kanban!Begin
<1>3. QED
  BY <1>1, <1>2, JobGoes

\* The ids of the columns of a board.
LEMMA BoardIds ==
  ASSUME KanbanInv, NEW b \in Docs, board[b] # None
  PROVE  /\ board[b] \in Seq(Kanban!Column) /\ board[b] # <<>> /\ Distinct(board[b])
         /\ Kanban!Ids(board[b]) \subseteq Names \union (Names \X (1..jobbed))
         /\ Kanban!Ids(board[b]) \subseteq Names \union (Names \X (1..MaxJobs))
         /\ jobbed \in Nat /\ jobbed <= MaxJobs
<1>1. /\ board[b] \in Seq(Kanban!Column) /\ board[b] # <<>> /\ Distinct(board[b])
      /\ Kanban!Ids(board[b]) \subseteq Names \union (Names \X (1..jobbed))
  BY DEF KanbanInv, Named, Distinct
<1>2. jobbed \in Nat /\ jobbed <= MaxJobs
  BY Named0 DEF KanbanInv, Kanban!TypeOK
<1>3. 1..jobbed \subseteq 1..MaxJobs
  BY <1>2, Named0
<1>4. QED
  BY <1>1, <1>2, <1>3

\* A request of some kind, and with some of its fields set.
LEMMA RequestMade ==
  ASSUME NEW op \in JobOps, NEW at \in Steps
  PROVE  LET q == Kanban!Request(op, at) IN q \in Job /\ q.op = op /\ q.at = at
<1>1. ASSUME NEW q \in Job
      PROVE  LET r == [q EXCEPT !.op = op, !.at = at] IN r \in Job /\ r.op = op /\ r.at = at
  BY DEF Job
<1>2. QED
  BY <1>1, NoRequest DEF Kanban!Request

LEMMA ColumnBegins ==
  ASSUME KanbanInv, NEW j \in Requests, Kanban!BeginColumn(j)
  PROVE  KanbanInv'
<1>1. PICK op \in ColumnOps, b \in Docs, n \in Names, p \in 1..2 :
        /\ board[b] # None
        /\ \E id \in IF op = "add" THEN {<<n, jobbed + 1>>} ELSE Kanban!Ids(board[b]) :
             Kanban!Begin(j, [Kanban!Request(op, "read") EXCEPT !.board = b, !.id = id,
               !.pos = p, !.name = IF op \in {"add", "rename"} THEN n ELSE None])
  BY DEF Kanban!BeginColumn, ColumnOps
<1>2. PICK id \in IF op = "add" THEN {<<n, jobbed + 1>>} ELSE Kanban!Ids(board[b]) :
        Kanban!Begin(j, [Kanban!Request(op, "read") EXCEPT !.board = b, !.id = id,
          !.pos = p, !.name = IF op \in {"add", "rename"} THEN n ELSE None])
  BY <1>1
<1> DEFINE name == IF op \in {"add", "rename"} THEN n ELSE None
           r == Kanban!Request(op, "read")
           q == [r EXCEPT !.board = b, !.id = id, !.pos = p, !.name = name]
<1>3. jobbed < MaxJobs /\ jobbed \in Nat /\ MaxJobs \in Nat
  BY <1>2, Named0 DEF Kanban!Begin, KanbanInv, Kanban!TypeOK
<1>4. id \in ColumnIds /\ (op = "add" => id \in Names \X {jobbed + 1})
  <2>1. jobbed + 1 \in 1..MaxJobs
    BY <1>3
  <2>2. QED
    BY <1>1, <2>1, BoardIds DEF ColumnIds
<1>5. r \in Job /\ r.op = op /\ r.at = "read" /\ p \in Nat
  BY RequestMade DEF JobOps, Steps
<1> HIDE DEF name, r
<1>6. name \in Names \union {None} /\ (op \in {"add", "rename"} => name \in Names)
  BY DEF name
<1>7. /\ q \in Job /\ q.op = op /\ q.at = "read" /\ q.board = b /\ q.id = id /\ q.name = name
  BY <1>4, <1>5, <1>6 DEF Job
<1>8. Kanban!Begin(j, q)
  BY <1>2 DEF name, r
<1> HIDE DEF q
<1>9. Columned(q) /\ Placed(q)
  BY <1>6, <1>7 DEF Columned, Placed, ColumnOps
<1>10. QED
  BY <1>4, <1>7, <1>8, <1>9, JobBegins

LEMMA TodoBegins ==
  ASSUME KanbanInv, NEW j \in Requests,
         Kanban!BeginTodo(j) \/ Kanban!BeginUpdate(j) \/ Kanban!BeginDefault(j)
  PROVE  KanbanInv'
<1>1. ASSUME NEW op \in {"todo", "update", "default"},
             NEW at \in {"pick", "check", "read", "default"},
             NEW t \in Todos \union {None}, NEW b \in Docs \union {None},
             NEW n \in Names \union {None},
             Kanban!Begin(j, [Kanban!Request(op, at) EXCEPT !.todo = t, !.board = b, !.name = n]),
             \/ /\ op = "todo" /\ t \in Todos
                /\ \/ at = "pick" /\ b # None
                   \/ at = "check" /\ n \in Names
                   \/ at = "default"
             \/ op = "update" /\ t \in Todos /\ at = "read"
             \/ op = "default" /\ at = "default"
      PROVE  KanbanInv'
  <2> DEFINE r == Kanban!Request(op, at)
             q == [r EXCEPT !.todo = t, !.board = b, !.name = n]
  <2>1. r \in Job /\ r.op = op /\ r.at = at
    BY RequestMade DEF JobOps, Steps
  <2> HIDE DEF r
  <2>2. q \in Job /\ q.op = op /\ q.at = at /\ q.todo = t /\ q.name = n /\ q.board = b
    BY <2>1 DEF Job
  <2>3. Kanban!Begin(j, q)
    BY <1>1 DEF r
  <2> HIDE DEF q
  <2>4. Columned(q) /\ Placed(q)
    BY <1>1, <2>2 DEF Columned, Placed, ColumnOps
  <2>5. QED
    BY <1>1, <2>2, <2>3, <2>4, JobBegins
<1>2. CASE Kanban!BeginTodo(j)
  <2>1. PICK t \in Todos, b \in Docs \union {None}, n \in Names \union {None} :
          Kanban!Begin(j, [Kanban!Request("todo", IF n # None THEN "check"
                                                  ELSE IF b # None THEN "pick" ELSE "default")
                             EXCEPT !.todo = t, !.board = b, !.name = n])
    BY <1>2 DEF Kanban!BeginTodo
  <2>2. CASE n # None
    BY <1>1, <2>1, <2>2
  <2>3. CASE n = None /\ b # None
    BY <1>1, <2>1, <2>3
  <2>4. CASE n = None /\ b = None
    BY <1>1, <2>1, <2>4
  <2>5. QED
    BY <2>2, <2>3, <2>4
<1>3. CASE Kanban!BeginUpdate(j)
  BY <1>1, <1>3 DEF Kanban!BeginUpdate
<1>4. CASE Kanban!BeginDefault(j)
  <2> DEFINE q == Kanban!Request("default", "default")
  <2>1. q \in Job /\ q.op = "default" /\ q.at = "default" /\ Kanban!Begin(j, q)
    BY <1>4, RequestMade DEF Kanban!BeginDefault, JobOps, Steps
  <2> HIDE DEF q
  <2>2. Columned(q) /\ Placed(q)
    BY <2>1 DEF Columned, Placed, ColumnOps
  <2>3. QED
    BY <2>1, <2>2, JobBegins
<1>5. QED
  BY <1>2, <1>3, <1>4

\* A column's request reads its board.
LEMMA BoardRead ==
  ASSUME KanbanInv, NEW j \in Requests, Kanban!Read(j)
  PROVE  KanbanInv'
<1> DEFINE q == job[j]
           cs == board[q.board]
           n == [q EXCEPT !.at = "save", !.seen = cs, !.there = TRUE, !.fresh = TRUE]
<1>1. /\ q \in Job /\ q.op \in ColumnOps /\ q.at = "read" /\ q.board \in Docs /\ Columned(q)
      /\ UNCHANGED <<board, default, todo, torn, loose, split, jobbed>>
  BY DEF KanbanInv, Kanban!Read, Columned, ColumnOps
<1>2. CASE job' = Kanban!Finish(j)
  BY <1>1, <1>2, JobFinished
<1>3. CASE job' # Kanban!Finish(j)
  <2>1. /\ cs # None /\ (q.op # "add" => q.id \in Kanban!Ids(cs))
        /\ q.op = "drop" => ~(Len(cs) <= 1)
        /\ job' = [job EXCEPT ![j].at = "save", ![j].seen = cs, ![j].there = TRUE, ![j].fresh = TRUE]
    BY <1>3 DEF Kanban!Read
  <2>2. /\ cs \in Seq(Kanban!Column) /\ jobbed \in Nat
        /\ jobbed' \in Nat /\ jobbed <= jobbed' /\ jobbed' <= MaxJobs
    BY <1>1, <2>1, BoardIds
  <2>3. job' = [job EXCEPT ![j] = n]
    BY <2>1 DEF KanbanInv
  <2>4. /\ n \in Job /\ n.at = "save" /\ n.seen = cs /\ n.there /\ n.op = q.op /\ n.board = q.board
        /\ n.id = q.id /\ n.name = q.name
    BY <1>1, <2>2 DEF Job, Steps, Seen
  <2> HIDE DEF n
  <2>5. n.op = "drop" => Len(n.seen) > 1
    BY <2>1, <2>2, <2>4
  <2>6. Columned(n) /\ Placed(n)
    BY <1>1, <2>1, <2>2, <2>4, <2>5 DEF Columned, Placed, ColumnOps
  <2>7. QED
    BY <1>1, <2>2, <2>3, <2>4, <2>6, JobGoes
<1>4. QED
  BY <1>2, <1>3

\* What has read board b knows that it is not the latest.
LEMMA Outdates ==
  ASSUME KanbanInv, NEW j \in Requests, NEW b \in Docs, NEW S,
         job' = Kanban!Outdated(b, Kanban!Finish(j), S)
  PROVE  /\ job' \in [Requests -> Job] /\ Resting(job'[j])
         /\ \A i \in Requests \ {j} : /\ Older(job'[i], job[i])
                                      /\ Kanban!About(b, job[i]) /\ job[i].at \in S => ~job'[i].fresh
<1> DEFINE js == Kanban!Finish(j)
<1>1. /\ js \in [Requests -> Job] /\ js[j] = Kanban!NoJob
      /\ \A i \in Requests : i # j => js[i] = job[i]
  BY NoRequest DEF Kanban!Finish, KanbanInv
<1> HIDE DEF js
<1>2. job' = [i \in Requests |-> IF Kanban!About(b, js[i]) /\ js[i].at \in S
                               THEN [js[i] EXCEPT !.fresh = FALSE] ELSE js[i]]
  BY DEF Kanban!Outdated, js
<1>3. ASSUME NEW q \in Job
      PROVE  LET p == [q EXCEPT !.fresh = FALSE] IN
             p \in Job /\ ~p.fresh /\ Older(p, q) /\ Older(q, q)
  BY DEF Job, Older
<1>4. job' \in [Requests -> Job]
  BY <1>1, <1>2, <1>3
<1>5. Resting(job'[j])
  <2>1. job'[j] = [Kanban!NoJob EXCEPT !.fresh = FALSE] \/ job'[j] = Kanban!NoJob
    BY <1>1, <1>2
  <2>2. Older(job'[j], Kanban!NoJob)
    BY <1>3, <2>1, NoRequest
  <2>3. QED
    BY <2>2, NoRequest DEF Older, Resting
<1>6. ASSUME NEW i \in Requests \ {j}
      PROVE  /\ Older(job'[i], job[i])
             /\ Kanban!About(b, job[i]) /\ job[i].at \in S => ~job'[i].fresh
  <2>1. job[i] \in Job /\ js[i] = job[i]
    BY <1>1 DEF KanbanInv
  <2>2. QED
    BY <1>2, <1>3, <2>1
<1>7. QED
  BY <1>4, <1>5, <1>6

\* project_statuses.push and save.
LEMMA ColumnPushed ==
  ASSUME KanbanInv, NEW j \in Requests, Kanban!Push(j)
  PROVE  KanbanInv'
<1> DEFINE q == job[j]
           b == q.board
           new == [id |-> q.id, name |-> q.name, order |-> Len(q.seen) + 1]
           cs == Append(board[b], new)
<1>1. /\ q \in Job /\ q.op = "add" /\ q.at = "save" /\ b \in Docs /\ Columned(q)
      /\ q.seen \in Seq(Kanban!Column) /\ q.name \in Names /\ q.id \in Names \X (1..jobbed)
      /\ UNCHANGED <<default, todo, loose, split, jobbed>>
  BY DEF KanbanInv, Kanban!Push, Columned, ColumnOps, Named
<1>2. CASE ~q.there
  BY <1>1, <1>2, JobFinished DEF Kanban!Push
<1>3. CASE q.there
  <2>1. board[b] # None /\ (q.fresh => SameIds(q.seen, board[b]))
    BY <1>1, <1>3 DEF Columned, SameIds
  <2>2. /\ board[b] \in Seq(Kanban!Column) /\ Distinct(board[b])
        /\ Kanban!Ids(board[b]) \subseteq Names \union (Names \X (1..jobbed))
        /\ jobbed \in Nat /\ jobbed <= MaxJobs
    BY <1>1, <2>1, BoardIds
  <2>3. /\ board' = [board EXCEPT ![b] = cs] /\ job' = Kanban!Outdated(b, Kanban!Finish(j), {"save"})
        /\ torn' = IF q.fresh THEN torn ELSE torn \union {b}
    BY <1>3 DEF Kanban!Push, KanbanInv
  <2>4. new \in Kanban!Column /\ new.id = q.id /\ new.order = Len(q.seen) + 1
    <3>1. 1..jobbed \subseteq 1..MaxJobs
      BY <2>2, Named0
    <3>2. q.id \in Names \X (1..MaxJobs) /\ Len(q.seen) + 1 \in Nat
      BY <1>1, <3>1
    <3>3. QED
      BY <1>1, <3>2 DEF Kanban!Column
  <2> HIDE DEF new
  <2>5. /\ cs \in Seq(Kanban!Column) /\ cs # <<>> /\ DOMAIN cs = 1..Len(board[b]) + 1
        /\ DOMAIN board[b] = 1..Len(board[b]) /\ Len(board[b]) \in Nat
        /\ \A k \in DOMAIN board[b] : cs[k] = board[b][k]
        /\ cs[Len(board[b]) + 1] = new
    BY <2>2, <2>4, AppendProperties, LenProperties
  <2> HIDE DEF cs
  <2>6. \A k \in DOMAIN cs : (k \in DOMAIN board[b] /\ cs[k] = board[b][k])
                             \/ (k = Len(board[b]) + 1 /\ cs[k] = new)
    BY <2>5
  <2>7. Kanban!Ids(cs) \subseteq Kanban!Ids(board[b]) \union {q.id}
    BY <2>4, <2>6 DEF Kanban!Ids
  <2>8. q.id \notin Kanban!Ids(board[b])
    BY <1>1, <2>1 DEF KanbanInv, Named
  <2>9. Distinct(cs)
    BY <2>2, <2>4, <2>6, <2>8 DEF Distinct, Kanban!Ids
  <2>10. /\ job' \in [Requests -> Job] /\ Resting(job'[j])
         /\ \A i \in Requests \ {j} : /\ Older(job'[i], job[i])
                                      /\ job[i].board = b /\ job[i].at = "save" => ~job'[i].fresh
    BY <1>1, <2>3, Outdates DEF Kanban!About
  <2>11. cs # None
    BY <2>5, Named0
  <2>12. /\ Grows(b, cs)
         /\ \A i \in Requests : Follows(job'[i], job[i], b, cs)
    <3>1. \A k \in DOMAIN board[b] : k \in DOMAIN cs /\ cs[k] = board[b][k]
      BY <2>5
    <3>2. Grows(b, cs)
      BY <2>11, <3>1 DEF Grows, Kanban!Allowed, Kanban!Statuses, Kanban!Ids
    <3>3. QED
      BY <2>10, <2>11, <3>2 DEF Follows
  <2>13. ASSUME NEW i \in Requests, job'[i].op = "add"
         PROVE  job'[i].id \notin Kanban!Ids(cs)
    <3>1. i # j
      BY <2>10, <2>13 DEF Resting
    <3>2. job[i].op = "add" /\ job'[i].id = job[i].id
      BY <2>10, <2>13, <3>1 DEF Older
    <3>3. job[i].id # q.id /\ job[i].id \notin Kanban!Ids(board[b])
      BY <1>1, <2>1, <3>1, <3>2 DEF KanbanInv, Named
    <3>4. QED
      BY <2>7, <3>2, <3>3
  <2>14. b \notin torn' => \A k \in DOMAIN cs : cs[k].order = k
    <3>1. ASSUME b \notin torn' PROVE q.fresh /\ Len(q.seen) = Len(board[b])
      BY <2>1, <2>3, <3>1 DEF SameIds
    <3>2. b \notin torn' => \A k \in DOMAIN board[b] : board[b][k].order = k
      BY <1>1, <2>1, <2>3 DEF KanbanInv, Kanban!NumberedInOrder
    <3>3. QED
      BY <2>4, <2>6, <3>1, <3>2
  <2>15. \A t \in Todos \ loose : t \notin split /\ todo[t] # None /\ todo[t].board = b =>
           todo[t].status \in {cs[k].name : k \in DOMAIN cs} \union Kanban!Ids(cs)
    BY <2>12 DEF KanbanInv, Kanban!TodoFits, Grows, Kanban!Statuses
  <2>16. torn' \subseteq Docs /\ torn \subseteq torn' /\ loose \subseteq Todos
    BY <1>1, <2>3 DEF KanbanInv, Kanban!TypeOK
  <2>17. Kanban!Ids(cs) \subseteq Names \union (Names \X (1..jobbed))
    BY <1>1, <2>2, <2>7
  <2> HIDE DEF b, q
  <2>18. b \in Docs /\ UNCHANGED <<default, todo, loose, split, jobbed>>
    BY <1>1 DEF q, b
  <2>19. QED
    BY <2>3, <2>5, <2>9, <2>10, <2>11, <2>12, <2>13, <2>14, <2>15, <2>16, <2>17, <2>18, Rewritten
<1>4. QED
  BY <1>1, <1>2, <1>3 DEF Job

\* A reorder and a delete keep the columns apart, and one of them; the columns they
\* write are numbered as they stand.
LEMMA ReplacedKeeps ==
  ASSUME KanbanInv, NEW q \in Job, q.op \in {"order", "drop"}, q.seen \in Seq(Kanban!Column),
         q.id \in Kanban!Ids(q.seen), q.op = "drop" => Len(q.seen) > 1, Distinct(q.seen)
  PROVE  LET cs == Kanban!Replaced(q) IN
         /\ cs \in Seq(Kanban!Column) /\ cs # <<>> /\ Distinct(cs)
         /\ Kanban!Ids(cs) \subseteq Kanban!Ids(q.seen) /\ \A k \in DOMAIN cs : cs[k].order = k
<1> DEFINE seen == q.seen
<1>1. /\ DOMAIN seen = 1..Len(seen) /\ Len(seen) \in Nat
      /\ \A k \in DOMAIN seen : seen[k] \in Kanban!Column
  OBVIOUS
<1>2. IsFiniteSet(DOMAIN seen) /\ Cardinality(DOMAIN seen) = Len(seen)
  <2>1. ASSUME NEW n \in Nat PROVE IsFiniteSet(1..n) /\ Cardinality(1..n) = n
    BY FS_Interval
  <2>2. QED
    BY <1>1, <2>1
<1>3. ASSUME NEW t \in Seq(Kanban!Column), Distinct(t), Len(t) # 0, Kanban!Ids(t) \subseteq Kanban!Ids(seen)
      PROVE  LET cs == Kanban!Renumbered(t) IN
             /\ cs \in Seq(Kanban!Column) /\ cs # <<>> /\ Distinct(cs)
             /\ Kanban!Ids(cs) \subseteq Kanban!Ids(seen) /\ \A k \in DOMAIN cs : cs[k].order = k
  BY <1>3, ColumnsNumbered
<1>4. CASE q.op = "order"
  <2> DEFINE p == Kanban!At(seen, q.id)
             e == [seen[p] EXCEPT !.order = q.pos]
             s == [seen EXCEPT ![p].order = q.pos]
             key == [k \in DOMAIN s |-> s[k].order]
             t == Kanban!Sorted(s)
  <2>1. p \in DOMAIN seen
    BY DEF Kanban!At, Kanban!Ids
  <2>2. q.pos \in Nat
    BY DEF Job
  <2>3. e \in Kanban!Column /\ e.id = seen[p].id
    BY <1>1, <2>1, <2>2 DEF Kanban!Column
  <2>4. s = [seen EXCEPT ![p] = e]
    OBVIOUS
  <2> HIDE DEF p, e, s, seen
  <2>5. s \in Seq(Kanban!Column) /\ Len(s) = Len(seen) /\ DOMAIN s = DOMAIN seen
    BY <1>1, <2>1, <2>3, <2>4 DEF seen
  <2>6. \A k \in DOMAIN s : s[k].id = seen[k].id /\ s[k] \in Kanban!Column
    BY <1>1, <2>1, <2>3, <2>4, <2>5
  <2>7. Distinct(s) /\ Kanban!Ids(s) \subseteq Kanban!Ids(seen)
    BY <2>5, <2>6 DEF Distinct, Kanban!Ids, seen
  <2>8. \A k \in DOMAIN s : key[k] \in Nat
    BY <2>6 DEF Kanban!Column
  <2>9. t = Kanban!Taken(s, Kanban!By(DOMAIN s, key))
    BY DEF Kanban!Sorted
  <2> HIDE DEF key
  <2>10. /\ t \in Seq(Kanban!Column) /\ Len(t) = Len(seen) /\ Distinct(t)
         /\ Kanban!Ids(t) \subseteq Kanban!Ids(seen)
    BY <1>2, <2>5, <2>7, <2>8, <2>9, ColumnsTaken
  <2>11. Len(seen) # 0
    BY <1>1, <2>1
  <2>12. Kanban!Replaced(q) = Kanban!Renumbered(t)
    BY <1>4 DEF Kanban!Replaced, s, p, seen
  <2> HIDE DEF t
  <2>13. QED
    BY <1>3, <2>10, <2>11, <2>12 DEF seen
<1>5. CASE q.op = "drop"
  <2> DEFINE left == {k \in DOMAIN seen : seen[k].id # q.id}
             key == [k \in left |-> 0]
             t == Kanban!Without(seen, q.id)
  <2>1. \E k \in left : TRUE
    <3>1. 1 \in DOMAIN seen /\ 2 \in DOMAIN seen
      BY <1>1, <1>5
    <3>2. seen[1].id # seen[2].id
      BY <3>1 DEF Distinct
    <3>3. QED
      BY <3>1, <3>2
  <2>2. t = Kanban!Taken(seen, Kanban!By(left, key))
    BY DEF Kanban!Without
  <2>3. left \in SUBSET DOMAIN seen /\ \A k \in left : key[k] \in Nat
    OBVIOUS
  <2> HIDE DEF left, key
  <2>4. /\ t \in Seq(Kanban!Column) /\ Len(t) = Cardinality(left) /\ Distinct(t)
        /\ Kanban!Ids(t) \subseteq Kanban!Ids(seen)
    BY <2>2, <2>3, ColumnsTaken
  <2>5. Cardinality(left) # 0
    BY <1>2, <2>1, <2>3, FS_Subset, FS_EmptySet
  <2>6. Kanban!Replaced(q) = Kanban!Renumbered(t)
    BY <1>5 DEF Kanban!Replaced
  <2> HIDE DEF t
  <2>7. QED
    BY <1>3, <2>4, <2>5, <2>6
<1>6. QED
  BY <1>4, <1>5

\* A board whose todos are all marked as loose, and which keeps its ids.
LEMMA ColumnsReplaced ==
  ASSUME KanbanInv, NEW j \in Requests, Kanban!Replace(j)
  PROVE  KanbanInv'
<1> DEFINE q == job[j]
           b == q.board
           cs == Kanban!Replaced(q)
<1>1. /\ q \in Job /\ q.op \in {"order", "drop"} /\ q.at = "save" /\ b \in Docs /\ Columned(q)
      /\ q.seen \in Seq(Kanban!Column) /\ q.id \in Kanban!Ids(q.seen)
      /\ q.op = "drop" => Len(q.seen) > 1
  BY DEF KanbanInv, Kanban!Replace, Columned, ColumnOps
<1>2. UNCHANGED <<default, todo, torn, split, jobbed>>
  BY DEF Kanban!Replace
<1>3. CASE ~Kanban!Saves(q)
  BY <1>2, <1>3, JobFinished DEF Kanban!Replace
<1>4. CASE Kanban!Saves(q)
  <2>1. board[b] # None /\ SameIds(q.seen, board[b])
    BY <1>1, <1>4 DEF Columned, SameIds, Kanban!Saves
  <2>2. /\ board[b] \in Seq(Kanban!Column) /\ Distinct(board[b])
        /\ Kanban!Ids(board[b]) \subseteq Names \union (Names \X (1..jobbed))
    BY <1>1, <2>1, BoardIds
  <2>3. DOMAIN q.seen = 1..Len(q.seen) /\ DOMAIN board[b] = 1..Len(board[b])
    BY <1>1, <2>2
  <2>4. DOMAIN q.seen = DOMAIN board[b] /\ \A k \in DOMAIN q.seen : q.seen[k].id = board[b][k].id
    BY <2>1, <2>3 DEF SameIds
  <2>5. Distinct(q.seen) /\ Kanban!Ids(q.seen) \subseteq Kanban!Ids(board[b])
    BY <2>2, <2>4 DEF Distinct, Kanban!Ids
  <2>6. /\ cs \in Seq(Kanban!Column) /\ cs # <<>> /\ Distinct(cs)
        /\ Kanban!Ids(cs) \subseteq Kanban!Ids(q.seen) /\ \A k \in DOMAIN cs : cs[k].order = k
    BY <1>1, <2>5, ReplacedKeeps
  <2>7. /\ board' = [board EXCEPT ![b] = cs] /\ job' = Kanban!Outdated(b, Kanban!Finish(j), {"save", "write"})
        /\ loose' = loose \union Kanban!On(b)
    BY <1>4 DEF Kanban!Replace
  <2> HIDE DEF cs
  <2>8. /\ job' \in [Requests -> Job] /\ Resting(job'[j])
        /\ \A i \in Requests \ {j} : /\ Older(job'[i], job[i])
                                     /\ (job[i].board = b \/ job[i].on = b)
                                        /\ job[i].at \in {"save", "write"} => ~job'[i].fresh
    BY <1>1, <2>7, Outdates DEF Kanban!About
  <2>9. cs # None
    BY <2>6, Named0
  <2>10. \A i \in Requests : Follows(job'[i], job[i], b, cs)
    BY <2>8, <2>9 DEF Follows
  <2>11. ASSUME NEW i \in Requests, job'[i].op = "add"
         PROVE  job'[i].id \notin Kanban!Ids(cs)
    <3>1. i # j
      BY <2>8, <2>11 DEF Resting
    <3>2. job[i].op = "add" /\ job'[i].id = job[i].id
      BY <2>8, <2>11, <3>1 DEF Older
    <3>3. job[i].id \notin Kanban!Ids(board[b])
      BY <1>1, <2>1, <3>2 DEF KanbanInv, Named
    <3>4. QED
      BY <2>5, <2>6, <3>2, <3>3
  <2>12. \A t \in Todos \ loose' : ~(todo[t] # None /\ todo[t].board = b)
    BY <2>7 DEF Kanban!On
  <2>13. /\ torn' \subseteq Docs /\ torn \subseteq torn' /\ default' = default
         /\ loose' \subseteq Todos /\ loose \subseteq loose'
    BY <1>2, <2>7 DEF KanbanInv, Kanban!TypeOK, Kanban!On
  <2>14. Kanban!Ids(cs) \subseteq Names \union (Names \X (1..jobbed))
    BY <2>2, <2>5, <2>6
  <2> HIDE DEF b, q
  <2>15. b \in Docs
    BY <1>1 DEF q, b
  <2>16. QED
    BY <1>2, <2>6, <2>7, <2>8, <2>9, <2>10, <2>11, <2>12, <2>13, <2>14, <2>15, Rewritten
<1>5. QED
  BY <1>3, <1>4

\* A name is set in its place.
LEMMA ColumnRenamed ==
  ASSUME KanbanInv, NEW j \in Requests, Kanban!Rename(j)
  PROVE  KanbanInv'
<1> DEFINE q == job[j]
           b == q.board
           p == Kanban!At(q.seen, q.id)
           e == [board[b][p] EXCEPT !.name = q.name]
           cs == [board[b] EXCEPT ![p] = e]
<1>1. /\ q \in Job /\ q.op = "rename" /\ q.at = "save" /\ b \in Docs /\ Columned(q)
      /\ q.seen \in Seq(Kanban!Column) /\ q.id \in Kanban!Ids(q.seen) /\ q.name \in Names
  BY DEF KanbanInv, Kanban!Rename, Columned, ColumnOps
<1>2. UNCHANGED <<default, todo, torn, split, jobbed>>
  BY DEF Kanban!Rename
<1>3. CASE ~Kanban!Saves(q)
  BY <1>2, <1>3, JobFinished DEF Kanban!Rename
<1>4. CASE Kanban!Saves(q)
  <2>1. board[b] # None /\ SameIds(q.seen, board[b])
    BY <1>1, <1>4 DEF Columned, SameIds, Kanban!Saves
  <2>2. /\ board[b] \in Seq(Kanban!Column) /\ Distinct(board[b]) /\ board[b] # <<>>
        /\ Kanban!Ids(board[b]) \subseteq Names \union (Names \X (1..jobbed))
    BY <1>1, <2>1, BoardIds
  <2>3. DOMAIN q.seen = 1..Len(q.seen) /\ DOMAIN board[b] = 1..Len(board[b])
        /\ \A k \in DOMAIN board[b] : board[b][k] \in Kanban!Column
    BY <1>1, <2>2
  <2>4. p \in DOMAIN board[b]
    <3>1. p \in DOMAIN q.seen
      BY <1>1 DEF Kanban!At, Kanban!Ids
    <3>2. QED
      BY <2>1, <2>3, <3>1 DEF SameIds
  <2> HIDE DEF p
  <2>5. e \in Kanban!Column /\ e.id = board[b][p].id /\ e.order = board[b][p].order
    BY <1>1, <2>3, <2>4 DEF Kanban!Column
  <2>6. board' = [board EXCEPT ![b] = cs]
    BY <1>4 DEF Kanban!Rename, KanbanInv, p
  <2>7. /\ job' = Kanban!Outdated(b, Kanban!Finish(j), {"write"})
        /\ loose' = loose \union Kanban!On(b)
    BY <1>4 DEF Kanban!Rename
  <2> HIDE DEF e
  <2>8. /\ cs \in Seq(Kanban!Column) /\ Len(cs) = Len(board[b]) /\ DOMAIN cs = DOMAIN board[b]
        /\ \A k \in DOMAIN cs : cs[k].id = board[b][k].id /\ cs[k].order = board[b][k].order
    BY <2>2, <2>3, <2>4, <2>5
  <2> HIDE DEF cs
  <2>9. Distinct(cs) /\ cs # <<>> /\ Kanban!Ids(cs) = Kanban!Ids(board[b])
    <3>1. Distinct(cs)
      BY <2>2, <2>8 DEF Distinct
    <3>2. Kanban!Ids(cs) = Kanban!Ids(board[b])
      BY <2>8 DEF Kanban!Ids
    <3>3. Len(board[b]) # 0 /\ Len(<<>>) = 0
      BY <2>2, <2>3, <2>4
    <3>4. QED
      BY <2>8, <3>1, <3>2, <3>3
  <2>10. cs # None
    BY <2>8, Named0
  <2>12. /\ job' \in [Requests -> Job] /\ Resting(job'[j])
         /\ \A i \in Requests \ {j} :
              /\ Older(job'[i], job[i])
              /\ job[i].on = b /\ job[i].at = "write" => ~job'[i].fresh
    BY <1>1, <2>7, Outdates DEF Kanban!About
  <2>13. ASSUME NEW i \in Requests PROVE Follows(job'[i], job[i], b, cs)
    <3>1. CASE i = j
      BY <2>12, <3>1 DEF Follows
    <3>2. CASE i # j
      <4>1. ASSUME job[i].board = b, job[i].at = "save", job'[i].there, job'[i].fresh
            PROVE  SameIds(job[i].seen, cs)
        <5>1. job[i].there /\ job[i].fresh /\ Columned(job[i])
          BY <2>12, <3>2, <4>1 DEF Older, KanbanInv
        <5>2. SameIds(job[i].seen, board[b]) /\ job[i].seen \in Seq(Kanban!Column)
          BY <4>1, <5>1 DEF Columned, SameIds
        <5>3. DOMAIN job[i].seen = DOMAIN board[b]
          BY <2>3, <5>2 DEF SameIds
        <5>4. QED
          BY <2>8, <5>2, <5>3 DEF SameIds
      <4>2. QED
        BY <2>10, <2>12, <3>2, <4>1 DEF Follows
    <3>3. QED
      BY <3>1, <3>2
  <2>14. ASSUME NEW i \in Requests, job'[i].op = "add"
         PROVE  job'[i].id \notin Kanban!Ids(cs)
    <3>1. i # j
      BY <2>12, <2>14 DEF Resting
    <3>2. job[i].op = "add" /\ job'[i].id = job[i].id
      BY <2>12, <2>14, <3>1 DEF Older
    <3>3. job[i].id \notin Kanban!Ids(board[b])
      BY <1>1, <2>1, <3>2 DEF KanbanInv, Named
    <3>4. QED
      BY <2>9, <3>2, <3>3
  <2>15. b \notin torn => \A k \in DOMAIN cs : cs[k].order = k
    BY <1>1, <2>1, <2>8 DEF KanbanInv, Kanban!NumberedInOrder
  <2>16. \A t \in Todos \ loose' : ~(todo[t] # None /\ todo[t].board = b)
    BY <2>7 DEF Kanban!On
  <2>17. /\ torn' \subseteq Docs /\ torn \subseteq torn' /\ default' = default
         /\ loose' \subseteq Todos /\ loose \subseteq loose'
    BY <1>2, <2>7 DEF KanbanInv, Kanban!TypeOK, Kanban!On
  <2>18. Kanban!Ids(cs) \subseteq Names \union (Names \X (1..jobbed))
    BY <2>2, <2>9
  <2> HIDE DEF b, q
  <2>19. b \in Docs
    BY <1>1 DEF q, b
  <2>20. QED
    BY <1>2, <2>6, <2>8, <2>9, <2>10, <2>12, <2>13, <2>14, <2>15, <2>16, <2>17, <2>18, <2>19, Rewritten
<1>5. QED
  BY <1>3, <1>4

LEMMA FirstColumns ==
  LET cs == Kanban!NewBoard IN
  /\ cs \in Seq(Kanban!Column) /\ cs # <<>> /\ Distinct(cs)
  /\ Kanban!Ids(cs) \subseteq Names /\ \A k \in DOMAIN cs : cs[k].order = k
<1> DEFINE cs == Kanban!NewBoard
<1>1. /\ DOMAIN Defaults = 1..Len(Defaults) /\ Len(Defaults) \in Nat /\ Len(Defaults) # 0
      /\ \A k \in DOMAIN Defaults : Defaults[k] \in Names
  BY Named0
<1>2. cs = [k \in DOMAIN Defaults |-> [id |-> Defaults[k], name |-> Defaults[k], order |-> k]]
  BY DEF Kanban!NewBoard
<1> HIDE DEF cs
<1>3. \A k \in DOMAIN Defaults : cs[k] \in Kanban!Column /\ cs[k].id = Defaults[k] /\ cs[k].order = k
  BY <1>1, <1>2 DEF Kanban!Column
<1>4. cs \in [1..Len(Defaults) -> Kanban!Column] /\ DOMAIN cs = DOMAIN Defaults
  BY <1>1, <1>2, <1>3
<1>5. cs \in Seq(Kanban!Column) /\ Len(cs) = Len(Defaults)
  BY <1>1, <1>4
<1>6. cs # <<>>
  BY <1>1, <1>5
<1>7. Distinct(cs)
  BY <1>3, <1>4, Named0 DEF Distinct
<1>8. Kanban!Ids(cs) \subseteq Names
  BY <1>1, <1>3, <1>4 DEF Kanban!Ids
<1>9. QED
  BY <1>3, <1>4, <1>5, <1>6, <1>7, <1>8 DEF cs

\* A board is made with its first columns: no request knows of it, and no todo.
LEMMA BoardMade ==
  ASSUME KanbanInv, NEW b \in Docs, board[b] = None, board' = [board EXCEPT ![b] = Kanban!NewBoard],
         \A i \in Requests : job[i].board # b,
         job' \in [Requests -> Job],
         \A i \in Requests : \/ job'[i] = job[i] \/ Resting(job'[i])
                             \/ Settled(job'[i], b, Kanban!NewBoard),
         default' \in {default, b}, torn \ {b} \subseteq torn', torn' \subseteq Docs,
         UNCHANGED <<todo, loose, split, jobbed>>
  PROVE  KanbanInv'
<1> DEFINE cs == Kanban!NewBoard
<1>1. /\ cs \in Seq(Kanban!Column) /\ cs # <<>> /\ Distinct(cs)
      /\ Kanban!Ids(cs) \subseteq Names /\ \A k \in DOMAIN cs : cs[k].order = k
  BY FirstColumns
<1>2. cs # None
  BY <1>1, Named0
<1>3. \A q : Older(q, q)
  BY DEF Older
<1>4. ASSUME NEW i \in Requests PROVE Follows(job'[i], job[i], b, cs)
  <2>1. CASE Resting(job'[i]) \/ Settled(job'[i], b, cs)
    BY <2>1 DEF Follows
  <2>2. CASE job'[i] = job[i]
    <3>1. job[i].on = b /\ job[i].at = "write" => ~job[i].fresh
      BY DEF KanbanInv, Placed, Fits
    <3>2. QED
      BY <1>3, <2>2, <3>1 DEF Follows
  <2>3. QED
    BY <2>1, <2>2
<1>5. ASSUME NEW i \in Requests, job'[i].op = "add" PROVE job'[i].id \notin Kanban!Ids(cs)
  <2>1. job[i].op = "add" /\ job'[i].id = job[i].id
    BY <1>5 DEF Resting, Settled
  <2>2. job[i].id \in Names \X (1..jobbed) /\ jobbed \in Nat /\ jobbed <= MaxJobs
    BY <2>1, Named0 DEF KanbanInv, Named, Kanban!TypeOK
  <2>3. job[i].id \in Names \X (1..MaxJobs)
    BY <2>2, Named0
  <2>4. QED
    BY <1>1, <2>1, <2>3, Named0
<1>6. \A t \in Todos \ loose' : ~(t \notin split /\ todo[t] # None /\ todo[t].board = b)
  BY DEF KanbanInv, Kanban!TodoFits
<1>7. loose' \subseteq Todos /\ loose \subseteq loose' /\ UNCHANGED <<todo, jobbed>>
  BY DEF KanbanInv, Kanban!TypeOK
<1> HIDE DEF cs
<1>8. board' = [board EXCEPT ![b] = cs]
  BY DEF cs
<1>9. QED
  BY <1>1, <1>2, <1>4, <1>5, <1>6, <1>7, <1>8, Rewritten

LEMMA BoardCreated ==
  ASSUME KanbanInv, NEW b \in Docs, Kanban!CreateBoard(b)
  PROVE  KanbanInv'
<1>1. /\ board[b] = None /\ board' = [board EXCEPT ![b] = Kanban!NewBoard]
      /\ \A i \in Requests : job[i].board # b
      /\ torn' = torn \ {b} /\ UNCHANGED <<todo, job, loose, split, jobbed>>
  BY DEF Kanban!CreateBoard, Kanban!Unused, Kanban!About
<1>2. job' \in [Requests -> Job] /\ default' \in {default, b} /\ torn' \subseteq Docs
  BY <1>1 DEF KanbanInv, Kanban!TypeOK, Kanban!CreateBoard
<1>3. QED
  BY <1>1, <1>2, BoardMade

\* What becomes of a request that has found project b as the default, with columns cs.
LEMMA DefaultFound ==
  ASSUME KanbanInv, NEW j \in Requests, NEW b \in Docs, NEW cs \in Seq(Kanban!Column),
         cs # <<>>, job[j].at \in {"default", "make"}
  PROVE  LET n == Kanban!Resolved(job[j], b, cs) IN
         /\ n \in Job /\ (Resting(n) \/ Settled(n, b, cs)) /\ n.op # "add"
<1> DEFINE q == job[j]
           n == Kanban!Resolved(q, b, cs)
<1>1. q \in Job /\ Placed(q)
  BY DEF KanbanInv
<1>2. CASE q.op = "default"
  <2>1. n = Kanban!NoJob
    BY <1>2 DEF Kanban!Resolved
  <2>2. QED
    BY <2>1, NoRequest DEF Resting
<1>3. CASE q.op # "default" /\ q.name = None
  <2> DEFINE first == cs[1].name
  <2>1. first \in Names
    <3>1. cs[1] \in Kanban!Column
      OBVIOUS
    <3>2. QED
      BY <3>1 DEF Kanban!Column
  <2>2. n = [q EXCEPT !.at = "check", !.name = first]
    BY <1>3 DEF Kanban!Resolved, Kanban!Picked
  <2> HIDE DEF first, n
  <2>3. n \in Job /\ n.op = q.op /\ n.at = "check" /\ n.todo = q.todo /\ n.name = first
    BY <1>1, <2>1, <2>2 DEF Job, Steps
  <2>4. q.op = "todo" /\ q.todo \in Todos
    BY <1>1, <1>3 DEF Placed
  <2>5. QED
    BY <2>1, <2>3, <2>4 DEF Resting, n
<1>4. CASE q.op # "default" /\ q.name # None
  <2>1. q.op = "todo" /\ q.todo \in Todos /\ q.name \in Names
    BY <1>1, <1>4 DEF Placed, Job
  <2>2. n = IF q.name \notin Kanban!Statuses(cs) THEN Kanban!NoJob
            ELSE [q EXCEPT !.at = "write", !.on = b, !.fresh = TRUE]
    BY <1>4, Named0 DEF Kanban!Resolved, Kanban!Checked, Kanban!Target
  <2>3. CASE q.name \notin Kanban!Statuses(cs)
    BY <2>2, <2>3, NoRequest DEF Resting
  <2>4. CASE q.name \in Kanban!Statuses(cs)
    <3> HIDE DEF n
    <3>1. n = [q EXCEPT !.at = "write", !.on = b, !.fresh = TRUE]
      BY <2>2, <2>4
    <3>2. /\ n \in Job /\ n.op = "todo" /\ n.at = "write" /\ n.todo = q.todo /\ n.name = q.name
          /\ n.on = b
      BY <1>1, <2>1, <3>1 DEF Job, Steps
    <3>3. QED
      BY <1>4, <2>1, <2>4, <3>2, Named0 DEF Settled, n
  <2>5. QED
    BY <2>3, <2>4
<1>5. QED
  BY <1>2, <1>3, <1>4

LEMMA DefaultKeeps ==
  ASSUME KanbanInv, NEW j \in Requests, Kanban!Default(j) \/ Kanban!MakeDefault(j)
  PROVE  KanbanInv'
<1>0. /\ job[j] \in Job /\ Columned(job[j]) /\ Placed(job[j]) /\ default \in Docs \union {None}
      /\ jobbed \in Nat /\ jobbed <= MaxJobs
  BY Named0 DEF KanbanInv, Kanban!TypeOK
<1>1. CASE Kanban!Default(j)
  <2>1. job[j].at = "default" /\ UNCHANGED <<board, default, todo, torn, loose, split, jobbed>>
    BY <1>1 DEF Kanban!Default
  <2>2. CASE default = None
    <3> DEFINE n == [job[j] EXCEPT !.at = "make"]
    <3>1. job' = [job EXCEPT ![j] = n]
      BY <1>1, <2>2 DEF Kanban!Default, KanbanInv
    <3>2. n \in Job /\ n.op = job[j].op /\ n.at = "make" /\ n.todo = job[j].todo
      BY <1>0 DEF Job, Steps
    <3> HIDE DEF n
    <3>3. Columned(n) /\ Placed(n) /\ n.op # "add"
      BY <1>0, <2>1, <3>2 DEF Columned, Placed, ColumnOps
    <3>4. jobbed' \in Nat /\ jobbed <= jobbed' /\ jobbed' <= MaxJobs
      BY <1>0, <2>1
    <3>5. QED
      BY <2>1, <3>1, <3>2, <3>3, <3>4, JobGoes
  <2>3. CASE default # None
    <3> DEFINE cs == board[default]
               n == Kanban!Resolved(job[j], default, cs)
    <3>1. default \in Docs /\ job' = [job EXCEPT ![j] = n]
      BY <1>0, <1>1, <2>3 DEF Kanban!Default, KanbanInv
    <3>2. CASE cs = None
      BY <2>3, <3>2 DEF KanbanInv, DefaultThere
    <3>3. CASE cs # None
      <4>1. cs \in Seq(Kanban!Column) /\ cs # <<>>
        BY <3>1, <3>3 DEF KanbanInv, Named
      <4>2. n \in Job /\ (Resting(n) \/ Settled(n, default, cs)) /\ n.op # "add"
        BY <2>1, <3>1, <4>1, DefaultFound
      <4> HIDE DEF n
      <4>3. Columned(n)
        BY <4>2 DEF Resting, Settled, Columned, ColumnOps
      <4>4. Placed(n)
        <5>1. CASE Resting(n)
          BY <5>1 DEF Resting, Placed
        <5>2. CASE Settled(n, default, cs)
          <6>1. Kanban!Target(n).status = n.name
            BY <5>2 DEF Settled, Kanban!Target
          <6>2. Fits(default, n.name)
            BY <3>1, <5>2 DEF Settled, Fits, Kanban!Allowed
          <6>3. QED
            BY <3>1, <5>2, <6>1, <6>2 DEF Settled, Placed
        <5>3. QED
          BY <4>2, <5>1, <5>2
      <4>5. jobbed' \in Nat /\ jobbed <= jobbed' /\ jobbed' <= MaxJobs
        BY <1>0, <2>1
      <4>6. QED
        BY <2>1, <3>1, <4>2, <4>3, <4>4, <4>5, JobGoes
    <3>4. QED
      BY <3>2, <3>3
  <2>4. QED
    BY <2>2, <2>3
<1>2. CASE Kanban!MakeDefault(j)
  <2>1. job[j].at = "make" /\ UNCHANGED <<todo, torn, loose, split, jobbed>>
    BY <1>2 DEF Kanban!MakeDefault
  <2>2. CASE default # None
    BY <1>2, <2>1, <2>2, JobFinished DEF Kanban!MakeDefault
  <2>3. CASE default = None
    <3>1. PICK b \in Docs :
            /\ board[b] = None /\ \A i \in Requests : job[i].board # b
            /\ board' = [board EXCEPT ![b] = Kanban!NewBoard] /\ default' = b
            /\ job' = [job EXCEPT ![j] = Kanban!Resolved(job[j], b, Kanban!NewBoard)]
      BY <1>2, <2>3 DEF Kanban!MakeDefault, Kanban!Unused, Kanban!About, KanbanInv
    <3> DEFINE n == Kanban!Resolved(job[j], b, Kanban!NewBoard)
    <3>2. n \in Job /\ (Resting(n) \/ Settled(n, b, Kanban!NewBoard))
      BY <2>1, FirstColumns, DefaultFound
    <3> HIDE DEF n
    <3>3. /\ job' \in [Requests -> Job]
          /\ \A i \in Requests : \/ job'[i] = job[i] \/ Resting(job'[i])
                                 \/ Settled(job'[i], b, Kanban!NewBoard)
      BY <3>1, <3>2 DEF KanbanInv, n
    <3>4. torn \ {b} \subseteq torn' /\ torn' \subseteq Docs
      BY <2>1 DEF KanbanInv, Kanban!TypeOK
    <3>5. QED
      BY <2>1, <3>1, <3>3, <3>4, BoardMade
  <2>4. QED
    BY <2>2, <2>3
<1>3. QED
  BY <1>1, <1>2

\* Whoever has read a board that is gone does not find it.
LEMMA BoardDeleted ==
  ASSUME KanbanInv, NEW b \in Docs, Kanban!DeleteBoard(b)
  PROVE  KanbanInv'
<1>1. /\ board' = [board EXCEPT ![b] = None] /\ UNCHANGED <<todo, torn, split, jobbed>>
      /\ loose' = loose \union Kanban!On(b)
      /\ job' = [i \in Requests |-> IF Kanban!About(b, job[i])
                                    THEN [job[i] EXCEPT !.there = FALSE, !.fresh = FALSE] ELSE job[i]]
  BY DEF Kanban!DeleteBoard, Kanban!Orphaned
<1>2. ASSUME NEW q \in Job
      PROVE  LET p == [q EXCEPT !.there = FALSE, !.fresh = FALSE] IN
             p \in Job /\ ~p.fresh /\ ~p.there /\ Older(p, q) /\ Older(q, q)
  BY DEF Job, Older
<1>3. \A i \in Requests : job[i] \in Job
  BY DEF KanbanInv
<1>4. job' \in [Requests -> Job]
  BY <1>1, <1>2, <1>3
<1>5. ASSUME NEW i \in Requests PROVE Follows(job'[i], job[i], b, None)
  BY <1>1, <1>2, <1>3 DEF Follows, Kanban!About
<1>6. \A t \in Todos \ loose' : ~(todo[t] # None /\ todo[t].board = b)
  BY <1>1 DEF Kanban!On
<1>7. /\ torn' \subseteq Docs /\ torn \ {b} \subseteq torn' /\ default' \in {None, default} /\ default' # b
      /\ loose' \subseteq Todos /\ loose \subseteq loose'
  BY <1>1, Named0 DEF KanbanInv, Kanban!TypeOK, Kanban!On, Kanban!DeleteBoard
<1>8. QED
  BY <1>1, <1>4, <1>5, <1>6, <1>7, Rewritten

\* A request goes on as n, with all else as it was.
LEMMA JobProceeds ==
  ASSUME KanbanInv, NEW j \in Requests, NEW n \in Job, job' = [job EXCEPT ![j] = n],
         UNCHANGED <<board, default, todo, torn, loose, split, jobbed>>, Columned(n), Placed(n), n.op # "add"
  PROVE  KanbanInv'
<1>1. jobbed' \in Nat /\ jobbed <= jobbed' /\ jobbed' <= MaxJobs
  BY Named0 DEF KanbanInv, Kanban!TypeOK
<1>2. QED
  BY <1>1, JobGoes

\* A project's first status is picked.
LEMMA StatusPicked ==
  ASSUME KanbanInv, NEW j \in Requests, Kanban!Pick(j)
  PROVE  KanbanInv'
<1> DEFINE q == job[j]
<1>1. /\ q \in Job /\ q.op = "todo" /\ q.at = "pick" /\ q.todo \in Todos
      /\ q.board # None /\ UNCHANGED <<board, default, todo, torn, loose, split, jobbed>>
  BY DEF KanbanInv, Kanban!Pick, Placed
<1>2. CASE board[q.board] = None
  BY <1>1, <1>2, JobFinished DEF Kanban!Pick, Kanban!Finish
<1>3. CASE board[q.board] # None
  <2> DEFINE first == board[q.board][1].name
             n == [q EXCEPT !.at = "check", !.name = first]
  <2>1. job' = [job EXCEPT ![j] = n]
    BY <1>3 DEF Kanban!Pick, Kanban!Picked, KanbanInv
  <2>2. first \in Names
    <3>1. q.board \in Docs
      BY <1>1, <1>3 DEF Job
    <3>2. board[q.board] \in Seq(Kanban!Column) /\ board[q.board] # <<>>
      BY <1>3, <3>1, BoardIds
    <3>3. board[q.board][1] \in Kanban!Column
      BY <3>2
    <3>4. QED
      BY <3>3 DEF Kanban!Column
  <2> HIDE DEF first
  <2>3. n \in Job /\ n.op = "todo" /\ n.at = "check" /\ n.todo = q.todo /\ n.name = first
    BY <1>1, <2>2 DEF Job, Steps
  <2> HIDE DEF n
  <2>4. Columned(n) /\ Placed(n)
    BY <1>1, <2>2, <2>3 DEF Columned, Placed, ColumnOps
  <2>5. QED
    BY <1>1, <2>1, <2>3, <2>4, JobProceeds
<1>4. QED
  BY <1>2, <1>3

LEMMA TodoRead ==
  ASSUME KanbanInv, NEW j \in Requests, Kanban!ReadTodo(j)
  PROVE  KanbanInv'
<1> DEFINE q == job[j]
           seen == <<todo[q.todo]>>
           n == [q EXCEPT !.at = "check", !.seen = seen]
<1>1. /\ q \in Job /\ q.op = "update" /\ q.at = "read" /\ q.todo \in Todos
      /\ UNCHANGED <<board, default, todo, torn, loose, split, jobbed>>
  BY DEF KanbanInv, Kanban!ReadTodo, Placed
<1>2. CASE todo[q.todo] = None
  BY <1>1, <1>2, JobFinished DEF Kanban!ReadTodo
<1>3. CASE todo[q.todo] # None
  <2>1. job' = [job EXCEPT ![j] = n]
    BY <1>3 DEF Kanban!ReadTodo, KanbanInv
  <2>2. seen \in Seq(Todo) /\ Len(seen) = 1
    <3>1. todo[q.todo] \in Todo
      BY <1>1, <1>3 DEF KanbanInv
    <3>2. QED
      BY <3>1
  <2> HIDE DEF seen
  <2>3. n \in Job /\ n.op = "update" /\ n.at = "check" /\ n.todo = q.todo /\ n.seen = seen
    BY <1>1, <2>2 DEF Job, Steps, Seen
  <2> HIDE DEF n
  <2>4. Columned(n) /\ Placed(n)
    BY <1>1, <2>2, <2>3 DEF Columned, Placed, ColumnOps
  <2>5. QED
    BY <1>1, <2>1, <2>3, <2>4, JobProceeds
<1>4. QED
  BY <1>2, <1>3

\* ensureProjectAndStatus.
LEMMA TodoChecked ==
  ASSUME KanbanInv, NEW j \in Requests, Kanban!Check(j)
  PROVE  KanbanInv'
<1> DEFINE q == job[j]
           g == Kanban!Target(q)
<1>1. /\ q \in Job /\ q.at = "check" /\ Columned(q) /\ Placed(q)
      /\ UNCHANGED <<board, default, todo, torn, loose, split, jobbed>>
  BY DEF KanbanInv, Kanban!Check
<1>2. /\ q.todo \in Todos
      /\ \/ q.op = "todo" /\ q.name \in Names
         \/ q.op = "update" /\ q.seen \in Seq(Todo) /\ Len(q.seen) = 1
  BY <1>1 DEF Placed
<1>3. g.board \in Docs \union {None} /\ (q.op = "update" => g.board \in Docs)
  <2>1. q.board \in Docs \union {None}
    BY <1>1 DEF Job
  <2>2. g.board = IF q.op = "update" /\ q.board = None THEN q.seen[1].board ELSE q.board
    BY DEF Kanban!Target
  <2>3. q.op = "update" => q.seen[1] \in Todo
    BY <1>2
  <2>4. q.op = "update" => q.seen[1].board \in Docs
    BY <2>3 DEF Todo
  <2>5. QED
    BY <2>1, <2>2, <2>4
<1>4. CASE g.board = None
  <2> DEFINE n == [q EXCEPT !.at = "default"]
  <2>1. job' = [job EXCEPT ![j] = n]
    BY <1>4 DEF Kanban!Check, KanbanInv
  <2>2. n \in Job /\ n.op = "todo" /\ n.at = "default" /\ n.todo = q.todo
    BY <1>1, <1>2, <1>3, <1>4, Named0 DEF Job, Steps
  <2> HIDE DEF n
  <2>3. Columned(n) /\ Placed(n)
    BY <1>2, <2>2 DEF Columned, Placed, ColumnOps
  <2>4. QED
    BY <1>1, <2>1, <2>2, <2>3, JobProceeds
<1>5. CASE job' = Kanban!Finish(j)
  BY <1>1, <1>5, JobFinished
<1>6. CASE g.board # None /\ job' # Kanban!Finish(j)
  <2> DEFINE b == g.board
             n == [q EXCEPT !.at = "write", !.on = b, !.fresh = TRUE]
  <2>1. /\ b \in Docs /\ Fits(b, g.status)
        /\ job' = [job EXCEPT ![j] = n]
    <3>1. job' = [job EXCEPT ![j] = Kanban!Checked(q, b, board[b])]
      BY <1>6 DEF Kanban!Check, KanbanInv
    <3>2. Kanban!Checked(q, b, board[b]) # Kanban!NoJob
      BY <1>6, <3>1 DEF Kanban!Finish
    <3>3. QED
      BY <1>3, <1>6, <3>1, <3>2 DEF Kanban!Checked, Fits, Kanban!Allowed
  <2>2. job' = [job EXCEPT ![j] = n]
    BY <2>1
  <2> HIDE DEF b
  <2>3. /\ n \in Job /\ n.op = q.op /\ n.at = "write" /\ n.todo = q.todo /\ n.on = b
        /\ n.name = q.name /\ n.seen = q.seen /\ n.board = q.board
    BY <1>1, <2>1 DEF Job, Steps
  <2> HIDE DEF n
  <2>4. Kanban!Target(n) = g
    BY <2>3 DEF Kanban!Target
  <2>5. Columned(n) /\ n.op # "add"
    BY <1>2, <2>3 DEF Columned, ColumnOps
  <2>6. Placed(n)
    BY <1>2, <2>1, <2>3, <2>4 DEF Placed, b
  <2>7. QED
    BY <1>1, <2>2, <2>3, <2>5, <2>6, JobProceeds
<1>7. QED
  BY <1>4, <1>5, <1>6

\* One todo is written.
LEMMA TodoWritten ==
  ASSUME KanbanInv, NEW t \in Todos, NEW w \in {None} \union Todo, todo' = [todo EXCEPT ![t] = w],
         UNCHANGED <<board, default, torn, jobbed>>,
         job' \in [Requests -> Job], \A j \in Requests : job'[j] = job[j] \/ Resting(job'[j]),
         loose' \subseteq Todos, loose \ {t} \subseteq loose',
         split' \subseteq Todos, split \ {t} \subseteq split',
         t \notin loose' /\ t \notin split' /\ w # None => Fits(w.board, w.status)
  PROVE  KanbanInv'
<1>1. /\ todo' \in [Todos -> {None} \union Todo] /\ todo'[t] = w
      /\ \A s \in Todos : s # t => todo'[s] = todo[s]
  BY DEF KanbanInv
<1>2. Kanban!TypeOK' /\ DefaultThere'
  BY <1>1 DEF KanbanInv, Kanban!TypeOK, Todo, DefaultThere
<1>3. Named'
  <2>1. \A j \in Requests : job'[j].op = "add" => job'[j] = job[j]
    BY DEF Resting
  <2>2. \A b \in Docs : Kanban!Ids(board[b])' = Kanban!Ids(board[b])
    BY DEF Kanban!Ids
  <2>3. QED
    BY <2>1, <2>2 DEF KanbanInv, Named
<1>4. ASSUME NEW j \in Requests PROVE Columned(job[j])' /\ Placed(job[j])'
  <2>1. CASE Resting(job'[j])
    BY <2>1 DEF Resting, Columned, Placed, ColumnOps
  <2>2. CASE job'[j] = job[j]
    <3>1. Columned(job[j]) /\ Placed(job[j])
      BY DEF KanbanInv
    <3>2. Columned(job'[j]) /\ Placed(job'[j])
      BY <2>2, <3>1
    <3>3. QED
      BY <3>2 DEF Columned, Placed, Fits, Kanban!Allowed, Kanban!Statuses
  <2>3. QED
    BY <2>1, <2>2
<1>5. Kanban!NumberedInOrder'
  BY DEF KanbanInv, Kanban!NumberedInOrder
<1>6. ASSUME NEW s \in Todos \ (loose' \union split'), todo'[s] # None
      PROVE  Fits(todo'[s].board, todo'[s].status)
  <2>1. CASE s = t
    BY <1>1, <1>6, <2>1
  <2>2. CASE s # t
    <3>1. todo'[s] = todo[s] /\ s \notin loose \union split
      BY <1>1, <1>6, <2>2
    <3>2. todo[s].board \in Docs
      BY <1>6, <3>1 DEF KanbanInv, Todo
    <3>3. QED
      BY <1>6, <3>1, <3>2 DEF KanbanInv, Kanban!TodoFits, Fits
  <2>3. QED
    BY <2>1, <2>2
<1>7. Kanban!TodoFits'
  BY <1>6 DEF Kanban!TodoFits, Fits, Kanban!Allowed, Kanban!Statuses, Kanban!Ids
<1>8. board' \in [Docs -> {None} \union Seq(Kanban!Column)]
  BY DEF KanbanInv
<1>9. QED
  BY <1>1, <1>2, <1>3, <1>4, <1>5, <1>7, <1>8 DEF KanbanInv

\* create, or the update of the fields the request names.
LEMMA TodoSaved ==
  ASSUME KanbanInv, NEW j \in Requests, Kanban!WriteTodo(j)
  PROVE  KanbanInv'
<1> DEFINE q == job[j]
           t == q.todo
           w == Kanban!Written(q)
           g == Kanban!Target(q)
<1>1. /\ q \in Job /\ q.at = "write" /\ q.op \in {"todo", "update"} /\ Placed(q) /\ t \in Todos
      /\ job' = Kanban!Finish(j) /\ UNCHANGED <<board, default, torn, jobbed>>
  BY DEF KanbanInv, Kanban!WriteTodo, Placed
<1>2. /\ todo' = [todo EXCEPT ![t] = w]
      /\ loose' = IF w = None \/ q.fresh THEN loose \ {t} ELSE loose \union {t}
      /\ split' = IF Kanban!Crosses(q) THEN split \union {t} ELSE split \ {t}
  BY DEF Kanban!WriteTodo
<1>3. q.board \in Docs \union {None} /\ q.name \in Names \union {None} /\ q.on \in Docs
  BY <1>1 DEF Job, Placed
<1>4. /\ w \in {None} \union Todo
      /\ t \notin loose' /\ t \notin split' /\ w # None => Fits(w.board, w.status)
  <2>1. q.fresh => Fits(q.on, g.status)
    BY <1>1 DEF Placed
  <2>2. CASE q.op = "todo"
    <3>1. q.name \in Names /\ q.name # None
      BY <1>1, <2>2, Named0 DEF Placed
    <3>2. w = [board |-> q.on, status |-> q.name] /\ g.status = q.name
      BY <2>2, <3>1 DEF Kanban!Written, Kanban!Target
    <3>3. QED
      BY <1>2, <1>3, <2>1, <3>1, <3>2 DEF Todo
  <2>3. CASE q.op = "update"
    <3> DEFINE old == todo[t]
    <3>1. q.seen \in Seq(Todo) /\ Len(q.seen) = 1 /\ q.on = g.board
      BY <1>1, <2>3 DEF Placed
    <3>2. CASE old = None
      BY <2>3, <3>2 DEF Kanban!Written
    <3>3. CASE old # None
      <4>1. old \in Todo
        BY <1>1, <3>3 DEF KanbanInv
      <4>2. w = [board |-> IF q.board = None THEN old.board ELSE q.board,
                 status |-> IF q.name = None THEN old.status ELSE q.name]
        BY <2>3, <3>3 DEF Kanban!Written
      <4>3. w \in Todo
        BY <1>3, <4>1, <4>2 DEF Todo
      <4>4. ASSUME ~Kanban!Crosses(q) PROVE w.board = g.board /\ w.status = g.status
        BY <2>3, <3>3, <4>2, <4>4 DEF Kanban!Crosses, Kanban!Target
      <4> HIDE DEF w, g
      <4>5. w # None /\ t \notin loose' /\ t \notin split' => q.fresh /\ ~Kanban!Crosses(q)
        BY <1>2
      <4>6. QED
        BY <2>1, <3>1, <4>3, <4>4, <4>5
    <3>4. QED
      BY <3>2, <3>3
  <2>4. QED
    BY <1>1, <2>2, <2>3
<1> HIDE DEF w, g
<1>5. /\ job' \in [Requests -> Job]
      /\ \A i \in Requests : job'[i] = job[i] \/ Resting(job'[i])
  BY <1>1, NoRequest DEF Kanban!Finish, KanbanInv, Resting
<1>6. /\ loose' \subseteq Todos /\ loose \ {t} \subseteq loose'
      /\ split' \subseteq Todos /\ split \ {t} \subseteq split'
  BY <1>1, <1>2 DEF KanbanInv, Kanban!TypeOK
<1> HIDE DEF t, q
<1>7. t \in Todos /\ UNCHANGED <<board, default, torn, jobbed>>
  BY <1>1 DEF t, q
<1>8. QED
  BY <1>2, <1>4, <1>5, <1>6, <1>7, TodoWritten

LEMMA TodoDeleted ==
  ASSUME KanbanInv, NEW t \in Todos, Kanban!DeleteTodo(t)
  PROVE  KanbanInv'
<1>1. todo' = [todo EXCEPT ![t] = None] /\ UNCHANGED <<board, default, job, torn, loose, split, jobbed>>
  BY DEF Kanban!DeleteTodo
<1>2. /\ job' \in [Requests -> Job] /\ \A j \in Requests : job'[j] = job[j] \/ Resting(job'[j])
      /\ loose' \subseteq Todos /\ loose \ {t} \subseteq loose'
      /\ split' \subseteq Todos /\ split \ {t} \subseteq split'
  BY <1>1 DEF KanbanInv, Kanban!TypeOK
<1>3. QED
  BY <1>1, <1>2, TodoWritten

LEMMA KanbanStep == ASSUME KanbanInv, Kanban!Next PROVE KanbanInv'
<1>1. ASSUME NEW j \in Requests, Kanban!Fail(j) PROVE KanbanInv'
  BY <1>1, JobFinished DEF Kanban!Fail
<1>2. ASSUME NEW j \in Requests,
             \/ Kanban!BeginColumn(j) \/ Kanban!BeginTodo(j) \/ Kanban!BeginUpdate(j)
             \/ Kanban!BeginDefault(j)
      PROVE  KanbanInv'
  BY <1>2, ColumnBegins, TodoBegins
<1>3. ASSUME NEW j \in Requests,
             \/ Kanban!Read(j) \/ Kanban!Push(j) \/ Kanban!Replace(j) \/ Kanban!Rename(j)
             \/ Kanban!Default(j) \/ Kanban!MakeDefault(j)
      PROVE  KanbanInv'
  BY <1>3, BoardRead, ColumnPushed, ColumnsReplaced, ColumnRenamed, DefaultKeeps
<1>4. ASSUME NEW j \in Requests,
             \/ Kanban!Pick(j) \/ Kanban!ReadTodo(j) \/ Kanban!Check(j) \/ Kanban!WriteTodo(j)
      PROVE  KanbanInv'
  BY <1>4, StatusPicked, TodoRead, TodoChecked, TodoSaved
<1>5. ASSUME NEW b \in Docs, Kanban!CreateBoard(b) \/ Kanban!DeleteBoard(b) PROVE KanbanInv'
  BY <1>5, BoardCreated, BoardDeleted
<1>6. ASSUME NEW t \in Todos, Kanban!DeleteTodo(t) PROVE KanbanInv'
  BY <1>6, TodoDeleted
<1>7. QED
  BY <1>1, <1>2, <1>3, <1>4, <1>5, <1>6 DEF Kanban!Next

LEMMA KanbanStutter == ASSUME KanbanInv, UNCHANGED kanban PROVE KanbanInv'
<1>1. \A j \in Requests : Columned(job[j]) /\ Placed(job[j])
  BY DEF KanbanInv
<1>2. \A j \in Requests : Columned(job[j])' /\ Placed(job[j])'
  BY <1>1 DEF kanban, Columned, Placed, Fits, Kanban!Allowed, Kanban!Statuses
<1>3. Named'
  BY DEF KanbanInv, Named, kanban, Kanban!Ids
<1>4. Kanban!TypeOK' /\ DefaultThere' /\ Kanban!NumberedInOrder' /\ Kanban!TodoFits'
  BY DEF KanbanInv, Kanban!TypeOK, DefaultThere, Kanban!NumberedInOrder, Kanban!TodoFits, kanban,
         Kanban!Allowed, Kanban!Statuses, Kanban!Ids
<1>5. QED
  BY <1>2, <1>3, <1>4 DEF KanbanInv, kanban

LEMMA KanbanInit == ASSUME Kanban!Init PROVE KanbanInv
<1>1. /\ \A b \in Docs : board[b] = None
      /\ \A t \in Todos : todo[t] = None
      /\ \A j \in Requests : job[j] = Kanban!NoJob
  BY DEF Kanban!Init
<1>2. Kanban!TypeOK /\ DefaultThere
  BY <1>1, Named0 DEF Kanban!Init, Kanban!TypeOK, DefaultThere
<1>3. Named
  BY <1>1, NoRequest DEF Named
<1>4. \A j \in Requests : Columned(job[j]) /\ Placed(job[j])
  BY <1>1, NoRequest DEF Columned, Placed, ColumnOps
<1>5. Kanban!NumberedInOrder /\ Kanban!TodoFits
  BY <1>1 DEF Kanban!NumberedInOrder, Kanban!TodoFits
<1>6. QED
  BY <1>2, <1>3, <1>4, <1>5, NoRequest DEF KanbanInv, Kanban!Init

LEMMA BoardsAlways == AllSpec => [](part = "boards" => KanbanInv)
<1> DEFINE I == part = "boards" => KanbanInv
<1>1. AllInit => I
  BY KanbanInit DEF AllInit
<1>2. I /\ [AllNext]_allVars => I'
  <2>1. ASSUME I, part = "documents", UNCHANGED part PROVE I'
    BY <2>1
  <2>2. ASSUME KanbanInv, Kanban!Next PROVE I'
    BY <2>2, KanbanStep
  <2>3. ASSUME I, UNCHANGED <<kanban, part>> PROVE I'
    BY <2>3, KanbanStutter
  <2>4. QED
    BY <2>1, <2>2, <2>3 DEF AllNext, allVars
<1>3. QED
  BY <1>1, <1>2, PTL DEF AllSpec

\* A board never loses its last column, and its columns are numbered as they stand unless
\* one was pushed by a request that did not know of another's change
\* (todo-project.service.ts, addProjectStatus, updateProjectStatus, deleteProjectStatus).
THEOREM BoardsStayOrdered == AllSpec => []BoardsOrdered
<1>1. KanbanInv => Kanban!TypeOK /\ Kanban!KeepsAColumn /\ Kanban!NumberedInOrder
  BY DEF KanbanInv, Named, Kanban!KeepsAColumn
<1>2. (part = "boards" => KanbanInv) => BoardsOrdered
  BY <1>1 DEF BoardsOrdered
<1>3. QED
  BY <1>2, BoardsAlways, PTL

\* A todo is in a column of its board, by name or by id, unless since it was checked a
\* column was dropped, renamed or moved or the board deleted, or an update that names its
\* project or its status alone crossed one that changed the other (todo.service.ts,
\* ensureProjectAndStatus; create, updateTodo and updateTodoStatus).
THEOREM TodosKeepTheirColumn == AllSpec => []TodoFits
<1>1. (part = "boards" => KanbanInv) => TodoFits
  BY DEF KanbanInv, TodoFits
<1>2. QED
  BY <1>1, BoardsAlways, PTL
===============================================================================
