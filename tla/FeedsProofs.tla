------------------------------ MODULE FeedsProofs ------------------------------
(***************************************************************************)
(* Proofs about services that MCFeeds instantiates, for any values of      *)
(* their constants: the files of a room (any uploads, ids, names, retries, *)
(* times and faults), the AI service's calls of the model (any requests,   *)
(* attachments, texts of a stream and faults), the change feed (any users, *)
(* rooms, changes, cap, page and faults) and the devices of a call's users *)
(* (any users, devices, calls and events).                                 *)
(***************************************************************************)
EXTENDS MCFeeds, FiniteSetTheorems, SequenceTheorems, TLAPS

-------------------------------------------------------------------------------
(* Attachments *)

Moving(u) == up[u].pc \notin {"idle", "over"}
Written(u) == up[u].pc \in {"put", "mark", "event", "fail"}

\* An upload has its key from the start, and a record before its first put.
Loading(u) ==
  /\ up[u].pc = "idle" => up[u] = Store!NoUpload
  /\ up[u].pc # "idle" => up[u].key \in Store!Keys /\ up[u].id \in Store!Records
  /\ up[u].pc # "over" => up[u].told = "nothing"
  /\ up[u].pc \in {"find", "create", "put"} => up[u].tries < MaxTries
  /\ Written(u) => att[up[u].id] # Nobody

\* While it is under way, the record is its own.
Owns(u) ==
  Written(u) /\ up[u].id \notin crowded =>
    /\ att[up[u].id].file = u
    /\ up[u].pc = "event" => att[up[u].id].status = "uploaded"

\* A key opens, and only a twin can have taken the place of the file.
Opens(k, file) ==
  k \notin deleted => object[k] # Nobody /\ (k \notin twins => object[k] = file)

\* Whoever is past its put has stored its file.
Stores(u) == up[u].pc \in {"mark", "event"} => Opens(up[u].key, u)

\* A record is of the file that it names, and says of it what its sender is told.
Listed(r) ==
  LET a == att[r] IN
  a # Nobody =>
    /\ Written(a.file) \/ up[a.file].pc = "over"
    /\ up[a.file].id = r /\ up[a.file].key = a.key
    /\ r \notin crowded =>
         /\ a.status = "uploaded" => Opens(a.key, a.file)
         /\ up[a.file].told = "ok" => a.status = "uploaded"

\* Only twins share a key, and only in a crowd are two under way for one record.
Apart(u, v) ==
  u # v =>
    /\ up[u].pc # "idle" /\ up[v].pc # "idle" /\ up[u].key = up[v].key => up[u].key \in twins
    /\ Moving(u) /\ Moving(v) /\ up[u].id = up[v].id => up[u].id \in crowded

StoreInv ==
  /\ Store!TypeOK
  /\ \A u \in Slots : Loading(u) /\ Owns(u) /\ Stores(u)
  /\ \A r \in Store!Records : Listed(r)
  /\ \A u, v \in Slots : Apart(u, v)
  /\ \A p \in late : up[p[2]].pc # "idle" /\ p[1] = up[p[2]].key

LEMMA RecordType ==
  ASSUME StoreInv, NEW u \in Slots, up[u].pc # "idle"
  PROVE  /\ up[u].key \in Store!Keys /\ up[u].id \in Store!Records
         /\ Store!Record(u) \in Store!Attachment /\ Store!Record(u) # Nobody
  BY StoreAssumption DEF StoreInv, Loading, Store!Record, Store!Attachment, Store!ConstantsAssumption

LEMMA SendKeeps ==
  ASSUME StoreInv, NEW u \in Slots, NEW r \in Store!Records, NEW name \in Names,
         Store!Send(u, r, name)
  PROVE  StoreInv'
<1> DEFINE sent == [Store!NoUpload EXCEPT !.pc = IF r = u THEN "create" ELSE "find", !.id = r,
                                          !.name = name, !.key = Store!KeyOf(name)]
<1>1. /\ up[u].pc = "idle" /\ up' = [up EXCEPT ![u] = sent]
      /\ UNCHANGED <<att, object, late, clock, deleted, putFaults>>
  BY DEF Store!Send
<1>2. /\ sent.pc \in {"create", "find"} /\ sent.id = r /\ sent.key = <<name, clock>>
      /\ sent.told = "nothing" /\ sent.tries = 0 /\ sent.name = name
  BY DEF Store!NoUpload, Store!KeyOf
<1>3. <<name, clock>> \in Store!Keys
  BY DEF StoreInv, Store!TypeOK, Store!Keys
<1>4. /\ \A v \in Slots \ {u} : up'[v] = up[v]
      /\ up'[u].pc \in {"create", "find"} /\ up'[u].id = r /\ up'[u].key = <<name, clock>>
      /\ up'[u].told = "nothing"
  <2> HIDE DEF sent
  <2>1. QED
    BY <1>1, <1>2 DEF StoreInv, Store!TypeOK
<1>5. crowded \subseteq crowded' /\ twins \subseteq twins'
  BY DEF Store!Send
<1>6. Store!TypeOK'
  <2>1. sent \in Store!Upload
    <3>1. Store!NoUpload \in Store!Upload
      BY StoreAssumption DEF Store!NoUpload, Store!Upload, Store!ConstantsAssumption
    <3>2. Store!KeyOf(name) \in Store!Keys
      BY <1>3 DEF Store!KeyOf
    <3>3. QED
      BY <3>1, <3>2 DEF Store!Upload
  <2>2. crowded' \subseteq Store!Records /\ twins' \subseteq Store!Keys
    BY <1>3 DEF StoreInv, Store!TypeOK, Store!Send
  <2> HIDE DEF sent
  <2>3. QED
    BY <1>1, <2>1, <2>2 DEF StoreInv, Store!TypeOK
<1>7. \A v \in Slots : Loading(v)'
  <2>1. up'[u].tries < MaxTries
    <3>1. up'[u].tries = 0
      <4> HIDE DEF sent
      <4>1. QED
        BY <1>1, <1>2 DEF StoreInv, Store!TypeOK
    <3>2. QED
      BY <3>1, StoreAssumption DEF Store!ConstantsAssumption
  <2>2. QED
    BY <1>1, <1>3, <1>4, <2>1 DEF StoreInv, Loading, Written
<1>8. \A v \in Slots : Owns(v)' /\ Stores(v)'
  BY <1>1, <1>4, <1>5 DEF StoreInv, Owns, Stores, Opens, Written
<1>9. \A q \in Store!Records : Listed(q)'
  <2> SUFFICES ASSUME NEW q \in Store!Records, att[q] # Nobody PROVE Listed(q)'
    BY <1>1 DEF Listed
  <2>1. att[q].file \in Slots
    BY DEF StoreInv, Store!TypeOK, Store!Attachment
  <2>2. QED
    BY <2>1, <1>1, <1>4, <1>5 DEF StoreInv, Listed, Opens, Written
<1>10. \A v, w \in Slots : Apart(v, w)'
  <2>1. \A v \in Slots \ {u} : up[v].pc # "idle" /\ up[v].key = <<name, clock>> =>
           <<name, clock>> \in twins'
    BY DEF Store!Send, Store!SameMoment
  <2>2. \A v \in Slots \ {u} : Moving(v) /\ up[v].id = r => r \in crowded'
    BY DEF Store!Send, Store!For, Moving
  <2>3. QED
    BY <1>4, <1>5, <2>1, <2>2 DEF StoreInv, Apart, Moving
<1>11. \A p \in late' : up'[p[2]].pc # "idle" /\ p[1] = up'[p[2]].key
  <2>1. \A p \in late : p[2] \in Slots
    BY DEF StoreInv, Store!TypeOK
  <2>2. QED
    BY <2>1, <1>1, <1>4 DEF StoreInv
<1>12. QED
  BY <1>6, <1>7, <1>8, <1>9, <1>10, <1>11 DEF StoreInv

\* An upload moves to pc, and its sender is told, or not yet.
Moves(u, pc, told) ==
  /\ \A v \in Slots \ {u} : up'[v] = up[v]
  /\ up'[u].pc = pc /\ up'[u].told = told /\ up'[u].id = up[u].id /\ up'[u].key = up[u].key
  /\ pc \in {"create", "put"} => up'[u].tries < MaxTries
  /\ up' \in [Slots -> Store!Upload]

LEMMA GotoIs ==
  ASSUME StoreInv, NEW u \in Slots, Moving(u),
         NEW pc \in {"create", "put", "mark", "event", "fail"}, Store!Goto(u, pc),
         pc \in {"create", "put"} => up[u].tries < MaxTries
  PROVE  Moves(u, pc, "nothing")
<1>1. /\ \A v \in Slots \ {u} : up'[v] = up[v]
      /\ up'[u].pc = pc /\ up'[u].id = up[u].id /\ up'[u].key = up[u].key
      /\ up'[u].tries = up[u].tries /\ up'[u].told = up[u].told
      /\ up' \in [Slots -> Store!Upload]
  BY DEF StoreInv, Store!TypeOK, Store!Upload, Store!Goto
<1>2. up[u].told = "nothing"
  BY DEF StoreInv, Loading, Moving
<1>3. QED
  BY <1>1, <1>2 DEF Moves

LEMMA EndedType ==
  ASSUME NEW q \in Store!Upload, NEW told \in {"ok", "error"}
  PROVE  LET e == [q EXCEPT !.pc = "over", !.told = told] IN
         /\ e \in Store!Upload
         /\ e.pc = "over" /\ e.told = told /\ e.id = q.id /\ e.key = q.key
  BY DEF Store!Upload

LEMMA EndIs ==
  ASSUME StoreInv, NEW u \in Slots, NEW told \in {"ok", "error"}, Store!End(u, told)
  PROVE  Moves(u, "over", told)
<1>1. up' = [up EXCEPT ![u] = [up[u] EXCEPT !.pc = "over", !.told = told]]
  BY DEF Store!End
<1>2. up[u] \in Store!Upload
  BY DEF StoreInv, Store!TypeOK
<1> DEFINE e == [up[u] EXCEPT !.pc = "over", !.told = told]
<1>3. /\ e \in Store!Upload
      /\ e.pc = "over" /\ e.told = told /\ e.id = up[u].id /\ e.key = up[u].key
  BY <1>2, EndedType
<1>4. up' = [up EXCEPT ![u] = e]
  BY <1>1
<1> HIDE DEF e
<1>5. QED
  BY <1>3, <1>4 DEF StoreInv, Store!TypeOK, Moves

\* Where an upload under way is.
LEMMA AtPlace ==
  ASSUME StoreInv, NEW u \in Slots, Moving(u)
  PROVE  up[u].key \in Store!Keys /\ up[u].id \in Store!Records
  BY DEF StoreInv, Loading, Moving

\* At most the object of one upload is put anew: what the others stored still opens.
ObjectGoes(u) ==
  \A k \in Store!Keys : object'[k] = object[k] \/ (k = up[u].key /\ object'[k] = u)

LEMMA OpensStill ==
  ASSUME StoreInv, NEW u \in Slots, up[u].pc # "idle", ObjectGoes(u), UNCHANGED <<twins, deleted>>,
         NEW v \in Slots, up[v].pc # "idle", NEW k \in Store!Keys, k = up[v].key, Opens(k, v)
  PROVE  Opens(k, v)'
<1>1. u # Nobody
  BY StoreAssumption DEF Store!ConstantsAssumption
<1>2. CASE object'[k] = object[k]
  BY <1>2 DEF Opens
<1>3. CASE k = up[u].key /\ object'[k] = u
  <2>1. u # v => k \in twins
    BY <1>3 DEF StoreInv, Apart
  <2>2. QED
    BY <1>1, <1>3, <2>1 DEF Opens
<1>4. QED
  BY <1>2, <1>3 DEF ObjectGoes

\* One upload goes on, and its record, if any is touched, is there.
Goes(u) ==
  /\ Moving(u)
  /\ \A v \in Slots \ {u} : up'[v] = up[v]
  /\ up'[u].pc # "idle" /\ up'[u].id = up[u].id /\ up'[u].key = up[u].key
  /\ \A r \in Store!Records : att'[r] = att[r] \/ (r = up[u].id /\ att'[r] # Nobody)
  /\ late' \subseteq late \union {<<up[u].key, u>>}
  /\ ObjectGoes(u)
  /\ UNCHANGED <<crowded, twins, deleted>>

LEMMA GoesOn ==
  ASSUME StoreInv, NEW u \in Slots, Goes(u)
  PROVE  /\ \A v \in Slots \ {u} : Loading(v)'
         /\ \A v, w \in Slots : Apart(v, w)'
         /\ \A p \in late' : up'[p[2]].pc # "idle" /\ p[1] = up'[p[2]].key
<1>1. \A v \in Slots : Loading(v)
  BY DEF StoreInv
<1>2. \A v \in Slots \ {u} : Loading(v)'
  <2> SUFFICES ASSUME NEW v \in Slots \ {u} PROVE Loading(v)'
    OBVIOUS
  <2>1. up'[v] = up[v] /\ Loading(v)
    BY <1>1 DEF Goes
  <2>2. Written(v) => up[v].id \in Store!Records
    BY <2>1 DEF Loading, Written
  <2>3. Written(v) => att'[up[v].id] # Nobody
    BY <2>1, <2>2 DEF Loading, Written, Goes
  <2>4. QED
    BY <2>1, <2>3 DEF Loading, Written
<1>3. \A v, w \in Slots : Apart(v, w)'
  BY DEF StoreInv, Goes, Apart, Moving
<1>4. \A p \in late' : up'[p[2]].pc # "idle" /\ p[1] = up'[p[2]].key
  <2> SUFFICES ASSUME NEW p \in late' PROVE up'[p[2]].pc # "idle" /\ p[1] = up'[p[2]].key
    OBVIOUS
  <2>1. CASE p \in late
    BY <2>1 DEF StoreInv, Store!TypeOK, Goes
  <2>2. CASE p = <<up[u].key, u>>
    BY <2>2 DEF Goes
  <2>3. QED
    BY <2>1, <2>2 DEF Goes
<1>5. QED
  BY <1>2, <1>3, <1>4

\* What is said of the others holds still.
LEMMA OthersStay ==
  ASSUME StoreInv, NEW u \in Slots, Goes(u)
  PROVE  /\ \A v \in Slots \ {u} : Owns(v)' /\ Stores(v)'
         /\ \A r \in Store!Records : att'[r] = att[r] /\ att[r] # Nobody /\ att[r].file # u => Listed(r)'
<1>1. ASSUME NEW v \in Slots, up[v].pc # "idle", NEW k \in Store!Keys, k = up[v].key, Opens(k, v)
      PROVE  Opens(k, v)'
  BY <1>1, OpensStill DEF Goes, Moving
<1>2. \A v \in Slots \ {u} : Owns(v)'
  <2> SUFFICES ASSUME NEW v \in Slots \ {u}, Written(v), up[v].id \notin crowded PROVE Owns(v)'
    BY DEF Owns, Goes, Written
  <2>1. up[v].id # up[u].id /\ up[v].id \in Store!Records /\ up'[v] = up[v]
    BY DEF StoreInv, Apart, Loading, Written, Moving, Goes
  <2>2. att'[up[v].id] = att[up[v].id]
    BY <2>1 DEF Goes
  <2>3. QED
    BY <2>1, <2>2 DEF StoreInv, Owns, Written, Goes
<1>3. \A v \in Slots \ {u} : Stores(v)'
  <2> SUFFICES ASSUME NEW v \in Slots \ {u}, up[v].pc \in {"mark", "event"} PROVE Stores(v)'
    BY DEF Stores, Goes
  <2>1. PICK k \in Store!Keys : k = up[v].key
    BY DEF StoreInv, Loading
  <2>2. up'[v] = up[v] /\ Opens(k, v)'
    BY <1>1, <2>1 DEF StoreInv, Stores, Goes
  <2>3. QED
    BY <2>1, <2>2 DEF Stores
<1>4. ASSUME NEW r \in Store!Records, att'[r] = att[r], att[r] # Nobody, att[r].file # u
      PROVE  Listed(r)'
  <2>1. Listed(r) /\ att[r].file \in Slots \ {u}
    BY <1>4 DEF StoreInv, Store!TypeOK, Store!Attachment
  <2>2. up'[att[r].file] = up[att[r].file] /\ up[att[r].file].pc # "idle"
    BY <1>4, <2>1 DEF Goes, Listed, Written
  <2>3. PICK v \in Slots, k \in Store!Keys : v = att[r].file /\ k = att[r].key /\ k = up[v].key
    BY <1>4, <2>1 DEF StoreInv, Store!TypeOK, Store!Attachment, Listed
  <2>4. Opens(k, v) => Opens(k, v)'
    BY <1>1, <2>2, <2>3
  <2>5. QED
    BY <1>4, <2>1, <2>2, <2>3, <2>4 DEF Goes, Listed, Written
<1>5. QED
  BY <1>2, <1>3, <1>4

\* The rest is about the upload itself and the record that it touches.
LEMMA StoreStep ==
  ASSUME StoreInv, NEW u \in Slots, Goes(u),
         Store!TypeOK', Loading(u)', Owns(u)', Stores(u)',
         \A r \in Store!Records : att'[r] # att[r] \/ (att[r] # Nobody /\ att[r].file = u) => Listed(r)'
  PROVE  StoreInv'
<1>1. \A r \in Store!Records : Listed(r)'
  <2> SUFFICES ASSUME NEW r \in Store!Records PROVE Listed(r)'
    OBVIOUS
  <2>1. CASE att'[r] = Nobody
    BY <2>1 DEF Listed
  <2>2. CASE att'[r] # Nobody
    BY <2>2, OthersStay
  <2>3. QED
    BY <2>1, <2>2
<1>2. QED
  BY <1>1, GoesOn, OthersStay DEF StoreInv

\* One more failing call is within the bound.
LEMMA FaultsKept ==
  ASSUME StoreInv, Store!Fault \/ UNCHANGED putFaults PROVE putFaults' \in 0 .. MaxPutFaults
  BY StoreAssumption DEF StoreInv, Store!TypeOK, Store!Fault, Store!ConstantsAssumption

\* No record is written for the upload yet, nor now.
LEMMA PassKeeps ==
  ASSUME StoreInv, NEW u \in Slots, up[u].pc \in {"find", "create"},
         \/ Moves(u, "create", "nothing")
         \/ Moves(u, "over", "error"),
         putFaults' \in 0 .. MaxPutFaults,
         UNCHANGED <<att, object, late, clock, crowded, twins, deleted>>
  PROVE  StoreInv'
<1>1. Moving(u) /\ up[u].key \in Store!Keys /\ up[u].id \in Store!Records
  BY AtPlace DEF Moving
<1>2. Goes(u)
  BY <1>1 DEF Goes, Moves, ObjectGoes
<1>3. Store!TypeOK'
  BY DEF StoreInv, Store!TypeOK, Moves
<1>4. Loading(u)' /\ Owns(u)' /\ Stores(u)'
  BY <1>1 DEF Moves, Loading, Owns, Stores, Written
<1>5. \A r \in Store!Records : att'[r] # att[r] \/ (att[r] # Nobody /\ att[r].file = u) => Listed(r)'
  BY DEF StoreInv, Listed, Written
<1>6. QED
  BY <1>2, <1>3, <1>4, <1>5, StoreStep

\* The record is written for the upload, which goes on or is over.
LEMMA RecordKeeps ==
  ASSUME StoreInv, NEW u \in Slots, up[u].pc \in {"find", "create"},
         \/ Moves(u, "put", "nothing")
         \/ Moves(u, "over", "error"),
         Store!Write(up[u].id, Store!Record(u)),
         putFaults' \in 0 .. MaxPutFaults,
         UNCHANGED <<object, late, clock, crowded, twins, deleted>>
  PROVE  StoreInv'
<1>1. Moving(u) /\ up[u].key \in Store!Keys /\ up[u].id \in Store!Records
  BY AtPlace DEF Moving
<1>2. Store!Record(u) \in Store!Attachment /\ Store!Record(u) # Nobody
  BY RecordType
<1>3. /\ Store!Record(u).file = u /\ Store!Record(u).key = up[u].key
      /\ Store!Record(u).status = "processing"
  BY DEF Store!Record
<1>4. /\ att'[up[u].id] = Store!Record(u)
      /\ \A r \in Store!Records : r # up[u].id => att'[r] = att[r]
      /\ att' \in [Store!Records -> Store!Attachment \union {Nobody}]
  BY <1>1, <1>2 DEF StoreInv, Store!TypeOK, Store!Write
<1>5. Goes(u)
  BY <1>1, <1>2, <1>4 DEF Goes, Moves, ObjectGoes
<1>6. Store!TypeOK'
  BY <1>4 DEF StoreInv, Store!TypeOK, Moves
<1>7. Loading(u)' /\ Owns(u)' /\ Stores(u)'
  BY <1>1, <1>2, <1>3, <1>4 DEF Moves, Loading, Owns, Stores, Written
<1>8. \A r \in Store!Records : att'[r] # att[r] \/ (att[r] # Nobody /\ att[r].file = u) => Listed(r)'
  <2>1. \A r \in Store!Records : ~(att[r] # Nobody /\ att[r].file = u)
    BY DEF StoreInv, Listed, Written
  <2>2. ASSUME NEW r \in Store!Records, r = up[u].id PROVE Listed(r)'
    BY <1>1, <1>3, <1>4, <2>2 DEF Moves, Listed, Written
  <2>3. QED
    BY <1>4, <2>1, <2>2
<1>9. QED
  BY <1>5, <1>6, <1>7, <1>8, StoreStep

\* The record of the upload is marked, or not.
LEMMA MarkedIs ==
  ASSUME StoreInv, NEW u \in Slots, Written(u), NEW mark \in {"uploaded", "failed"},
         Store!Write(up[u].id, Store!Marked(up[u].id, mark))
  PROVE  /\ att'[up[u].id].status = mark
         /\ att'[up[u].id].key = att[up[u].id].key /\ att'[up[u].id].file = att[up[u].id].file
         /\ att'[up[u].id] # Nobody
         /\ \A q \in Store!Records \ {up[u].id} : att'[q] = att[q]
         /\ att' \in [Store!Records -> Store!Attachment \union {Nobody}]
<1> DEFINE r == up[u].id
<1>1. /\ r \in Store!Records /\ att[r] \in Store!Attachment
      /\ att \in [Store!Records -> Store!Attachment \union {Nobody}]
  BY DEF StoreInv, Store!TypeOK, Loading, Written
<1> DEFINE a == [att[r] EXCEPT !.status = mark]
<1>2. a \in Store!Attachment /\ a.status = mark /\ a.key = att[r].key /\ a.file = att[r].file
  BY <1>1 DEF Store!Attachment
<1>3. att' = [att EXCEPT ![r] = a]
  BY DEF Store!Write, Store!Marked
<1>4. a # Nobody
  BY <1>2, StoreAssumption DEF Store!ConstantsAssumption
<1> HIDE DEF a
<1>5. QED
  BY <1>1, <1>2, <1>3, <1>4

\* What an upload with a record may do but put its file: go on, its record marked as
\* uploaded only after the put, and told so only when it was.
LEMMA MarksKeep ==
  ASSUME StoreInv, NEW u \in Slots, Written(u),
         NEW pc \in {"put", "event", "fail", "over"}, NEW told \in {"nothing", "ok", "error"},
         Moves(u, pc, told),
         NEW mark \in {"none", "uploaded", "failed"},
         IF mark = "none" THEN UNCHANGED att ELSE Store!Write(up[u].id, Store!Marked(up[u].id, mark)),
         mark = "uploaded" => up[u].pc = "mark",
         pc = "event" => mark = "uploaded",
         pc # "over" => told = "nothing",
         told = "ok" => up[u].pc = "event" /\ mark = "none",
         putFaults' \in 0 .. MaxPutFaults,
         late' \subseteq late \union {<<up[u].key, u>>},
         UNCHANGED <<object, clock, crowded, twins, deleted>>
  PROVE  StoreInv'
<1>1. Moving(u) /\ up[u].key \in Store!Keys /\ up[u].id \in Store!Records
  BY AtPlace DEF Written, Moving
<1>2. /\ att[up[u].id] # Nobody /\ att'[up[u].id] # Nobody
      /\ att'[up[u].id].key = att[up[u].id].key /\ att'[up[u].id].file = att[up[u].id].file
      /\ att'[up[u].id].status = IF mark = "none" THEN att[up[u].id].status ELSE mark
      /\ \A q \in Store!Records \ {up[u].id} : att'[q] = att[q]
      /\ att' \in [Store!Records -> Store!Attachment \union {Nobody}]
  <2>1. att[up[u].id] # Nobody
    BY DEF StoreInv, Loading
  <2>2. CASE mark = "none"
    BY <2>1, <2>2 DEF StoreInv, Store!TypeOK
  <2>3. CASE mark # "none"
    BY <2>1, <2>3, MarkedIs
  <2>4. QED
    BY <2>2, <2>3
<1>3. Goes(u)
  BY <1>1, <1>2 DEF Goes, Moves, ObjectGoes
<1>4. Store!TypeOK'
  <2>1. late' \subseteq Store!Keys \X Slots
    BY <1>1 DEF StoreInv, Store!TypeOK
  <2>2. QED
    BY <1>2, <2>1 DEF StoreInv, Store!TypeOK, Moves
<1>5. Loading(u)'
  BY <1>1, <1>2 DEF Moves, Loading, Written
<1>6. PICK k \in Store!Keys : k = up[u].key /\ (Opens(k, u) => Opens(k, u)')
  BY <1>1, <1>3, OpensStill DEF Goes, Moving
<1>7. Owns(u)' /\ Stores(u)'
  <2>1. Owns(u) /\ Stores(u)
    BY DEF StoreInv
  <2>2. Owns(u)'
    BY <1>2, <2>1 DEF Moves, Owns, Written
  <2>3. Stores(u)'
    BY <1>6, <2>1 DEF Moves, Stores
  <2>4. QED
    BY <2>2, <2>3
<1>8. Listed(up[u].id)'
  <2> DEFINE r == up[u].id
  <2>1. Listed(r) /\ Owns(u) /\ Loading(u) /\ Stores(u)
    BY <1>1 DEF StoreInv
  <2>2. att[r].file \in Slots
    BY <1>1, <1>2 DEF StoreInv, Store!TypeOK, Store!Attachment
  <2>3. CASE att[r].file = u
    <3>1. Written(u)' \/ up'[u].pc = "over"
      BY DEF Moves, Written
    <3>2. att'[r].status = "uploaded" /\ r \notin crowded => Opens(k, u)'
      <4>1. att'[r].key = k
        BY <1>2, <1>6, <2>1, <2>3 DEF Listed
      <4>2. CASE mark = "uploaded"
        BY <1>6, <2>1, <4>2 DEF Stores
      <4>3. CASE mark = "none"
        <5>1. att[r].status = "uploaded" /\ r \notin crowded => Opens(k, u)
          BY <1>2, <1>6, <2>1, <2>3 DEF Listed
        <5>2. QED
          BY <1>2, <1>6, <4>1, <4>3, <5>1
      <4>4. QED
        BY <1>2, <4>2, <4>3
    <3>3. up'[u].told = "ok" /\ r \notin crowded => att'[r].status = "uploaded"
      BY <1>2, <2>1 DEF Moves, Owns
    <3>4. att'[r].key = k /\ att'[r].file = u /\ up'[u].id = r /\ up'[u].key = k
      BY <1>2, <1>6, <2>1, <2>3 DEF Listed, Moves
    <3>5. QED
      BY <1>2, <3>1, <3>2, <3>3, <3>4 DEF Listed, Written
  <2>4. CASE att[r].file # u
    <3>1. r \in crowded
      BY <2>1, <2>4 DEF Owns
    <3>2. QED
      BY <1>2, <2>1, <2>2, <2>4, <3>1 DEF Listed, Moves, Written
  <2>5. QED
    BY <2>3, <2>4
<1>9. \A q \in Store!Records : att'[q] # att[q] \/ (att[q] # Nobody /\ att[q].file = u) => Listed(q)'
  <2>1. \A q \in Store!Records \ {up[u].id} : ~(att[q] # Nobody /\ att[q].file = u)
    BY DEF StoreInv, Listed
  <2>2. QED
    BY <1>2, <1>8, <2>1 DEF Moves
<1>10. QED
  BY <1>3, <1>4, <1>5, <1>7, <1>9, StoreStep

LEMMA FindKeeps == ASSUME StoreInv, NEW u \in Slots, Store!Find(u) PROVE StoreInv'
<1>1. /\ up[u].pc = "find" /\ Moving(u) /\ up[u].tries < MaxTries
      /\ UNCHANGED <<object, late, clock, crowded, twins, deleted>>
  BY DEF Store!Find, Store!history, StoreInv, Loading, Moving
<1>2. CASE Store!Goto(u, "create") /\ UNCHANGED <<att, putFaults>>
  BY <1>1, <1>2, GotoIs, FaultsKept, PassKeeps
<1>3. CASE Store!Write(up[u].id, Store!Record(u)) /\ Store!Goto(u, "put") /\ UNCHANGED putFaults
  BY <1>1, <1>3, GotoIs, FaultsKept, RecordKeeps
<1>4. CASE Store!WriteFails(up[u].id, Store!Record(u)) /\ Store!End(u, "error")
  BY <1>1, <1>4, EndIs, FaultsKept, RecordKeeps, PassKeeps DEF Store!WriteFails
<1>5. CASE Store!Fault /\ UNCHANGED att /\ Store!End(u, "error")
  BY <1>1, <1>5, EndIs, FaultsKept, PassKeeps
<1>6. QED
  BY <1>2, <1>3, <1>4, <1>5 DEF Store!Find

LEMMA CreateKeeps == ASSUME StoreInv, NEW u \in Slots, Store!Create(u) PROVE StoreInv'
<1>1. /\ up[u].pc = "create" /\ Moving(u) /\ up[u].tries < MaxTries
      /\ UNCHANGED <<object, late, clock, crowded, twins, deleted>>
  BY DEF Store!Create, Store!history, StoreInv, Loading, Moving
<1>2. CASE Store!End(u, "error") /\ UNCHANGED <<att, putFaults>>
  BY <1>1, <1>2, EndIs, FaultsKept, PassKeeps
<1>3. CASE Store!Write(up[u].id, Store!Record(u)) /\ Store!Goto(u, "put") /\ UNCHANGED putFaults
  BY <1>1, <1>3, GotoIs, FaultsKept, RecordKeeps
<1>4. CASE Store!WriteFails(up[u].id, Store!Record(u)) /\ Store!End(u, "error")
  BY <1>1, <1>4, EndIs, FaultsKept, RecordKeeps, PassKeeps DEF Store!WriteFails
<1>5. QED
  BY <1>2, <1>3, <1>4 DEF Store!Create

LEMMA PutKeeps == ASSUME StoreInv, NEW u \in Slots, Store!Put(u) PROVE StoreInv'
<1>1. /\ Moving(u) /\ Written(u) /\ up[u].pc = "put" /\ Store!Goto(u, "mark")
      /\ object' = [object EXCEPT ![up[u].key] = u]
      /\ UNCHANGED <<att, late, clock, crowded, twins, deleted, putFaults>>
  BY DEF Store!Put, Store!history, Moving, Written
<1>2. Moves(u, "mark", "nothing")
  BY <1>1, GotoIs DEF StoreInv, Loading
<1>3. up[u].key \in Store!Keys /\ up[u].id \in Store!Records /\ u # Nobody
  BY <1>1, AtPlace, StoreAssumption DEF Store!ConstantsAssumption
<1>4. /\ object'[up[u].key] = u /\ ObjectGoes(u)
      /\ object' \in [Store!Keys -> Slots \union {Nobody}]
  BY <1>1, <1>3 DEF StoreInv, Store!TypeOK, ObjectGoes
<1>5. Goes(u)
  BY <1>1, <1>2, <1>4 DEF Goes, Moves
<1>6. Store!TypeOK'
  BY <1>1, <1>2, <1>4 DEF StoreInv, Store!TypeOK, Moves
<1>7. Opens(up[u].key, u)'
  BY <1>2, <1>3, <1>4 DEF Opens, Moves
<1>8. Loading(u)' /\ Owns(u)' /\ Stores(u)'
  BY <1>1, <1>2, <1>3, <1>7 DEF StoreInv, Loading, Owns, Stores, Written, Moves
<1>9. \A r \in Store!Records : att'[r] # att[r] \/ (att[r] # Nobody /\ att[r].file = u) => Listed(r)'
  <2> SUFFICES ASSUME NEW r \in Store!Records, att[r] # Nobody, att[r].file = u PROVE Listed(r)'
    BY <1>1
  <2>1. up[u].id = r /\ up[u].key = att[r].key /\ up'[u].told = "nothing"
    BY <1>2 DEF StoreInv, Listed, Moves
  <2>2. QED
    BY <1>1, <1>2, <1>7, <2>1 DEF Listed, Written, Moves
<1>10. QED
  BY <1>5, <1>6, <1>8, <1>9, StoreStep

LEMMA RetryKeeps == ASSUME StoreInv, NEW u \in Slots, Store!Retry(u) PROVE StoreInv'
<1>1. PICK pc : /\ pc \in {"fail", "put"} /\ (pc = "put" => up[u].tries + 1 # MaxTries)
                /\ up' = [up EXCEPT ![u] = [up[u] EXCEPT !.tries = up[u].tries + 1, !.pc = pc]]
  BY DEF Store!Retry
<1>2. /\ up[u] \in Store!Upload /\ up[u].tries \in 0 .. MaxTries /\ up[u].tries < MaxTries
      /\ Written(u) /\ up[u].pc = "put" /\ up[u].told = "nothing"
  BY DEF StoreInv, Store!TypeOK, Store!Upload, Loading, Store!Retry, Written
<1>3. up[u].tries + 1 \in 0 .. MaxTries /\ (pc = "put" => up[u].tries + 1 < MaxTries)
  BY <1>1, <1>2, StoreAssumption DEF Store!ConstantsAssumption
<1>4. ASSUME NEW q \in Store!Upload, NEW n \in 0 .. MaxTries
      PROVE  LET e == [q EXCEPT !.tries = n, !.pc = pc] IN
             /\ e \in Store!Upload
             /\ e.pc = pc /\ e.tries = n /\ e.told = q.told /\ e.id = q.id /\ e.key = q.key
  BY <1>1 DEF Store!Upload
<1> DEFINE e == [up[u] EXCEPT !.tries = up[u].tries + 1, !.pc = pc]
<1>5. /\ e \in Store!Upload /\ e.pc = pc /\ e.tries = up[u].tries + 1 /\ e.told = up[u].told
      /\ e.id = up[u].id /\ e.key = up[u].key
  BY <1>2, <1>3, <1>4
<1>6. up' = [up EXCEPT ![u] = e]
  BY <1>1
<1> HIDE DEF e
<1>7. Moves(u, pc, "nothing")
  BY <1>1, <1>2, <1>3, <1>5, <1>6 DEF StoreInv, Store!TypeOK, Moves
<1>8. /\ UNCHANGED <<att, object, clock, crowded, twins, deleted>>
      /\ late' \subseteq late \union {<<up[u].key, u>>} /\ putFaults' \in 0 .. MaxPutFaults
  BY FaultsKept DEF Store!Retry, Store!history
<1> DEFINE mark == "none"
<1>9. mark \in {"none", "uploaded", "failed"} /\ (IF mark = "none" THEN UNCHANGED att ELSE FALSE)
  BY <1>8
<1>10. QED
  BY <1>1, <1>2, <1>7, <1>8, <1>9, MarksKeep

LEMMA MarkKeeps == ASSUME StoreInv, NEW u \in Slots, Store!Mark(u) PROVE StoreInv'
<1>1. /\ Moving(u) /\ Written(u) /\ up[u].pc = "mark"
      /\ UNCHANGED <<object, late, clock, crowded, twins, deleted>>
  BY DEF Store!Mark, Store!history, Moving, Written
<1>2. CASE /\ Store!Write(up[u].id, Store!Marked(up[u].id, "uploaded"))
           /\ Store!Goto(u, "event") /\ UNCHANGED putFaults
  <2>1. Moves(u, "event", "nothing") /\ putFaults' \in 0 .. MaxPutFaults
    BY <1>1, <1>2, GotoIs, FaultsKept DEF StoreInv, Loading
  <2>2. QED
    BY <1>1, <1>2, <2>1, MarksKeep
<1>3. CASE Store!WriteFails(up[u].id, Store!Marked(up[u].id, "uploaded")) /\ Store!Goto(u, "fail")
  <2>1. Moves(u, "fail", "nothing") /\ putFaults' \in 0 .. MaxPutFaults
    BY <1>1, <1>3, GotoIs, FaultsKept DEF StoreInv, Loading, Store!WriteFails
  <2>2. CASE Store!Write(up[u].id, Store!Marked(up[u].id, "uploaded"))
    BY <1>1, <2>1, <2>2, MarksKeep
  <2>3. CASE UNCHANGED att
    BY <1>1, <2>1, <2>3, MarksKeep
  <2>4. QED
    BY <1>3, <2>2, <2>3 DEF Store!WriteFails
<1>4. QED
  BY <1>2, <1>3 DEF Store!Mark

LEMMA DispatchKeeps == ASSUME StoreInv, NEW u \in Slots, Store!Dispatch(u) PROVE StoreInv'
<1>1. /\ Written(u) /\ up[u].pc = "event" /\ Store!End(u, "ok")
      /\ UNCHANGED <<att, object, late, clock, crowded, twins, deleted, putFaults>>
  BY DEF Store!Dispatch, Store!history, Written
<1>2. Moves(u, "over", "ok") /\ putFaults' \in 0 .. MaxPutFaults
  BY <1>1, EndIs, FaultsKept
<1>3. QED
  BY <1>1, <1>2, MarksKeep

LEMMA MarkFailedKeeps == ASSUME StoreInv, NEW u \in Slots, Store!MarkFailed(u) PROVE StoreInv'
<1>1. /\ Written(u) /\ up[u].pc = "fail" /\ Store!End(u, "error")
      /\ UNCHANGED <<object, late, clock, crowded, twins, deleted>>
      /\ Store!Fault \/ UNCHANGED putFaults
      /\ Store!Write(up[u].id, Store!Marked(up[u].id, "failed")) \/ UNCHANGED att
  BY DEF Store!MarkFailed, Store!WriteFails, Store!history, Written
<1>2. Moves(u, "over", "error") /\ putFaults' \in 0 .. MaxPutFaults
  BY <1>1, EndIs, FaultsKept
<1>3. CASE Store!Write(up[u].id, Store!Marked(up[u].id, "failed"))
  BY <1>1, <1>2, <1>3, MarksKeep
<1>4. CASE UNCHANGED att
  BY <1>1, <1>2, <1>4, MarksKeep
<1>5. QED
  BY <1>1, <1>3, <1>4

\* A put that nobody waits for any more stores the file of its own key.
LEMMA LatePutKeeps == ASSUME StoreInv, Store!LatePut PROVE StoreInv'
<1>1. PICK p \in late : object' = [object EXCEPT ![p[1]] = p[2]] /\ late' = late \ {p}
  BY DEF Store!LatePut
<1>2. UNCHANGED <<att, up, clock, crowded, twins, deleted, putFaults>>
  BY DEF Store!LatePut, Store!history
<1>3. /\ p[1] \in Store!Keys /\ p[2] \in Slots
      /\ up[p[2]].pc # "idle" /\ up[p[2]].key = p[1]
  BY DEF StoreInv, Store!TypeOK
<1>4. object' \in [Store!Keys -> Slots \union {Nobody}] /\ ObjectGoes(p[2])
  BY <1>1, <1>3 DEF StoreInv, Store!TypeOK, ObjectGoes
<1>5. ASSUME NEW v \in Slots, up[v].pc # "idle", NEW k \in Store!Keys, k = up[v].key, Opens(k, v)
      PROVE  Opens(k, v)'
  BY <1>2, <1>3, <1>4, <1>5, OpensStill
<1>6. Store!TypeOK'
  BY <1>1, <1>2, <1>4 DEF StoreInv, Store!TypeOK
<1>7. \A v \in Slots : Loading(v)' /\ Owns(v)'
  BY <1>2 DEF StoreInv, Loading, Owns, Written
<1>8. \A v \in Slots : Stores(v)'
  <2> SUFFICES ASSUME NEW v \in Slots, up[v].pc \in {"mark", "event"} PROVE Stores(v)'
    BY <1>2 DEF Stores
  <2>1. PICK k \in Store!Keys : k = up[v].key
    BY DEF StoreInv, Loading
  <2>2. Opens(k, v)'
    BY <1>5, <2>1 DEF StoreInv, Stores
  <2>3. QED
    BY <1>2, <2>1, <2>2 DEF Stores
<1>9. \A r \in Store!Records : Listed(r)'
  <2> SUFFICES ASSUME NEW r \in Store!Records, att[r] # Nobody PROVE Listed(r)'
    BY <1>2 DEF Listed
  <2>1. att[r].file \in Slots /\ Listed(r)
    BY DEF StoreInv, Store!TypeOK, Store!Attachment
  <2>2. PICK v \in Slots, k \in Store!Keys :
          v = att[r].file /\ k = att[r].key /\ k = up[v].key /\ up[v].pc # "idle"
    BY <2>1 DEF StoreInv, Store!TypeOK, Store!Attachment, Listed, Written
  <2>3. Opens(k, v) => Opens(k, v)'
    BY <1>5, <2>2
  <2>4. QED
    BY <1>2, <2>1, <2>2, <2>3 DEF Listed, Written
<1>10. \A u, v \in Slots : Apart(u, v)'
  BY <1>2 DEF StoreInv, Apart, Moving
<1>11. \A q \in late' : up'[q[2]].pc # "idle" /\ q[1] = up'[q[2]].key
  BY <1>1, <1>2 DEF StoreInv
<1>12. QED
  BY <1>6, <1>7, <1>8, <1>9, <1>10, <1>11 DEF StoreInv

\* What a deletion takes away is no longer spoken of.
LEMMA DeleteKeeps ==
  ASSUME StoreInv, NEW k \in Store!Keys, Store!DeleteFile(k) PROVE StoreInv'
<1>1. /\ object' = [object EXCEPT ![k] = Nobody] /\ deleted' = deleted \union {k}
      /\ UNCHANGED <<att, up, late, clock, crowded, twins, putFaults>>
  BY DEF Store!DeleteFile
<1>2. Store!TypeOK'
  BY <1>1 DEF StoreInv, Store!TypeOK
<1>3. ASSUME NEW q \in Store!Keys, NEW file, Opens(q, file)
      PROVE  q \notin deleted' => object'[q] # Nobody /\ (q \notin twins' => object'[q] = file)
  BY <1>1, <1>3 DEF StoreInv, Store!TypeOK, Opens
<1>4. \A v \in Slots : Loading(v)' /\ Owns(v)'
  BY <1>1 DEF StoreInv, Loading, Owns, Written
<1>5. \A v \in Slots : Stores(v)'
  BY <1>1, <1>3 DEF StoreInv, Stores, Opens, Loading
<1>6. \A r \in Store!Records : Listed(r)'
  <2> SUFFICES ASSUME NEW r \in Store!Records, att[r] # Nobody PROVE Listed(r)'
    BY <1>1 DEF Listed
  <2>1. att[r].key \in Store!Keys /\ Listed(r)
    BY DEF StoreInv, Store!TypeOK, Store!Attachment
  <2>2. Opens(att[r].key, att[r].file) => Opens(att[r].key, att[r].file)'
    BY <1>1, <1>3, <2>1 DEF Opens
  <2>3. QED
    BY <1>1, <2>1, <2>2 DEF Listed, Written
<1>7. \A u, v \in Slots : Apart(u, v)'
  BY <1>1 DEF StoreInv, Apart, Moving
<1>8. QED
  BY <1>1, <1>2, <1>4, <1>5, <1>6, <1>7 DEF StoreInv

LEMMA TickKeeps ==
  ASSUME StoreInv, UNCHANGED <<att, object, up, late, crowded, twins, deleted, putFaults>>,
         clock' \in 0 .. MaxTime
  PROVE  StoreInv'
<1>1. Store!TypeOK'
  BY DEF StoreInv, Store!TypeOK
<1>2. QED
  BY <1>1 DEF StoreInv, Loading, Owns, Stores, Opens, Listed, Apart, Written, Moving

LEMMA StoreInit == Store!Init => StoreInv
<1> SUFFICES ASSUME Store!Init PROVE StoreInv
  OBVIOUS
<1>1. Store!NoUpload \in Store!Upload /\ Store!NoUpload.pc = "idle" /\ Store!NoUpload.told = "nothing"
  BY StoreAssumption DEF Store!NoUpload, Store!Upload, Store!ConstantsAssumption
<1>2. Store!TypeOK
  BY <1>1, StoreAssumption DEF Store!Init, Store!TypeOK, Store!ConstantsAssumption
<1>3. QED
  BY <1>1, <1>2 DEF Store!Init, StoreInv, Loading, Owns, Stores, Listed, Apart, Written, Moving

LEMMA StoreNext == StoreInv /\ [Store!Next]_store => StoreInv'
<1> SUFFICES ASSUME StoreInv, [Store!Next]_store PROVE StoreInv'
  OBVIOUS
<1>1. CASE UNCHANGED store
  BY <1>1, TickKeeps DEF store, StoreInv, Store!TypeOK
<1>2. CASE Store!Tick
  <2>1. clock' \in 0 .. MaxTime
    BY <1>2, StoreAssumption DEF Store!Tick, StoreInv, Store!TypeOK, Store!ConstantsAssumption
  <2>2. QED
    BY <1>2, <2>1, TickKeeps DEF Store!Tick, Store!history
<1>3. ASSUME NEW u \in Slots, NEW r \in Store!Records, NEW name \in Names, Store!Send(u, r, name)
      PROVE  StoreInv'
  BY <1>3, SendKeeps
<1>4. ASSUME NEW u \in Slots,
             \/ Store!Find(u) \/ Store!Create(u) \/ Store!Put(u) \/ Store!Retry(u)
             \/ Store!Mark(u) \/ Store!Dispatch(u) \/ Store!MarkFailed(u)
      PROVE  StoreInv'
  BY <1>4, FindKeeps, CreateKeeps, PutKeeps, RetryKeeps, MarkKeeps, DispatchKeeps, MarkFailedKeeps
<1>5. QED
  BY <1>1, <1>2, <1>3, <1>4, LatePutKeeps, DeleteKeeps DEF Store!Next

\* However often its puts fail, are tried again or arrive late, whichever writes of its
\* record fail, and whatever upload of another file runs beside it: a file that is listed as
\* uploaded opens, unless its object was deleted, and is the one that was sent, unless
\* another of its name was sent in the same millisecond; and a sender who was told so finds
\* it listed (uploadFileForRoom, filesystem.service.ts:96-209). A record for which two
\* uploads were under way at a time is left out.
THEOREM ListedFilesOpen == AllSpec => []OpensItsFile
<1> DEFINE Inv == part = "files" => StoreInv
<1>1. AllInit => Inv
  BY StoreInit DEF AllInit
<1>2. Inv /\ [AllNext]_allVars => Inv'
  BY StoreNext DEF AllNext, allVars, store
<1>3. Inv => OpensItsFile
  BY DEF OpensItsFile, StoreInv, Listed, Opens, Store!OpensItsFile, Store!GetAttachments
<1>4. QED
  BY <1>1, <1>2, <1>3, PTL DEF AllSpec

-------------------------------------------------------------------------------
(* Assistant *)

\* A transcription has its attachment, and is to be saved when the model gave the text.
Asked(a) ==
  /\ ask[a].pc = "idle" => ask[a] = Model!NoAsk
  /\ ask[a].voice # Nobody => ask[a].kind = "voice"
  /\ ask[a].pc # "idle" /\ ask[a].kind = "voice" => ask[a].voice \in Voices
  /\ ask[a].pc = "save" => ask[a].kind = "voice"
  /\ a \in made => ask[a].pc \in {"save", "over"}

\* The earlier requests were for the same attachment, and are over.
Past(a) ==
  \A b \in earlier[a] :
    ask[b].pc = "over" /\ ask[b].voice = ask[a].voice /\ ask[a].voice \in Voices

\* A text that was given and saved is there.
TextStays(a) ==
  a \in made \ unsaved /\ ask[a].pc = "over" /\ ask[a].voice \in Voices =>
    transcript[ask[a].voice] # Nobody

\* Whoever got past the transcript finds none of an earlier request.
Fresh(a) ==
  ask[a].pc \in {"audio", "model", "save"} \/ a \in made => earlier[a] \intersect made \subseteq unsaved

ModelInv ==
  /\ Model!TypeOK
  /\ \A a \in Asks : Asked(a) /\ Past(a) /\ TextStays(a) /\ Fresh(a)

LEMMA VoiceIsOne == Nobody \notin Voices /\ Nobody \notin {"words", "silence"}
  BY ModelAssumption DEF Model!ConstantsAssumption

\* Request a goes to pc, for the same attachment.
Going(a, pc) ==
  /\ \A b \in Asks \ {a} : ask'[b] = ask[b]
  /\ ask'[a].pc = pc /\ ask'[a].kind = ask[a].kind /\ ask'[a].mode = ask[a].mode
  /\ ask'[a].voice = ask[a].voice
  /\ ask' \in [Asks -> Model!Request]

Places == {"idle", "posted", "audio", "model", "save", "over"}

LEMMA GotoGoes ==
  ASSUME ModelInv, NEW a \in Asks, NEW pc \in Places, Model!Goto(a, pc)
  PROVE  Going(a, pc)
<1> DEFINE q == [ask[a] EXCEPT !.pc = pc]
<1>1. ask[a] \in Model!Request /\ ask \in [Asks -> Model!Request]
  BY DEF ModelInv, Model!TypeOK
<1>2. /\ q \in Model!Request /\ q.pc = pc /\ q.kind = ask[a].kind /\ q.mode = ask[a].mode
      /\ q.voice = ask[a].voice
  BY <1>1 DEF Places, Model!Request
<1>3. ask' = [ask EXCEPT ![a] = q]
  BY DEF Model!Goto
<1> HIDE DEF q
<1>4. QED
  BY <1>1, <1>2, <1>3 DEF Going

LEMMA HeardGoes ==
  ASSUME ModelInv, NEW a \in Asks, NEW pc \in Places, NEW heard \in {"nothing", "ok", "error"},
         ask' = [ask EXCEPT ![a] = [ask[a] EXCEPT !.pc = pc, !.heard = heard]]
  PROVE  Going(a, pc)
<1> DEFINE q == [ask[a] EXCEPT !.pc = pc, !.heard = heard]
<1>1. ask[a] \in Model!Request /\ ask \in [Asks -> Model!Request]
  BY DEF ModelInv, Model!TypeOK
<1>2. ASSUME NEW r \in Model!Request
      PROVE  LET s == [r EXCEPT !.pc = pc, !.heard = heard] IN
             /\ s \in Model!Request /\ s.pc = pc /\ s.kind = r.kind /\ s.mode = r.mode
             /\ s.voice = r.voice
  BY DEF Places, Model!Request
<1>3. /\ q \in Model!Request /\ q.pc = pc /\ q.kind = ask[a].kind /\ q.mode = ask[a].mode
      /\ q.voice = ask[a].voice
  BY <1>1, <1>2
<1>4. ask' = [ask EXCEPT ![a] = q]
  OBVIOUS
<1> HIDE DEF q
<1>5. QED
  BY <1>1, <1>3, <1>4 DEF Going

LEMMA TellGoes ==
  ASSUME ModelInv, NEW a \in Asks, NEW answer \in {"ok", "error"}, Model!Tell(a, answer)
  PROVE  Going(a, "over")
<1> DEFINE heard == IF Model!Waiting(a) THEN answer ELSE ask[a].heard
<1>1. heard \in {"nothing", "ok", "error"}
  BY DEF ModelInv, Model!TypeOK, Model!Request
<1>2. ask' = [ask EXCEPT ![a] = [ask[a] EXCEPT !.pc = "over", !.heard = heard]]
  BY DEF Model!Tell
<1> HIDE DEF heard
<1>3. QED
  BY <1>1, <1>2, HeardGoes DEF Places

\* The gateway or the caller gives up: nothing else changes.
LEMMA GivesUp ==
  ASSUME ModelInv, NEW a \in Asks, ask' = [ask EXCEPT ![a].heard = "error"]
  PROVE  Going(a, ask[a].pc)
<1> DEFINE q == [ask[a] EXCEPT !.heard = "error"]
<1>1. ask[a] \in Model!Request /\ ask \in [Asks -> Model!Request]
  BY DEF ModelInv, Model!TypeOK
<1>2. /\ q \in Model!Request /\ q.pc = ask[a].pc /\ q.kind = ask[a].kind /\ q.mode = ask[a].mode
      /\ q.voice = ask[a].voice
  BY <1>1 DEF Model!Request
<1>3. ask' = [ask EXCEPT ![a] = q]
  OBVIOUS
<1> HIDE DEF q
<1>4. QED
  BY <1>1, <1>2, <1>3 DEF Going

LEMMA Fetched ==
  ASSUME ModelInv, NEW a \in Asks, ask' = [ask EXCEPT ![a].input = "given"]
  PROVE  Going(a, ask[a].pc)
<1> DEFINE q == [ask[a] EXCEPT !.input = "given"]
<1>1. ask[a] \in Model!Request /\ ask \in [Asks -> Model!Request]
  BY DEF ModelInv, Model!TypeOK
<1>2. /\ q \in Model!Request /\ q.pc = ask[a].pc /\ q.kind = ask[a].kind /\ q.mode = ask[a].mode
      /\ q.voice = ask[a].voice
  BY <1>1 DEF Model!Request
<1>3. ask' = [ask EXCEPT ![a] = q]
  OBVIOUS
<1> HIDE DEF q
<1>4. QED
  BY <1>1, <1>2, <1>3 DEF Going

LEMMA ChunkSent ==
  ASSUME ModelInv, NEW a \in Asks, ask[a].chunks < MaxChunks,
         ask' = [ask EXCEPT ![a].chunks = @ + 1]
  PROVE  Going(a, ask[a].pc)
<1> DEFINE n == ask[a].chunks + 1
           q == [ask[a] EXCEPT !.chunks = n]
<1>1. ask[a] \in Model!Request /\ ask \in [Asks -> Model!Request]
  BY DEF ModelInv, Model!TypeOK
<1>2. n \in 0 .. MaxChunks
  BY <1>1, ModelAssumption DEF Model!Request, Model!ConstantsAssumption
<1>3. ask' = [ask EXCEPT ![a] = q]
  OBVIOUS
<1> HIDE DEF n
<1>4. /\ q \in Model!Request /\ q.pc = ask[a].pc /\ q.kind = ask[a].kind /\ q.mode = ask[a].mode
      /\ q.voice = ask[a].voice
  BY <1>1, <1>2 DEF Model!Request
<1> HIDE DEF q
<1>5. QED
  BY <1>1, <1>3, <1>4 DEF Going

\* A step that gives no text: the request goes on, or is over.
Quiet(a, pc) ==
  /\ Going(a, pc)
  /\ UNCHANGED <<transcript, made, earlier, unsaved>>
  /\ askFaults' \in 0 .. MaxAskFaults
  /\ ask[a].pc # "idle"
  /\ \/ pc = ask[a].pc
     \/ pc = "over" /\ ask[a].pc # "save"
     \/ pc = "audio" /\ ask[a].pc = "posted" /\ transcript[ask[a].voice] = Nobody
     \/ pc = "model" /\ ask[a].pc = "audio"
     \/ pc = "model" /\ ask[a].pc = "posted" /\ ask[a].voice = Nobody

\* An earlier request stays over.
LEMMA PastStays ==
  ASSUME ModelInv, NEW a \in Asks, NEW pc \in Places, Going(a, pc), ask[a].pc # "over" \/ pc = "over",
         UNCHANGED earlier
  PROVE  \A b \in Asks : Past(b)'
<1> SUFFICES ASSUME NEW b \in Asks, NEW c \in earlier[b]
             PROVE  ask'[c].pc = "over" /\ ask'[c].voice = ask'[b].voice /\ ask'[b].voice \in Voices
  BY DEF Past
<1>1. c \in Asks
  BY DEF ModelInv, Model!TypeOK
<1>2. Past(b) /\ \A d \in Asks : ask'[d].voice = ask[d].voice
  BY DEF ModelInv, Going
<1>3. ask[c].pc = "over" /\ ask[c].voice = ask[b].voice /\ ask[b].voice \in Voices
  BY <1>2 DEF Past
<1>4. ask'[c].pc = "over"
  BY <1>1, <1>3 DEF Going
<1>5. QED
  BY <1>1, <1>2, <1>3, <1>4

LEMMA QuietKeeps == ASSUME ModelInv, NEW a \in Asks, NEW pc \in Places, Quiet(a, pc) PROVE ModelInv'
<1>1. Going(a, pc) /\ UNCHANGED <<transcript, made, earlier, unsaved>>
  BY DEF Quiet
<1>2. Model!TypeOK'
  BY DEF ModelInv, Model!TypeOK, Quiet, Going
<1>3. \A b \in Asks : Asked(b)'
  BY DEF ModelInv, Asked, Quiet, Going, Places
<1>4. \A b \in Asks : Past(b)'
  BY <1>1, PastStays DEF Quiet
<1>5. \A b \in Asks : TextStays(b)'
  BY <1>1 DEF ModelInv, Asked, TextStays, Quiet, Going
<1>6. \A b \in Asks : Fresh(b)'
  <2>1. ASSUME pc = "audio", ask[a].pc = "posted", transcript[ask[a].voice] = Nobody
        PROVE  earlier[a] \intersect made \subseteq unsaved
    <3> SUFFICES ASSUME NEW b \in earlier[a], b \in made, b \notin unsaved PROVE FALSE
      OBVIOUS
    <3>1. b \in Asks /\ ask[b].pc = "over" /\ ask[b].voice = ask[a].voice /\ ask[a].voice \in Voices
      BY DEF ModelInv, Model!TypeOK, Past
    <3>2. QED
      BY <2>1, <3>1 DEF ModelInv, TextStays
  <2>2. ask[a].voice = Nobody => earlier[a] = {}
    BY VoiceIsOne DEF ModelInv, Past
  <2>3. QED
    BY <1>1, <2>1, <2>2 DEF ModelInv, Fresh, Quiet, Going
<1>7. QED
  BY <1>2, <1>3, <1>4, <1>5, <1>6 DEF ModelInv

\* A request is made, after those for its attachment that are over.
LEMMA BegunKeeps ==
  ASSUME ModelInv, NEW a \in Asks, ask[a].pc = "idle", NEW v \in Voices \union {Nobody},
         NEW q \in Model!Request, q.pc = "posted", q.voice = v,
         v # Nobody => q.kind = "voice", q.kind = "voice" => v \in Voices,
         ask' = [ask EXCEPT ![a] = q],
         earlier' = [earlier EXCEPT ![a] = IF v = Nobody THEN {} ELSE Model!OverFor(v)],
         UNCHANGED <<transcript, made, unsaved, askFaults>>
  PROVE  ModelInv'
<1>1. a \notin made
  BY DEF ModelInv, Asked
<1>2. /\ ask'[a] = q /\ \A b \in Asks \ {a} : ask'[b] = ask[b]
      /\ ask' \in [Asks -> Model!Request]
  BY DEF ModelInv, Model!TypeOK
<1>3. /\ earlier'[a] = IF v = Nobody THEN {} ELSE Model!OverFor(v)
      /\ \A b \in Asks \ {a} : earlier'[b] = earlier[b]
      /\ earlier' \in [Asks -> SUBSET Asks]
  BY DEF ModelInv, Model!TypeOK, Model!OverFor
<1>4. Model!TypeOK'
  BY <1>2, <1>3 DEF ModelInv, Model!TypeOK
<1>5. \A b \in Asks : Asked(b)'
  BY <1>1, <1>2 DEF ModelInv, Asked
<1>6. \A b \in Asks : Past(b)'
  <2>1. Past(a)'
    <3> SUFFICES ASSUME NEW c \in earlier'[a]
                 PROVE  ask'[c].pc = "over" /\ ask'[c].voice = ask'[a].voice /\ ask'[a].voice \in Voices
      BY DEF Past
    <3>1. v # Nobody /\ c \in Asks \ {a} /\ ask[c].pc = "over" /\ ask[c].voice = v
      BY <1>3 DEF Model!OverFor
    <3>2. QED
      BY <1>2, <3>1
  <2>2. ASSUME NEW b \in Asks \ {a} PROVE Past(b)'
    <3> SUFFICES ASSUME NEW c \in earlier'[b]
                 PROVE  ask'[c].pc = "over" /\ ask'[c].voice = ask'[b].voice /\ ask'[b].voice \in Voices
      BY DEF Past
    <3>1. c \in earlier[b] /\ c \in Asks
      BY <1>3 DEF ModelInv, Model!TypeOK
    <3>2. ask[c].pc = "over" /\ ask[c].voice = ask[b].voice /\ ask[b].voice \in Voices
      BY <3>1 DEF ModelInv, Past
    <3>3. c # a
      BY <3>2
    <3>4. QED
      BY <1>2, <3>1, <3>2, <3>3
  <2>3. QED
    BY <2>1, <2>2
<1>7. \A b \in Asks : TextStays(b)' /\ Fresh(b)'
  BY <1>1, <1>2, <1>3 DEF ModelInv, TextStays, Fresh
<1>8. QED
  BY <1>4, <1>5, <1>6, <1>7 DEF ModelInv

LEMMA PostKeeps ==
  ASSUME ModelInv, NEW a \in Asks, NEW mode \in {"unary", "stream", "resent"},
         NEW kind \in Model!UnaryKinds \ {"voice"}, NEW input \in {"given", "address", "missing"},
         Model!Post(a, mode, kind, input)
  PROVE  ModelInv'
<1> DEFINE q == [Model!NoAsk EXCEPT !.kind = kind, !.mode = mode, !.input = input, !.pc = "posted"]
<1>1. Model!NoAsk \in Model!Request /\ Model!NoAsk.voice = Nobody
  BY ModelAssumption DEF Model!NoAsk, Model!Request, Model!ConstantsAssumption
<1>2. q \in Model!Request /\ q.kind = kind /\ q.pc = "posted" /\ q.voice = Nobody
  BY <1>1 DEF Model!Request
<1>3. ask' = [ask EXCEPT ![a] = q] /\ ask[a].pc = "idle"
      /\ UNCHANGED <<transcript, made, earlier, unsaved, askFaults>>
  BY DEF Model!Post, Model!kept
<1>4. earlier[a] = {}
  BY <1>1, <1>3, VoiceIsOne DEF ModelInv, Asked, Past
<1>5. earlier' = [earlier EXCEPT ![a] = {}]
  BY <1>3, <1>4 DEF ModelInv, Model!TypeOK
<1> DEFINE v == Nobody
<1>6. v \in Voices \union {Nobody} /\ v = Nobody /\ q.voice = v
  BY <1>2
<1>7. earlier' = [earlier EXCEPT ![a] = IF v = Nobody THEN {} ELSE Model!OverFor(v)]
  BY <1>5
<1> HIDE DEF q, v
<1>8. QED
  BY <1>2, <1>3, <1>6, <1>7, BegunKeeps

LEMMA PostVoiceKeeps ==
  ASSUME ModelInv, NEW a \in Asks, NEW v \in Voices, NEW input \in {"given", "missing"},
         Model!PostVoice(a, v, input)
  PROVE  ModelInv'
<1> DEFINE q == [Model!NoAsk EXCEPT !.kind = "voice", !.mode = "unary", !.input = input,
                                    !.voice = v, !.pc = "posted"]
<1>1. Model!NoAsk \in Model!Request
  BY ModelAssumption DEF Model!NoAsk, Model!Request, Model!ConstantsAssumption
<1>2. q \in Model!Request /\ q.kind = "voice" /\ q.pc = "posted" /\ q.voice = v
  BY <1>1 DEF Model!Request, Model!UnaryKinds
<1>3. /\ ask' = [ask EXCEPT ![a] = q] /\ ask[a].pc = "idle"
      /\ UNCHANGED <<transcript, made, unsaved, askFaults>>
      /\ earlier' = [earlier EXCEPT ![a] = IF v = Nobody THEN {} ELSE Model!OverFor(v)]
  BY VoiceIsOne DEF Model!PostVoice
<1> HIDE DEF q
<1>4. QED
  BY <1>2, <1>3, BegunKeeps

LEMMA FaultIs ==
  ASSUME ModelInv, askFaults < MaxAskFaults, askFaults' = askFaults + 1
  PROVE  askFaults' \in 0 .. MaxAskFaults
  BY ModelAssumption DEF ModelInv, Model!TypeOK, Model!ConstantsAssumption

LEMMA SameFaults == ASSUME ModelInv PROVE askFaults \in 0 .. MaxAskFaults
  BY ModelAssumption DEF ModelInv, Model!TypeOK, Model!ConstantsAssumption

LEMMA WaitKeeps ==
  ASSUME ModelInv, NEW a \in Asks,
         Model!TimesOut(a) \/ Model!Close(a) \/ Model!StreamChunk(a)
  PROVE  ModelInv'
<1>1. ask[a].pc # "idle" /\ Going(a, ask[a].pc) /\ ask[a].pc \in Places
  <2>1. ask[a].pc \in Places
    BY DEF ModelInv, Model!TypeOK, Model!Request, Places
  <2>2. CASE Model!TimesOut(a) \/ Model!Close(a)
    BY <2>1, <2>2, GivesUp DEF Model!TimesOut, Model!Close
  <2>3. CASE Model!StreamChunk(a)
    BY <2>1, <2>3, ChunkSent DEF Model!StreamChunk, Model!Streaming
  <2>4. QED
    BY <2>2, <2>3
<1>2. /\ UNCHANGED <<transcript, made, earlier, unsaved>>
      /\ askFaults' \in 0 .. MaxAskFaults
  BY FaultIs, SameFaults DEF Model!TimesOut, Model!Close, Model!StreamChunk, Model!kept
<1>3. Quiet(a, ask[a].pc)
  BY <1>1, <1>2 DEF Quiet
<1>4. QED
  BY <1>1, <1>3, QuietKeeps

\* One service is asked, which is none for attachments.
LEMMA AnswersKeeps ==
  ASSUME ModelInv, NEW a \in Asks, ask[a].pc = "posted", ask[a].kind # "voice",
         NEW refused \in BOOLEAN, NEW answer \in {"ok", "error"},
         Model!Answers(a, refused, answer)
  PROVE  ModelInv'
<1>1. ask[a].voice = Nobody
  BY DEF ModelInv, Asked
<1>2. /\ UNCHANGED <<transcript, made, earlier, unsaved>>
      /\ askFaults' \in 0 .. MaxAskFaults
  BY SameFaults DEF Model!Answers, Model!kept
<1>3. CASE refused
  <2>1. Going(a, "over")
    BY <1>3, TellGoes DEF Model!Answers
  <2>2. Quiet(a, "over")
    BY <1>2, <2>1 DEF Quiet
  <2>3. QED
    BY <2>2, QuietKeeps DEF Places
<1>4. CASE ~refused
  <2>1. Going(a, "model")
    BY <1>4, GotoGoes DEF Model!Answers, Places
  <2>2. Quiet(a, "model")
    BY <1>1, <1>2, <2>1 DEF Quiet
  <2>3. QED
    BY <2>2, QuietKeeps DEF Places
<1>5. QED
  BY <1>3, <1>4

LEMMA AskedKeeps ==
  ASSUME ModelInv, NEW a \in Asks,
         \/ Model!Moderate(a) \/ Model!SuggestReplies(a) \/ Model!SummaryDocument(a)
         \/ Model!SummaryDocumentStream(a) \/ Model!Translation(a) \/ Model!GenerateQuizz(a)
         \/ Model!GenerateQuizzStream(a) \/ Model!GenerateFlashcard(a)
         \/ Model!GenerateFlashcardStream(a) \/ Model!TranscribeRealtime(a)
  PROVE  ModelInv'
<1>1. PICK refused \in BOOLEAN, answer \in {"ok", "error"} :
        /\ ask[a].pc = "posted" /\ ask[a].kind # "voice" /\ Model!Answers(a, refused, answer)
  BY DEF Model!Begun, Model!Moderate, Model!SuggestReplies, Model!SummaryDocument,
         Model!SummaryDocumentStream, Model!Translation, Model!GenerateQuizz,
         Model!GenerateQuizzStream, Model!GenerateFlashcard, Model!GenerateFlashcardStream,
         Model!TranscribeRealtime
<1>2. QED
  BY <1>1, AnswersKeeps

LEMMA DownloadKeeps ==
  ASSUME ModelInv, NEW a \in Asks, Model!Download(a) \/ Model!FetchAudio(a)
  PROVE  ModelInv'
<1>1. /\ UNCHANGED <<transcript, made, earlier, unsaved>>
      /\ askFaults' \in 0 .. MaxAskFaults
  BY FaultIs, SameFaults DEF Model!Download, Model!FetchAudio, Model!kept
<1>2. CASE ask' = [ask EXCEPT ![a].input = "given"] /\ ask[a].pc = "posted"
  <2>1. Quiet(a, ask[a].pc)
    BY <1>1, <1>2, Fetched DEF Quiet
  <2>2. QED
    BY <1>2, <2>1, QuietKeeps DEF Places
<1>3. CASE Model!Tell(a, "error") /\ ask[a].pc \in {"posted", "audio"}
  <2>1. Quiet(a, "over")
    BY <1>1, <1>3, TellGoes DEF Quiet
  <2>2. QED
    BY <2>1, QuietKeeps DEF Places
<1>4. CASE Model!Goto(a, "model") /\ ask[a].pc = "audio"
  <2>1. Quiet(a, "model")
    BY <1>1, <1>4, GotoGoes DEF Quiet, Places
  <2>2. QED
    BY <2>1, QuietKeeps DEF Places
<1>5. QED
  BY <1>2, <1>3, <1>4 DEF Model!Download, Model!FetchAudio

LEMMA TranscribeKeeps ==
  ASSUME ModelInv, NEW a \in Asks, Model!TranscribeAttachment(a)
  PROVE  ModelInv'
<1>1. /\ UNCHANGED <<transcript, made, earlier, unsaved>>
      /\ askFaults' \in 0 .. MaxAskFaults
      /\ ask[a].pc = "posted"
  BY SameFaults DEF Model!TranscribeAttachment, Model!kept, Model!Begun
<1>2. CASE \E answer \in {"ok", "error"} : Model!Tell(a, answer)
  <2>1. Quiet(a, "over")
    BY <1>1, <1>2, TellGoes DEF Quiet
  <2>2. QED
    BY <2>1, QuietKeeps DEF Places
<1>3. CASE Model!Goto(a, "audio") /\ transcript[ask[a].voice] = Nobody
  <2>1. Quiet(a, "audio")
    BY <1>1, <1>3, GotoGoes DEF Quiet, Places
  <2>2. QED
    BY <2>1, QuietKeeps DEF Places
<1>4. QED
  BY <1>2, <1>3 DEF Model!TranscribeAttachment, Model!Transcribed

\* The model answers with no text to keep, or fails.
LEMMA AnsweredKeeps ==
  ASSUME ModelInv, NEW a \in Asks,
         Model!GenerateContent(a) \/ Model!StreamEnds(a) \/ Model!StreamBreaks(a)
  PROVE  ModelInv'
<1> USE DEF Model!GenerateContent, Model!StreamEnds, Model!StreamBreaks
<1>1. ask[a].pc = "model"
  BY DEF Model!AtModel, Model!Streaming
<1>2. Going(a, "over")
  BY TellGoes DEF Model!OnFailure
<1>3. askFaults' \in 0 .. MaxAskFaults
  BY FaultIs, SameFaults
<1>4. Quiet(a, "over")
  BY <1>1, <1>2, <1>3 DEF Quiet, Model!kept
<1>5. QED
  BY <1>4, QuietKeeps DEF Places

\* The request whose text is given is not over, and so an earlier one of none.
LEMMA SpeechKeeps == ASSUME ModelInv, NEW a \in Asks, Model!SpeechToText(a) PROVE ModelInv'
<1>1. ask[a].pc = "model" /\ UNCHANGED <<transcript, earlier, unsaved>>
  BY DEF Model!SpeechToText, Model!AtModel
<1>2. askFaults' \in 0 .. MaxAskFaults
  BY FaultIs, SameFaults DEF Model!SpeechToText
<1>3. CASE Model!Tell(a, "error") /\ UNCHANGED made
  <2>1. Quiet(a, "over")
    BY <1>1, <1>2, <1>3, TellGoes DEF Quiet
  <2>2. QED
    BY <2>1, QuietKeeps DEF Places
<1>4. CASE /\ IF ask[a].kind = "voice" THEN Model!Goto(a, "save") ELSE Model!Tell(a, "ok")
           /\ made' = made \union {a}
  <2>1. PICK pc \in Places : /\ Going(a, pc)
                             /\ \/ pc = "save" /\ ask[a].kind = "voice"
                                \/ pc = "over" /\ ask[a].kind # "voice"
    BY <1>4, TellGoes, GotoGoes DEF Places
  <2>2. Model!TypeOK'
    BY <1>1, <1>2, <1>4, <2>1 DEF ModelInv, Model!TypeOK, Going
  <2>3. \A b \in Asks : Asked(b)'
    BY <1>1, <1>4, <2>1 DEF ModelInv, Asked, Going
  <2>4. \A b \in Asks : Past(b)'
    BY <1>1, <2>1, PastStays
  <2>5. \A b \in Asks : TextStays(b)'
    BY <1>1, <1>4, <2>1, VoiceIsOne DEF ModelInv, Asked, TextStays, Going
  <2>6. \A b \in Asks : a \notin earlier[b]
    BY <1>1 DEF ModelInv, Past
  <2>7. \A b \in Asks : Fresh(b)'
    BY <1>1, <1>4, <2>1, <2>6 DEF ModelInv, Fresh, Going
  <2>8. QED
    BY <2>2, <2>3, <2>4, <2>5, <2>7 DEF ModelInv
<1>5. QED
  BY <1>3, <1>4 DEF Model!SpeechToText

\* The text is saved, or the request is among those of which that is not known.
LEMMA SaveKeeps == ASSUME ModelInv, NEW a \in Asks, Model!SaveTranscript(a) PROVE ModelInv'
<1>1. /\ ask[a].pc = "save" /\ Going(a, "over") /\ UNCHANGED <<made, earlier>>
      /\ askFaults' \in 0 .. MaxAskFaults
  BY TellGoes, FaultIs, SameFaults DEF Model!SaveTranscript
<1>2. ask[a].voice \in Voices
  BY <1>1 DEF ModelInv, Asked
<1>3. PICK v \in Voices : v = ask[a].voice
  BY <1>2
<1>4. /\ unsaved \subseteq unsaved' /\ unsaved' \subseteq unsaved \union {a}
      /\ transcript' \in [Voices -> {Nobody, "words", "silence"}]
      /\ \A w \in Voices : transcript[w] # Nobody => transcript'[w] # Nobody
      /\ a \in unsaved' \/ transcript'[v] # Nobody
  BY <1>3, VoiceIsOne DEF ModelInv, Model!TypeOK, Model!SaveTranscript, Model!Saved
<1>5. Model!TypeOK'
  BY <1>1, <1>4 DEF Going, ModelInv, Model!TypeOK
<1>6. \A b \in Asks : Asked(b)'
  BY <1>1 DEF Going, ModelInv, Asked
<1>7. \A b \in Asks : Past(b)'
  BY <1>1, PastStays DEF Places
<1>8. \A b \in Asks : TextStays(b)'
  BY <1>1, <1>3, <1>4 DEF Going, ModelInv, TextStays
<1>9. \A b \in Asks : Fresh(b)'
  BY <1>1, <1>4 DEF Going, ModelInv, Fresh
<1>10. QED
  BY <1>5, <1>6, <1>7, <1>8, <1>9 DEF ModelInv

LEMMA ModelInit == Model!Init => ModelInv
<1> SUFFICES ASSUME Model!Init PROVE ModelInv
  OBVIOUS
<1>1. Model!NoAsk \in Model!Request /\ Model!NoAsk.pc = "idle" /\ Model!NoAsk.voice = Nobody
  BY ModelAssumption DEF Model!NoAsk, Model!Request, Model!ConstantsAssumption
<1>2. Model!TypeOK
  BY <1>1, ModelAssumption DEF Model!Init, Model!TypeOK, Model!ConstantsAssumption
<1>3. QED
  BY <1>1, <1>2 DEF Model!Init, ModelInv, Asked, Past, TextStays, Fresh

LEMMA ModelNext == ModelInv /\ [Model!Next]_model => ModelInv'
<1> SUFFICES ASSUME ModelInv, [Model!Next]_model PROVE ModelInv'
  OBVIOUS
<1>1. CASE UNCHANGED model
  BY <1>1 DEF model, ModelInv, Model!TypeOK, Asked, Past, TextStays, Fresh
<1>2. ASSUME NEW a \in Asks, NEW mode \in {"unary", "stream", "resent"},
             NEW kind \in Model!UnaryKinds \ {"voice"}, NEW input \in {"given", "address", "missing"},
             Model!Post(a, mode, kind, input)
      PROVE  ModelInv'
  BY <1>2, PostKeeps
<1>3. ASSUME NEW a \in Asks, NEW v \in Voices, NEW input \in {"given", "missing"},
             Model!PostVoice(a, v, input)
      PROVE  ModelInv'
  BY <1>3, PostVoiceKeeps
<1>4. ASSUME NEW a \in Asks,
             \/ Model!TimesOut(a) \/ Model!Close(a) \/ Model!StreamChunk(a) \/ Model!Download(a)
             \/ Model!FetchAudio(a) \/ Model!TranscribeAttachment(a)
      PROVE  ModelInv'
  BY <1>4, WaitKeeps, DownloadKeeps, TranscribeKeeps
<1>5. ASSUME NEW a \in Asks,
             \/ Model!Moderate(a) \/ Model!SuggestReplies(a) \/ Model!SummaryDocument(a)
             \/ Model!SummaryDocumentStream(a) \/ Model!Translation(a) \/ Model!GenerateQuizz(a)
             \/ Model!GenerateQuizzStream(a) \/ Model!GenerateFlashcard(a)
             \/ Model!GenerateFlashcardStream(a) \/ Model!TranscribeRealtime(a)
      PROVE  ModelInv'
  BY <1>5, AskedKeeps
<1>6. ASSUME NEW a \in Asks,
             \/ Model!GenerateContent(a) \/ Model!StreamEnds(a) \/ Model!StreamBreaks(a)
             \/ Model!SpeechToText(a) \/ Model!SaveTranscript(a)
      PROVE  ModelInv'
  BY <1>6, AnsweredKeeps, SpeechKeeps, SaveKeeps
<1>7. QED
  BY <1>1, <1>2, <1>3, <1>4, <1>5, <1>6 DEF Model!Next

\* However many requests for an attachment are under way beside each other, and whichever
\* of them fail or are given up: once one of them has its text saved and is answered, no
\* request made after that asks the model for it again (transcribeAttachment,
\* ai.service.ts:219-362). Requests made before the first text is saved each may, and so
\* may those after a text that could not be saved.
THEOREM TranscribedByOneCall == AllSpec => []TranscribedOnce
<1> DEFINE Inv == part = "assistant" => ModelInv
<1>1. AllInit => Inv
  BY ModelInit DEF AllInit
<1>2. Inv /\ [AllNext]_allVars => Inv'
  BY ModelNext DEF AllNext, allVars, model
<1>3. Inv => TranscribedOnce
  BY DEF TranscribedOnce, Model!TranscribedOnce, ModelInv, Model!TypeOK, Fresh
<1>4. QED
  BY <1>1, <1>2, <1>3, PTL DEF AllSpec

-------------------------------------------------------------------------------
(* Change feed *)

\* The events of which rows were written.
Handled == {topic[k] : k \in 1..(position + (IF written THEN 1 ELSE 0))}

\* Every number is published once.
PublishedOnce ==
  /\ \A i, k \in DOMAIN topic : topic[i] = topic[k] => i = k
  /\ \A i \in DOMAIN topic : topic[i] \notin taken

Numbered(u) ==
  /\ applied[u] \subseteq 1..Len(issued) /\ pull[u].page \subseteq 1..Len(issued)
  /\ cursor[u] <= Len(issued)
  /\ pull[u].pc # "answer" => pull[u].page = {}

\* No row is above the highest change that was written; a change below the cursor that the
\* client has not seen is, so that writing it is late.
BelowTop(u) ==
  /\ \A n \in ToSet(feed[u]) \union pull[u].page : n <= hist[u].top
  /\ \A n \in 1..cursor[u] : n \in applied[u] \/ n < hist[u].top

\* A row at or below the cursor, or below a row of the page, is seen or on the page, or was
\* written late.
Passed(u) ==
  \A n \in ToSet(feed[u]) :
    /\ n <= cursor[u] => Seen(u, n) \/ n \in hist[u].late
    /\ (\E m \in pull[u].page : n <= m) =>
         n \in pull[u].page \/ Seen(u, n) \/ n \in hist[u].late

Rising(s) == \A i, k \in DOMAIN s : i < k => s[i] < s[k]

\* Before any redelivery: while none is late, rows stand in order of their numbers, and
\* retention takes them from the low end.
InOrder(u) ==
  /\ hist[u].top \in {0} \union Handled /\ ToSet(feed[u]) \subseteq Handled
  /\ \A n \in hist[u].cut : n <= hist[u].top
  /\ hist[u].late = {} =>
       Rising(feed[u]) /\ \A n \in hist[u].cut, m \in ToSet(feed[u]) : n < m

FeedInv ==
  /\ TypeOK /\ PublishedOnce
  /\ written => position < Len(topic)
  /\ \A u \in Users : Numbered(u) /\ BelowTop(u) /\ Passed(u)
  /\ crashes = 0 => \A u \in Users : InOrder(u)

LEMMA Widened == ASSUME NEW S, NEW T, S \subseteq T, NEW s \in Seq(S) PROVE s \in Seq(T)
  OBVIOUS

\* There are as many places in S as it has members, in order.
LEMMA PlacesInOrder ==
  ASSUME NEW m \in Nat, NEW S \in SUBSET (1..m)
  PROVE  /\ IsFiniteSet(S) /\ Cardinality(S) \in Nat
         /\ \A n \in 1..Cardinality(S) : Place(S, n) \in S
         /\ \A i, k \in 1..Cardinality(S) : i < k => Place(S, i) < Place(S, k)
<1> DEFINE upTo(k) == {i \in S : i <= k}
           c == Cardinality(S)
           rank == [k \in S |-> Cardinality(upTo(k))]
<1>1. S \subseteq Nat
  OBVIOUS
<1>2. ASSUME NEW i \in S, NEW k \in S, i <= k PROVE upTo(i) \in SUBSET upTo(k)
  <2>1. ASSUME NEW z \in S, z <= i PROVE z <= k
    <3>1. z \in Nat /\ i \in Nat /\ k \in Nat
      BY <1>1
    <3>2. QED
      BY <1>2, <2>1, <3>1
  <2>2. QED
    BY <2>1
<1>3. IsFiniteSet(S) /\ c \in Nat
  <2>1. IsFiniteSet(1..m)
    BY FS_Interval
  <2>2. IsFiniteSet(S)
    BY <2>1, FS_Subset
  <2>3. QED
    BY <2>2, FS_CardinalityType
<1>4. IsFiniteSet(1..c) /\ Cardinality(1..c) = c
  <2>1. 1 \in Int /\ c \in Int
    BY <1>3
  <2>2. QED
    BY <1>3, <2>1, FS_Interval
<1>5. ASSUME NEW k \in S
      PROVE  IsFiniteSet(upTo(k)) /\ Cardinality(upTo(k)) \in 1..c
  <2>1. upTo(k) \in SUBSET S /\ k \in upTo(k)
    OBVIOUS
  <2> HIDE DEF upTo
  <2>2. IsFiniteSet(upTo(k)) /\ Cardinality(upTo(k)) <= c
    BY <1>3, <2>1, FS_Subset
  <2>3. Cardinality(upTo(k)) \in Nat /\ Cardinality(upTo(k)) # 0
    BY <2>1, <2>2, FS_CardinalityType, FS_EmptySet
  <2>4. QED
    BY <1>3, <2>2, <2>3
<1>6. ASSUME NEW i \in S, NEW k \in S, i <= k
      PROVE  /\ upTo(i) \subseteq upTo(k)
             /\ Cardinality(upTo(i)) <= Cardinality(upTo(k))
  <2>1. upTo(i) \in SUBSET upTo(k)
    BY <1>2, <1>6
  <2> HIDE DEF upTo
  <2>2. QED
    BY <1>5, <2>1, FS_Subset
<1>7. ASSUME NEW i \in S, NEW k \in S, i < k
      PROVE  Cardinality(upTo(i)) # Cardinality(upTo(k))
  <2>1. k \in upTo(k) /\ k \notin upTo(i)
    BY <1>1, <1>7
  <2>2. upTo(i) \in SUBSET upTo(k)
    <3>1. i \in Nat /\ k \in Nat
      BY <1>1
    <3>2. QED
      BY <1>2, <1>7, <3>1
  <2> HIDE DEF upTo
  <2>3. QED
    BY <1>5, <2>1, <2>2, FS_Subset
<1>8. rank \in Surjection(S, 1..c)
  <2>1. \A i, k \in S : Cardinality(upTo(i)) = Cardinality(upTo(k)) => i = k
    BY <1>7
  <2>2. rank \in Injection(S, 1..c)
    BY <1>5, <2>1 DEF Injection, IsInjective
  <2>3. QED
    BY <1>3, <1>4, <2>2, FS_Injection
<1>9. \A n \in 1..c : \E k \in S : Cardinality(upTo(k)) = n
  BY <1>8 DEF Surjection
<1>10. \A n \in 1..c : Place(S, n) \in S /\ Cardinality(upTo(Place(S, n))) = n
  BY <1>9 DEF Place
<1> HIDE DEF upTo, c, rank
<1>11. ASSUME NEW i \in 1..c, NEW k \in 1..c, i < k
      PROVE  Place(S, i) < Place(S, k)
  <2>1. ~ Place(S, k) <= Place(S, i)
    <3>1. /\ Place(S, i) \in S /\ Cardinality(upTo(Place(S, i))) = i
          /\ Place(S, k) \in S /\ Cardinality(upTo(Place(S, k))) = k
      BY <1>10, <1>11
    <3> SUFFICES ASSUME Place(S, k) <= Place(S, i) PROVE FALSE
      OBVIOUS
    <3>2. Cardinality(upTo(Place(S, k))) <= Cardinality(upTo(Place(S, i)))
      BY <1>6, <3>1
    <3>3. i \in Nat /\ k \in Nat
      BY <1>3
    <3>4. QED
      BY <1>11, <3>1, <3>2, <3>3
  <2>2. Place(S, i) \in Nat /\ Place(S, k) \in Nat
    BY <1>1, <1>10
  <2>3. QED
    BY <2>1, <2>2
<1>12. QED
  BY <1>3, <1>10, <1>11 DEF c

\* Some rows of s, as they stand.
LEMMA RowsLeft ==
  ASSUME NEW T, NEW s \in Seq(T), NEW S \in SUBSET DOMAIN s
  PROVE  /\ Left(s, S) \in Seq(T)
         /\ ToSet(Left(s, S)) \subseteq {s[k] : k \in S}
         /\ Rising(s) => Rising(Left(s, S))
<1> DEFINE c == Cardinality(S)
           t == Left(s, S)
<1>1. /\ c \in Nat
      /\ \A n \in 1..c : Place(S, n) \in S
      /\ \A i, k \in 1..c : i < k => Place(S, i) < Place(S, k)
  <2>1. Len(s) \in Nat /\ S \in SUBSET (1..Len(s))
    OBVIOUS
  <2>2. QED
    BY <2>1, PlacesInOrder
<1>2. t = [n \in 1..c |-> s[Place(S, n)]]
  BY DEF Left
<1> HIDE DEF c, t
<1>3. t \in [1..c -> T] /\ DOMAIN t = 1..c
  BY <1>1, <1>2
<1>4. t \in Seq(T)
  BY <1>1, <1>3
<1>5. ToSet(t) \subseteq {s[k] : k \in S}
  BY <1>1, <1>2, <1>3 DEF ToSet
<1>6. Rising(s) => Rising(t)
  BY <1>1, <1>2, <1>3 DEF Rising
<1>7. QED
  BY <1>4, <1>5, <1>6 DEF t

\* What a client has seen, it has seen for good.
LEMMA SeenStays ==
  ASSUME NEW u \in Users, NEW n \in 1..Len(issued), applied[u] \subseteq 1..Len(issued),
         \A k \in 1..Len(issued) : issued'[k] = issued[k],
         applied[u] \subseteq applied'[u], Seen(u, n)
  PROVE  Seen(u, n)'
  BY DEF Seen, SameMark

LEMMA LogType ==
  ASSUME FeedInv
  PROVE  /\ Len(issued) \in Nat /\ MaxSeq \in Nat /\ Len(issued) <= MaxSeq
         /\ \A n \in 1..Len(issued) : issued[n] \in Change /\ issued[n].to \subseteq Users
         /\ Len(topic) \in Nat /\ \A k \in 1..Len(topic) : topic[k] \in 1..Len(issued)
         /\ position \in Nat /\ position <= Len(topic)
<1>1. issued \in Seq(Change) /\ topic \in Seq(1..Len(issued)) /\ Len(issued) <= MaxSeq
  BY DEF FeedInv, TypeOK
<1>2. \A n \in 1..Len(issued) : issued[n] \in Change
  BY <1>1
<1>3. \A c \in Change : c.to \subseteq Users
  BY DEF Change
<1>4. position \in 0..Len(topic)
  BY DEF FeedInv, TypeOK
<1>5. QED
  BY <1>1, <1>2, <1>3, <1>4, ConstantsAssumption

LEMMA RowsType ==
  ASSUME FeedInv, NEW u \in Users
  PROVE  /\ feed[u] \in Seq(1..Len(issued)) /\ Len(issued) \in Nat
         /\ ToSet(feed[u]) \subseteq 1..Len(issued)
         /\ DOMAIN feed[u] = 1..Len(feed[u]) /\ Len(feed[u]) \in Nat
         /\ hist[u] \in History /\ pull[u] \in PullState /\ cursor[u] \in Nat
<1>1. feed[u] \in Seq(1..Len(issued)) /\ cursor[u] \in 0..MaxSeq
  BY DEF FeedInv, TypeOK
<1>2. /\ ToSet(feed[u]) \subseteq 1..Len(issued)
      /\ DOMAIN feed[u] = 1..Len(feed[u]) /\ Len(feed[u]) \in Nat
  BY <1>1 DEF ToSet
<1>3. QED
  BY <1>1, <1>2, LogType DEF FeedInv, TypeOK

\* A step that leaves rows and clients alone.
LEMMA RowsStay ==
  ASSUME FeedInv, UNCHANGED <<feed, hist, pull, cursor, applied>>,
         Len(issued') \in Nat, Len(issued) <= Len(issued'),
         \A k \in 1..Len(issued) : issued'[k] = issued[k],
         crashes' \in Nat, crashes <= crashes', Handled \subseteq Handled'
  PROVE  /\ \A u \in Users : Numbered(u)' /\ BelowTop(u)' /\ Passed(u)'
         /\ crashes' = 0 => \A u \in Users : InOrder(u)'
<1>1. crashes \in Nat
  BY ConstantsAssumption DEF FeedInv, TypeOK
<1>2. ASSUME NEW u \in Users PROVE Numbered(u)' /\ BelowTop(u)' /\ Passed(u)'
  <2>1. \A n \in ToSet(feed[u]) : Seen(u, n) => Seen(u, n)'
    BY RowsType, SeenStays DEF FeedInv, Numbered
  <2>2. Numbered(u)'
    BY RowsType DEF FeedInv, Numbered
  <2>3. BelowTop(u)'
    BY DEF FeedInv, BelowTop
  <2>4. Passed(u)'
    BY <2>1 DEF FeedInv, Passed
  <2>5. QED
    BY <2>2, <2>3, <2>4
<1>3. ASSUME crashes' = 0, NEW u \in Users PROVE InOrder(u)'
  BY <1>1, <1>3 DEF FeedInv, InOrder
<1>4. QED
  BY <1>2, <1>3

LEMMA NextSeqKeeps == ASSUME FeedInv, NEW c \in Change, NextSeq(c) PROVE FeedInv'
<1>1. /\ issued' \in Seq(Change) /\ Len(issued') = Len(issued) + 1
      /\ \A k \in 1..Len(issued) : issued'[k] = issued[k]
      /\ Len(issued) \in Nat /\ Len(issued') <= MaxSeq
  BY AppendProperties, ConstantsAssumption DEF FeedInv, TypeOK, NextSeq
<1>2. 1..Len(issued) \subseteq 1..Len(issued') /\ Len(issued') \in 1..Len(issued')
  BY <1>1
<1>3. /\ UNCHANGED <<topic, position, committed, written, feed, dirty, trim, pull, cursor,
                     applied, hist, crashes, fails>>
      /\ taken' = taken \union {Len(issued')}
  BY <1>1 DEF NextSeq, consumer, client, faults
<1>4. TypeOK'
  <2>1. topic \in Seq(1..Len(issued'))
    BY <1>2, Widened DEF FeedInv, TypeOK
  <2>2. feed \in [Users -> Seq(1..Len(issued'))]
    BY <1>2, Widened DEF FeedInv, TypeOK
  <2>3. taken' \subseteq 1..Len(issued')
    BY <1>2, <1>3 DEF FeedInv, TypeOK
  <2>4. QED
    BY <1>1, <1>3, <2>1, <2>2, <2>3 DEF FeedInv, TypeOK
<1>5. PublishedOnce'
  <2>1. \A i \in DOMAIN topic : topic[i] \in 1..Len(issued)
    BY DEF FeedInv, TypeOK
  <2>2. \A i \in DOMAIN topic : topic[i] # Len(issued')
    BY <1>1, <2>1
  <2>3. QED
    BY <1>3, <2>2 DEF FeedInv, PublishedOnce
<1>6. /\ \A u \in Users : Numbered(u)' /\ BelowTop(u)' /\ Passed(u)'
      /\ crashes' = 0 => \A u \in Users : InOrder(u)'
  <2>1. Handled' = Handled
    BY <1>3 DEF Handled
  <2>2. crashes' \in Nat /\ crashes <= crashes'
    BY <1>3, ConstantsAssumption DEF FeedInv, TypeOK
  <2>3. Len(issued') \in Nat /\ Len(issued) <= Len(issued')
    BY <1>1
  <2>4. QED
    BY <1>1, <1>3, <2>1, <2>2, <2>3, RowsStay
<1>7. QED
  BY <1>3, <1>4, <1>5, <1>6 DEF FeedInv

LEMMA PublishKeeps == ASSUME FeedInv, NEW n \in taken, Publish(n) PROVE FeedInv'
<1>1. n \in 1..Len(issued) /\ Len(issued) \in Nat
  BY LogType DEF FeedInv, TypeOK
<1>2. /\ topic' \in Seq(1..Len(issued)) /\ Len(topic') = Len(topic) + 1
      /\ \A k \in 1..Len(topic) : topic'[k] = topic[k]
      /\ topic'[Len(topic')] = n /\ Len(topic) \in Nat
  BY <1>1, AppendProperties DEF FeedInv, TypeOK, Publish
<1>3. /\ UNCHANGED <<issued, position, committed, written, feed, dirty, trim, pull, cursor,
                     applied, hist, crashes, fails>>
      /\ taken' = taken \ {n}
  BY DEF Publish, consumer, client, faults
<1>4. position \in 0..Len(topic) /\ (written => position < Len(topic))
  BY DEF FeedInv, TypeOK
<1>5. TypeOK'
  <2>1. taken' \subseteq 1..Len(issued)
    BY <1>3 DEF FeedInv, TypeOK
  <2>2. position \in 0..Len(topic')
    BY <1>2, <1>4
  <2>3. QED
    BY <1>2, <1>3, <2>1, <2>2 DEF FeedInv, TypeOK
<1>6. PublishedOnce'
  <2>1. DOMAIN topic = 1..Len(topic) /\ DOMAIN topic' = 1..Len(topic')
    BY <1>2 DEF FeedInv, TypeOK
  <2>2. \A i \in DOMAIN topic' : i \in DOMAIN topic \/ i = Len(topic')
    BY <1>2, <2>1
  <2>3. \A i \in DOMAIN topic : topic'[i] = topic[i] /\ topic[i] # n
    BY <1>2, <2>1 DEF FeedInv, PublishedOnce
  <2>4. QED
    BY <1>2, <1>3, <2>2, <2>3 DEF FeedInv, PublishedOnce
<1>7. /\ \A u \in Users : Numbered(u)' /\ BelowTop(u)' /\ Passed(u)'
      /\ crashes' = 0 => \A u \in Users : InOrder(u)'
  <2>1. \A k \in 1..(position + (IF written THEN 1 ELSE 0)) : topic'[k] = topic[k]
    BY <1>2, <1>4
  <2>2. Handled' = Handled
    BY <1>3, <2>1 DEF Handled
  <2>3. crashes' \in Nat /\ crashes <= crashes'
    BY <1>3, ConstantsAssumption DEF FeedInv, TypeOK
  <2>4. QED
    BY <1>1, <1>3, <2>2, <2>3, RowsStay
<1>8. QED
  BY <1>2, <1>3, <1>4, <1>5, <1>6, <1>7 DEF FeedInv

LEMMA Failing ==
  ASSUME FeedInv, NEW failing \in BOOLEAN, MayFail(failing), UNCHANGED crashes
  PROVE  crashes' \in 0..MaxFaults /\ fails' \in 0..MaxFaults - crashes'
<1>1. crashes \in 0..MaxFaults /\ fails \in 0..MaxFaults - crashes /\ MaxFaults \in Nat
  BY ConstantsAssumption DEF FeedInv, TypeOK
<1>2. QED
  BY <1>1 DEF MayFail

LEMMA MarkDirtyKeeps == ASSUME FeedInv, MarkDirty PROVE FeedInv'
<1>1. /\ UNCHANGED <<issued, taken, topic, committed, feed, trim, pull, cursor, applied, hist,
                     crashes>>
      /\ written /\ ~ written' /\ position' = position + 1
  BY DEF MarkDirty, outbox, client
<1>2. position \in 0..Len(topic) /\ position < Len(topic) /\ Len(topic) \in Nat
  BY <1>1, LogType DEF FeedInv, TypeOK
<1>3. crashes' \in 0..MaxFaults /\ fails' \in 0..MaxFaults - crashes'
  BY <1>1, Failing DEF MarkDirty
<1>4. dirty' \subseteq Users
  <2>1. position + 1 \in 1..Len(topic)
    BY <1>2
  <2>2. issued[topic[position + 1]].to \subseteq Users
    BY <2>1, LogType
  <2>3. QED
    BY <2>2 DEF MarkDirty, FeedInv, TypeOK
<1>5. TypeOK'
  <2>1. position' \in 0..Len(topic) /\ committed \in 0..position'
    BY <1>1, <1>2 DEF FeedInv, TypeOK
  <2>2. written' \in BOOLEAN
    BY DEF MarkDirty
  <2>3. QED
    BY <1>1, <1>3, <1>4, <2>1, <2>2 DEF FeedInv, TypeOK
<1>6. PublishedOnce'
  BY <1>1 DEF FeedInv, PublishedOnce
<1>7. /\ \A u \in Users : Numbered(u)' /\ BelowTop(u)' /\ Passed(u)'
      /\ crashes' = 0 => \A u \in Users : InOrder(u)'
  <2>1. Handled' = Handled
    BY <1>1, <1>2 DEF Handled
  <2>2. crashes' \in Nat /\ crashes <= crashes'
    BY <1>1, ConstantsAssumption DEF FeedInv, TypeOK
  <2>3. QED
    BY <1>1, <2>1, <2>2, RowsStay, LogType
<1>8. QED
  BY <1>1, <1>5, <1>6, <1>7 DEF FeedInv

\* The trim job goes on, and deletes nothing.
LEMMA TrimKeeps ==
  ASSUME FeedInv,
         UNCHANGED <<issued, taken, topic, position, committed, written, feed, pull, cursor,
                     applied, hist, crashes>>,
         trim' \in TrimState, dirty' \subseteq Users,
         fails' \in 0..MaxFaults - crashes
  PROVE  FeedInv'
<1>1. TypeOK' /\ PublishedOnce'
  BY DEF FeedInv, TypeOK, PublishedOnce
<1>2. /\ \A u \in Users : Numbered(u)' /\ BelowTop(u)' /\ Passed(u)'
      /\ crashes' = 0 => \A u \in Users : InOrder(u)'
  <2>1. Handled' = Handled
    BY DEF Handled
  <2>2. crashes' \in Nat /\ crashes <= crashes'
    BY ConstantsAssumption DEF FeedInv, TypeOK
  <2>3. Len(issued') \in Nat /\ Len(issued) <= Len(issued')
    BY DEF FeedInv, TypeOK
  <2>4. QED
    BY <2>1, <2>2, <2>3, RowsStay
<1>3. QED
  BY <1>1, <1>2 DEF FeedInv

LEMMA TrimType ==
  ASSUME FeedInv
  PROVE  /\ trim \in TrimState /\ NoTrim \in TrimState /\ NextUser \in TrimState
         /\ \A u \in Users : [trim EXCEPT !.left = @ \ {u}] \in TrimState
         /\ \A u \in Users, n \in 1..Len(issued) :
              [trim EXCEPT !.pc = "delete", !.left = @ \ {u}, !.on = {u}, !.cutoff = n]
                \in TrimState
<1>1. trim \in TrimState /\ 0 \in 0..MaxSeq /\ \A n \in 1..Len(issued) : n \in 0..MaxSeq
  BY LogType DEF FeedInv, TypeOK
<1>2. NoTrim \in TrimState
  BY <1>1 DEF NoTrim, TrimState
<1>3. NextUser \in TrimState
  BY <1>1 DEF NextUser, TrimState
<1>4. ASSUME NEW u \in Users PROVE [trim EXCEPT !.left = @ \ {u}] \in TrimState
  BY <1>1 DEF TrimState
<1>5. ASSUME NEW u \in Users, NEW n \in 1..Len(issued)
      PROVE  [trim EXCEPT !.pc = "delete", !.left = @ \ {u}, !.on = {u}, !.cutoff = n]
               \in TrimState
  <2>1. n \in 0..MaxSeq /\ {u} \in SUBSET Users
    BY <1>1
  <2>2. QED
    BY <1>1, <2>1 DEF TrimState
<1>6. QED
  BY <1>1, <1>2, <1>3, <1>4, <1>5

LEMMA TrimSteps ==
  ASSUME FeedInv,
         TrimStart \/ TrimEnd \/ \E u \in Users : ReadCutoff(u) \/ TrimFails(u)
  PROVE  FeedInv'
<1>1. /\ trim \in TrimState /\ dirty \subseteq Users /\ MaxSeq \in Nat
      /\ fails \in 0..MaxFaults - crashes
  BY ConstantsAssumption DEF FeedInv, TypeOK
<1>2. NoTrim \in TrimState /\ NextUser \in TrimState
  BY TrimType
<1>3. UNCHANGED <<issued, taken, topic, position, committed, written, feed, pull, cursor,
                  applied, hist, crashes>>
  BY DEF TrimStart, TrimEnd, ReadCutoff, TrimFails, outbox, consumer, client, faults
<1>4. CASE TrimStart
  <2>1. trim' \in TrimState
    BY <1>1, <1>4 DEF TrimStart, TrimState
  <2>2. QED
    BY <1>1, <1>3, <1>4, <2>1, TrimKeeps DEF TrimStart, consumer, faults
<1>5. CASE TrimEnd
  <2>1. trim' \in TrimState /\ dirty' \subseteq Users
    BY <1>1, <1>2, <1>5 DEF TrimEnd
  <2>2. QED
    BY <1>1, <1>3, <1>5, <2>1, TrimKeeps DEF TrimEnd, faults
<1>6. ASSUME NEW u \in Users, ReadCutoff(u) PROVE FeedInv'
  <2>1. \A n \in ToSet(feed[u]) : n \in 1..Len(issued)
    BY RowsType
  <2>2. trim' \in TrimState
    BY <1>6, <2>1, TrimType DEF ReadCutoff
  <2>3. QED
    BY <1>1, <1>3, <1>6, <2>2, TrimKeeps DEF ReadCutoff, consumer, faults
<1>7. ASSUME NEW u \in Users, TrimFails(u) PROVE FeedInv'
  <2>1. trim' \in TrimState
    BY <1>7, TrimType DEF TrimFails
  <2>2. fails' \in 0..MaxFaults - crashes
    BY <1>3, <1>7, Failing DEF TrimFails
  <2>3. QED
    BY <1>1, <1>3, <1>7, <2>1, <2>2, TrimKeeps DEF TrimFails, consumer
<1>8. QED
  BY <1>4, <1>5, <1>6, <1>7

\* Retention deletes rows of u.
LEMMA RowsGo ==
  ASSUME FeedInv, NEW u \in Users, NEW s \in Seq(1..Len(issued)),
         ToSet(s) \subseteq ToSet(feed[u]),
         NEW gone \in SUBSET ToSet(feed[u]),
         Rising(feed[u]) => Rising(s) /\ \A g \in gone, r \in ToSet(s) : g < r,
         feed' = [feed EXCEPT ![u] = s], hist' = [hist EXCEPT ![u].cut = @ \union gone],
         UNCHANGED <<issued, taken, topic, position, written, dirty, pull, cursor, applied,
                     crashes, fails>>,
         committed' \in 0..position, trim' \in TrimState
  PROVE  FeedInv'
<1> DEFINE h == [hist[u] EXCEPT !.cut = @ \union gone]
<1>1. /\ h \in History /\ h.top = hist[u].top /\ h.late = hist[u].late
      /\ h.cut = hist[u].cut \union gone
  <2>1. gone \subseteq Seqs
    BY RowsType, LogType DEF Seqs
  <2>2. QED
    BY <2>1, RowsType DEF History
<1>2. /\ \A v \in Users : v # u => feed'[v] = feed[v] /\ hist'[v] = hist[v]
      /\ feed'[u] = s /\ hist'[u] = h
  BY DEF FeedInv, TypeOK
<1>3. feed' \in [Users -> Seq(1..Len(issued))] /\ hist' \in [Users -> History]
  <2> HIDE DEF h
  <2>1. hist' = [hist EXCEPT ![u] = h]
    BY DEF h
  <2>2. QED
    BY <1>1, <2>1 DEF FeedInv, TypeOK
<1>4. TypeOK' /\ PublishedOnce'
  BY <1>3 DEF FeedInv, TypeOK, PublishedOnce
<1> HIDE DEF h
<1>5. \A v \in Users : Numbered(v)' /\ BelowTop(v)' /\ Passed(v)'
  <2>1. ASSUME NEW v \in Users PROVE Numbered(v)' /\ BelowTop(v)' /\ Passed(v)'
    <3>1. /\ ToSet(feed'[v]) \subseteq ToSet(feed[v])
          /\ hist'[v].top = hist[v].top /\ hist'[v].late = hist[v].late
      BY <1>1, <1>2
    <3>2. \A n \in ToSet(feed[v]) : Seen(v, n) => Seen(v, n)'
      BY DEF Seen, SameMark
    <3>3. Numbered(v)'
      BY DEF FeedInv, Numbered
    <3>4. BelowTop(v)'
      BY <3>1 DEF FeedInv, BelowTop
    <3>5. Passed(v)'
      BY <3>1, <3>2 DEF FeedInv, Passed
    <3>6. QED
      BY <3>3, <3>4, <3>5
  <2>2. QED
    BY <2>1
<1>6. crashes' = 0 => \A v \in Users : InOrder(v)'
  <2>1. Handled' = Handled
    BY DEF Handled
  <2>2. ASSUME crashes = 0 PROVE InOrder(u)'
    <3>1. InOrder(u) /\ BelowTop(u)
      BY <2>2 DEF FeedInv
    <3>2. QED
      BY <1>1, <1>2, <2>1, <3>1 DEF InOrder, BelowTop
  <2>3. ASSUME crashes = 0, NEW v \in Users, v # u PROVE InOrder(v)'
    BY <1>2, <2>1, <2>3 DEF FeedInv, InOrder
  <2>4. QED
    BY <2>2, <2>3
<1>7. QED
  BY <1>4, <1>5, <1>6 DEF FeedInv

LEMMA ExpireKeeps == ASSUME FeedInv, NEW u \in Users, Expire(u) PROVE FeedInv'
<1> DEFINE s == Tail(feed[u])
           n == Head(feed[u])
<1>1. /\ feed[u] \in Seq(1..Len(issued)) /\ feed[u] # <<>>
      /\ DOMAIN feed[u] = 1..Len(feed[u]) /\ Len(feed[u]) \in Nat
  BY RowsType DEF Expire
<1>2. /\ s \in Seq(1..Len(issued)) /\ Len(s) = Len(feed[u]) - 1
      /\ \A i \in 1..Len(s) : s[i] = feed[u][i + 1]
      /\ n = feed[u][1] /\ Len(feed[u]) >= 1
  <2>1. /\ s \in Seq(1..Len(issued)) /\ Len(s) = Len(feed[u]) - 1
        /\ \A i \in 1..Len(s) : s[i] = feed[u][i + 1]
    BY <1>1, HeadTailProperties
  <2>2. n = feed[u][1] /\ Len(feed[u]) >= 1
    BY <1>1
  <2>3. QED
    BY <2>1, <2>2
<1>3. DOMAIN s = 1..Len(s)
  BY <1>2
<1> HIDE DEF s, n
<1>4. \A i \in DOMAIN s : i + 1 \in DOMAIN feed[u] /\ s[i] = feed[u][i + 1] /\ i \in Nat
  <2>1. ASSUME NEW i \in 1..Len(s) PROVE i + 1 \in 1..Len(feed[u]) /\ i \in Nat
    BY <1>1, <1>2
  <2>2. QED
    BY <1>1, <1>2, <1>3, <2>1
<1>5. 1 \in DOMAIN feed[u]
  BY <1>1, <1>2
<1>6. ToSet(s) \subseteq ToSet(feed[u]) /\ n \in ToSet(feed[u])
  BY <1>2, <1>4, <1>5 DEF ToSet
<1>7. Rising(feed[u]) => Rising(s) /\ \A g \in {n}, r \in ToSet(s) : g < r
  <2>1. ASSUME Rising(feed[u]), NEW i \in DOMAIN s, NEW k \in DOMAIN s, i < k
        PROVE  s[i] < s[k]
    BY <1>4, <2>1 DEF Rising
  <2>2. ASSUME Rising(feed[u]), NEW i \in DOMAIN s PROVE n < s[i]
    <3>1. i + 1 \in DOMAIN feed[u] /\ 1 < i + 1
      BY <1>3, <1>4
    <3>2. feed[u][1] < feed[u][i + 1]
      BY <1>5, <2>2, <3>1 DEF Rising
    <3>3. QED
      BY <1>2, <1>4, <3>2
  <2>3. QED
    BY <2>1, <2>2 DEF Rising, ToSet
<1>8. /\ feed' = [feed EXCEPT ![u] = s] /\ hist' = [hist EXCEPT ![u].cut = @ \union {n}]
      /\ UNCHANGED <<issued, taken, topic, position, written, dirty, pull, cursor, applied,
                     crashes, fails>>
      /\ trim' = trim
  BY DEF Expire, outbox, client, faults, s, n
<1>9. committed' \in 0..position /\ trim' \in TrimState
  <2>1. committed \in 0..position /\ position \in Nat
    BY LogType DEF FeedInv, TypeOK
  <2>2. QED
    BY <1>8, <2>1 DEF Expire, FeedInv, TypeOK
<1>10. {n} \in SUBSET ToSet(feed[u])
  BY <1>6
<1>11. QED
  BY <1>2, <1>6, <1>7, <1>8, <1>9, <1>10, RowsGo

LEMMA DeleteRowsKeeps == ASSUME FeedInv, NEW u \in Users, DeleteRows(u) PROVE FeedInv'
<1> DEFINE kept == {k \in DOMAIN feed[u] : feed[u][k] > trim.cutoff}
           s == Left(feed[u], kept)
           gone == {n \in ToSet(feed[u]) : n <= trim.cutoff}
<1>1. /\ feed[u] \in Seq(1..Len(issued)) /\ ToSet(feed[u]) \subseteq Nat
      /\ kept \in SUBSET DOMAIN feed[u]
  BY RowsType
<1>2. /\ s \in Seq(1..Len(issued)) /\ ToSet(s) \subseteq {feed[u][k] : k \in kept}
      /\ Rising(feed[u]) => Rising(s)
  BY <1>1, RowsLeft
<1>3. ToSet(s) \subseteq ToSet(feed[u]) /\ \A r \in ToSet(s) : r > trim.cutoff
  <2> HIDE DEF s
  <2>1. QED
    BY <1>2 DEF ToSet
<1>4. trim \in TrimState /\ trim.cutoff \in Nat
  BY DEF FeedInv, TypeOK, TrimState
<1>5. gone \in SUBSET ToSet(feed[u])
  OBVIOUS
<1>6. \A g \in gone, r \in ToSet(s) : g < r
  <2> HIDE DEF s
  <2>1. QED
    BY <1>1, <1>3, <1>4
<1>7. NextUser \in TrimState
  BY TrimType
<1>8. /\ feed' = [feed EXCEPT ![u] = s] /\ hist' = [hist EXCEPT ![u].cut = @ \union gone]
      /\ UNCHANGED <<issued, taken, topic, position, written, dirty, pull, cursor, applied,
                     crashes, fails>>
      /\ trim' = NextUser /\ committed' = committed
  BY DEF DeleteRows, outbox, consumer, client, faults
<1>9. committed' \in 0..position /\ trim' \in TrimState
  BY <1>7, <1>8 DEF FeedInv, TypeOK
<1> HIDE DEF s, gone, kept
<1>10. QED
  BY <1>2, <1>3, <1>5, <1>6, <1>8, <1>9, RowsGo

LEMMA RestartKeeps == ASSUME FeedInv, Restart PROVE FeedInv'
<1>1. /\ UNCHANGED <<issued, taken, topic, feed, dirty, cursor, applied, hist, fails>>
      /\ written' = FALSE /\ trim' = NoTrim /\ pull' = [u \in Users |-> NoPull]
      /\ crashes' = crashes + 1 /\ crashes + fails < MaxFaults
      /\ position' \in committed..position /\ committed' = position'
  BY DEF Restart, outbox, client
<1>2. crashes \in Nat /\ fails \in Nat /\ MaxFaults \in Nat
  BY ConstantsAssumption DEF FeedInv, TypeOK
<1>3. TypeOK'
  <2>1. NoPull \in PullState /\ NoTrim \in TrimState
    BY ConstantsAssumption DEF NoPull, PullState, NoTrim, TrimState
  <2>2. committed \in 0..position /\ position \in 0..Len(topic) /\ Len(topic) \in Nat
    BY LogType DEF FeedInv, TypeOK
  <2>3. position' \in 0..Len(topic) /\ committed' \in 0..position'
    BY <1>1, <2>2
  <2>4. crashes' \in 0..MaxFaults /\ fails' \in 0..MaxFaults - crashes'
    BY <1>1, <1>2
  <2>5. QED
    BY <1>1, <2>1, <2>3, <2>4 DEF FeedInv, TypeOK
<1>4. PublishedOnce'
  BY <1>1 DEF FeedInv, PublishedOnce
<1>5. ASSUME NEW u \in Users PROVE Numbered(u)' /\ BelowTop(u)' /\ Passed(u)'
  <2>1. pull'[u].page = {}
    BY <1>1 DEF NoPull
  <2>2. \A n \in ToSet(feed[u]) : Seen(u, n) => Seen(u, n)'
    BY <1>1 DEF Seen, SameMark
  <2>3. Numbered(u)'
    BY <1>1, <2>1 DEF FeedInv, Numbered
  <2>4. BelowTop(u)'
    BY <1>1, <2>1 DEF FeedInv, BelowTop
  <2>5. Passed(u)'
    BY <1>1, <2>1, <2>2 DEF FeedInv, Passed
  <2>6. QED
    BY <2>3, <2>4, <2>5
<1>6. QED
  BY <1>1, <1>2, <1>3, <1>4, <1>5 DEF FeedInv

\* A client goes on.
LEMMA ClientGoes ==
  ASSUME FeedInv, NEW u \in Users, NEW p \in PullState, pull' = [pull EXCEPT ![u] = p],
         cursor' \in [Users -> 0..MaxSeq], applied' \in [Users -> SUBSET Seqs],
         \A v \in Users : v # u => cursor'[v] = cursor[v] /\ applied'[v] = applied[v],
         fails' \in 0..MaxFaults - crashes,
         UNCHANGED <<issued, taken, topic, position, committed, written, feed, dirty, trim,
                     hist, crashes>>,
         Numbered(u)', BelowTop(u)', Passed(u)'
  PROVE  FeedInv'
<1>1. \A v \in Users : v # u => pull'[v] = pull[v]
  BY DEF FeedInv, TypeOK
<1>2. TypeOK' /\ PublishedOnce'
  BY DEF FeedInv, TypeOK, PublishedOnce
<1>3. ASSUME NEW v \in Users, v # u PROVE Numbered(v)' /\ BelowTop(v)' /\ Passed(v)'
  <2>1. /\ pull'[v] = pull[v] /\ cursor'[v] = cursor[v] /\ applied'[v] = applied[v]
        /\ \A n \in ToSet(feed[v]) : Seen(v, n) => Seen(v, n)'
    BY <1>1, <1>3 DEF Seen, SameMark
  <2>2. Numbered(v)'
    BY <2>1 DEF FeedInv, Numbered
  <2>3. BelowTop(v)'
    BY <2>1 DEF FeedInv, BelowTop
  <2>4. Passed(v)'
    BY <2>1 DEF FeedInv, Passed
  <2>5. QED
    BY <2>2, <2>3, <2>4
<1>4. crashes' = 0 => \A v \in Users : InOrder(v)'
  <2>1. Handled' = Handled
    BY DEF Handled
  <2>2. QED
    BY <2>1 DEF FeedInv, InOrder
<1>5. QED
  BY <1>2, <1>3, <1>4 DEF FeedInv

LEMMA PullBegun ==
  ASSUME NEW b \in BOOLEAN
  PROVE  LET p == [NoPull EXCEPT !.pc = "rows", !.resync = b] IN
         p \in PullState /\ p.page = {} /\ p.resync = b
  BY DEF NoPull, PullState

LEMMA ReadOldestKeeps == ASSUME FeedInv, NEW u \in Users, ReadOldest(u) PROVE FeedInv'
<1> DEFINE p == [NoPull EXCEPT !.pc = "rows", !.resync = Behind(u)]
<1>1. /\ pull' = [pull EXCEPT ![u] = p] /\ pull[u].pc = "idle"
      /\ UNCHANGED <<issued, taken, topic, position, committed, written, feed, dirty, trim,
                     cursor, applied, hist, crashes, fails>>
  BY DEF ReadOldest, outbox, consumer, client, faults
<1>2. Behind(u) \in BOOLEAN
  BY DEF Behind
<1>3. p \in PullState /\ p.page = {}
  BY <1>2, PullBegun
<1> HIDE DEF p
<1>4. pull'[u] = p
  BY <1>1 DEF FeedInv, TypeOK
<1>5. \A n \in ToSet(feed[u]) : Seen(u, n) => Seen(u, n)'
  BY <1>1 DEF Seen, SameMark
<1>6. Numbered(u)' /\ BelowTop(u)' /\ Passed(u)'
  <2>1. Numbered(u)'
    BY <1>1, <1>3, <1>4 DEF FeedInv, Numbered
  <2>2. BelowTop(u)'
    BY <1>1, <1>3, <1>4 DEF FeedInv, BelowTop
  <2>3. Passed(u)'
    BY <1>1, <1>3, <1>4, <1>5 DEF FeedInv, Passed
  <2>4. QED
    BY <2>1, <2>2, <2>3
<1>7. QED
  <2>1. /\ cursor' \in [Users -> 0..MaxSeq] /\ applied' \in [Users -> SUBSET Seqs]
        /\ fails' \in 0..MaxFaults - crashes
    BY <1>1 DEF FeedInv, TypeOK
  <2>2. QED
    BY <1>1, <1>3, <1>6, <2>1, ClientGoes

\* The rows up to one of the page are on it.
LEMMA PageIsFirst ==
  ASSUME FeedInv, NEW u \in Users, NEW m \in Page(u), NEW n \in ToSet(feed[u]),
         n > cursor[u], n <= m
  PROVE  n \in Page(u)
<1> DEFINE of(i) == {k \in DOMAIN feed[u] : feed[u][k] \in cursor[u] + 1..i - 1}
<1>1. /\ n \in Nat /\ m \in Nat /\ cursor[u] \in Nat /\ DOMAIN feed[u] = 1..Len(feed[u])
      /\ Len(feed[u]) \in Nat
  <2>1. ToSet(feed[u]) \subseteq 1..Len(issued) /\ m \in ToSet(feed[u])
    BY RowsType DEF Page
  <2>2. QED
    BY <2>1, RowsType
<1>2. IsFiniteSet(DOMAIN feed[u])
  <2>1. 1 \in Int /\ Len(feed[u]) \in Int
    BY <1>1
  <2>2. IsFiniteSet(1..Len(feed[u]))
    BY <2>1, FS_Interval
  <2>3. QED
    BY <1>1, <2>2
<1>3. of(m) \in SUBSET DOMAIN feed[u] /\ of(n) \in SUBSET of(m)
  BY <1>1
<1> HIDE DEF of
<1>4. IsFiniteSet(of(m)) /\ Cardinality(of(m)) \in Nat
  BY <1>2, <1>3, FS_Subset, FS_CardinalityType
<1>5. Cardinality(of(n)) <= Cardinality(of(m)) /\ Cardinality(of(n)) \in Nat
  BY <1>3, <1>4, FS_Subset, FS_CardinalityType
<1>6. Cardinality(of(m)) < Limit
  BY DEF Page, Between, of
<1>7. Cardinality(of(n)) < Limit
  BY <1>4, <1>5, <1>6, ConstantsAssumption
<1>8. QED
  BY <1>7 DEF Page, Between, of

LEMMA ReadRowsKeeps == ASSUME FeedInv, NEW u \in Users, ReadRows(u) PROVE FeedInv'
<1> DEFINE p == [pull[u] EXCEPT !.pc = "answer", !.page = Page(u)]
<1>1. /\ pull' = [pull EXCEPT ![u] = p]
      /\ UNCHANGED <<issued, taken, topic, position, committed, written, feed, dirty, trim,
                     cursor, applied, hist, crashes, fails>>
  BY DEF ReadRows, outbox, consumer, client, faults
<1>2. Page(u) \subseteq ToSet(feed[u]) /\ Page(u) \subseteq Seqs
  BY RowsType, LogType DEF Page, Seqs
<1>3. p \in PullState /\ p.page = Page(u) /\ p.pc = "answer"
  BY <1>2, RowsType DEF PullState
<1>4. pull'[u] = p
  BY <1>1 DEF FeedInv, TypeOK
<1> HIDE DEF p
<1>5. \A n \in ToSet(feed[u]) : Seen(u, n) => Seen(u, n)'
  BY <1>1 DEF Seen, SameMark
<1>6. Numbered(u)'
  BY <1>1, <1>2, <1>3, <1>4, RowsType DEF FeedInv, Numbered
<1>7. BelowTop(u)'
  BY <1>1, <1>2, <1>3, <1>4 DEF FeedInv, BelowTop
<1>8. Passed(u)'
  <2> SUFFICES ASSUME NEW n \in ToSet(feed[u])
               PROVE  /\ n <= cursor[u] => Seen(u, n)' \/ n \in hist[u].late
                      /\ (\E m \in Page(u) : n <= m) =>
                           n \in Page(u) \/ Seen(u, n)' \/ n \in hist[u].late
    BY <1>1, <1>3, <1>4 DEF Passed
  <2>1. n <= cursor[u] => Seen(u, n)' \/ n \in hist[u].late
    BY <1>5 DEF FeedInv, Passed
  <2>2. n <= cursor[u] \/ n > cursor[u]
    <3>1. n \in 1..Len(issued) /\ cursor[u] \in Nat
      BY RowsType
    <3>2. QED
      BY <3>1
  <2>3. ASSUME NEW m \in Page(u), n <= m, n > cursor[u] PROVE n \in Page(u)
    BY <2>3, PageIsFirst
  <2>4. QED
    BY <2>1, <2>2, <2>3
<1>9. QED
  <2>1. /\ cursor' \in [Users -> 0..MaxSeq] /\ applied' \in [Users -> SUBSET Seqs]
        /\ fails' \in 0..MaxFaults - crashes
    BY <1>1 DEF FeedInv, TypeOK
  <2>2. QED
    BY <1>1, <1>3, <1>6, <1>7, <1>8, <2>1, ClientGoes

LEMMA AnswerKeeps ==
  ASSUME FeedInv, NEW u \in Users, NEW current \in CurrentSeq, Answer(u, current) PROVE FeedInv'
<1> DEFINE page == pull[u].page
<1>1. /\ pull' = [pull EXCEPT ![u] = NoPull]
      /\ UNCHANGED <<issued, taken, topic, position, committed, written, feed, dirty, trim,
                     hist, crashes>>
      /\ MayFail(current # Len(issued))
  BY DEF Answer, outbox, consumer
<1>2. NoPull \in PullState /\ NoPull.page = {} /\ pull'[u] = NoPull
  BY <1>1 DEF NoPull, PullState, FeedInv, TypeOK
<1>3. /\ page \subseteq 1..Len(issued) /\ applied[u] \subseteq 1..Len(issued)
      /\ current \in 0..Len(issued) /\ cursor[u] \in 0..Len(issued)
      /\ 1..Len(issued) \subseteq Seqs /\ 0..Len(issued) \subseteq 0..MaxSeq
      /\ Len(issued) \in Nat
  BY RowsType, LogType DEF FeedInv, Numbered, CurrentSeq, Seqs
<1>4. fails' \in 0..MaxFaults - crashes
  BY <1>1, Failing
<1>5. \A n \in ToSet(feed[u]) : n \in 1..Len(issued)
  BY RowsType
<1>6. \A n \in page : n <= hist[u].top
  BY DEF FeedInv, BelowTop
<1>7. /\ \A n \in 1..cursor[u] : n \in applied[u] \/ n < hist[u].top
      /\ \A n \in ToSet(feed[u]) : n <= hist[u].top
  BY DEF FeedInv, BelowTop
<1>8. hist[u].top \in Nat
  BY RowsType DEF History
<1>9. CASE /\ applied' = [applied EXCEPT ![u] = @ \union page]
           /\ \/ UNCHANGED cursor
              \/ \E last \in page : cursor' = [cursor EXCEPT ![u] = last]
  <2>1. /\ applied'[u] = applied[u] \union page
        /\ cursor'[u] = cursor[u] \/ cursor'[u] \in page
        /\ \A v \in Users : v # u => cursor'[v] = cursor[v] /\ applied'[v] = applied[v]
    BY <1>9 DEF FeedInv, TypeOK
  <2>2. cursor' \in [Users -> 0..MaxSeq] /\ applied' \in [Users -> SUBSET Seqs]
    <3>1. page \subseteq Seqs /\ page \subseteq 0..MaxSeq
      BY <1>3
    <3>2. applied' \in [Users -> SUBSET Seqs]
      BY <1>9, <3>1 DEF FeedInv, TypeOK
    <3>3. cursor' \in [Users -> 0..MaxSeq]
      BY <1>9, <3>1 DEF FeedInv, TypeOK
    <3>4. QED
      BY <3>2, <3>3
  <2>3. Numbered(u)'
    BY <1>1, <1>2, <1>3, <2>1 DEF Numbered, NoPull
  <2>4. BelowTop(u)'
    <3>1. ASSUME NEW n \in 1..cursor'[u] PROVE n \in applied'[u] \/ n < hist[u].top
      <4>1. CASE cursor'[u] = cursor[u]
        BY <1>7, <2>1, <3>1, <4>1
      <4>2. CASE cursor'[u] \in page
        BY <1>3, <1>6, <1>8, <2>1, <3>1, <4>2
      <4>3. QED
        BY <2>1, <4>1, <4>2
    <3>2. QED
      BY <1>1, <1>2, <1>7, <3>1 DEF BelowTop
  <2>5. Passed(u)'
    <3> SUFFICES ASSUME NEW n \in ToSet(feed[u]), n <= cursor'[u]
                 PROVE  Seen(u, n)' \/ n \in hist[u].late
      BY <1>1, <1>2 DEF Passed
    <3>1. Seen(u, n) => Seen(u, n)'
      BY <1>1, <2>1 DEF Seen, SameMark
    <3>2. n \in page => Seen(u, n)'
      BY <2>1 DEF Seen
    <3>3. \/ n <= cursor[u]
          \/ \E m \in page : n <= m
      BY <2>1
    <3>4. QED
      BY <3>1, <3>2, <3>3 DEF FeedInv, Passed
  <2>6. QED
    BY <1>1, <1>2, <1>4, <2>1, <2>2, <2>3, <2>4, <2>5, ClientGoes
<1>10. CASE /\ applied' = [applied EXCEPT ![u] = @ \union 1..Len(issued)]
            /\ cursor' = [cursor EXCEPT ![u] = current]
  <2>1. /\ applied'[u] = 1..Len(issued) /\ cursor'[u] = current
        /\ \A v \in Users : v # u => cursor'[v] = cursor[v] /\ applied'[v] = applied[v]
    BY <1>3, <1>10 DEF FeedInv, TypeOK
  <2>2. cursor' \in [Users -> 0..MaxSeq] /\ applied' \in [Users -> SUBSET Seqs]
    BY <1>3, <1>10 DEF FeedInv, TypeOK
  <2>3. Numbered(u)'
    BY <1>1, <1>2, <1>3, <2>1 DEF Numbered, NoPull
  <2>4. BelowTop(u)'
    BY <1>1, <1>2, <1>3, <1>7, <2>1 DEF BelowTop
  <2>5. \A n \in ToSet(feed[u]) : Seen(u, n)'
    BY <1>1, <1>5, <2>1 DEF Seen
  <2>6. Passed(u)'
    BY <1>1, <1>2, <2>5 DEF Passed
  <2>7. QED
    BY <1>1, <1>2, <1>4, <2>1, <2>2, <2>3, <2>4, <2>6, ClientGoes
<1>11. QED
  BY <1>9, <1>10 DEF Answer

LEMMA RowsAppended ==
  ASSUME NEW T, NEW s \in Seq(T), NEW n \in T
  PROVE  /\ Append(s, n) \in Seq(T) /\ ToSet(Append(s, n)) \subseteq ToSet(s) \union {n}
         /\ Rising(s) /\ (\A r \in ToSet(s) : r < n) => Rising(Append(s, n))
<1> DEFINE t == Append(s, n)
<1>1. /\ t \in Seq(T) /\ Len(t) = Len(s) + 1 /\ \A i \in 1..Len(s) : t[i] = s[i]
      /\ t[Len(s) + 1] = n
  BY AppendProperties
<1>2. DOMAIN s = 1..Len(s) /\ Len(s) \in Nat
  OBVIOUS
<1> HIDE DEF t
<1>3. DOMAIN t = 1..Len(s) + 1
  BY <1>1
<1>4. \A i \in DOMAIN t : i \in DOMAIN s \/ i = Len(s) + 1
  BY <1>2, <1>3
<1>5. \A i \in DOMAIN s : t[i] = s[i] /\ s[i] \in ToSet(s)
  BY <1>1, <1>2 DEF ToSet
<1>6. ToSet(t) \subseteq ToSet(s) \union {n}
  BY <1>1, <1>4, <1>5 DEF ToSet
<1>7. ASSUME Rising(s), \A r \in ToSet(s) : r < n,
             NEW i \in DOMAIN t, NEW k \in DOMAIN t, i < k
      PROVE  t[i] < t[k]
  <2>1. i \in DOMAIN s
    BY <1>2, <1>3, <1>7
  <2>2. CASE k \in DOMAIN s
    BY <1>5, <1>7, <2>1, <2>2 DEF Rising
  <2>3. CASE k = Len(s) + 1
    BY <1>1, <1>5, <1>7, <2>1, <2>3
  <2>4. QED
    BY <1>4, <2>2, <2>3
<1>8. QED
  BY <1>1, <1>6, <1>7 DEF Rising, t

LEMMA WriteRowsKeeps == ASSUME FeedInv, NEW ok \in SUBSET Users, WriteRows(ok) PROVE FeedInv'
<1> DEFINE n == topic[position + 1]
<1>1. /\ UNCHANGED <<issued, taken, topic, committed, dirty, trim, pull, cursor, applied,
                     crashes>>
      /\ ~ written /\ position < Len(topic) /\ ok \subseteq issued[n].to
      /\ MayFail(ok # issued[n].to)
      /\ feed' = [u \in Users |-> IF u \in ok THEN Stored(u, n) ELSE feed[u]]
      /\ hist' = [u \in Users |-> IF u \in ok THEN Noted(u, n) ELSE hist[u]]
      /\ written' \in BOOLEAN
      /\ position' = IF written' THEN position ELSE position + 1
  BY DEF WriteRows, outbox, client
<1>2. /\ position \in Nat /\ Len(topic) \in Nat /\ position + 1 \in 1..Len(topic)
      /\ n \in 1..Len(issued) /\ Len(issued) \in Nat /\ Len(issued) <= MaxSeq
      /\ MaxSeq \in Nat
  BY <1>1, LogType
<1>3. fails' \in 0..MaxFaults - crashes
  BY <1>1, Failing
<1>4. DOMAIN topic = 1..Len(topic)
  BY DEF FeedInv, TypeOK
<1>5. Handled' = Handled \union {n} /\ n \notin Handled
  <2>1. Handled = {topic[k] : k \in 1..position}
    BY <1>1, <1>2 DEF Handled
  <2>2. Handled' = {topic[k] : k \in 1..position + 1}
    BY <1>1, <1>2 DEF Handled
  <2>3. 1..position + 1 = (1..position) \union {position + 1}
    BY <1>2
  <2>4. \A k \in 1..position : k \in DOMAIN topic /\ position + 1 \in DOMAIN topic /\ k # position + 1
    BY <1>2, <1>4
  <2>5. \A k \in 1..position : topic[k] # n
    BY <2>4 DEF FeedInv, PublishedOnce
  <2>6. QED
    BY <2>1, <2>2, <2>3, <2>5
<1> HIDE DEF n
<1>6. ASSUME NEW u \in Users
      PROVE  /\ Stored(u, n) \in Seq(1..Len(issued))
             /\ ToSet(Stored(u, n)) \subseteq ToSet(feed[u]) \union {n}
             /\ Rising(feed[u]) /\ (\A r \in ToSet(feed[u]) : r < n) => Rising(Stored(u, n))
  <2> DEFINE others == {k \in DOMAIN feed[u] : \/ issued[n].mark = None
                                               \/ issued[feed[u][k]].mark # issued[n].mark}
             s == Left(feed[u], others)
  <2>1. feed[u] \in Seq(1..Len(issued)) /\ others \in SUBSET DOMAIN feed[u]
    BY RowsType
  <2>2. /\ s \in Seq(1..Len(issued)) /\ ToSet(s) \subseteq {feed[u][k] : k \in others}
        /\ Rising(feed[u]) => Rising(s)
    BY <2>1, RowsLeft
  <2>3. Stored(u, n) = Append(s, n)
    BY DEF Stored
  <2> HIDE DEF s
  <2>4. ToSet(s) \subseteq ToSet(feed[u])
    BY <2>1, <2>2 DEF ToSet
  <2> HIDE DEF others
  <2>5. /\ Append(s, n) \in Seq(1..Len(issued))
        /\ ToSet(Append(s, n)) \subseteq ToSet(s) \union {n}
        /\ Rising(s) /\ (\A r \in ToSet(s) : r < n) => Rising(Append(s, n))
    BY <1>2, <2>2, RowsAppended
  <2>6. QED
    BY <2>2, <2>3, <2>4, <2>5
<1>7. ASSUME NEW u \in Users
      PROVE  /\ Noted(u, n) \in History
             /\ Noted(u, n).top \in {hist[u].top, n}
             /\ hist[u].top <= Noted(u, n).top /\ n <= Noted(u, n).top
             /\ hist[u].late \subseteq Noted(u, n).late
             /\ n < hist[u].top /\ n \notin ToSet(feed[u]) => n \in Noted(u, n).late
             /\ Noted(u, n).cut \subseteq hist[u].cut
  <2>1. /\ hist[u].top \in 0..MaxSeq /\ hist[u].late \subseteq Seqs /\ hist[u].cut \subseteq Seqs
        /\ n \in Seqs /\ n \in 0..MaxSeq
    BY <1>2, RowsType DEF History, Seqs
  <2>2. QED
    BY <1>2, <2>1 DEF Noted, History
<1>8. ASSUME NEW u \in Users
      PROVE  /\ u \in ok => feed'[u] = Stored(u, n) /\ hist'[u] = Noted(u, n)
             /\ u \notin ok => feed'[u] = feed[u] /\ hist'[u] = hist[u]
  BY <1>1
<1>9. TypeOK'
  <2>1. feed' \in [Users -> Seq(1..Len(issued))]
    BY <1>1, <1>6, RowsType
  <2>2. hist' \in [Users -> History]
    BY <1>1, <1>7, RowsType
  <2>3. position' \in 0..Len(topic) /\ committed \in 0..position'
    <3>1. committed \in 0..position
      BY DEF FeedInv, TypeOK
    <3>2. QED
      BY <1>1, <1>2, <3>1
  <2>4. QED
    BY <1>1, <1>3, <2>1, <2>2, <2>3 DEF FeedInv, TypeOK
<1>10. PublishedOnce' /\ (written' => position' < Len(topic'))
  BY <1>1, <1>2 DEF FeedInv, PublishedOnce
<1>11. ASSUME NEW u \in Users PROVE Numbered(u)' /\ BelowTop(u)' /\ Passed(u)'
  <2>1. Numbered(u)'
    BY <1>1 DEF FeedInv, Numbered
  <2>2. CASE u \notin ok
    <3>1. \A r \in ToSet(feed[u]) : Seen(u, r) => Seen(u, r)'
      BY <1>1 DEF Seen, SameMark
    <3>2. BelowTop(u)'
      BY <1>1, <1>8, <2>2 DEF FeedInv, BelowTop
    <3>3. Passed(u)'
      BY <1>1, <1>8, <2>2, <3>1 DEF FeedInv, Passed
    <3>4. QED
      BY <2>1, <3>2, <3>3
  <2>3. CASE u \in ok
    <3>1. /\ ToSet(feed'[u]) \subseteq ToSet(feed[u]) \union {n}
          /\ hist[u].top <= hist'[u].top /\ n <= hist'[u].top
          /\ hist[u].late \subseteq hist'[u].late
          /\ n < hist[u].top /\ n \notin ToSet(feed[u]) => n \in hist'[u].late
          /\ hist'[u].top \in Nat
      BY <1>6, <1>7, <1>8, <2>3 DEF History
    <3>2. hist[u].top \in Nat /\ cursor[u] \in Nat /\ ToSet(feed[u]) \subseteq Nat
      BY RowsType DEF History
    <3>3. pull[u].page \subseteq Nat
      BY <1>2 DEF FeedInv, Numbered
    <3>4. BelowTop(u)'
      <4>1. ASSUME NEW r \in ToSet(feed'[u]) \union pull[u].page PROVE r <= hist'[u].top
        <5>1. CASE r = n
          BY <3>1, <5>1
        <5>2. CASE r \in ToSet(feed[u]) \union pull[u].page
          <6>1. r <= hist[u].top /\ r \in Nat
            BY <3>2, <3>3, <5>2 DEF FeedInv, BelowTop
          <6>2. QED
            BY <3>1, <3>2, <6>1
        <5>3. QED
          BY <3>1, <4>1, <5>1, <5>2
      <4>2. ASSUME NEW r \in 1..cursor[u] PROVE r \in applied[u] \/ r < hist'[u].top
        <5>1. r \in applied[u] \/ r < hist[u].top
          BY DEF FeedInv, BelowTop
        <5>2. QED
          BY <3>1, <3>2, <5>1
      <4>3. QED
        BY <1>1, <4>1, <4>2 DEF BelowTop
    <3>5. Passed(u)'
      <4> SUFFICES ASSUME NEW r \in ToSet(feed'[u])
                   PROVE  /\ r <= cursor[u] => Seen(u, r)' \/ r \in hist'[u].late
                          /\ (\E m \in pull[u].page : r <= m) =>
                               r \in pull[u].page \/ Seen(u, r)' \/ r \in hist'[u].late
        BY <1>1 DEF Passed
      <4>1. Seen(u, r) => Seen(u, r)'
        BY <1>1 DEF Seen, SameMark
      <4>2. CASE r \in ToSet(feed[u])
        BY <3>1, <4>1, <4>2 DEF FeedInv, Passed
      <4>3. CASE r = n /\ n \notin ToSet(feed[u])
        <5>1. r < hist[u].top => r \in hist'[u].late
          BY <3>1, <4>3
        <5>2. r <= cursor[u] => r \in applied[u] \/ r < hist[u].top
          BY <1>2, <3>2, <4>3 DEF FeedInv, BelowTop
        <5>3. r \in applied[u] => Seen(u, r)'
          BY <1>1 DEF Seen
        <5>4. ASSUME NEW m \in pull[u].page, r <= m PROVE r = m \/ r < hist[u].top
          <6>1. m <= hist[u].top /\ m \in Nat
            BY <3>3 DEF FeedInv, BelowTop
          <6>2. QED
            BY <1>2, <3>2, <4>3, <5>4, <6>1
        <5>5. r <= cursor[u] => Seen(u, r)' \/ r \in hist'[u].late
          BY <5>1, <5>2, <5>3
        <5>6. (\E m \in pull[u].page : r <= m) => r \in pull[u].page \/ r \in hist'[u].late
          BY <5>1, <5>4
        <5>7. QED
          BY <5>5, <5>6
      <4>4. QED
        BY <3>1, <4>2, <4>3
    <3>6. QED
      BY <2>1, <3>4, <3>5
  <2>4. QED
    BY <2>2, <2>3
<1>12. ASSUME crashes' = 0, NEW u \in Users PROVE InOrder(u)'
  <2>1. InOrder(u) /\ BelowTop(u)
    BY <1>1, <1>12 DEF FeedInv
  <2>2. CASE u \notin ok
    BY <1>5, <1>8, <2>1, <2>2 DEF InOrder
  <2>3. CASE u \in ok
    <3>1. feed'[u] = Stored(u, n) /\ hist'[u] = Noted(u, n)
      BY <1>8, <2>3
    <3>2. hist[u].top \in Nat /\ ToSet(feed[u]) \subseteq Nat /\ hist[u].cut \subseteq Nat
      <4>1. hist[u].top \in 0..MaxSeq /\ hist[u].cut \subseteq 1..MaxSeq
        BY RowsType DEF History, Seqs
      <4>2. ToSet(feed[u]) \subseteq 1..Len(issued)
        BY RowsType
      <4>3. QED
        BY <4>1, <4>2
    <3>3. /\ hist'[u].top \in {0} \union Handled' /\ ToSet(feed'[u]) \subseteq Handled'
      BY <1>5, <1>6, <1>7, <2>1, <3>1 DEF InOrder
    <3>4. \A c \in hist'[u].cut : c <= hist'[u].top
      <4>1. hist'[u].top \in Nat
        BY <1>7, <3>1 DEF History
      <4>2. QED
        BY <1>7, <2>1, <3>1, <3>2, <4>1 DEF InOrder
    <3>5. ASSUME hist'[u].late = {}
          PROVE  Rising(feed'[u]) /\ \A c \in hist'[u].cut, m \in ToSet(feed'[u]) : c < m
      <4>1. hist[u].late = {} /\ ~ (n < hist[u].top /\ n \notin ToSet(feed[u]))
        BY <1>7, <3>1, <3>5
      <4>2. n \notin ToSet(feed[u]) /\ n # hist[u].top
        BY <1>2, <1>5, <2>1 DEF InOrder
      <4>3. n > hist[u].top
        BY <1>2, <3>2, <4>1, <4>2
      <4>4. \A r \in ToSet(feed[u]) : r < n
        BY <1>2, <2>1, <3>2, <4>3 DEF BelowTop
      <4>5. \A c \in hist[u].cut : c < n
        BY <1>2, <2>1, <3>2, <4>3 DEF InOrder
      <4>6. Rising(feed[u]) /\ \A c \in hist[u].cut, m \in ToSet(feed[u]) : c < m
        BY <2>1, <4>1 DEF InOrder
      <4>7. Rising(feed'[u])
        BY <1>6, <3>1, <4>4, <4>6
      <4>8. hist'[u].cut \subseteq hist[u].cut /\ ToSet(feed'[u]) \subseteq ToSet(feed[u]) \union {n}
        BY <1>6, <1>7, <3>1
      <4>9. QED
        BY <4>5, <4>6, <4>7, <4>8
    <3>6. QED
      BY <3>3, <3>4, <3>5 DEF InOrder
  <2>4. QED
    BY <2>2, <2>3
<1>13. QED
  BY <1>9, <1>10, <1>11, <1>12 DEF FeedInv

LEMMA FeedInit == Init => FeedInv
<1> SUFFICES ASSUME Init PROVE FeedInv
  OBVIOUS
<1>1. /\ MaxSeq \in Nat /\ MaxFaults \in Nat /\ 0 \in 0..MaxSeq
      /\ Len(issued) = 0 /\ Len(topic) = 0
  BY ConstantsAssumption DEF Init
<1>2. NoTrim \in TrimState /\ NoPull \in PullState
  BY <1>1 DEF NoTrim, TrimState, NoPull, PullState
<1>3. [top |-> 0, late |-> {}, cut |-> {}] \in History
  BY <1>1 DEF History
<1>4. TypeOK
  <2>1. issued \in Seq(Change) /\ topic \in Seq(1..Len(issued)) /\ taken \subseteq 1..Len(issued)
    BY DEF Init
  <2>2. <<>> \in Seq(1..Len(issued))
    OBVIOUS
  <2>3. feed \in [Users -> Seq(1..Len(issued))] /\ hist \in [Users -> History]
    BY <1>3, <2>2 DEF Init
  <2>4. /\ pull \in [Users -> PullState] /\ cursor \in [Users -> 0..MaxSeq]
        /\ applied \in [Users -> SUBSET Seqs] /\ trim \in TrimState /\ dirty \subseteq Users
    BY <1>1, <1>2 DEF Init
  <2>5. /\ position \in 0..Len(topic) /\ committed \in 0..position /\ written \in BOOLEAN
        /\ crashes \in 0..MaxFaults /\ fails \in 0..MaxFaults - crashes
    <3>1. position = 0 /\ committed = 0 /\ crashes = 0 /\ fails = 0
      BY DEF Init
    <3>2. written \in BOOLEAN
      BY DEF Init
    <3>3. QED
      BY <1>1, <3>1, <3>2
  <2>6. QED
    BY <1>1, <2>1, <2>3, <2>4, <2>5 DEF TypeOK
<1>5. \A u \in Users : ToSet(feed[u]) = {} /\ DOMAIN feed[u] = {}
  BY DEF Init, ToSet
<1>6. ASSUME NEW u \in Users PROVE Numbered(u) /\ BelowTop(u) /\ Passed(u) /\ InOrder(u)
  <2>1. /\ pull[u].page = {} /\ applied[u] = {} /\ cursor[u] = 0
        /\ hist[u].top = 0 /\ hist[u].cut = {}
    BY DEF Init, NoPull
  <2>2. Numbered(u)
    BY <1>1, <2>1 DEF Numbered
  <2>3. BelowTop(u) /\ Passed(u)
    BY <1>5, <2>1 DEF BelowTop, Passed
  <2>4. InOrder(u)
    BY <1>5, <2>1 DEF InOrder, Rising
  <2>5. QED
    BY <2>2, <2>3, <2>4
<1>7. QED
  BY <1>4, <1>6 DEF FeedInv, PublishedOnce, Init

LEMMA FeedNext == FeedInv /\ [Next]_vars => FeedInv'
<1> SUFFICES ASSUME FeedInv, [Next]_vars PROVE FeedInv'
  OBVIOUS
<1>1. CASE UNCHANGED vars
  <2>1. UNCHANGED <<issued, taken, topic, position, committed, written, feed, dirty, trim, pull,
                    cursor, applied, hist, crashes, fails>>
    BY <1>1 DEF vars
  <2>2. trim' \in TrimState /\ dirty' \subseteq Users /\ fails' \in 0..MaxFaults - crashes
    BY <2>1 DEF FeedInv, TypeOK
  <2>3. QED
    BY <2>1, <2>2, TrimKeeps
<1>2. ASSUME NEW c \in Change, NextSeq(c) PROVE FeedInv'
  BY <1>2, NextSeqKeeps
<1>3. ASSUME NEW n \in taken, Publish(n) PROVE FeedInv'
  BY <1>3, PublishKeeps
<1>4. ASSUME NEW ok \in SUBSET Users, WriteRows(ok) PROVE FeedInv'
  BY <1>4, WriteRowsKeeps
<1>5. ASSUME MarkDirty \/ Restart PROVE FeedInv'
  BY <1>5, MarkDirtyKeeps, RestartKeeps
<1>6. ASSUME NEW u \in Users,
             Expire(u) \/ DeleteRows(u) \/ ReadOldest(u) \/ ReadRows(u)
      PROVE  FeedInv'
  BY <1>6, ExpireKeeps, DeleteRowsKeeps, ReadOldestKeeps, ReadRowsKeeps
<1>7. ASSUME NEW u \in Users, NEW current \in CurrentSeq, Answer(u, current) PROVE FeedInv'
  BY <1>7, AnswerKeeps
<1>8. ASSUME TrimStart \/ TrimEnd \/ \E u \in Users : ReadCutoff(u) \/ TrimFails(u)
      PROVE  FeedInv'
  BY <1>8, TrimSteps
<1>9. QED
  BY <1>1, <1>2, <1>3, <1>4, <1>5, <1>6, <1>7, <1>8 DEF Next

LEMMA FeedInvariance == AllSpec => []FeedInv
<1>1. AllInit => FeedInv
  BY FeedInit DEF AllInit
<1>2. FeedInv /\ [AllNext]_allVars => FeedInv'
  BY FeedNext DEF AllNext, allVars
<1>3. QED
  BY <1>1, <1>2, PTL DEF AllSpec

\* Whatever pages, compaction, redelivery, failing writes and reads, the trim and the TTL
\* index do to a user's rows, a row at or below the cursor of their client is one that the
\* client has seen, or was written after a higher one (change-feed.service.ts, getChanges,
\* handle-chat.controller.ts, handleOutboxAppend).
THEOREM PullsSkipOnlyTheLate == AllSpec => []SkipsOnlyTheLate
<1>1. FeedInv => SkipsOnlyTheLate
  BY DEF FeedInv, Passed, SkipsOnlyTheLate, HiddenOnlyIfLate
<1>2. QED
  BY <1>1, FeedInvariance, PTL

\* Only the read of the oldest row begins a pull.
LEMMA BeginsAPull ==
  ASSUME FeedInv, Next, NEW u \in Users, pull[u].pc = "idle", pull'[u].pc = "rows"
  PROVE  ReadOldest(u)
<1>1. pull \in [Users -> PullState] /\ pull' # pull
  BY DEF FeedInv, TypeOK
<1>2. ASSUME Restart PROVE FALSE
  BY <1>2 DEF Restart, NoPull
<1>3. ASSUME NEW v \in Users, ReadOldest(v) PROVE v = u
  BY <1>1, <1>3 DEF ReadOldest
<1>4. ASSUME NEW v \in Users, ReadRows(v) PROVE FALSE
  <2>1. v # u /\ \A w \in Users : w # v => pull'[w] = pull[w]
    BY <1>1, <1>4 DEF ReadRows
  <2>2. QED
    BY <2>1
<1>5. ASSUME NEW v \in Users, NEW current \in CurrentSeq, Answer(v, current) PROVE FALSE
  BY <1>1, <1>5 DEF Answer, NoPull
<1>6. \A c \in Change : ~ NextSeq(c)
  BY <1>1 DEF NextSeq
<1>7. \A n \in taken : ~ Publish(n)
  BY <1>1 DEF Publish
<1>8. \A ok \in SUBSET Users : ~ WriteRows(ok)
  BY <1>1 DEF WriteRows
<1>9. ~ MarkDirty /\ ~ TrimStart /\ ~ TrimEnd
  BY <1>1 DEF MarkDirty, TrimStart, TrimEnd
<1>10. \A v \in Users : ~ Expire(v) /\ ~ ReadCutoff(v) /\ ~ DeleteRows(v) /\ ~ TrimFails(v)
  BY <1>1 DEF Expire, ReadCutoff, DeleteRows, TrimFails
<1>11. QED
  BY <1>2, <1>3, <1>4, <1>5, <1>6, <1>7, <1>8, <1>9, <1>10 DEF Next

\* While the consumer was not redelivered anything, a client whose cursor is behind a row
\* that retention deleted is told to resync, if one of its rows is left and none came late
\* (change-feed.service.ts, requireFullResync).
THEOREM DeletionsAreFlagged == AllSpec => CutIsFlagged
<1>1. FeedInv /\ [AllNext]_allVars
        => [\A u \in Users :
              /\ pull[u].pc = "idle" /\ pull'[u].pc = "rows"
              /\ cursor[u] > 0 /\ feed[u] # <<>> /\ hist[u].late = {} /\ crashes = 0
              /\ \E n \in hist[u].cut \ ToSet(feed[u]) : n > cursor[u] /\ ~Seen(u, n)
              => pull'[u].resync]_vars
  <2> SUFFICES ASSUME FeedInv, Next, NEW u \in Users,
                      pull[u].pc = "idle", pull'[u].pc = "rows",
                      cursor[u] > 0, feed[u] # <<>>, hist[u].late = {}, crashes = 0,
                      NEW n \in hist[u].cut, n > cursor[u]
               PROVE  pull'[u].resync
    BY DEF AllNext, allVars
  <2>1. ReadOldest(u)
    BY BeginsAPull
  <2>2. Behind(u)
    <3>1. ToSet(feed[u]) \subseteq 1..Len(issued) /\ hist[u].cut \subseteq Seqs /\ cursor[u] \in Nat
      BY RowsType DEF History
    <3>2. \A m \in ToSet(feed[u]) : n < m
      BY DEF FeedInv, InOrder
    <3>3. n \in Nat
      BY <3>1 DEF Seqs
    <3>4. QED
      BY <3>1, <3>2, <3>3 DEF Behind
  <2>3. pull' = [pull EXCEPT ![u] = [NoPull EXCEPT !.pc = "rows", !.resync = Behind(u)]]
    BY <2>1 DEF ReadOldest
  <2>4. pull'[u] = [NoPull EXCEPT !.pc = "rows", !.resync = Behind(u)]
    BY <2>3 DEF FeedInv, TypeOK
  <2>5. [NoPull EXCEPT !.pc = "rows", !.resync = TRUE].resync = TRUE
    BY PullBegun
  <2>6. Behind(u) = TRUE
    BY <2>2 DEF Behind
  <2>7. QED
    BY <2>4, <2>5, <2>6
<1>2. QED
  BY <1>1, FeedInvariance, PTL DEF AllSpec, CutIsFlagged

-------------------------------------------------------------------------------
(* The participants of calls, and the devices that show them *)

LEMMA Lengths ==
  /\ Gateway!Script("none") = <<>> /\ Len(Gateway!Script("none")) = 0
  /\ Gateway!Script("request") = Gateway!RequestScript /\ Len(Gateway!RequestScript) = 11
  /\ Gateway!Script("accept") = Gateway!AcceptScript /\ Len(Gateway!AcceptScript) = 11
  /\ Gateway!Script("join") = Gateway!JoinScript /\ Len(Gateway!JoinScript) = 8
  /\ Gateway!Script("end") = Gateway!EndScript /\ Len(Gateway!EndScript) = 8
  /\ Gateway!Script("miss") = Gateway!MissScript /\ Len(Gateway!MissScript) = 4
  /\ Gateway!Script("drop") = Gateway!DropScript /\ Len(Gateway!DropScript) = 16
<1>1. Len(Gateway!RequestScript) = 11 /\ Len(Gateway!AcceptScript) = 11
  BY DEF Gateway!RequestScript, Gateway!AcceptScript
<1>2. Len(Gateway!JoinScript) = 8 /\ Len(Gateway!EndScript) = 8 /\ Len(Gateway!MissScript) = 4
  BY DEF Gateway!JoinScript, Gateway!EndScript, Gateway!MissScript
<1>3. Len(Gateway!DropScript) = 16
  BY DEF Gateway!DropScript
<1>4. QED
  BY <1>1, <1>2, <1>3 DEF Gateway!Script

\* The handler q is about to take the step of that name.
Stands(q, step) ==
  q.at <= Len(Gateway!Script(q.kind)) /\ Gateway!Script(q.kind)[q.at] = step

LEMMA OnRequest ==
  ASSUME NEW q, q.kind = "request", q.at \in 1 .. 16, NEW step, Stands(q, step)
  PROVE  \/ q.at = 1 /\ step = "validate"
         \/ q.at = 2 /\ step = "clear"
         \/ q.at = 3 /\ step = "validateTargets"
         \/ q.at = 4 /\ step = "clear"
         \/ q.at = 5 /\ step = "create"
         \/ q.at = 6 /\ step = "mark"
         \/ q.at = 7 /\ step = "enlist"
         \/ q.at = 8 /\ step = "claimRead"
         \/ q.at = 9 /\ step = "claimWrite"
         \/ q.at = 10 /\ step = "invite"
         \/ q.at = 11 /\ step = "schedule"
<1>1. q.at \in 1 .. 11 /\ step = Gateway!RequestScript[q.at]
  BY Lengths DEF Stands
<1>2. QED
  BY <1>1 DEF Gateway!RequestScript

LEMMA OnAccept ==
  ASSUME NEW q, q.kind = "accept", q.at \in 1 .. 16, NEW step, Stands(q, step)
  PROVE  \/ q.at = 1 /\ step = "lockRead"
         \/ q.at = 2 /\ step = "validate"
         \/ q.at = 3 /\ step = "clear"
         \/ q.at = 4 /\ step = "lock"
         \/ q.at = 5 /\ step = "claimRead"
         \/ q.at = 6 /\ step = "claimWrite"
         \/ q.at = 7 /\ step = "acceptCall"
         \/ q.at = 8 /\ step = "mark"
         \/ q.at = 9 /\ step = "enlist"
         \/ q.at = 10 /\ step = "uninvite"
         \/ q.at = 11 /\ step = "cancel"
<1>1. q.at \in 1 .. 11 /\ step = Gateway!AcceptScript[q.at]
  BY Lengths DEF Stands
<1>2. QED
  BY <1>1 DEF Gateway!AcceptScript

LEMMA OnJoin ==
  ASSUME NEW q, q.kind = "join", q.at \in 1 .. 16, NEW step, Stands(q, step)
  PROVE  \/ q.at = 1 /\ step = "validate"
         \/ q.at = 2 /\ step = "clear"
         \/ q.at = 3 /\ step = "claimRead"
         \/ q.at = 4 /\ step = "claimWrite"
         \/ q.at = 5 /\ step = "acceptCall"
         \/ q.at = 6 /\ step = "mark"
         \/ q.at = 7 /\ step = "uninvite"
         \/ q.at = 8 /\ step = "cancel"
<1>1. q.at \in 1 .. 8 /\ step = Gateway!JoinScript[q.at]
  BY Lengths DEF Stands
<1>2. QED
  BY <1>1 DEF Gateway!JoinScript

LEMMA OnEnd ==
  ASSUME NEW q, q.kind = "end", q.at \in 1 .. 16, NEW step, Stands(q, step)
  PROVE  \/ q.at = 1 /\ step = "endCall"
         \/ q.at = 2 /\ step = "uninviteAll"
         \/ q.at = 3 /\ step = "unlock"
         \/ q.at = 4 /\ step = "delist"
         \/ q.at = 5 /\ step = "delistCount"
         \/ q.at = 6 /\ step = "delistDel"
         \/ q.at = 7 /\ step = "unmark"
         \/ q.at = 8 /\ step = "wipe"
<1>1. q.at \in 1 .. 8 /\ step = Gateway!EndScript[q.at]
  BY Lengths DEF Stands
<1>2. QED
  BY <1>1 DEF Gateway!EndScript

LEMMA OnMiss ==
  ASSUME NEW q, q.kind = "miss", q.at \in 1 .. 16, NEW step, Stands(q, step)
  PROVE  \/ q.at = 1 /\ step = "readInvite"
         \/ q.at = 2 /\ step = "readParts"
         \/ q.at = 3 /\ step = "endCall"
         \/ q.at = 4 /\ step = "uninvite"
<1>1. q.at \in 1 .. 4 /\ step = Gateway!MissScript[q.at]
  BY Lengths DEF Stands
<1>2. QED
  BY <1>1 DEF Gateway!MissScript

LEMMA OnDrop ==
  ASSUME NEW q, q.kind = "drop", q.at \in 1 .. 16, NEW step, Stands(q, step)
  PROVE  \/ q.at = 1 /\ step = "dropRead"
         \/ q.at = 2 /\ step = "sweepRead"
         \/ q.at = 3 /\ step = "sweepRem"
         \/ q.at = 4 /\ step = "sweepCount"
         \/ q.at = 5 /\ step = "sweepWipe"
         \/ q.at = 6 /\ step = "sweepDel"
         \/ q.at = 7 /\ step = "dropUnmark"
         \/ q.at = 8 /\ step = "dropSockRead"
         \/ q.at = 9 /\ step = "dropSockDel"
         \/ q.at = 10 /\ step = "leave"
         \/ q.at = 11 /\ step = "sweepRead"
         \/ q.at = 12 /\ step = "sweepRem"
         \/ q.at = 13 /\ step = "sweepCount"
         \/ q.at = 14 /\ step = "sweepWipe"
         \/ q.at = 15 /\ step = "sweepDel"
         \/ q.at = 16 /\ step = "unmark"
<1>1. q.at \in 1 .. 16 /\ step = Gateway!DropScript[q.at]
  BY Lengths DEF Stands
<1>2. QED
  BY <1>1 DEF Gateway!DropScript

LEMMA StepPlaces ==
  ASSUME NEW q \in Gateway!TaskState
  PROVE  /\ Stands(q, "validate") =>
           \/ q.kind = "request" /\ q.at = 1
           \/ q.kind = "accept" /\ q.at = 2
           \/ q.kind = "join" /\ q.at = 1
         /\ Stands(q, "clear") =>
           \/ q.kind = "request" /\ q.at \in {2, 4}
           \/ q.kind = "accept" /\ q.at = 3
           \/ q.kind = "join" /\ q.at = 2
         /\ Stands(q, "validateTargets") => q.kind = "request" /\ q.at = 3
         /\ Stands(q, "create") => q.kind = "request" /\ q.at = 5
         /\ Stands(q, "mark") =>
           \/ q.kind = "request" /\ q.at = 6
           \/ q.kind = "accept" /\ q.at = 8
           \/ q.kind = "join" /\ q.at = 6
         /\ Stands(q, "enlist") =>
           \/ q.kind = "request" /\ q.at = 7
           \/ q.kind = "accept" /\ q.at = 9
         /\ Stands(q, "claimRead") =>
           \/ q.kind = "request" /\ q.at = 8
           \/ q.kind = "accept" /\ q.at = 5
           \/ q.kind = "join" /\ q.at = 3
         /\ Stands(q, "claimWrite") =>
           \/ q.kind = "request" /\ q.at = 9
           \/ q.kind = "accept" /\ q.at = 6
           \/ q.kind = "join" /\ q.at = 4
         /\ Stands(q, "invite") => q.kind = "request" /\ q.at = 10
         /\ Stands(q, "schedule") => q.kind = "request" /\ q.at = 11
         /\ Stands(q, "lockRead") => q.kind = "accept" /\ q.at = 1
         /\ Stands(q, "lock") => q.kind = "accept" /\ q.at = 4
         /\ Stands(q, "acceptCall") =>
           \/ q.kind = "accept" /\ q.at = 7
           \/ q.kind = "join" /\ q.at = 5
         /\ Stands(q, "uninvite") =>
           \/ q.kind = "accept" /\ q.at = 10
           \/ q.kind = "join" /\ q.at = 7
           \/ q.kind = "miss" /\ q.at = 4
         /\ Stands(q, "cancel") =>
           \/ q.kind = "accept" /\ q.at = 11
           \/ q.kind = "join" /\ q.at = 8
         /\ Stands(q, "endCall") =>
           \/ q.kind = "end" /\ q.at = 1
           \/ q.kind = "miss" /\ q.at = 3
         /\ Stands(q, "uninviteAll") => q.kind = "end" /\ q.at = 2
         /\ Stands(q, "unlock") => q.kind = "end" /\ q.at = 3
         /\ Stands(q, "delist") => q.kind = "end" /\ q.at = 4
         /\ Stands(q, "delistCount") => q.kind = "end" /\ q.at = 5
         /\ Stands(q, "delistDel") => q.kind = "end" /\ q.at = 6
         /\ Stands(q, "unmark") =>
           \/ q.kind = "end" /\ q.at = 7
           \/ q.kind = "drop" /\ q.at = 16
         /\ Stands(q, "wipe") => q.kind = "end" /\ q.at = 8
         /\ Stands(q, "readInvite") => q.kind = "miss" /\ q.at = 1
         /\ Stands(q, "readParts") => q.kind = "miss" /\ q.at = 2
         /\ Stands(q, "dropRead") => q.kind = "drop" /\ q.at = 1
         /\ Stands(q, "sweepRead") => q.kind = "drop" /\ q.at \in {2, 11}
         /\ Stands(q, "sweepRem") => q.kind = "drop" /\ q.at \in {3, 12}
         /\ Stands(q, "sweepCount") => q.kind = "drop" /\ q.at \in {4, 13}
         /\ Stands(q, "sweepWipe") => q.kind = "drop" /\ q.at \in {5, 14}
         /\ Stands(q, "sweepDel") => q.kind = "drop" /\ q.at \in {6, 15}
         /\ Stands(q, "dropUnmark") => q.kind = "drop" /\ q.at = 7
         /\ Stands(q, "dropSockRead") => q.kind = "drop" /\ q.at = 8
         /\ Stands(q, "dropSockDel") => q.kind = "drop" /\ q.at = 9
         /\ Stands(q, "leave") => q.kind = "drop" /\ q.at = 10
<1>1. q.at \in 1 .. 16
  BY DEF Gateway!TaskState
<1>2. CASE q.kind = "none"
  BY <1>1, <1>2, Lengths DEF Stands
<1>3. CASE q.kind = "request"
  BY <1>1, <1>3, OnRequest
<1>4. CASE q.kind = "accept"
  BY <1>1, <1>4, OnAccept
<1>5. CASE q.kind = "join"
  BY <1>1, <1>5, OnJoin
<1>6. CASE q.kind = "end"
  BY <1>1, <1>6, OnEnd
<1>7. CASE q.kind = "miss"
  BY <1>1, <1>7, OnMiss
<1>8. CASE q.kind = "drop"
  BY <1>1, <1>8, OnDrop
<1>9. QED
  BY <1>2, <1>3, <1>4, <1>5, <1>6, <1>7, <1>8 DEF Gateway!TaskState


\* p is q, at another place.
Same(p, q) ==
  /\ p.kind = q.kind /\ p.user = q.user /\ p.sock = q.sock /\ p.call = q.call
  /\ p.as = q.as /\ p.stale = q.stale /\ p.seen = q.seen /\ p.swept = q.swept
  /\ p.live = q.live

LEMMA IdleType ==
  /\ Gateway!Idle \in Gateway!TaskState
  /\ Gateway!Idle.kind = "none" /\ Gateway!Idle.at = 1
  BY DEF Gateway!Idle, Gateway!TaskState, Gateway!EndStatus

LEMMA AtStands ==
  ASSUME NEW t \in Slots, NEW step PROVE Gateway!At(t, step) <=> Stands(task[t], step)
  BY DEF Gateway!At, Stands

LEMMA PlaceType ==
  ASSUME NEW q \in Gateway!TaskState, NEW i \in 1 .. 16 PROVE [q EXCEPT !.at = i] \in Gateway!TaskState /\ Same([q EXCEPT !.at = i], q) /\ [q EXCEPT !.at = i].at = i
<1> DEFINE K == {"none", "request", "accept", "join", "end", "miss", "drop"}
           U == People \union {Nobody}  S == Devices \union {Nobody}  C == Calls \union {Nobody}
           M == SUBSET People  D == SUBSET Calls  A == Gateway!EndStatus  B == BOOLEAN
           N == 1 .. 16
<1>1. Gateway!TaskState = [kind : K, at : N, user : U, sock : S, call : C, as : A,
                           stale : M, seen : S, swept : D, live : B]
  BY DEF Gateway!TaskState
<1> HIDE DEF K, U, S, C, M, D, A, B, N
<1>2. ASSUME NEW j \in N, NEW r \in [kind : K, at : N, user : U, sock : S, call : C, as : A,
                           stale : M, seen : S, swept : D, live : B]
      PROVE  /\ [r EXCEPT !.at = j] \in [kind : K, at : N, user : U, sock : S, call : C, as : A,
                           stale : M, seen : S, swept : D, live : B]
             /\ Same([r EXCEPT !.at = j], r) /\ [r EXCEPT !.at = j].at = j
  BY DEF Same
<1>3. QED
  BY <1>1, <1>2 DEF N

\* A handler that goes on is the same one, further in its script, or has answered.
LEMMA HandlerGoes ==
  ASSUME Gateway!TypeOK, NEW t \in Slots, NEW n \in 1 .. 9, NEW q \in Gateway!TaskState,
         Gateway!Goto(t, n, q)
  PROVE  \E p \in Gateway!TaskState :
           /\ task' = [task EXCEPT ![t] = p]
           /\ \/ q.at + n > Len(Gateway!Script(q.kind)) /\ p = Gateway!Idle
              \/ q.at + n \leq Len(Gateway!Script(q.kind)) /\ Same(p, q) /\ p.at = q.at + n
<1>1. CASE q.at + n > Len(Gateway!Script(q.kind))
  BY <1>1, IdleType DEF Gateway!Goto
<1>2. CASE ~(q.at + n > Len(Gateway!Script(q.kind)))
  <2>0. q.at \in 1 .. 16 /\ q.kind \in {"none", "request", "accept", "join", "end", "miss", "drop"}
    BY DEF Gateway!TaskState
  <2>1. Len(Gateway!Script(q.kind)) \in 0 .. 16
    BY <2>0, Lengths
  <2>2. \A i \in 1 .. 16, l \in 0 .. 16 : ~(i + n > l) => i + n \in 1 .. 16 /\ i + n \leq l
    OBVIOUS
  <2>3. task' = [task EXCEPT ![t] = [q EXCEPT !.at = q.at + n]]
    BY <1>2 DEF Gateway!Goto
  <2>4. q.at + n \in 1 .. 16 /\ q.at + n \leq Len(Gateway!Script(q.kind))
    BY <1>2, <2>0, <2>1, <2>2
  <2>5. QED
    BY <2>3, <2>4, PlaceType
<1>3. QED
  BY <1>1, <1>2


LEMMA FieldsType ==
  ASSUME NEW q \in Gateway!TaskState
  PROVE  /\ \A m \in SUBSET People : LET p == [q EXCEPT !.stale = m] IN
              /\ p \in Gateway!TaskState /\ p.at = q.at /\ p.kind = q.kind /\ p.user = q.user
              /\ p.sock = q.sock /\ p.call = q.call /\ p.as = q.as /\ p.stale = m
              /\ p.seen = q.seen /\ p.swept = q.swept /\ p.live = q.live
         /\ \A s \in Devices \union {Nobody} : LET p == [q EXCEPT !.seen = s] IN
              /\ p \in Gateway!TaskState /\ p.at = q.at /\ p.kind = q.kind /\ p.user = q.user
              /\ p.sock = q.sock /\ p.call = q.call /\ p.as = q.as /\ p.stale = q.stale
              /\ p.seen = s /\ p.swept = q.swept /\ p.live = q.live
         /\ \A d \in SUBSET Calls : LET p == [q EXCEPT !.swept = d] IN
              /\ p \in Gateway!TaskState /\ p.at = q.at /\ p.kind = q.kind /\ p.user = q.user
              /\ p.sock = q.sock /\ p.call = q.call /\ p.as = q.as /\ p.stale = q.stale
              /\ p.seen = q.seen /\ p.swept = d /\ p.live = q.live
         /\ \A b \in BOOLEAN : LET p == [q EXCEPT !.live = b] IN
              /\ p \in Gateway!TaskState /\ p.at = q.at /\ p.kind = q.kind /\ p.user = q.user
              /\ p.sock = q.sock /\ p.call = q.call /\ p.as = q.as /\ p.stale = q.stale
              /\ p.seen = q.seen /\ p.swept = q.swept
<1> DEFINE K == {"none", "request", "accept", "join", "end", "miss", "drop"}
           U == People \union {Nobody}  S == Devices \union {Nobody}  C == Calls \union {Nobody}
           M == SUBSET People  D == SUBSET Calls  A == Gateway!EndStatus  B == BOOLEAN
           N == 1 .. 16
           T == [kind : K, at : N, user : U, sock : S, call : C, as : A,
                 stale : M, seen : S, swept : D, live : B]
<1>1. Gateway!TaskState = T
  BY DEF Gateway!TaskState
<1> HIDE DEF K, U, S, C, M, D, A, B, N
<1>4. q \in T
  BY <1>1
<1>5. ASSUME NEW m \in M
      PROVE  LET p == [q EXCEPT !.stale = m] IN
               /\ p \in T /\ p.at = q.at /\ p.kind = q.kind /\ p.user = q.user
               /\ p.sock = q.sock /\ p.call = q.call /\ p.as = q.as
               /\ p.stale = m /\ p.seen = q.seen /\ p.swept = q.swept /\ p.live = q.live
  BY <1>4
<1>6. ASSUME NEW s \in S
      PROVE  LET p == [q EXCEPT !.seen = s] IN
               /\ p \in T /\ p.at = q.at /\ p.kind = q.kind /\ p.user = q.user
               /\ p.sock = q.sock /\ p.call = q.call /\ p.as = q.as
               /\ p.stale = q.stale /\ p.seen = s /\ p.swept = q.swept /\ p.live = q.live
  BY <1>4
<1>7. ASSUME NEW e \in D
      PROVE  LET p == [q EXCEPT !.swept = e] IN
               /\ p \in T /\ p.at = q.at /\ p.kind = q.kind /\ p.user = q.user
               /\ p.sock = q.sock /\ p.call = q.call /\ p.as = q.as
               /\ p.stale = q.stale /\ p.seen = q.seen /\ p.swept = e /\ p.live = q.live
  BY <1>4
<1>8. ASSUME NEW b \in B
      PROVE  LET p == [q EXCEPT !.live = b] IN
               /\ p \in T /\ p.at = q.at /\ p.kind = q.kind /\ p.user = q.user
               /\ p.sock = q.sock /\ p.call = q.call /\ p.as = q.as
               /\ p.stale = q.stale /\ p.seen = q.seen /\ p.swept = q.swept
  BY <1>4
<1>9. QED
  BY <1>1, <1>5, <1>6, <1>7, <1>8 DEF M, S, D, B


\* The handler q knows what its script needs; one that has answered is gone.
Proper(q) ==
  /\ q.kind # "none" => q.user \in People
  /\ q.kind \notin {"none", "drop"} => q.call \in Calls
  /\ q.kind = "miss" => q.as = "missed"
  /\ q.kind = "none" => q = Gateway!Idle

Typed == Gateway!TypeOK /\ \A t \in Slots : Proper(task[t])

\* What a step that changes only the locals of q leaves.
Alike(q, r) == q.kind = r.kind /\ q.user = r.user /\ q.call = r.call /\ q.as = r.as

LEMMA GoesTyped ==
  ASSUME Typed, NEW t \in Slots, NEW n \in 1 .. 9, NEW q \in Gateway!TaskState,
         Alike(q, task[t]), task[t].kind # "none", Gateway!Goto(t, n, q)
  PROVE  task' \in [Slots -> Gateway!TaskState] /\ \A s \in Slots : Proper(task'[s])
<1>1. PICK p \in Gateway!TaskState :
        /\ task' = [task EXCEPT ![t] = p]
        /\ p = Gateway!Idle \/ Same(p, q)
  BY HandlerGoes DEF Typed
<1>2. task \in [Slots -> Gateway!TaskState]
  BY DEF Typed, Gateway!TypeOK
<1>3. Proper(p)
  <2>1. CASE p = Gateway!Idle
    BY <2>1, IdleType DEF Proper
  <2>2. CASE Same(p, q)
    BY <2>2 DEF Proper, Same, Alike, Typed
  <2>3. QED
    BY <1>1, <2>1, <2>2
<1>4. QED
  BY <1>1, <1>2, <1>3 DEF Typed

LEMMA AdvanceTyped ==
  ASSUME Typed, NEW t \in Slots, task[t].kind # "none", Gateway!Advance(t)
  PROVE  task' \in [Slots -> Gateway!TaskState] /\ \A s \in Slots : Proper(task'[s])
<1>1. task[t] \in Gateway!TaskState /\ Alike(task[t], task[t])
  BY DEF Typed, Gateway!TypeOK, Alike
<1>2. Gateway!Goto(t, 1, task[t])
  BY DEF Gateway!Advance
<1>3. QED
  BY <1>1, <1>2, GoesTyped

LEMMA AnswerTyped ==
  ASSUME Typed, NEW t \in Slots, Gateway!Answer(t)
  PROVE  task' \in [Slots -> Gateway!TaskState] /\ \A s \in Slots : Proper(task'[s])
  BY IdleType DEF Typed, Gateway!TypeOK, Gateway!Answer, Proper

LEMMA OneStepTyped ==
  ASSUME Typed, NEW t \in Slots, Gateway!Continue(t)
  PROVE  Typed'
<1> DEFINE q == task[t]
           TaskTyped == task \in [Slots -> Gateway!TaskState] /\ \A s \in Slots : Proper(task[s])
<1>1. q \in Gateway!TaskState /\ Proper(q) /\ Alike(q, q)
  BY DEF Typed, Gateway!TypeOK, Alike
<1> USE DEF devices, Gateway!db, Gateway!redis, Gateway!clients, Gateway!hist, Gateway!past
<1>2. ASSUME Gateway!Lock(t) PROVE Typed'
  <2>1. Stands(q, "lock") /\ Gateway!Advance(t)
    BY <1>2, AtStands DEF Gateway!Lock
  <2>2. q.kind = "accept"
    BY <1>1, <2>1, StepPlaces
  <2>3. TaskTyped'
    BY <2>1, <2>2, AdvanceTyped
  <2>4. QED
    BY <1>1, <1>2, <2>2, <2>3 DEF Gateway!Lock, Typed, Gateway!TypeOK, Gateway!TaskState, Proper
<1>3. ASSUME Gateway!Unlock(t) PROVE Typed'
  <2>1. Stands(q, "unlock") /\ Gateway!Advance(t)
    BY <1>3, AtStands DEF Gateway!Unlock
  <2>2. q.kind = "end"
    BY <1>1, <2>1, StepPlaces
  <2>3. TaskTyped'
    BY <2>1, <2>2, AdvanceTyped
  <2>4. QED
    BY <1>1, <1>3, <2>2, <2>3 DEF Gateway!Unlock, Typed, Gateway!TypeOK, Gateway!TaskState, Proper
<1>4. ASSUME Gateway!Mark(t) PROVE Typed'
  <2>1. Stands(q, "mark") /\ Gateway!Advance(t)
    BY <1>4, AtStands DEF Gateway!Mark
  <2>2. q.kind \in {"accept", "join", "request"}
    BY <1>1, <2>1, StepPlaces
  <2>3. TaskTyped'
    BY <2>1, <2>2, AdvanceTyped
  <2>4. QED
    BY <1>1, <1>4, <2>2, <2>3 DEF Gateway!Mark, Typed, Gateway!TypeOK, Gateway!TaskState, Proper
<1>5. ASSUME Gateway!Unmark(t) PROVE Typed'
  <2>1. Stands(q, "unmark") /\ Gateway!Advance(t)
    BY <1>5, AtStands DEF Gateway!Unmark
  <2>2. q.kind \in {"drop", "end"}
    BY <1>1, <2>1, StepPlaces
  <2>3. TaskTyped'
    BY <2>1, <2>2, AdvanceTyped
  <2>4. QED
    BY <1>1, <1>5, <2>2, <2>3 DEF Gateway!Unmark, Typed, Gateway!TypeOK, Gateway!TaskState, Proper
<1>6. ASSUME Gateway!Wipe(t) PROVE Typed'
  <2>1. Stands(q, "wipe") /\ Gateway!Advance(t)
    BY <1>6, AtStands DEF Gateway!Wipe
  <2>2. q.kind = "end"
    BY <1>1, <2>1, StepPlaces
  <2>3. TaskTyped'
    BY <2>1, <2>2, AdvanceTyped
  <2>4. QED
    BY <1>1, <1>6, <2>2, <2>3 DEF Gateway!Wipe, Typed, Gateway!TypeOK, Gateway!TaskState, Proper
<1>7. ASSUME Gateway!Enlist(t) PROVE Typed'
  <2>1. Stands(q, "enlist") /\ Gateway!Advance(t)
    BY <1>7, AtStands DEF Gateway!Enlist
  <2>2. q.kind \in {"accept", "request"}
    BY <1>1, <2>1, StepPlaces
  <2>3. TaskTyped'
    BY <2>1, <2>2, AdvanceTyped
  <2>4. QED
    BY <1>1, <1>7, <2>2, <2>3 DEF Gateway!Enlist, Typed, Gateway!TypeOK, Gateway!TaskState, Proper
<1>8. ASSUME Gateway!Delist(t) PROVE Typed'
  <2>1. Stands(q, "delist") /\ Gateway!Advance(t)
    BY <1>8, AtStands DEF Gateway!Delist
  <2>2. q.kind = "end"
    BY <1>1, <2>1, StepPlaces
  <2>3. TaskTyped'
    BY <2>1, <2>2, AdvanceTyped
  <2>4. QED
    BY <1>1, <1>8, <2>2, <2>3 DEF Gateway!Delist, Typed, Gateway!TypeOK, Gateway!TaskState, Proper
<1>9. ASSUME Gateway!DelistDelete(t) PROVE Typed'
  <2>1. Stands(q, "delistDel") /\ Gateway!Advance(t)
    BY <1>9, AtStands DEF Gateway!DelistDelete
  <2>2. q.kind = "end"
    BY <1>1, <2>1, StepPlaces
  <2>3. TaskTyped'
    BY <2>1, <2>2, AdvanceTyped
  <2>4. QED
    BY <1>1, <1>9, <2>2, <2>3 DEF Gateway!DelistDelete, Typed, Gateway!TypeOK, Gateway!TaskState, Proper
<1>10. ASSUME Gateway!SweepRemove(t) PROVE Typed'
  <2>1. Stands(q, "sweepRem") /\ Gateway!Advance(t)
    BY <1>10, AtStands DEF Gateway!SweepRemove
  <2>2. q.kind = "drop"
    BY <1>1, <2>1, StepPlaces
  <2>3. TaskTyped'
    BY <2>1, <2>2, AdvanceTyped
  <2>4. QED
    BY <1>1, <1>10, <2>2, <2>3 DEF Gateway!SweepRemove, Typed, Gateway!TypeOK, Gateway!TaskState, Proper
<1>11. ASSUME Gateway!SweepDelete(t) PROVE Typed'
  <2>1. Stands(q, "sweepDel") /\ Gateway!Advance(t)
    BY <1>11, AtStands DEF Gateway!SweepDelete
  <2>2. q.kind = "drop"
    BY <1>1, <2>1, StepPlaces
  <2>3. TaskTyped'
    BY <2>1, <2>2, AdvanceTyped
  <2>4. QED
    BY <1>1, <1>11, <2>2, <2>3 DEF Gateway!SweepDelete, Typed, Gateway!TypeOK, Gateway!TaskState, Proper
<1>12. ASSUME Gateway!Invite(t) PROVE Typed'
  <2>1. Stands(q, "invite") /\ Gateway!Advance(t)
    BY <1>12, AtStands DEF Gateway!Invite
  <2>2. q.kind = "request"
    BY <1>1, <2>1, StepPlaces
  <2>3. TaskTyped'
    BY <2>1, <2>2, AdvanceTyped
  <2>4. QED
    BY <1>1, <1>12, <2>2, <2>3 DEF Gateway!Invite, Typed, Gateway!TypeOK, Gateway!TaskState, Proper
<1>13. ASSUME Gateway!Schedule(t) PROVE Typed'
  <2>1. Stands(q, "schedule") /\ Gateway!Advance(t)
    BY <1>13, AtStands DEF Gateway!Schedule
  <2>2. q.kind = "request"
    BY <1>1, <2>1, StepPlaces
  <2>3. TaskTyped'
    BY <2>1, <2>2, AdvanceTyped
  <2>4. QED
    BY <1>1, <1>13, <2>2, <2>3 DEF Gateway!Schedule, Typed, Gateway!TypeOK, Gateway!TaskState, Proper
<1>14. ASSUME Gateway!Uninvite(t) PROVE Typed'
  <2>1. Stands(q, "uninvite") /\ Gateway!Advance(t)
    BY <1>14, AtStands DEF Gateway!Uninvite
  <2>2. q.kind \in {"accept", "join", "miss"}
    BY <1>1, <2>1, StepPlaces
  <2>3. TaskTyped'
    BY <2>1, <2>2, AdvanceTyped
  <2>4. QED
    BY <1>1, <1>14, <2>2, <2>3 DEF Gateway!Uninvite, Typed, Gateway!TypeOK, Gateway!TaskState, Proper
<1>15. ASSUME Gateway!Cancel(t) PROVE Typed'
  <2>1. Stands(q, "cancel") /\ Gateway!Advance(t)
    BY <1>15, AtStands DEF Gateway!Cancel
  <2>2. q.kind \in {"accept", "join"}
    BY <1>1, <2>1, StepPlaces
  <2>3. TaskTyped'
    BY <2>1, <2>2, AdvanceTyped
  <2>4. QED
    BY <1>1, <1>15, <2>2, <2>3 DEF Gateway!Cancel, Typed, Gateway!TypeOK, Gateway!TaskState, Proper
<1>16. ASSUME Gateway!UninviteAll(t) PROVE Typed'
  <2>1. Stands(q, "uninviteAll") /\ Gateway!Advance(t)
    BY <1>16, AtStands DEF Gateway!UninviteAll
  <2>2. q.kind = "end"
    BY <1>1, <2>1, StepPlaces
  <2>3. TaskTyped'
    BY <2>1, <2>2, AdvanceTyped
  <2>4. QED
    BY <1>1, <1>16, <2>2, <2>3 DEF Gateway!UninviteAll, Typed, Gateway!TypeOK, Gateway!TaskState, Proper
<1>17. ASSUME Gateway!DropUnmark(t) PROVE Typed'
  <2>1. Stands(q, "dropUnmark") /\ Gateway!Advance(t)
    BY <1>17, AtStands DEF Gateway!DropUnmark
  <2>2. q.kind = "drop"
    BY <1>1, <2>1, StepPlaces
  <2>3. TaskTyped'
    BY <2>1, <2>2, AdvanceTyped
  <2>4. QED
    BY <1>1, <1>17, <2>2, <2>3 DEF Gateway!DropUnmark, Typed, Gateway!TypeOK, Gateway!TaskState, Proper
<1>18. ASSUME Gateway!DropSockDelete(t) PROVE Typed'
  <2>1. Stands(q, "dropSockDel") /\ Gateway!Advance(t)
    BY <1>18, AtStands DEF Gateway!DropSockDelete
  <2>2. q.kind = "drop"
    BY <1>1, <2>1, StepPlaces
  <2>3. TaskTyped'
    BY <2>1, <2>2, AdvanceTyped
  <2>4. QED
    BY <1>1, <1>18, <2>2, <2>3 DEF Gateway!DropSockDelete, Typed, Gateway!TypeOK, Gateway!TaskState, Proper
<1>19. ASSUME Gateway!Validate(t) PROVE Typed'
  <2>1. q.kind \in {"request", "accept", "join"}
    BY <1>1, <1>19, AtStands, StepPlaces DEF Gateway!Validate
  <2>2. TaskTyped'
    <3>0. PICK m \in SUBSET People : m = {q.user}
      BY <1>1, <2>1 DEF Proper
    <3>1. [q EXCEPT !.stale = m] \in Gateway!TaskState /\ Alike([q EXCEPT !.stale = m], q)
      BY <1>1, FieldsType DEF Alike
    <3>2. \/ Gateway!Goto(t, 2, q) \/ Gateway!Goto(t, 1, [q EXCEPT !.stale = m])
          \/ Gateway!Answer(t)
      BY <1>19, <3>0 DEF Gateway!Validate
    <3>3. QED
      BY <1>1, <2>1, <3>1, <3>2, GoesTyped, AnswerTyped
  <2>3. QED
    BY <1>19, <2>2 DEF Gateway!Validate, Typed, Gateway!TypeOK
<1>20. ASSUME Gateway!ValidateTargets(t) PROVE Typed'
  <2>1. q.kind = "request"
    BY <1>1, <1>20, AtStands, StepPlaces DEF Gateway!ValidateTargets
  <2>2. TaskTyped'
    <3>1. PICK m \in SUBSET People : Gateway!Goto(t, 1, [q EXCEPT !.stale = m])
      BY <1>20 DEF Gateway!ValidateTargets
    <3>2. [q EXCEPT !.stale = m] \in Gateway!TaskState /\ Alike([q EXCEPT !.stale = m], q)
      BY <1>1, FieldsType DEF Alike
    <3>3. QED
      BY <1>1, <2>1, <3>1, <3>2, GoesTyped
  <2>3. QED
    BY <1>20, <2>2 DEF Gateway!ValidateTargets, Typed, Gateway!TypeOK
<1>21. ASSUME Gateway!ClearStale(t) PROVE Typed'
  <2>1. q.kind \in {"request", "accept", "join"}
    BY <1>1, <1>21, AtStands, StepPlaces DEF Gateway!ClearStale
  <2>2. TaskTyped'
    <3>0. PICK m \in SUBSET People : m = {}
      OBVIOUS
    <3>1. [q EXCEPT !.stale = m] \in Gateway!TaskState /\ Alike([q EXCEPT !.stale = m], q)
      BY <1>1, FieldsType DEF Alike
    <3>2. QED
      BY <1>1, <1>21, <2>1, <3>0, <3>1, GoesTyped DEF Gateway!ClearStale
  <2>3. QED
    BY <1>21, <2>2 DEF Gateway!ClearStale, Typed, Gateway!TypeOK
<1>22. ASSUME Gateway!ClaimRead(t) PROVE Typed'
  <2>1. q.kind \in {"request", "accept", "join"}
    BY <1>1, <1>22, AtStands, StepPlaces DEF Gateway!ClaimRead
  <2>2. TaskTyped'
    <3>1. callSock[q.user] \in Devices \union {Nobody}
      BY <1>1, <2>1 DEF Typed, Gateway!TypeOK, Proper
    <3>2. PICK s \in Devices \union {Nobody} : s = callSock[q.user]
      BY <3>1
    <3>3. [q EXCEPT !.seen = s] \in Gateway!TaskState /\ Alike([q EXCEPT !.seen = s], q)
      BY <1>1, FieldsType DEF Alike
    <3>4. QED
      BY <1>1, <1>22, <2>1, <3>2, <3>3, GoesTyped DEF Gateway!ClaimRead
  <2>3. QED
    BY <1>22, <2>2 DEF Gateway!ClaimRead, Typed, Gateway!TypeOK
<1>23. ASSUME Gateway!ClaimWrite(t) PROVE Typed'
  <2>1. q.kind \in {"request", "accept", "join"}
    BY <1>1, <1>23, AtStands, StepPlaces DEF Gateway!ClaimWrite
  <2>2. TaskTyped'
    <3>1. [q EXCEPT !.seen = Nobody] \in Gateway!TaskState /\ Alike([q EXCEPT !.seen = Nobody], q)
      BY <1>1, FieldsType DEF Alike
    <3>2. QED
      BY <1>1, <1>23, <2>1, <3>1, GoesTyped DEF Gateway!ClaimWrite
  <2>3. callSock' \in [People -> Devices \union {Nobody}] /\ holds' \in [Devices -> Calls \union {Nobody}]
    BY <1>1, <1>23 DEF Gateway!ClaimWrite, Typed, Gateway!TypeOK, Gateway!TaskState
  <2>4. QED
    BY <1>23, <2>2, <2>3 DEF Gateway!ClaimWrite, Typed, Gateway!TypeOK
<1>24. ASSUME Gateway!LockRead(t) \/ Gateway!ReadInvite(t) PROVE Typed'
  <2>1. q.kind \in {"accept", "miss"}
    BY <1>1, <1>24, AtStands, StepPlaces DEF Gateway!LockRead, Gateway!ReadInvite
  <2>2. TaskTyped'
    BY <1>24, <2>1, AdvanceTyped, AnswerTyped DEF Gateway!LockRead, Gateway!ReadInvite
  <2>3. QED
    BY <1>24, <2>2 DEF Gateway!LockRead, Gateway!ReadInvite, Typed, Gateway!TypeOK
<1>25. ASSUME Gateway!Leave(t) PROVE Typed'
  <2>1. q.kind = "drop"
    BY <1>1, <1>25, AtStands, StepPlaces DEF Gateway!Leave
  <2>2. TaskTyped'
    BY <1>25, <2>1, AdvanceTyped, AnswerTyped DEF Gateway!Leave
  <2>3. QED
    BY <1>25, <2>2 DEF Gateway!Leave, Typed, Gateway!TypeOK
<1>26. ASSUME Gateway!DelistCount(t) PROVE Typed'
  <2>1. q.kind = "end"
    BY <1>1, <1>26, AtStands, StepPlaces DEF Gateway!DelistCount
  <2>2. TaskTyped'
    BY <1>1, <1>26, <2>1, GoesTyped DEF Gateway!DelistCount
  <2>3. QED
    BY <1>26, <2>2 DEF Gateway!DelistCount, Typed, Gateway!TypeOK
<1>27. ASSUME Gateway!ReadParts(t) PROVE Typed'
  <2>1. q.kind = "miss"
    BY <1>1, <1>27, AtStands, StepPlaces DEF Gateway!ReadParts
  <2>2. TaskTyped'
    BY <1>1, <1>27, <2>1, GoesTyped, AdvanceTyped DEF Gateway!ReadParts
  <2>3. QED
    BY <1>27, <2>2 DEF Gateway!ReadParts, Typed, Gateway!TypeOK
<1>28. ASSUME Gateway!DropRead(t) \/ Gateway!DropSockRead(t) PROVE Typed'
  <2>1. q.kind = "drop"
    BY <1>1, <1>28, AtStands, StepPlaces DEF Gateway!DropRead, Gateway!DropSockRead
  <2>2. TaskTyped'
    BY <1>1, <1>28, <2>1, GoesTyped, AdvanceTyped DEF Gateway!DropRead, Gateway!DropSockRead
  <2>3. QED
    BY <1>28, <2>2 DEF Gateway!DropRead, Gateway!DropSockRead, Typed, Gateway!TypeOK
<1>29. ASSUME Gateway!SweepRead(t) PROVE Typed'
  <2>1. q.kind = "drop" /\ q.user \in People
    BY <1>1, <1>29, AtStands, StepPlaces DEF Gateway!SweepRead, Proper
  <2>2. TaskTyped'
    <3>1. PICK e \in SUBSET Calls : e = index[q.user]
      BY <2>1 DEF Typed, Gateway!TypeOK
    <3>2. [q EXCEPT !.swept = e] \in Gateway!TaskState /\ Alike([q EXCEPT !.swept = e], q)
      BY <1>1, FieldsType DEF Alike
    <3>3. Gateway!Goto(t, 5, q) \/ Gateway!Goto(t, 1, [q EXCEPT !.swept = e])
      BY <1>29, <3>1 DEF Gateway!SweepRead
    <3>4. QED
      BY <1>1, <2>1, <3>2, <3>3, GoesTyped
  <2>3. QED
    BY <1>29, <2>2 DEF Gateway!SweepRead, Typed, Gateway!TypeOK
<1>30. ASSUME Gateway!SweepCount(t) PROVE Typed'
  <2>1. q.kind = "drop"
    BY <1>1, <1>30, AtStands, StepPlaces DEF Gateway!SweepCount
  <2>2. TaskTyped'
    <3>1. PICK e \in SUBSET Calls : e = {c \in q.swept : present[c] = {}}
      BY <1>1 DEF Gateway!TaskState
    <3>2. [q EXCEPT !.swept = e] \in Gateway!TaskState /\ Alike([q EXCEPT !.swept = e], q)
      BY <1>1, FieldsType DEF Alike
    <3>3. Gateway!Goto(t, 1, [q EXCEPT !.swept = e])
      BY <1>1, <1>30, <3>1 DEF Gateway!SweepCount, Gateway!TaskState
    <3>4. QED
      BY <1>1, <2>1, <3>2, <3>3, GoesTyped
  <2>3. QED
    BY <1>30, <2>2 DEF Gateway!SweepCount, Typed, Gateway!TypeOK
<1>31. ASSUME Gateway!SweepWipe(t) PROVE Typed'
  <2>1. q.kind = "drop"
    BY <1>1, <1>31, AtStands, StepPlaces DEF Gateway!SweepWipe
  <2>2. TaskTyped'
    <3>1. [q EXCEPT !.swept = {}] \in Gateway!TaskState /\ Alike([q EXCEPT !.swept = {}], q)
      BY <1>1, FieldsType DEF Alike
    <3>2. QED
      BY <1>1, <1>31, <2>1, <3>1, GoesTyped DEF Gateway!SweepWipe
  <2>3. QED
    BY <1>31, <2>2 DEF Gateway!SweepWipe, Typed, Gateway!TypeOK
<1>32. ASSUME Gateway!Create(t) \/ Gateway!AcceptCall(t) PROVE Typed'
  <2>1. q.kind \in {"request", "accept", "join"} /\ q.call \in Calls
    BY <1>1, <1>32, AtStands, StepPlaces DEF Gateway!Create, Gateway!AcceptCall, Proper
  <2>2. TaskTyped'
    BY <1>1, <1>32, <2>1, GoesTyped, AnswerTyped
    DEF Gateway!Create, Gateway!AcceptCall, Gateway!AfterGrpc
  <2>3. status' \in [Calls -> [People -> Gateway!MemberStatus]]
    <3>1. PICK s \in [People -> Gateway!MemberStatus] : status' = [status EXCEPT ![q.call] = s]
      <4>1. CASE Gateway!Create(t)
        BY <4>1 DEF Gateway!Create, Gateway!MemberStatus
      <4>2. CASE Gateway!AcceptCall(t)
        <5>1. status[q.call] \in [People -> Gateway!MemberStatus]
          BY <2>1 DEF Typed, Gateway!TypeOK
        <5>2. [status[q.call] EXCEPT ![q.user] = IF @ = "absent" THEN @ ELSE "started"]
                \in [People -> Gateway!MemberStatus]
          BY <5>1 DEF Gateway!MemberStatus
        <5>3. QED
          BY <4>2, <5>2 DEF Gateway!AcceptCall
      <4>3. QED
        BY <1>32, <4>1, <4>2
    <3>2. QED
      BY <2>1, <3>1 DEF Typed, Gateway!TypeOK
  <2>4. QED
    BY <1>32, <2>2, <2>3 DEF Gateway!Create, Gateway!AcceptCall, Typed, Gateway!TypeOK
<1>33. ASSUME Gateway!EndCall(t) PROVE Typed'
  <2>1. q.kind \in {"end", "miss"} /\ q.call \in Calls
    BY <1>1, <1>33, AtStands, StepPlaces DEF Gateway!EndCall, Proper
  <2>2. TaskTyped'
    <3>1. PICK b \in BOOLEAN, answered \in Gateway!Outcomes :
            Gateway!AfterGrpc(t, answered, [q EXCEPT !.live = b])
      BY <1>33 DEF Gateway!EndCall
    <3>2. [q EXCEPT !.live = b] \in Gateway!TaskState /\ Alike([q EXCEPT !.live = b], q)
      BY <1>1, FieldsType DEF Alike
    <3>3. Gateway!Goto(t, 1, [q EXCEPT !.live = b]) \/ Gateway!Answer(t)
      BY <3>1 DEF Gateway!AfterGrpc
    <3>4. QED
      BY <1>1, <2>1, <3>2, <3>3, GoesTyped, AnswerTyped
  <2>3. status' \in [Calls -> [People -> Gateway!MemberStatus]]
    <3>1. q.as \in Gateway!MemberStatus
      BY <1>1 DEF Gateway!TaskState, Gateway!EndStatus, Gateway!MemberStatus
    <3>2. \A u \in People : status[q.call][u] \in Gateway!MemberStatus
      BY <2>1 DEF Typed, Gateway!TypeOK
    <3>3. QED
      BY <1>33, <2>1, <3>1, <3>2
      DEF Gateway!EndCall, Typed, Gateway!TypeOK, Gateway!MemberStatus
  <2>4. endedAt' \subseteq Calls /\ holds' \in [Devices -> Calls \union {Nobody}]
    BY <1>33, <2>1 DEF Gateway!EndCall, Typed, Gateway!TypeOK
  <2>5. QED
    BY <1>33, <2>2, <2>3, <2>4 DEF Gateway!EndCall, Typed, Gateway!TypeOK
<1>34. ASSUME Gateway!Lost(t) PROVE Typed'
  <2>1. q.kind \in {"request", "accept", "join", "end", "miss"}
    BY <1>1, <1>34, AtStands, StepPlaces DEF Gateway!Lost
  <2>2. TaskTyped'
    BY <1>1, <1>34, <2>1, GoesTyped, AnswerTyped DEF Gateway!Lost, Gateway!AfterGrpc
  <2>3. QED
    BY <1>34, <2>2 DEF Gateway!Lost, Typed, Gateway!TypeOK
<1>35. QED
  BY <1>2, <1>3, <1>4, <1>5, <1>6, <1>7, <1>8, <1>9, <1>10, <1>11, <1>12, <1>13, <1>14, <1>15, <1>16, <1>17, <1>18, <1>19, <1>20, <1>21, <1>22, <1>23, <1>24, <1>25, <1>26, <1>27, <1>28, <1>29, <1>30, <1>31, <1>32, <1>33, <1>34
  DEF Gateway!Continue

Kinds == {"request", "accept", "join", "end", "miss", "drop"}
MaybeSocket == Devices \union {Nobody}
MaybeCall == Calls \union {Nobody}

\* The locals of a handler that starts.
Begun(kind, u, s, c, as) ==
  [Gateway!Idle EXCEPT !.kind = kind, !.user = u, !.sock = s, !.call = c, !.as = as]

IsBegun(p, kind, u, s, c, as) ==
  /\ p \in Gateway!TaskState /\ p.kind = kind /\ p.at = 1 /\ p.user = u
  /\ p.sock = s /\ p.call = c /\ p.as = as /\ p.stale = {} /\ p.seen = Nobody

LEMMA BegunType ==
  ASSUME NEW kind \in Kinds, NEW u \in People,
         NEW s \in MaybeSocket, NEW c \in MaybeCall,
         NEW as \in Gateway!EndStatus
  PROVE  IsBegun(Begun(kind, u, s, c, as), kind, u, s, c, as)
<1> DEFINE K == {"none", "request", "accept", "join", "end", "miss", "drop"}
           U == People \union {Nobody}  S == Devices \union {Nobody}  C == Calls \union {Nobody}
           M == SUBSET People  D == SUBSET Calls  A == Gateway!EndStatus  B == BOOLEAN
           N == 1 .. 16
           T == [kind : K, at : N, user : U, sock : S, call : C, as : A,
                 stale : M, seen : S, swept : D, live : B]
           i == Gateway!Idle
<1>1. Gateway!TaskState = T /\ kind \in K /\ u \in U /\ s \in S /\ c \in C /\ as \in A
  BY DEF Gateway!TaskState, Kinds, MaybeSocket, MaybeCall
<1>2. i \in T
  BY <1>1, IdleType
<1>3. i.at = 1 /\ i.stale = {} /\ i.seen = Nobody
  BY DEF Gateway!Idle
<1> HIDE DEF K, U, S, C, M, D, A, B, N, i
<1>4. LET p == [i EXCEPT !.kind = kind, !.user = u, !.sock = s, !.call = c, !.as = as] IN
        /\ p \in T /\ p.kind = kind /\ p.at = i.at /\ p.user = u
        /\ p.sock = s /\ p.call = c /\ p.as = as /\ p.stale = i.stale /\ p.seen = i.seen
  BY <1>1, <1>2
<1>5. QED
  BY <1>1, <1>3, <1>4 DEF Begun, IsBegun, i

LEMMA StartTyped ==
  ASSUME Typed, NEW t \in Slots,
         NEW kind \in Kinds, NEW u \in People,
         NEW s \in MaybeSocket, NEW c \in MaybeCall,
         NEW as \in Gateway!EndStatus, Gateway!Start(t, kind, u, s, c, as),
         c \in Calls \/ kind = "drop", kind = "miss" => as = "missed"
  PROVE  /\ task' \in [Slots -> Gateway!TaskState] /\ \A r \in Slots : Proper(task'[r])
         /\ met' \subseteq Calls /\ cut' \subseteq Calls /\ asked' \subseteq Calls
<1> DEFINE p == Begun(kind, u, s, c, as)
<1>1. task' = [task EXCEPT ![t] = p]
  BY DEF Gateway!Start, Begun
<1>2. IsBegun(p, kind, u, s, c, as)
  BY BegunType
<1> HIDE DEF p
<1>3. Proper(p) /\ p \in Gateway!TaskState
  BY <1>2 DEF Proper, Kinds, IsBegun
<1>4. met' \subseteq Calls /\ cut' \subseteq Calls /\ asked' \subseteq Calls
  BY DEF Gateway!Start, Typed, Gateway!TypeOK
<1>5. QED
  BY <1>1, <1>3, <1>4 DEF Typed, Gateway!TypeOK

LEMMA OwnerIs == DeviceOwner \in [Devices -> People] /\ MaxCalls \in Nat
  BY GatewayAssumption DEF Gateway!ConstantsAssumption

LEMMA TypedStep == Typed /\ [Gateway!Next]_devices => Typed'
<1> SUFFICES ASSUME Typed, [Gateway!Next]_devices PROVE Typed'
  OBVIOUS
<1> USE DEF devices, Gateway!db, Gateway!redis, Gateway!clients, Gateway!hist, Gateway!past
<1>1. ASSUME NEW t \in Slots, Gateway!Continue(t) PROVE Typed'
  BY <1>1, OneStepTyped
<1>2. ASSUME NEW t \in Slots, NEW u \in People, NEW c \in Calls, Gateway!JobDue(t, u, c)
      PROVE  Typed'
  <2>1. /\ task' \in [Slots -> Gateway!TaskState] /\ \A r \in Slots : Proper(task'[r])
        /\ met' \subseteq Calls /\ cut' \subseteq Calls /\ asked' \subseteq Calls
    BY <1>2, StartTyped DEF Kinds, MaybeSocket, MaybeCall, Gateway!JobDue, Gateway!EndStatus
  <2>2. QED
    BY <1>2, <2>1 DEF Gateway!JobDue, Typed, Gateway!TypeOK
<1>3. ASSUME NEW t \in Slots, NEW s \in Devices, NEW c \in Calls,
             NEW kind \in {"request", "accept", "join", "end"}, NEW as \in Gateway!EndStatus,
             Gateway!Receive(t, s, kind, c, as)
      PROVE  Typed'
  <2>1. DeviceOwner[s] \in People
    BY OwnerIs
  <2>2. /\ task' \in [Slots -> Gateway!TaskState] /\ \A r \in Slots : Proper(task'[r])
        /\ met' \subseteq Calls /\ cut' \subseteq Calls /\ asked' \subseteq Calls
    BY <1>3, <2>1, StartTyped DEF Kinds, MaybeSocket, MaybeCall, Gateway!Receive
  <2>3. calls' \in 0 .. MaxCalls
    BY <1>3, OwnerIs DEF Gateway!Receive, Typed, Gateway!TypeOK
  <2>4. QED
    BY <1>3, <2>2, <2>3 DEF Gateway!Receive, Typed, Gateway!TypeOK
<1>4. ASSUME NEW t \in Slots, NEW s \in Devices, Gateway!Disconnect(t, s) PROVE Typed'
  <2>1. DeviceOwner[s] \in People
    BY OwnerIs
  <2>2. /\ task' \in [Slots -> Gateway!TaskState] /\ \A r \in Slots : Proper(task'[r])
        /\ met' \subseteq Calls /\ cut' \subseteq Calls /\ asked' \subseteq Calls
    BY <1>4, <2>1, StartTyped DEF Kinds, MaybeSocket, MaybeCall, Gateway!Disconnect, Gateway!EndStatus
  <2>3. calls' \in 0 .. MaxCalls
    BY <1>4, OwnerIs DEF Gateway!Disconnect, Typed, Gateway!TypeOK
  <2>4. QED
    BY <1>4, <2>2, <2>3 DEF Gateway!Disconnect, Typed, Gateway!TypeOK
<1>5. ASSUME NEW s \in Devices, Gateway!Toggle(s) PROVE Typed'
  <2>1. DeviceOwner[s] \in People
    BY OwnerIs
  <2>2. calls' \in 0 .. MaxCalls
    BY <1>5, OwnerIs DEF Gateway!Toggle, Typed, Gateway!TypeOK
  <2>3. QED
    BY <1>5, <2>1, <2>2 DEF Gateway!Toggle, Typed, Gateway!TypeOK
<1>6. CASE UNCHANGED devices
  BY <1>6 DEF Typed, Gateway!TypeOK
<1>7. "ended" \in Gateway!EndStatus
  BY DEF Gateway!EndStatus
<1>8. CASE Gateway!Next
  BY <1>1, <1>2, <1>3, <1>4, <1>5, <1>7, <1>8 DEF Gateway!Next, Gateway!RunJob
<1>9. QED
  BY <1>6, <1>8

LEMMA TypedFirst == Gateway!Init => Typed
  BY IdleType, OwnerIs DEF Gateway!Init, Typed, Gateway!TypeOK, Gateway!MemberStatus, Proper

\* The length of a script.
Size(kind) ==
  CASE kind \in {"request", "accept"} -> 11
    [] kind \in {"join", "end"} -> 8
    [] kind = "miss" -> 4
    [] kind = "drop" -> 16
    [] OTHER -> 0

LEMMA SizeIs ==
  ASSUME NEW q \in Gateway!TaskState
  PROVE  Len(Gateway!Script(q.kind)) = Size(q.kind)
  BY Lengths DEF Size, Gateway!TaskState

\* Where the handler of t is after n steps, or after its answer.
Further(p, t, n) ==
  /\ task' = [task EXCEPT ![t] = p]
  /\ \/ task[t].at + n > Size(task[t].kind) /\ p = Gateway!Idle
     \/ task[t].at + n \leq Size(task[t].kind) /\ Alike(p, task[t]) /\ p.at = task[t].at + n

LEMMA GoesFurther ==
  ASSUME Typed, NEW t \in Slots, NEW n \in 1 .. 9, NEW q \in Gateway!TaskState,
         Alike(q, task[t]), q.at = task[t].at, Gateway!Goto(t, n, q)
  PROVE  \E p \in Gateway!TaskState : Further(p, t, n)
<1>1. PICK p \in Gateway!TaskState :
        /\ task' = [task EXCEPT ![t] = p]
        /\ \/ q.at + n > Len(Gateway!Script(q.kind)) /\ p = Gateway!Idle
           \/ q.at + n \leq Len(Gateway!Script(q.kind)) /\ Same(p, q) /\ p.at = q.at + n
  BY HandlerGoes DEF Typed
<1>2. q.kind = task[t].kind /\ Len(Gateway!Script(q.kind)) = Size(q.kind)
  BY SizeIs DEF Alike
<1>3. Further(p, t, n)
  BY <1>1, <1>2 DEF Further, Same, Alike
<1>4. QED
  BY <1>3

LEMMA AdvancesFurther ==
  ASSUME Typed, NEW t \in Slots, Gateway!Advance(t)
  PROVE  \E p \in Gateway!TaskState : Further(p, t, 1)
<1>1. task[t] \in Gateway!TaskState /\ Alike(task[t], task[t]) /\ Gateway!Goto(t, 1, task[t])
  BY DEF Typed, Gateway!TypeOK, Alike, Gateway!Advance
<1>2. QED
  BY <1>1, GoesFurther

\* The same of a handler that has written one of its locals.
LEMMA WritesFurther ==
  ASSUME Typed, NEW t \in Slots, NEW n \in 1 .. 9
  PROVE  /\ \A m \in SUBSET People : Gateway!Goto(t, n, [task[t] EXCEPT !.stale = m]) =>
              \E p \in Gateway!TaskState : Further(p, t, n)
         /\ \A s \in MaybeSocket : Gateway!Goto(t, n, [task[t] EXCEPT !.seen = s]) =>
              \E p \in Gateway!TaskState : Further(p, t, n)
         /\ \A e \in SUBSET Calls : Gateway!Goto(t, n, [task[t] EXCEPT !.swept = e]) =>
              \E p \in Gateway!TaskState : Further(p, t, n)
         /\ \A b \in BOOLEAN : Gateway!Goto(t, n, [task[t] EXCEPT !.live = b]) =>
              \E p \in Gateway!TaskState : Further(p, t, n)
<1>0. task[t] \in Gateway!TaskState
  BY DEF Typed, Gateway!TypeOK
<1>1. ASSUME NEW m \in SUBSET People, Gateway!Goto(t, n, [task[t] EXCEPT !.stale = m])
      PROVE  \E p \in Gateway!TaskState : Further(p, t, n)
  <2> DEFINE r == [task[t] EXCEPT !.stale = m]
  <2>1. r \in Gateway!TaskState /\ Alike(r, task[t]) /\ r.at = task[t].at
    BY <1>0, FieldsType DEF Alike
  <2>2. QED
    BY <1>1, <2>1, GoesFurther
<1>2. ASSUME NEW s \in MaybeSocket, Gateway!Goto(t, n, [task[t] EXCEPT !.seen = s])
      PROVE  \E p \in Gateway!TaskState : Further(p, t, n)
  <2> DEFINE r == [task[t] EXCEPT !.seen = s]
  <2>1. r \in Gateway!TaskState /\ Alike(r, task[t]) /\ r.at = task[t].at
    BY <1>0, FieldsType DEF Alike, MaybeSocket
  <2>2. QED
    BY <1>2, <2>1, GoesFurther
<1>3. ASSUME NEW e \in SUBSET Calls, Gateway!Goto(t, n, [task[t] EXCEPT !.swept = e])
      PROVE  \E p \in Gateway!TaskState : Further(p, t, n)
  <2> DEFINE r == [task[t] EXCEPT !.swept = e]
  <2>1. r \in Gateway!TaskState /\ Alike(r, task[t]) /\ r.at = task[t].at
    BY <1>0, FieldsType DEF Alike
  <2>2. QED
    BY <1>3, <2>1, GoesFurther
<1>4. ASSUME NEW b \in BOOLEAN, Gateway!Goto(t, n, [task[t] EXCEPT !.live = b])
      PROVE  \E p \in Gateway!TaskState : Further(p, t, n)
  <2> DEFINE r == [task[t] EXCEPT !.live = b]
  <2>1. r \in Gateway!TaskState /\ Alike(r, task[t]) /\ r.at = task[t].at
    BY <1>0, FieldsType DEF Alike
  <2>2. QED
    BY <1>4, <2>1, GoesFurther
<1>5. QED
  BY <1>1, <1>2, <1>3, <1>4

-------------------------------------------------------------------------------
(* A call whose handlers never met: its participants and the devices that show it *)

\* At most one handler of call c, and none beside a handleDisconnect.
Alone(c) ==
  /\ \A s, t \in Slots : task[s].call = c /\ task[t].call = c => s = t
  /\ \A s, t \in Slots : task[s].call = c => task[t].kind # "drop"

\* q's user has been taken out of the calls, not yet of the reverse index.
Sweeping(q) == q.kind = "drop" /\ q.at \in {4, 5, 6, 13, 14, 15}

\* What q has read of the sets, as far as call c is in them.
Counts(q, c) ==
  /\ q.kind = "drop" /\ q.at \in {3, 12} /\ c \in index[q.user] => c \in q.swept
  /\ Sweeping(q) => q.user \notin present[c]
  /\ q.kind = "drop" /\ q.at \in {5, 14} /\ c \in q.swept => present[c] = {}
  /\ q.kind = "end" /\ q.at = 6 /\ q.call = c => present[c] = {}

Sets(c) ==
  /\ \A u \in People : u \in present[c] => c \in index[u]
  /\ \A u \in People : c \in index[u] =>
       u \in present[c] \/ \E t \in Slots : Sweeping(task[t]) /\ task[t].user = u
  /\ \A t \in Slots : Counts(task[t], c)

\* The handlers that a client's message starts, where they write USER_CALL_SOCKET.
Claiming(q) ==
  \/ q.kind = "request" /\ q.at = 9
  \/ q.kind = "accept" /\ q.at = 6
  \/ q.kind = "join" /\ q.at = 4

\* What q knows of its call, of its socket and of the devices that show the call.
Holds(q) ==
  /\ q.stale = {}
  /\ q.kind \in {"accept", "join", "end"} => Gateway!Exists(q.call)
  /\ q.kind = "request" => (q.at > 5 <=> Gateway!Exists(q.call))
  /\ q.kind \in {"request", "accept", "join"} =>
       q.sock \in Devices /\ DeviceOwner[q.sock] = q.user
  /\ Claiming(q) => q.seen = callSock[q.user]
  /\ q.kind = "end" /\ q.at > 1 =>
       \A s \in Devices : holds[s] # Nobody => DeviceOwner[s] # q.user /\ q.live
  /\ q.kind = "drop" => q.sock \notin online
  /\ q.kind = "drop" /\ q.at = 9 => callSock[q.user] \in {Nobody, q.sock}
  /\ q.kind = "drop" /\ q.at > 10 => \A s \in online : DeviceOwner[s] # q.user

\* No call but c was ever requested.
Only(c) ==
  /\ \A t \in Slots : task[t].call \in {c, Nobody}
  /\ \A d \in Calls : Gateway!Exists(d) => d = c
  /\ \A u \in People, d \in Calls : <<u, d>> \in jobs => d = c

\* A device that shows a call is connected, and is the one USER_CALL_SOCKET names.
Show(c) ==
  /\ \A s \in Devices : holds[s] # Nobody =>
       holds[s] = c /\ s \in online /\ callSock[DeviceOwner[s]] = s
  /\ \A u \in People : inCall[u] # Nobody => inCall[u] = c /\ Gateway!Exists(c)
  /\ \A t \in Slots : Holds(task[t])

Kept(c) == (Sets(c) => Sets(c)') /\ (Only(c) /\ Show(c) => Show(c)')

\* Where the handler of t is after n steps, or after its answer, with the locals that the
\* step has left it.
Moved(p, t, n, m, s, e) ==
  /\ task' = [task EXCEPT ![t] = p]
  /\ \/ task[t].at + n > Size(task[t].kind) /\ p = Gateway!Idle
     \/ /\ task[t].at + n \leq Size(task[t].kind)
        /\ Alike(p, task[t]) /\ p.at = task[t].at + n /\ p.sock = task[t].sock
        /\ p.stale = m /\ p.seen = s /\ p.swept = e /\ p.live = task[t].live

Stops(p, t) == task' = [task EXCEPT ![t] = p] /\ p = Gateway!Idle

LEMMA MovesOn ==
  ASSUME Typed, NEW t \in Slots, NEW n \in 1 .. 9, NEW q \in Gateway!TaskState,
         Alike(q, task[t]), q.at = task[t].at, q.sock = task[t].sock, q.live = task[t].live,
         Gateway!Goto(t, n, q)
  PROVE  \E p \in Gateway!TaskState : Moved(p, t, n, q.stale, q.seen, q.swept)
<1>1. PICK p \in Gateway!TaskState :
        /\ task' = [task EXCEPT ![t] = p]
        /\ \/ q.at + n > Len(Gateway!Script(q.kind)) /\ p = Gateway!Idle
           \/ q.at + n \leq Len(Gateway!Script(q.kind)) /\ Same(p, q) /\ p.at = q.at + n
  BY HandlerGoes DEF Typed
<1>2. q.kind = task[t].kind /\ Len(Gateway!Script(q.kind)) = Size(q.kind)
  BY SizeIs DEF Alike
<1>3. Moved(p, t, n, q.stale, q.seen, q.swept)
  BY <1>1, <1>2 DEF Moved, Same, Alike
<1>4. QED
  BY <1>3

LEMMA GoesOn1 ==
  ASSUME Typed, NEW t \in Slots, NEW n \in 1 .. 9, Gateway!Goto(t, n, task[t])
  PROVE  \E p \in Gateway!TaskState :
           Moved(p, t, n, task[t].stale, task[t].seen, task[t].swept)
<1>1. task[t] \in Gateway!TaskState /\ Alike(task[t], task[t])
  BY DEF Typed, Gateway!TypeOK, Alike
<1>2. QED
  BY <1>1, MovesOn

LEMMA AdvancesOn ==
  ASSUME Typed, NEW t \in Slots, Gateway!Advance(t)
  PROVE  \E p \in Gateway!TaskState :
           Moved(p, t, 1, task[t].stale, task[t].seen, task[t].swept)
  BY GoesOn1 DEF Gateway!Advance

LEMMA AnswersOn ==
  ASSUME NEW t \in Slots, Gateway!Answer(t)
  PROVE  \E p \in Gateway!TaskState : Stops(p, t)
  BY IdleType DEF Gateway!Answer, Stops

LEMMA StaleOn ==
  ASSUME Typed, NEW t \in Slots, NEW n \in 1 .. 9, NEW m \in SUBSET People,
         Gateway!Goto(t, n, [task[t] EXCEPT !.stale = m])
  PROVE  \E p \in Gateway!TaskState : Moved(p, t, n, m, task[t].seen, task[t].swept)
<1> DEFINE r == [task[t] EXCEPT !.stale = m]
<1>1. task[t] \in Gateway!TaskState
  BY DEF Typed, Gateway!TypeOK
<1>2. /\ r \in Gateway!TaskState /\ Alike(r, task[t]) /\ r.at = task[t].at
      /\ r.sock = task[t].sock /\ r.live = task[t].live
      /\ r.stale = m /\ r.seen = task[t].seen /\ r.swept = task[t].swept
  BY <1>1, FieldsType DEF Alike
<1> HIDE DEF r
<1>3. Gateway!Goto(t, n, r)
  BY DEF r
<1>4. QED
  BY <1>2, <1>3, MovesOn

LEMMA SeenOn ==
  ASSUME Typed, NEW t \in Slots, NEW n \in 1 .. 9, NEW s \in MaybeSocket,
         Gateway!Goto(t, n, [task[t] EXCEPT !.seen = s])
  PROVE  \E p \in Gateway!TaskState : Moved(p, t, n, task[t].stale, s, task[t].swept)
<1> DEFINE r == [task[t] EXCEPT !.seen = s]
<1>1. task[t] \in Gateway!TaskState
  BY DEF Typed, Gateway!TypeOK
<1>2. /\ r \in Gateway!TaskState /\ Alike(r, task[t]) /\ r.at = task[t].at
      /\ r.sock = task[t].sock /\ r.live = task[t].live
      /\ r.stale = task[t].stale /\ r.seen = s /\ r.swept = task[t].swept
  BY <1>1, FieldsType DEF Alike, MaybeSocket
<1> HIDE DEF r
<1>3. Gateway!Goto(t, n, r)
  BY DEF r
<1>4. QED
  BY <1>2, <1>3, MovesOn

LEMMA SweptOn ==
  ASSUME Typed, NEW t \in Slots, NEW n \in 1 .. 9, NEW e \in SUBSET Calls,
         Gateway!Goto(t, n, [task[t] EXCEPT !.swept = e])
  PROVE  \E p \in Gateway!TaskState : Moved(p, t, n, task[t].stale, task[t].seen, e)
<1> DEFINE r == [task[t] EXCEPT !.swept = e]
<1>1. task[t] \in Gateway!TaskState
  BY DEF Typed, Gateway!TypeOK
<1>2. /\ r \in Gateway!TaskState /\ Alike(r, task[t]) /\ r.at = task[t].at
      /\ r.sock = task[t].sock /\ r.live = task[t].live
      /\ r.stale = task[t].stale /\ r.seen = task[t].seen /\ r.swept = e
  BY <1>1, FieldsType DEF Alike
<1> HIDE DEF r
<1>3. Gateway!Goto(t, n, r)
  BY DEF r
<1>4. QED
  BY <1>2, <1>3, MovesOn

LEMMA NobodyIs == Nobody \notin Calls \union Devices /\ Gateway!Idle.call = Nobody
  BY GatewayAssumption DEF Gateway!ConstantsAssumption, Gateway!Idle

LEMMA IdleHolds == Holds(Gateway!Idle)'
  BY IdleType DEF Holds, Claiming, Gateway!Idle

\* A step that leaves what the sets and the index say of call c.
LEMMA SetsFrame ==
  ASSUME Typed, NEW c \in Calls, Sets(c), NEW t \in Slots, NEW p \in Gateway!TaskState,
         task' = [task EXCEPT ![t] = p], present'[c] = present[c],
         \A u \in People : c \in index'[u] <=> c \in index[u],
         Sweeping(task[t]) => Sweeping(p) /\ p.user = task[t].user, Counts(p, c),
         p.kind = "drop" => p.user \in People
  PROVE  Sets(c)'
<1>1. task \in [Slots -> Gateway!TaskState] /\ task'[t] = p
  BY DEF Typed, Gateway!TypeOK
<1>2. ASSUME NEW u \in People, c \in index'[u], u \notin present'[c]
      PROVE  \E s \in Slots : Sweeping(task'[s]) /\ task'[s].user = u
  <2>1. PICK s \in Slots : Sweeping(task[s]) /\ task[s].user = u
    BY <1>2 DEF Sets
  <2>2. CASE s = t
    BY <1>1, <2>1, <2>2
  <2>3. CASE s # t
    <3>1. task'[s] = task[s]
      BY <1>1, <2>3
    <3>2. QED
      BY <2>1, <3>1
  <2>4. QED
    BY <2>2, <2>3
<1>3. ASSUME NEW s \in Slots PROVE Counts(task[s], c)'
  <2>1. task'[s] = IF s = t THEN p ELSE task[s]
    BY <1>1
  <2>2. Counts(task'[s], c) /\ (task'[s].kind = "drop" => task'[s].user \in People)
    BY <2>1 DEF Sets, Typed, Proper
  <2>3. QED
    BY <2>2 DEF Counts, Sweeping
<1>4. \A u \in People : u \in present'[c] => c \in index'[u]
  BY DEF Sets
<1>5. QED
  BY <1>2, <1>3, <1>4 DEF Sets, Sweeping

LEMMA SetsPlain ==
  ASSUME Typed, NEW c \in Calls, Sets(c), NEW t \in Slots, NEW p \in Gateway!TaskState,
         task' = [task EXCEPT ![t] = p], UNCHANGED <<present, index>>,
         Sweeping(task[t]) => Sweeping(p) /\ p.user = task[t].user, Counts(p, c)
  PROVE  Sets(c)'
<1>1. task \in [Slots -> Gateway!TaskState] /\ task'[t] = p
  BY DEF Typed, Gateway!TypeOK
<1>2. ASSUME NEW u \in People, c \in index[u], u \notin present[c]
      PROVE  \E s \in Slots : Sweeping(task'[s]) /\ task'[s].user = u
  <2>1. PICK s \in Slots : Sweeping(task[s]) /\ task[s].user = u
    BY <1>2 DEF Sets
  <2>2. CASE s = t
    BY <1>1, <2>1, <2>2
  <2>3. CASE s # t
    <3>1. task'[s] = task[s]
      BY <1>1, <2>3
    <3>2. QED
      BY <2>1, <3>1
  <2>4. QED
    BY <2>2, <2>3
<1>3. ASSUME NEW s \in Slots PROVE Counts(task[s], c)'
  <2>1. task'[s] = IF s = t THEN p ELSE task[s]
    BY <1>1
  <2>2. Counts(task'[s], c)
    BY <2>1 DEF Sets
  <2>3. QED
    BY <2>2 DEF Counts, Sweeping
<1>4. QED
  BY <1>2, <1>3 DEF Sets, Sweeping

\* Nothing that the handlers beside t know of the devices can become wrong.
LEMMA OthersHold ==
  ASSUME Typed, NEW c \in Calls, Alone(c), Only(c), Show(c), NEW t \in Slots,
         task[t].kind # "none",
         task[t].kind = "drop" =>
           online' \subseteq online /\ \A u \in People : callSock'[u] \in {callSock[u], Nobody},
         NEW s \in Slots, s # t, task'[s] = task[s]
  PROVE  Holds(task[s])'
<1> DEFINE q == task[s]
<1>1. /\ q.call \in {c, Nobody} /\ Proper(q) /\ Holds(q) /\ Proper(task[t])
      /\ task[t].call \in {c, Nobody}
  BY DEF Only, Show, Typed
<1>2. CASE task[t].kind = "drop"
  <2>1. q.kind \in {"none", "drop"}
    <3>1. q.call # c
      BY <1>2 DEF Alone
    <3>2. QED
      BY <1>1, <3>1, NobodyIs DEF Proper
  <2>2. CASE q.kind = "none"
    BY <1>1, <2>2, IdleHolds DEF Proper
  <2>3. CASE q.kind = "drop"
    BY <1>1, <1>2, <2>3 DEF Holds, Claiming, Proper
  <2>4. QED
    BY <2>1, <2>2, <2>3
<1>3. CASE task[t].kind # "drop"
  <2>1. task[t].call = c
    BY <1>1, <1>3, NobodyIs DEF Proper
  <2>2. q.call # c /\ q.kind # "drop"
    BY <2>1 DEF Alone
  <2>3. q = Gateway!Idle
    BY <1>1, <2>2, NobodyIs DEF Proper
  <2>4. QED
    BY <2>3, IdleHolds
<1>4. QED
  BY <1>2, <1>3

LEMMA ShowGoes ==
  ASSUME Typed, NEW c \in Calls, Alone(c), Only(c), Show(c), NEW t \in Slots,
         task[t].kind # "none", NEW p \in Gateway!TaskState,
         task' = [task EXCEPT ![t] = p], Holds(p)',
         task[t].kind = "drop" =>
           online' \subseteq online /\ \A u \in People : callSock'[u] \in {callSock[u], Nobody},
         \A s \in Devices : holds'[s] # Nobody =>
           holds'[s] = c /\ s \in online' /\ callSock'[DeviceOwner[s]] = s,
         \A u \in People : inCall'[u] # Nobody => inCall'[u] = c /\ Gateway!Exists(c)'
  PROVE  Show(c)'
<1>1. task \in [Slots -> Gateway!TaskState] /\ task'[t] = p
  BY DEF Typed, Gateway!TypeOK
<1>2. ASSUME NEW s \in Slots PROVE Holds(task[s])'
  <2>1. CASE s = t
    BY <1>1, <2>1
  <2>2. CASE s # t
    <3>1. task'[s] = task[s]
      BY <1>1, <2>2
    <3>2. QED
      BY <2>2, <3>1, OthersHold
  <2>3. QED
    BY <2>1, <2>2
<1>3. QED
  BY <1>2 DEF Show

LEMMA ShowPlain ==
  ASSUME Typed, NEW c \in Calls, Alone(c), Only(c), Show(c), NEW t \in Slots,
         task[t].kind # "none", NEW p \in Gateway!TaskState,
         task' = [task EXCEPT ![t] = p], UNCHANGED <<holds, online, callSock>>,
         \A d \in Calls : Gateway!Exists(d) => Gateway!Exists(d)',
         \A u \in People : inCall'[u] \in {inCall[u], Nobody}, Holds(p)'
  PROVE  Show(c)'
<1>1. \A s \in Devices : holds'[s] # Nobody =>
        holds'[s] = c /\ s \in online' /\ callSock'[DeviceOwner[s]] = s
  BY DEF Show
<1>2. \A u \in People : inCall'[u] # Nobody => inCall'[u] = c /\ Gateway!Exists(c)'
  BY DEF Show
<1>3. QED
  BY <1>1, <1>2, ShowGoes

LEMMA HandlerStep ==
  ASSUME Typed, NEW c \in Calls, Alone(c), NEW t \in Slots, Gateway!Continue(t)
  PROVE  \/ Kept(c)
         \/ Gateway!Validate(t) \/ Gateway!ValidateTargets(t) \/ Gateway!ClearStale(t)
         \/ Gateway!Create(t) \/ Gateway!EndCall(t) \/ Gateway!Mark(t) \/ Gateway!ClaimWrite(t)
         \/ Gateway!Unmark(t) \/ Gateway!Wipe(t) \/ Gateway!DropSockDelete(t)
         \/ Gateway!Enlist(t) \/ Gateway!Delist(t) \/ Gateway!DelistCount(t)
         \/ Gateway!DelistDelete(t) \/ Gateway!SweepRead(t) \/ Gateway!SweepRemove(t)
         \/ Gateway!SweepCount(t) \/ Gateway!SweepWipe(t) \/ Gateway!SweepDelete(t)
<1> DEFINE q == task[t]
<1>0. /\ q \in Gateway!TaskState /\ Proper(q) /\ q.at \in 1 .. 16
  BY DEF Typed, Gateway!TypeOK, Gateway!TaskState
<1> USE DEF devices, Gateway!db, Gateway!redis, Gateway!clients, Gateway!hist, Gateway!past
<1>1. ASSUME Gateway!LockRead(t) PROVE Kept(c)
  <2>1. q.kind = "accept" /\ q.at = 1
    BY <1>0, <1>1, AtStands, StepPlaces DEF Gateway!LockRead
  <2>2. \E p \in Gateway!TaskState :
          \/ Moved(p, t, 1, q.stale, q.seen, q.swept)
          \/ Stops(p, t)
    BY <1>0, <1>1, <2>1, AdvancesOn, AnswersOn DEF Gateway!LockRead
  <2>3. PICK p \in Gateway!TaskState :
          \/ Moved(p, t, 1, q.stale, q.seen, q.swept)
          \/ Stops(p, t)
    BY <2>2
  <2>4. /\ task' = [task EXCEPT ![t] = p] /\ Counts(p, c)
        /\ Sweeping(q) => Sweeping(p) /\ p.user = q.user
    BY <1>0, <2>1, <2>3, IdleType DEF Moved, Stops, Size, Alike, Counts, Sweeping
  <2>5. Sets(c) => Sets(c)'
    BY <1>1, <2>4, SetsPlain DEF Gateway!LockRead
  <2>6. ASSUME Only(c), Show(c) PROVE Show(c)'
    <3>1. Holds(q)
      BY <2>6 DEF Show
    <3>2. UNCHANGED <<holds, online, callSock>>
      BY <1>1 DEF Gateway!LockRead
    <3>3. \A d \in Calls : Gateway!Exists(d)' <=> Gateway!Exists(d)
      BY <1>1 DEF Gateway!LockRead, Gateway!Exists
    <3>4. Holds(p)'
      <4>1. CASE p = Gateway!Idle
        BY <4>1, IdleType DEF Holds, Claiming, Gateway!Idle
      <4>2. CASE p # Gateway!Idle
        BY <1>0, <1>1, <2>1, <2>3, <3>1, <3>2, <3>3, <4>2
        DEF Moved, Stops, Size, Alike, Holds, Claiming, Proper
      <4>3. QED
        BY <4>1, <4>2
    <3>5. \A u \in People : inCall'[u] \in {inCall[u], Nobody}
      BY <1>1 DEF Gateway!LockRead, Typed, Gateway!TypeOK
    <3>6. QED
      BY <2>1, <2>4, <2>6, <3>2, <3>3, <3>4, <3>5, ShowPlain
  <2>7. QED
    BY <2>5, <2>6 DEF Kept
<1>2. ASSUME Gateway!Lock(t) PROVE Kept(c)
  <2>1. q.kind = "accept" /\ q.at = 4
    BY <1>0, <1>2, AtStands, StepPlaces DEF Gateway!Lock
  <2>2. \E p \in Gateway!TaskState : Moved(p, t, 1, q.stale, q.seen, q.swept)
    BY <1>0, <1>2, <2>1, AdvancesOn DEF Gateway!Lock
  <2>3. PICK p \in Gateway!TaskState : Moved(p, t, 1, q.stale, q.seen, q.swept)
    BY <2>2
  <2>4. /\ task' = [task EXCEPT ![t] = p] /\ Counts(p, c)
        /\ Sweeping(q) => Sweeping(p) /\ p.user = q.user
    BY <1>0, <2>1, <2>3, IdleType DEF Moved, Stops, Size, Alike, Counts, Sweeping
  <2>5. Sets(c) => Sets(c)'
    BY <1>2, <2>4, SetsPlain DEF Gateway!Lock
  <2>6. ASSUME Only(c), Show(c) PROVE Show(c)'
    <3>1. Holds(q)
      BY <2>6 DEF Show
    <3>2. UNCHANGED <<holds, online, callSock>>
      BY <1>2 DEF Gateway!Lock
    <3>3. \A d \in Calls : Gateway!Exists(d)' <=> Gateway!Exists(d)
      BY <1>2 DEF Gateway!Lock, Gateway!Exists
    <3>4. Holds(p)'
      <4>1. CASE p = Gateway!Idle
        BY <4>1, IdleType DEF Holds, Claiming, Gateway!Idle
      <4>2. CASE p # Gateway!Idle
        BY <1>0, <1>2, <2>1, <2>3, <3>1, <3>2, <3>3, <4>2
        DEF Moved, Stops, Size, Alike, Holds, Claiming, Proper
      <4>3. QED
        BY <4>1, <4>2
    <3>5. \A u \in People : inCall'[u] \in {inCall[u], Nobody}
      BY <1>2 DEF Gateway!Lock, Typed, Gateway!TypeOK
    <3>6. QED
      BY <2>1, <2>4, <2>6, <3>2, <3>3, <3>4, <3>5, ShowPlain
  <2>7. QED
    BY <2>5, <2>6 DEF Kept
<1>3. ASSUME Gateway!Unlock(t) PROVE Kept(c)
  <2>1. q.kind = "end" /\ q.at = 3
    BY <1>0, <1>3, AtStands, StepPlaces DEF Gateway!Unlock
  <2>2. \E p \in Gateway!TaskState : Moved(p, t, 1, q.stale, q.seen, q.swept)
    BY <1>0, <1>3, <2>1, AdvancesOn DEF Gateway!Unlock
  <2>3. PICK p \in Gateway!TaskState : Moved(p, t, 1, q.stale, q.seen, q.swept)
    BY <2>2
  <2>4. /\ task' = [task EXCEPT ![t] = p] /\ Counts(p, c)
        /\ Sweeping(q) => Sweeping(p) /\ p.user = q.user
    BY <1>0, <2>1, <2>3, IdleType DEF Moved, Stops, Size, Alike, Counts, Sweeping
  <2>5. Sets(c) => Sets(c)'
    BY <1>3, <2>4, SetsPlain DEF Gateway!Unlock
  <2>6. ASSUME Only(c), Show(c) PROVE Show(c)'
    <3>1. Holds(q)
      BY <2>6 DEF Show
    <3>2. UNCHANGED <<holds, online, callSock>>
      BY <1>3 DEF Gateway!Unlock
    <3>3. \A d \in Calls : Gateway!Exists(d)' <=> Gateway!Exists(d)
      BY <1>3 DEF Gateway!Unlock, Gateway!Exists
    <3>4. Holds(p)'
      <4>1. CASE p = Gateway!Idle
        BY <4>1, IdleType DEF Holds, Claiming, Gateway!Idle
      <4>2. CASE p # Gateway!Idle
        BY <1>0, <1>3, <2>1, <2>3, <3>1, <3>2, <3>3, <4>2
        DEF Moved, Stops, Size, Alike, Holds, Claiming, Proper
      <4>3. QED
        BY <4>1, <4>2
    <3>5. \A u \in People : inCall'[u] \in {inCall[u], Nobody}
      BY <1>3 DEF Gateway!Unlock, Typed, Gateway!TypeOK
    <3>6. QED
      BY <2>1, <2>4, <2>6, <3>2, <3>3, <3>4, <3>5, ShowPlain
  <2>7. QED
    BY <2>5, <2>6 DEF Kept
<1>4. ASSUME Gateway!Cancel(t) PROVE Kept(c)
  <2>1. \/ q.kind = "accept" /\ q.at = 11
        \/ q.kind = "join" /\ q.at = 8
    BY <1>0, <1>4, AtStands, StepPlaces DEF Gateway!Cancel
  <2>2. \E p \in Gateway!TaskState : Moved(p, t, 1, q.stale, q.seen, q.swept)
    BY <1>0, <1>4, <2>1, AdvancesOn DEF Gateway!Cancel
  <2>3. PICK p \in Gateway!TaskState : Moved(p, t, 1, q.stale, q.seen, q.swept)
    BY <2>2
  <2>4. /\ task' = [task EXCEPT ![t] = p] /\ Counts(p, c)
        /\ Sweeping(q) => Sweeping(p) /\ p.user = q.user
    BY <1>0, <2>1, <2>3, IdleType DEF Moved, Stops, Size, Alike, Counts, Sweeping
  <2>5. Sets(c) => Sets(c)'
    BY <1>4, <2>4, SetsPlain DEF Gateway!Cancel
  <2>6. ASSUME Only(c), Show(c) PROVE Show(c)'
    <3>1. Holds(q)
      BY <2>6 DEF Show
    <3>2. UNCHANGED <<holds, online, callSock>>
      BY <1>4 DEF Gateway!Cancel
    <3>3. \A d \in Calls : Gateway!Exists(d)' <=> Gateway!Exists(d)
      BY <1>4 DEF Gateway!Cancel, Gateway!Exists
    <3>4. Holds(p)'
      <4>1. CASE p = Gateway!Idle
        BY <4>1, IdleType DEF Holds, Claiming, Gateway!Idle
      <4>2. CASE p # Gateway!Idle
        BY <1>0, <1>4, <2>1, <2>3, <3>1, <3>2, <3>3, <4>2
        DEF Moved, Stops, Size, Alike, Holds, Claiming, Proper
      <4>3. QED
        BY <4>1, <4>2
    <3>5. \A u \in People : inCall'[u] \in {inCall[u], Nobody}
      BY <1>4 DEF Gateway!Cancel, Typed, Gateway!TypeOK
    <3>6. QED
      BY <2>1, <2>4, <2>6, <3>2, <3>3, <3>4, <3>5, ShowPlain
  <2>7. QED
    BY <2>5, <2>6 DEF Kept
<1>5. ASSUME Gateway!Schedule(t) PROVE Kept(c)
  <2>1. q.kind = "request" /\ q.at = 11
    BY <1>0, <1>5, AtStands, StepPlaces DEF Gateway!Schedule
  <2>2. \E p \in Gateway!TaskState : Moved(p, t, 1, q.stale, q.seen, q.swept)
    BY <1>0, <1>5, <2>1, AdvancesOn DEF Gateway!Schedule
  <2>3. PICK p \in Gateway!TaskState : Moved(p, t, 1, q.stale, q.seen, q.swept)
    BY <2>2
  <2>4. /\ task' = [task EXCEPT ![t] = p] /\ Counts(p, c)
        /\ Sweeping(q) => Sweeping(p) /\ p.user = q.user
    BY <1>0, <2>1, <2>3, IdleType DEF Moved, Stops, Size, Alike, Counts, Sweeping
  <2>5. Sets(c) => Sets(c)'
    BY <1>5, <2>4, SetsPlain DEF Gateway!Schedule
  <2>6. ASSUME Only(c), Show(c) PROVE Show(c)'
    <3>1. Holds(q)
      BY <2>6 DEF Show
    <3>2. UNCHANGED <<holds, online, callSock>>
      BY <1>5 DEF Gateway!Schedule
    <3>3. \A d \in Calls : Gateway!Exists(d)' <=> Gateway!Exists(d)
      BY <1>5 DEF Gateway!Schedule, Gateway!Exists
    <3>4. Holds(p)'
      <4>1. CASE p = Gateway!Idle
        BY <4>1, IdleType DEF Holds, Claiming, Gateway!Idle
      <4>2. CASE p # Gateway!Idle
        BY <1>0, <1>5, <2>1, <2>3, <3>1, <3>2, <3>3, <4>2
        DEF Moved, Stops, Size, Alike, Holds, Claiming, Proper
      <4>3. QED
        BY <4>1, <4>2
    <3>5. \A u \in People : inCall'[u] \in {inCall[u], Nobody}
      BY <1>5 DEF Gateway!Schedule, Typed, Gateway!TypeOK
    <3>6. QED
      BY <2>1, <2>4, <2>6, <3>2, <3>3, <3>4, <3>5, ShowPlain
  <2>7. QED
    BY <2>5, <2>6 DEF Kept
<1>6. ASSUME Gateway!Uninvite(t) PROVE Kept(c)
  <2>1. \/ q.kind = "accept" /\ q.at = 10
        \/ q.kind = "join" /\ q.at = 7
        \/ q.kind = "miss" /\ q.at = 4
    BY <1>0, <1>6, AtStands, StepPlaces DEF Gateway!Uninvite
  <2>2. \E p \in Gateway!TaskState : Moved(p, t, 1, q.stale, q.seen, q.swept)
    BY <1>0, <1>6, <2>1, AdvancesOn DEF Gateway!Uninvite
  <2>3. PICK p \in Gateway!TaskState : Moved(p, t, 1, q.stale, q.seen, q.swept)
    BY <2>2
  <2>4. /\ task' = [task EXCEPT ![t] = p] /\ Counts(p, c)
        /\ Sweeping(q) => Sweeping(p) /\ p.user = q.user
    BY <1>0, <2>1, <2>3, IdleType DEF Moved, Stops, Size, Alike, Counts, Sweeping
  <2>5. Sets(c) => Sets(c)'
    BY <1>6, <2>4, SetsPlain DEF Gateway!Uninvite
  <2>6. ASSUME Only(c), Show(c) PROVE Show(c)'
    <3>1. Holds(q)
      BY <2>6 DEF Show
    <3>2. UNCHANGED <<holds, online, callSock>>
      BY <1>6 DEF Gateway!Uninvite
    <3>3. \A d \in Calls : Gateway!Exists(d)' <=> Gateway!Exists(d)
      BY <1>6 DEF Gateway!Uninvite, Gateway!Exists
    <3>4. Holds(p)'
      <4>1. CASE p = Gateway!Idle
        BY <4>1, IdleType DEF Holds, Claiming, Gateway!Idle
      <4>2. CASE p # Gateway!Idle
        BY <1>0, <1>6, <2>1, <2>3, <3>1, <3>2, <3>3, <4>2
        DEF Moved, Stops, Size, Alike, Holds, Claiming, Proper
      <4>3. QED
        BY <4>1, <4>2
    <3>5. \A u \in People : inCall'[u] \in {inCall[u], Nobody}
      BY <1>6 DEF Gateway!Uninvite, Typed, Gateway!TypeOK
    <3>6. QED
      BY <2>1, <2>4, <2>6, <3>2, <3>3, <3>4, <3>5, ShowPlain
  <2>7. QED
    BY <2>5, <2>6 DEF Kept
<1>7. ASSUME Gateway!UninviteAll(t) PROVE Kept(c)
  <2>1. q.kind = "end" /\ q.at = 2
    BY <1>0, <1>7, AtStands, StepPlaces DEF Gateway!UninviteAll
  <2>2. \E p \in Gateway!TaskState : Moved(p, t, 1, q.stale, q.seen, q.swept)
    BY <1>0, <1>7, <2>1, AdvancesOn DEF Gateway!UninviteAll
  <2>3. PICK p \in Gateway!TaskState : Moved(p, t, 1, q.stale, q.seen, q.swept)
    BY <2>2
  <2>4. /\ task' = [task EXCEPT ![t] = p] /\ Counts(p, c)
        /\ Sweeping(q) => Sweeping(p) /\ p.user = q.user
    BY <1>0, <2>1, <2>3, IdleType DEF Moved, Stops, Size, Alike, Counts, Sweeping
  <2>5. Sets(c) => Sets(c)'
    BY <1>7, <2>4, SetsPlain DEF Gateway!UninviteAll
  <2>6. ASSUME Only(c), Show(c) PROVE Show(c)'
    <3>1. Holds(q)
      BY <2>6 DEF Show
    <3>2. UNCHANGED <<holds, online, callSock>>
      BY <1>7 DEF Gateway!UninviteAll
    <3>3. \A d \in Calls : Gateway!Exists(d)' <=> Gateway!Exists(d)
      BY <1>7 DEF Gateway!UninviteAll, Gateway!Exists
    <3>4. Holds(p)'
      <4>1. CASE p = Gateway!Idle
        BY <4>1, IdleType DEF Holds, Claiming, Gateway!Idle
      <4>2. CASE p # Gateway!Idle
        BY <1>0, <1>7, <2>1, <2>3, <3>1, <3>2, <3>3, <4>2
        DEF Moved, Stops, Size, Alike, Holds, Claiming, Proper
      <4>3. QED
        BY <4>1, <4>2
    <3>5. \A u \in People : inCall'[u] \in {inCall[u], Nobody}
      BY <1>7 DEF Gateway!UninviteAll, Typed, Gateway!TypeOK
    <3>6. QED
      BY <2>1, <2>4, <2>6, <3>2, <3>3, <3>4, <3>5, ShowPlain
  <2>7. QED
    BY <2>5, <2>6 DEF Kept
<1>8. ASSUME Gateway!Invite(t) PROVE Kept(c)
  <2>1. q.kind = "request" /\ q.at = 10
    BY <1>0, <1>8, AtStands, StepPlaces DEF Gateway!Invite
  <2>2. \E p \in Gateway!TaskState : Moved(p, t, 1, q.stale, q.seen, q.swept)
    BY <1>0, <1>8, <2>1, AdvancesOn DEF Gateway!Invite
  <2>3. PICK p \in Gateway!TaskState : Moved(p, t, 1, q.stale, q.seen, q.swept)
    BY <2>2
  <2>4. /\ task' = [task EXCEPT ![t] = p] /\ Counts(p, c)
        /\ Sweeping(q) => Sweeping(p) /\ p.user = q.user
    BY <1>0, <2>1, <2>3, IdleType DEF Moved, Stops, Size, Alike, Counts, Sweeping
  <2>5. Sets(c) => Sets(c)'
    BY <1>8, <2>4, SetsPlain DEF Gateway!Invite
  <2>6. ASSUME Only(c), Show(c) PROVE Show(c)'
    <3>1. Holds(q)
      BY <2>6 DEF Show
    <3>2. UNCHANGED <<holds, online, callSock>>
      BY <1>8 DEF Gateway!Invite
    <3>3. \A d \in Calls : Gateway!Exists(d)' <=> Gateway!Exists(d)
      BY <1>8 DEF Gateway!Invite, Gateway!Exists
    <3>4. Holds(p)'
      <4>1. CASE p = Gateway!Idle
        BY <4>1, IdleType DEF Holds, Claiming, Gateway!Idle
      <4>2. CASE p # Gateway!Idle
        BY <1>0, <1>8, <2>1, <2>3, <3>1, <3>2, <3>3, <4>2
        DEF Moved, Stops, Size, Alike, Holds, Claiming, Proper
      <4>3. QED
        BY <4>1, <4>2
    <3>5. \A u \in People : inCall'[u] \in {inCall[u], Nobody}
      BY <1>8 DEF Gateway!Invite, Typed, Gateway!TypeOK
    <3>6. QED
      BY <2>1, <2>4, <2>6, <3>2, <3>3, <3>4, <3>5, ShowPlain
  <2>7. QED
    BY <2>5, <2>6 DEF Kept
<1>9. ASSUME Gateway!ReadInvite(t) PROVE Kept(c)
  <2>1. q.kind = "miss" /\ q.at = 1
    BY <1>0, <1>9, AtStands, StepPlaces DEF Gateway!ReadInvite
  <2>2. \E p \in Gateway!TaskState :
          \/ Moved(p, t, 1, q.stale, q.seen, q.swept)
          \/ Stops(p, t)
    BY <1>0, <1>9, <2>1, AdvancesOn, AnswersOn DEF Gateway!ReadInvite
  <2>3. PICK p \in Gateway!TaskState :
          \/ Moved(p, t, 1, q.stale, q.seen, q.swept)
          \/ Stops(p, t)
    BY <2>2
  <2>4. /\ task' = [task EXCEPT ![t] = p] /\ Counts(p, c)
        /\ Sweeping(q) => Sweeping(p) /\ p.user = q.user
    BY <1>0, <2>1, <2>3, IdleType DEF Moved, Stops, Size, Alike, Counts, Sweeping
  <2>5. Sets(c) => Sets(c)'
    BY <1>9, <2>4, SetsPlain DEF Gateway!ReadInvite
  <2>6. ASSUME Only(c), Show(c) PROVE Show(c)'
    <3>1. Holds(q)
      BY <2>6 DEF Show
    <3>2. UNCHANGED <<holds, online, callSock>>
      BY <1>9 DEF Gateway!ReadInvite
    <3>3. \A d \in Calls : Gateway!Exists(d)' <=> Gateway!Exists(d)
      BY <1>9 DEF Gateway!ReadInvite, Gateway!Exists
    <3>4. Holds(p)'
      <4>1. CASE p = Gateway!Idle
        BY <4>1, IdleType DEF Holds, Claiming, Gateway!Idle
      <4>2. CASE p # Gateway!Idle
        BY <1>0, <1>9, <2>1, <2>3, <3>1, <3>2, <3>3, <4>2
        DEF Moved, Stops, Size, Alike, Holds, Claiming, Proper
      <4>3. QED
        BY <4>1, <4>2
    <3>5. \A u \in People : inCall'[u] \in {inCall[u], Nobody}
      BY <1>9 DEF Gateway!ReadInvite, Typed, Gateway!TypeOK
    <3>6. QED
      BY <2>1, <2>4, <2>6, <3>2, <3>3, <3>4, <3>5, ShowPlain
  <2>7. QED
    BY <2>5, <2>6 DEF Kept
<1>10. ASSUME Gateway!ReadParts(t) PROVE Kept(c)
  <2>1. q.kind = "miss" /\ q.at = 2
    BY <1>0, <1>10, AtStands, StepPlaces DEF Gateway!ReadParts
  <2>2. \E p \in Gateway!TaskState :
          \/ Moved(p, t, 1, q.stale, q.seen, q.swept)
          \/ Moved(p, t, 2, q.stale, q.seen, q.swept)
    BY <1>0, <1>10, <2>1, AdvancesOn, GoesOn1 DEF Gateway!ReadParts
  <2>3. PICK p \in Gateway!TaskState :
          \/ Moved(p, t, 1, q.stale, q.seen, q.swept)
          \/ Moved(p, t, 2, q.stale, q.seen, q.swept)
    BY <2>2
  <2>4. /\ task' = [task EXCEPT ![t] = p] /\ Counts(p, c)
        /\ Sweeping(q) => Sweeping(p) /\ p.user = q.user
    BY <1>0, <2>1, <2>3, IdleType DEF Moved, Stops, Size, Alike, Counts, Sweeping
  <2>5. Sets(c) => Sets(c)'
    BY <1>10, <2>4, SetsPlain DEF Gateway!ReadParts
  <2>6. ASSUME Only(c), Show(c) PROVE Show(c)'
    <3>1. Holds(q)
      BY <2>6 DEF Show
    <3>2. UNCHANGED <<holds, online, callSock>>
      BY <1>10 DEF Gateway!ReadParts
    <3>3. \A d \in Calls : Gateway!Exists(d)' <=> Gateway!Exists(d)
      BY <1>10 DEF Gateway!ReadParts, Gateway!Exists
    <3>4. Holds(p)'
      <4>1. CASE p = Gateway!Idle
        BY <4>1, IdleType DEF Holds, Claiming, Gateway!Idle
      <4>2. CASE p # Gateway!Idle
        BY <1>0, <1>10, <2>1, <2>3, <3>1, <3>2, <3>3, <4>2
        DEF Moved, Stops, Size, Alike, Holds, Claiming, Proper
      <4>3. QED
        BY <4>1, <4>2
    <3>5. \A u \in People : inCall'[u] \in {inCall[u], Nobody}
      BY <1>10 DEF Gateway!ReadParts, Typed, Gateway!TypeOK
    <3>6. QED
      BY <2>1, <2>4, <2>6, <3>2, <3>3, <3>4, <3>5, ShowPlain
  <2>7. QED
    BY <2>5, <2>6 DEF Kept
<1>11. ASSUME Gateway!DropRead(t) PROVE Kept(c)
  <2>1. q.kind = "drop" /\ q.at = 1
    BY <1>0, <1>11, AtStands, StepPlaces DEF Gateway!DropRead
  <2>2. \E p \in Gateway!TaskState :
          \/ Moved(p, t, 1, q.stale, q.seen, q.swept)
          \/ Moved(p, t, 9, q.stale, q.seen, q.swept)
    BY <1>0, <1>11, <2>1, AdvancesOn, GoesOn1 DEF Gateway!DropRead
  <2>3. PICK p \in Gateway!TaskState :
          \/ Moved(p, t, 1, q.stale, q.seen, q.swept)
          \/ Moved(p, t, 9, q.stale, q.seen, q.swept)
    BY <2>2
  <2>4. /\ task' = [task EXCEPT ![t] = p] /\ Counts(p, c)
        /\ Sweeping(q) => Sweeping(p) /\ p.user = q.user
    BY <1>0, <2>1, <2>3, IdleType DEF Moved, Stops, Size, Alike, Counts, Sweeping
  <2>5. Sets(c) => Sets(c)'
    BY <1>11, <2>4, SetsPlain DEF Gateway!DropRead
  <2>6. ASSUME Only(c), Show(c) PROVE Show(c)'
    <3>1. Holds(q)
      BY <2>6 DEF Show
    <3>2. UNCHANGED <<holds, online, callSock>>
      BY <1>11 DEF Gateway!DropRead
    <3>3. \A d \in Calls : Gateway!Exists(d)' <=> Gateway!Exists(d)
      BY <1>11 DEF Gateway!DropRead, Gateway!Exists
    <3>4. Holds(p)'
      <4>1. CASE p = Gateway!Idle
        BY <4>1, IdleType DEF Holds, Claiming, Gateway!Idle
      <4>2. CASE p # Gateway!Idle
        BY <1>0, <1>11, <2>1, <2>3, <3>1, <3>2, <3>3, <4>2
        DEF Moved, Stops, Size, Alike, Holds, Claiming, Proper
      <4>3. QED
        BY <4>1, <4>2
    <3>5. \A u \in People : inCall'[u] \in {inCall[u], Nobody}
      BY <1>11 DEF Gateway!DropRead, Typed, Gateway!TypeOK
    <3>6. QED
      BY <2>1, <2>4, <2>6, <3>2, <3>3, <3>4, <3>5, ShowPlain
  <2>7. QED
    BY <2>5, <2>6 DEF Kept
<1>12. ASSUME Gateway!AcceptCall(t) PROVE Kept(c)
  <2>1. \/ q.kind = "accept" /\ q.at = 7
        \/ q.kind = "join" /\ q.at = 5
    BY <1>0, <1>12, AtStands, StepPlaces DEF Gateway!AcceptCall
  <2>2. \E p \in Gateway!TaskState :
          \/ Moved(p, t, 1, q.stale, q.seen, q.swept)
          \/ Stops(p, t)
    BY <1>0, <1>12, <2>1, GoesOn1, AnswersOn DEF Gateway!AcceptCall, Gateway!AfterGrpc
  <2>3. PICK p \in Gateway!TaskState :
          \/ Moved(p, t, 1, q.stale, q.seen, q.swept)
          \/ Stops(p, t)
    BY <2>2
  <2>4. /\ task' = [task EXCEPT ![t] = p] /\ Counts(p, c)
        /\ Sweeping(q) => Sweeping(p) /\ p.user = q.user
    BY <1>0, <2>1, <2>3, IdleType DEF Moved, Stops, Size, Alike, Counts, Sweeping
  <2>5. Sets(c) => Sets(c)'
    BY <1>12, <2>4, SetsPlain DEF Gateway!AcceptCall
  <2>6. ASSUME Only(c), Show(c) PROVE Show(c)'
    <3>1. Holds(q)
      BY <2>6 DEF Show
    <3>2. UNCHANGED <<holds, online, callSock>>
      BY <1>12 DEF Gateway!AcceptCall
    <3>3. \A d \in Calls : Gateway!Exists(d)' <=> Gateway!Exists(d)
      BY <1>0, <1>12, <2>1 DEF Gateway!AcceptCall, Gateway!Exists, Typed, Gateway!TypeOK, Proper
    <3>4. Holds(p)'
      <4>1. CASE p = Gateway!Idle
        BY <4>1, IdleType DEF Holds, Claiming, Gateway!Idle
      <4>2. CASE p # Gateway!Idle
        BY <1>0, <1>12, <2>1, <2>3, <3>1, <3>2, <3>3, <4>2
        DEF Moved, Stops, Size, Alike, Holds, Claiming, Proper
      <4>3. QED
        BY <4>1, <4>2
    <3>5. \A u \in People : inCall'[u] \in {inCall[u], Nobody}
      BY <1>12 DEF Gateway!AcceptCall, Typed, Gateway!TypeOK
    <3>6. QED
      BY <2>1, <2>4, <2>6, <3>2, <3>3, <3>4, <3>5, ShowPlain
  <2>7. QED
    BY <2>5, <2>6 DEF Kept
<1>13. ASSUME Gateway!DropUnmark(t) PROVE Kept(c)
  <2>1. q.kind = "drop" /\ q.at = 7
    BY <1>0, <1>13, AtStands, StepPlaces DEF Gateway!DropUnmark
  <2>2. \E p \in Gateway!TaskState : Moved(p, t, 1, q.stale, q.seen, q.swept)
    BY <1>0, <1>13, <2>1, AdvancesOn DEF Gateway!DropUnmark
  <2>3. PICK p \in Gateway!TaskState : Moved(p, t, 1, q.stale, q.seen, q.swept)
    BY <2>2
  <2>4. /\ task' = [task EXCEPT ![t] = p] /\ Counts(p, c)
        /\ Sweeping(q) => Sweeping(p) /\ p.user = q.user
    BY <1>0, <2>1, <2>3, IdleType DEF Moved, Stops, Size, Alike, Counts, Sweeping
  <2>5. Sets(c) => Sets(c)'
    BY <1>13, <2>4, SetsPlain DEF Gateway!DropUnmark
  <2>6. ASSUME Only(c), Show(c) PROVE Show(c)'
    <3>1. Holds(q)
      BY <2>6 DEF Show
    <3>2. UNCHANGED <<holds, online, callSock>>
      BY <1>13 DEF Gateway!DropUnmark
    <3>3. \A d \in Calls : Gateway!Exists(d)' <=> Gateway!Exists(d)
      BY <1>13 DEF Gateway!DropUnmark, Gateway!Exists
    <3>4. Holds(p)'
      <4>1. CASE p = Gateway!Idle
        BY <4>1, IdleType DEF Holds, Claiming, Gateway!Idle
      <4>2. CASE p # Gateway!Idle
        BY <1>0, <1>13, <2>1, <2>3, <3>1, <3>2, <3>3, <4>2
        DEF Moved, Stops, Size, Alike, Holds, Claiming, Proper
      <4>3. QED
        BY <4>1, <4>2
    <3>5. \A u \in People : inCall'[u] \in {inCall[u], Nobody}
      BY <1>13 DEF Gateway!DropUnmark, Typed, Gateway!TypeOK
    <3>6. QED
      BY <2>1, <2>4, <2>6, <3>2, <3>3, <3>4, <3>5, ShowPlain
  <2>7. QED
    BY <2>5, <2>6 DEF Kept
<1>14. ASSUME Gateway!DropSockRead(t) PROVE Kept(c)
  <2>1. q.kind = "drop" /\ q.at = 8
    BY <1>0, <1>14, AtStands, StepPlaces DEF Gateway!DropSockRead
  <2>2. \E p \in Gateway!TaskState :
          \/ Moved(p, t, 1, q.stale, q.seen, q.swept) /\ callSock[q.user] \in {Nobody, q.sock}
          \/ Moved(p, t, 2, q.stale, q.seen, q.swept)
    BY <1>0, <1>14, <2>1, AdvancesOn, GoesOn1 DEF Gateway!DropSockRead
  <2>3. PICK p \in Gateway!TaskState :
          \/ Moved(p, t, 1, q.stale, q.seen, q.swept) /\ callSock[q.user] \in {Nobody, q.sock}
          \/ Moved(p, t, 2, q.stale, q.seen, q.swept)
    BY <2>2
  <2>4. /\ task' = [task EXCEPT ![t] = p] /\ Counts(p, c)
        /\ Sweeping(q) => Sweeping(p) /\ p.user = q.user
    BY <1>0, <2>1, <2>3, IdleType DEF Moved, Stops, Size, Alike, Counts, Sweeping
  <2>5. Sets(c) => Sets(c)'
    BY <1>14, <2>4, SetsPlain DEF Gateway!DropSockRead
  <2>6. ASSUME Only(c), Show(c) PROVE Show(c)'
    <3>1. Holds(q)
      BY <2>6 DEF Show
    <3>2. UNCHANGED <<holds, online, callSock>>
      BY <1>14 DEF Gateway!DropSockRead
    <3>3. \A d \in Calls : Gateway!Exists(d)' <=> Gateway!Exists(d)
      BY <1>14 DEF Gateway!DropSockRead, Gateway!Exists
    <3>4. Holds(p)'
      <4>1. CASE p = Gateway!Idle
        BY <4>1, IdleType DEF Holds, Claiming, Gateway!Idle
      <4>2. CASE p # Gateway!Idle
        BY <1>0, <1>14, <2>1, <2>3, <3>1, <3>2, <3>3, <4>2
        DEF Moved, Stops, Size, Alike, Holds, Claiming, Proper
      <4>3. QED
        BY <4>1, <4>2
    <3>5. \A u \in People : inCall'[u] \in {inCall[u], Nobody}
      BY <1>14 DEF Gateway!DropSockRead, Typed, Gateway!TypeOK
    <3>6. QED
      BY <2>1, <2>4, <2>6, <3>2, <3>3, <3>4, <3>5, ShowPlain
  <2>7. QED
    BY <2>5, <2>6 DEF Kept
<1>15. ASSUME Gateway!Leave(t) PROVE Kept(c)
  <2>1. q.kind = "drop" /\ q.at = 10
    BY <1>0, <1>15, AtStands, StepPlaces DEF Gateway!Leave
  <2>2. \E p \in Gateway!TaskState :
          \/ Moved(p, t, 1, q.stale, q.seen, q.swept) /\ \A s \in online : DeviceOwner[s] # q.user
          \/ Stops(p, t)
    BY <1>0, <1>15, <2>1, AdvancesOn, AnswersOn DEF Gateway!Leave
  <2>3. PICK p \in Gateway!TaskState :
          \/ Moved(p, t, 1, q.stale, q.seen, q.swept) /\ \A s \in online : DeviceOwner[s] # q.user
          \/ Stops(p, t)
    BY <2>2
  <2>4. /\ task' = [task EXCEPT ![t] = p] /\ Counts(p, c)
        /\ Sweeping(q) => Sweeping(p) /\ p.user = q.user
    BY <1>0, <2>1, <2>3, IdleType DEF Moved, Stops, Size, Alike, Counts, Sweeping
  <2>5. Sets(c) => Sets(c)'
    BY <1>15, <2>4, SetsPlain DEF Gateway!Leave
  <2>6. ASSUME Only(c), Show(c) PROVE Show(c)'
    <3>1. Holds(q)
      BY <2>6 DEF Show
    <3>2. UNCHANGED <<holds, online, callSock>>
      BY <1>15 DEF Gateway!Leave
    <3>3. \A d \in Calls : Gateway!Exists(d)' <=> Gateway!Exists(d)
      BY <1>15 DEF Gateway!Leave, Gateway!Exists
    <3>4. Holds(p)'
      <4>1. CASE p = Gateway!Idle
        BY <4>1, IdleType DEF Holds, Claiming, Gateway!Idle
      <4>2. CASE p # Gateway!Idle
        BY <1>0, <1>15, <2>1, <2>3, <3>1, <3>2, <3>3, <4>2
        DEF Moved, Stops, Size, Alike, Holds, Claiming, Proper
      <4>3. QED
        BY <4>1, <4>2
    <3>5. \A u \in People : inCall'[u] \in {inCall[u], Nobody}
      BY <1>15 DEF Gateway!Leave, Typed, Gateway!TypeOK
    <3>6. QED
      BY <2>1, <2>4, <2>6, <3>2, <3>3, <3>4, <3>5, ShowPlain
  <2>7. QED
    BY <2>5, <2>6 DEF Kept
<1>16. ASSUME Gateway!ClaimRead(t) PROVE Kept(c)
  <2>1. \/ q.kind = "request" /\ q.at = 8
        \/ q.kind = "accept" /\ q.at = 5
        \/ q.kind = "join" /\ q.at = 3
    BY <1>0, <1>16, AtStands, StepPlaces DEF Gateway!ClaimRead
  <2>2. \E p \in Gateway!TaskState : Moved(p, t, 1, q.stale, callSock[q.user], q.swept)
    <3>1. callSock[q.user] \in MaybeSocket /\ 1 \in 1 .. 9
      BY <1>0, <2>1 DEF Typed, Gateway!TypeOK, MaybeSocket, Proper
    <3>2. PICK s \in MaybeSocket : s = callSock[q.user]
      BY <3>1
    <3>3. Gateway!Goto(t, 1, [task[t] EXCEPT !.seen = s])
      BY <1>16, <3>2 DEF Gateway!ClaimRead
    <3>4. \E p \in Gateway!TaskState : Moved(p, t, 1, task[t].stale, s, task[t].swept)
      BY <3>1, <3>3, SeenOn
    <3>5. QED
      BY <3>2, <3>4
  <2>3. PICK p \in Gateway!TaskState : Moved(p, t, 1, q.stale, callSock[q.user], q.swept)
    BY <2>2
  <2>4. /\ task' = [task EXCEPT ![t] = p] /\ Counts(p, c)
        /\ Sweeping(q) => Sweeping(p) /\ p.user = q.user
    BY <1>0, <2>1, <2>3, IdleType DEF Moved, Stops, Size, Alike, Counts, Sweeping
  <2>5. Sets(c) => Sets(c)'
    BY <1>16, <2>4, SetsPlain DEF Gateway!ClaimRead
  <2>6. ASSUME Only(c), Show(c) PROVE Show(c)'
    <3>1. Holds(q)
      BY <2>6 DEF Show
    <3>2. UNCHANGED <<holds, online, callSock>>
      BY <1>16 DEF Gateway!ClaimRead
    <3>3. \A d \in Calls : Gateway!Exists(d)' <=> Gateway!Exists(d)
      BY <1>16 DEF Gateway!ClaimRead, Gateway!Exists
    <3>4. Holds(p)'
      <4>1. CASE p = Gateway!Idle
        BY <4>1, IdleType DEF Holds, Claiming, Gateway!Idle
      <4>2. CASE p # Gateway!Idle
        BY <1>0, <1>16, <2>1, <2>3, <3>1, <3>2, <3>3, <4>2
        DEF Moved, Stops, Size, Alike, Holds, Claiming, Proper
      <4>3. QED
        BY <4>1, <4>2
    <3>5. \A u \in People : inCall'[u] \in {inCall[u], Nobody}
      BY <1>16 DEF Gateway!ClaimRead, Typed, Gateway!TypeOK
    <3>6. QED
      BY <2>1, <2>4, <2>6, <3>2, <3>3, <3>4, <3>5, ShowPlain
  <2>7. QED
    BY <2>5, <2>6 DEF Kept
<1>17. ASSUME Gateway!Lost(t) PROVE Kept(c)
  <2>1. \/ q.kind = "request" /\ q.at = 5
        \/ q.kind = "accept" /\ q.at = 7
        \/ q.kind = "join" /\ q.at = 5
        \/ q.kind = "end" /\ q.at = 1
        \/ q.kind = "miss" /\ q.at = 3
    BY <1>0, <1>17, AtStands, StepPlaces DEF Gateway!Lost
  <2>2. \E p \in Gateway!TaskState :
          \/ q.kind = "miss" /\ Moved(p, t, 1, q.stale, q.seen, q.swept)
          \/ Stops(p, t)
    BY <1>0, <1>17, <2>1, GoesOn1, AnswersOn DEF Gateway!Lost, Gateway!AfterGrpc
  <2>3. PICK p \in Gateway!TaskState :
          \/ q.kind = "miss" /\ Moved(p, t, 1, q.stale, q.seen, q.swept)
          \/ Stops(p, t)
    BY <2>2
  <2>4. /\ task' = [task EXCEPT ![t] = p] /\ Counts(p, c)
        /\ Sweeping(q) => Sweeping(p) /\ p.user = q.user
    BY <1>0, <2>1, <2>3, IdleType DEF Moved, Stops, Size, Alike, Counts, Sweeping
  <2>5. Sets(c) => Sets(c)'
    BY <1>17, <2>4, SetsPlain DEF Gateway!Lost
  <2>6. ASSUME Only(c), Show(c) PROVE Show(c)'
    <3>1. Holds(q)
      BY <2>6 DEF Show
    <3>2. UNCHANGED <<holds, online, callSock, status>>
      BY <1>17 DEF Gateway!Lost
    <3>3. Holds(p)'
      <4>1. CASE p = Gateway!Idle
        BY <4>1, IdleType DEF Holds, Claiming, Gateway!Idle
      <4>2. CASE p # Gateway!Idle
        BY <1>0, <2>1, <2>3, <3>1, <3>2, <4>2
        DEF Moved, Stops, Size, Alike, Holds, Claiming, Proper, Gateway!Exists
      <4>3. QED
        BY <4>1, <4>2
    <3>4. QED
      BY <1>17, <2>1, <2>4, <2>6, <3>2, <3>3, ShowPlain DEF Gateway!Lost, Gateway!Exists
  <2>7. QED
    BY <2>5, <2>6 DEF Kept
<1>18. QED
  BY <1>1, <1>2, <1>3, <1>4, <1>5, <1>6, <1>7, <1>8, <1>9, <1>10, <1>11, <1>12, <1>13, <1>14, <1>15, <1>16, <1>17 DEF Gateway!Continue

\* A step of a handler that reads and writes neither the sets nor the index.
LEMMA SetsQuiet ==
  ASSUME Typed, NEW c \in Calls, Sets(c), NEW t \in Slots, NEW p \in Gateway!TaskState,
         task' = [task EXCEPT ![t] = p], UNCHANGED <<present, index>>,
         task[t].kind \notin {"drop", "end"}, p.kind \in {task[t].kind, "none"}
  PROVE  Sets(c)'
<1>1. Counts(p, c) /\ ~Sweeping(task[t])
  BY DEF Counts, Sweeping
<1>2. QED
  BY <1>1, SetsPlain

LEMMA OwnCall ==
  ASSUME Typed, NEW c \in Calls, Only(c), NEW t \in Slots,
         task[t].kind \notin {"none", "drop"}
  PROVE  task[t].call = c
  BY NobodyIs DEF Typed, Proper, Only

\* A marker of another call would name an older one.
LEMMA ValidateKeeps ==
  ASSUME Typed, NEW c \in Calls, Alone(c), NEW t \in Slots, Gateway!Validate(t)
  PROVE  Kept(c)
<1> DEFINE q == task[t]
           m == inCall[q.user]
           ok == m = Nobody \/ (m = q.call /\ q.kind # "request")
<1>0. /\ q \in Gateway!TaskState /\ Proper(q) /\ q.at \in 1 .. 16
  BY DEF Typed, Gateway!TypeOK, Gateway!TaskState
<1> USE DEF devices, Gateway!db, Gateway!redis, Gateway!clients, Gateway!hist, Gateway!past
<1>1. \/ q.kind = "request" /\ q.at = 1
      \/ q.kind = "accept" /\ q.at = 2
      \/ q.kind = "join" /\ q.at = 1
  BY <1>0, AtStands, StepPlaces DEF Gateway!Validate
<1>2. q.user \in People /\ q.call \in Calls
  BY <1>0, <1>1 DEF Proper
<1>3. \/ ok /\ Gateway!Goto(t, 2, q)
      \/ ~ok /\ Gateway!Goto(t, 1, [q EXCEPT !.stale = {q.user}])
      \/ ~ok /\ Gateway!Answer(t)
  BY DEF Gateway!Validate
<1>4. Sets(c) => Sets(c)'
  <2>1. \E p \in Gateway!TaskState :
          /\ task' = [task EXCEPT ![t] = p] /\ p.kind \in {q.kind, "none"}
    <3>1. CASE Gateway!Goto(t, 2, q)
      BY <3>1, GoesOn1, IdleType DEF Moved, Alike
    <3>2. CASE Gateway!Goto(t, 1, [q EXCEPT !.stale = {q.user}])
      <4>1. {q.user} \in SUBSET People /\ 1 \in 1 .. 9
        BY <1>2
      <4>2. PICK m1 \in SUBSET People : m1 = {q.user}
        BY <4>1
      <4>3. Gateway!Goto(t, 1, [task[t] EXCEPT !.stale = m1])
        BY <3>2, <4>2
      <4>4. \E p \in Gateway!TaskState : Moved(p, t, 1, m1, task[t].seen, task[t].swept)
        BY <4>1, <4>3, StaleOn
      <4>5. QED
        BY <4>4, IdleType DEF Moved, Alike
    <3>3. CASE Gateway!Answer(t)
      BY <3>3, AnswersOn, IdleType DEF Stops
    <3>4. QED
      BY <1>3, <3>1, <3>2, <3>3
  <2>2. QED
    BY <1>1, <2>1, SetsQuiet DEF Gateway!Validate
<1>5. ASSUME Only(c), Show(c) PROVE Show(c)'
  <2>0. q.call = c
    BY <1>1, <1>5, OwnCall
  <2>1. Holds(q) /\ (m # Nobody => m = c /\ Gateway!Exists(c))
    BY <1>2, <1>5 DEF Show
  <2>2. ok
    <3> SUFFICES ASSUME ~ok PROVE FALSE
      OBVIOUS
    <3>1. m # Nobody /\ m = q.call
      BY <2>0, <2>1
    <3>2. q.kind = "request" /\ q.at = 1 /\ ~Gateway!Exists(q.call)
      BY <1>1, <2>1, <3>1 DEF Holds
    <3>3. QED
      BY <2>0, <2>1, <3>1, <3>2
  <2>3. PICK p \in Gateway!TaskState : Moved(p, t, 2, q.stale, q.seen, q.swept)
    BY <1>3, <2>2, GoesOn1
  <2>4. UNCHANGED <<holds, online, callSock, inCall, status>>
    BY DEF Gateway!Validate
  <2>5. Holds(p)'
    <3>1. CASE p = Gateway!Idle
      BY <3>1, IdleHolds
    <3>2. CASE p # Gateway!Idle
      BY <1>1, <2>1, <2>3, <2>4, <3>2
      DEF Moved, Size, Alike, Holds, Claiming, Gateway!Exists
    <3>3. QED
      BY <3>1, <3>2
  <2>6. QED
    BY <1>1, <1>5, <2>3, <2>4, <2>5, ShowPlain DEF Moved, Gateway!Exists
<1>6. QED
  BY <1>4, <1>5 DEF Kept

LEMMA ValidateTargetsKeeps ==
  ASSUME Typed, NEW c \in Calls, Alone(c), NEW t \in Slots, Gateway!ValidateTargets(t)
  PROVE  Kept(c)
<1> DEFINE q == task[t]
           old == {u \in People \ {q.user} :
                     inCall[u] # Nobody /\ Gateway!CallEnded(inCall[u])}
<1>0. /\ q \in Gateway!TaskState /\ Proper(q) /\ q.at \in 1 .. 16
  BY DEF Typed, Gateway!TypeOK, Gateway!TaskState
<1> USE DEF devices, Gateway!db, Gateway!redis, Gateway!clients, Gateway!hist, Gateway!past
<1>1. q.kind = "request" /\ q.at = 3
  BY <1>0, AtStands, StepPlaces DEF Gateway!ValidateTargets
<1>2. q.user \in People /\ q.call \in Calls
  BY <1>0, <1>1 DEF Proper
<1>3. PICK m \in SUBSET People :
        m \subseteq old /\ Gateway!Goto(t, 1, [q EXCEPT !.stale = m])
  <2>1. \E m \in {old} \union SUBSET old : Gateway!Goto(t, 1, [q EXCEPT !.stale = m])
    BY DEF Gateway!ValidateTargets
  <2>2. QED
    BY <2>1
<1>4. PICK p \in Gateway!TaskState : Moved(p, t, 1, m, q.seen, q.swept)
  BY <1>3, StaleOn
<1>5. task' = [task EXCEPT ![t] = p] /\ p.kind \in {q.kind, "none"}
  BY <1>4, IdleType DEF Moved, Alike
<1>6. Sets(c) => Sets(c)'
  BY <1>1, <1>5, SetsQuiet DEF Gateway!ValidateTargets
<1>7. ASSUME Only(c), Show(c) PROVE Show(c)'
  <2>1. Holds(q) /\ ~Gateway!Exists(q.call)
    BY <1>1, <1>7 DEF Show, Holds
  <2>2. m = {}
    <3> SUFFICES ASSUME NEW u \in old PROVE FALSE
      BY <1>3
    <3>1. Gateway!Exists(c) /\ q.call = c
      BY <1>1, <1>7, OwnCall DEF Show
    <3>2. QED
      BY <2>1, <3>1
  <2>3. UNCHANGED <<holds, online, callSock, inCall, status>>
    BY DEF Gateway!ValidateTargets
  <2>4. Holds(p)'
    <3>1. CASE p = Gateway!Idle
      BY <3>1, IdleHolds
    <3>2. CASE p # Gateway!Idle
      BY <1>1, <1>4, <2>1, <2>2, <2>3, <3>2
      DEF Moved, Size, Alike, Holds, Claiming, Gateway!Exists
    <3>3. QED
      BY <3>1, <3>2
  <2>5. QED
    BY <1>1, <1>5, <1>7, <2>3, <2>4, ShowPlain DEF Gateway!Exists
<1>8. QED
  BY <1>6, <1>7 DEF Kept

LEMMA ClearStaleKeeps ==
  ASSUME Typed, NEW c \in Calls, Alone(c), NEW t \in Slots, Gateway!ClearStale(t)
  PROVE  Kept(c)
<1> DEFINE q == task[t]
<1>0. /\ q \in Gateway!TaskState /\ Proper(q) /\ q.at \in 1 .. 16
  BY DEF Typed, Gateway!TypeOK, Gateway!TaskState
<1> USE DEF devices, Gateway!db, Gateway!redis, Gateway!clients, Gateway!hist, Gateway!past
<1>1. \/ q.kind = "request" /\ q.at \in {2, 4}
      \/ q.kind = "accept" /\ q.at = 3
      \/ q.kind = "join" /\ q.at = 2
  BY <1>0, AtStands, StepPlaces DEF Gateway!ClearStale
<1>2. PICK m \in SUBSET People : m = {}
  OBVIOUS
<1>3. PICK p \in Gateway!TaskState : Moved(p, t, 1, m, q.seen, q.swept)
  <2>1. Gateway!Goto(t, 1, [task[t] EXCEPT !.stale = m])
    BY <1>2 DEF Gateway!ClearStale
  <2>2. QED
    BY <2>1, StaleOn
<1>4. task' = [task EXCEPT ![t] = p] /\ p.kind \in {q.kind, "none"}
  BY <1>3, IdleType DEF Moved, Alike
<1>5. Sets(c) => Sets(c)'
  BY <1>1, <1>4, SetsQuiet DEF Gateway!ClearStale
<1>6. ASSUME Only(c), Show(c) PROVE Show(c)'
  <2>1. Holds(q) /\ q.stale = {}
    BY <1>6 DEF Show, Holds
  <2>2. inCall' = inCall /\ callSock' = callSock
    BY <2>1 DEF Gateway!ClearStale, Typed, Gateway!TypeOK
  <2>3. UNCHANGED <<holds, online, status>>
    BY DEF Gateway!ClearStale
  <2>4. Holds(p)'
    <3>1. CASE p = Gateway!Idle
      BY <3>1, IdleHolds
    <3>2. CASE p # Gateway!Idle
      BY <1>1, <1>2, <1>3, <2>1, <2>2, <2>3, <3>2
      DEF Moved, Size, Alike, Holds, Claiming, Gateway!Exists
    <3>3. QED
      BY <3>1, <3>2
  <2>5. QED
    BY <1>1, <1>4, <1>6, <2>2, <2>3, <2>4, ShowPlain DEF Gateway!Exists
<1>7. QED
  BY <1>5, <1>6 DEF Kept

LEMMA DeviceCreateKeeps ==
  ASSUME Typed, NEW c \in Calls, Alone(c), NEW t \in Slots, Gateway!Create(t)
  PROVE  Kept(c)
<1> DEFINE q == task[t]
<1>0. /\ q \in Gateway!TaskState /\ Proper(q) /\ q.at \in 1 .. 16
  BY DEF Typed, Gateway!TypeOK, Gateway!TaskState
<1> USE DEF devices, Gateway!db, Gateway!redis, Gateway!clients, Gateway!hist, Gateway!past
<1>1. q.kind = "request" /\ q.at = 5
  BY <1>0, AtStands, StepPlaces DEF Gateway!Create
<1>2. q.user \in People /\ q.call \in Calls
  BY <1>0, <1>1 DEF Proper
<1>3. \E p \in Gateway!TaskState :
        Moved(p, t, 1, q.stale, q.seen, q.swept) \/ Stops(p, t)
  BY <1>0, <1>1, GoesOn1, AnswersOn DEF Gateway!Create, Gateway!AfterGrpc
<1>4. PICK p \in Gateway!TaskState :
        Moved(p, t, 1, q.stale, q.seen, q.swept) \/ Stops(p, t)
  BY <1>3
<1>5. task' = [task EXCEPT ![t] = p] /\ p.kind \in {q.kind, "none"}
  BY <1>4, IdleType DEF Moved, Stops, Alike
<1>6. Sets(c) => Sets(c)'
  BY <1>1, <1>5, SetsQuiet DEF Gateway!Create
<1>7. ASSUME Only(c), Show(c) PROVE Show(c)'
  <2>1. Holds(q)
    BY <1>7 DEF Show
  <2>2. UNCHANGED <<holds, online, callSock, inCall>>
    BY DEF Gateway!Create
  <2>3. Gateway!Exists(c)' /\ q.call = c
    <3>1. c = q.call
      BY <1>1, <1>7, OwnCall
    <3>2. status'[c] = [u \in People |-> IF u = q.user THEN "started" ELSE "pending"]
      BY <1>2, <3>1 DEF Gateway!Create, Typed, Gateway!TypeOK
    <3>3. status'[c][q.user] = "started"
      BY <1>2, <3>2
    <3>4. QED
      BY <1>2, <3>1, <3>3 DEF Gateway!Exists
  <2>4. Holds(p)'
    <3>1. CASE p = Gateway!Idle
      BY <3>1, IdleHolds
    <3>2. CASE p # Gateway!Idle
      <4>1. /\ p.kind = "request" /\ p.at = 6 /\ p.user = q.user /\ p.sock = q.sock
            /\ p.stale = q.stale /\ p.call = q.call
        BY <1>1, <1>4, <3>2 DEF Moved, Stops, Alike
      <4>2. Gateway!Exists(p.call)'
        BY <1>2, <2>3, <4>1
      <4>3. QED
        BY <1>1, <2>1, <4>1, <4>2 DEF Holds, Claiming
    <3>3. QED
      BY <3>1, <3>2
  <2>5. \A d \in Calls : Gateway!Exists(d) => Gateway!Exists(d)'
    BY <1>7, <2>3 DEF Only
  <2>6. QED
    BY <1>1, <1>5, <1>7, <2>2, <2>4, <2>5, ShowPlain
<1>8. QED
  BY <1>6, <1>7 DEF Kept

LEMMA DeviceMarkKeeps ==
  ASSUME Typed, NEW c \in Calls, Alone(c), NEW t \in Slots, Gateway!Mark(t)
  PROVE  Kept(c)
<1> DEFINE q == task[t]
<1>0. /\ q \in Gateway!TaskState /\ Proper(q) /\ q.at \in 1 .. 16
  BY DEF Typed, Gateway!TypeOK, Gateway!TaskState
<1> USE DEF devices, Gateway!db, Gateway!redis, Gateway!clients, Gateway!hist, Gateway!past
<1>1. \/ q.kind = "request" /\ q.at = 6
      \/ q.kind = "accept" /\ q.at = 8
      \/ q.kind = "join" /\ q.at = 6
  BY <1>0, AtStands, StepPlaces DEF Gateway!Mark
<1>2. q.user \in People /\ q.call \in Calls
  BY <1>0, <1>1 DEF Proper
<1>3. PICK p \in Gateway!TaskState : Moved(p, t, 1, q.stale, q.seen, q.swept)
  BY AdvancesOn DEF Gateway!Mark
<1>4. task' = [task EXCEPT ![t] = p] /\ p.kind \in {q.kind, "none"}
  BY <1>3, IdleType DEF Moved, Alike
<1>5. Sets(c) => Sets(c)'
  BY <1>1, <1>4, SetsQuiet DEF Gateway!Mark
<1>6. ASSUME Only(c), Show(c) PROVE Show(c)'
  <2>1. Holds(q) /\ Gateway!Exists(q.call) /\ q.call = c
    BY <1>1, <1>6, OwnCall DEF Show, Holds
  <2>2. UNCHANGED <<holds, online, callSock, status>>
    BY DEF Gateway!Mark
  <2>3. \A u \in People : inCall'[u] # Nobody => inCall'[u] = c /\ Gateway!Exists(c)'
    BY <1>2, <1>6, <2>1, <2>2 DEF Show, Gateway!Exists, Gateway!Mark, Typed, Gateway!TypeOK
  <2>4. Holds(p)'
    <3>1. CASE p = Gateway!Idle
      BY <3>1, IdleHolds
    <3>2. CASE p # Gateway!Idle
      BY <1>1, <1>3, <2>1, <2>2, <3>2
      DEF Moved, Stops, Size, Alike, Holds, Claiming, Gateway!Exists
    <3>3. QED
      BY <3>1, <3>2
  <2>5. \A s \in Devices :
          holds'[s] # Nobody => holds'[s] = c /\ s \in online' /\ callSock'[DeviceOwner[s]] = s
    BY <1>6, <2>2 DEF Show
  <2>6. QED
    BY <1>1, <1>4, <1>6, <2>3, <2>4, <2>5, ShowGoes
<1>7. QED
  BY <1>5, <1>6 DEF Kept

\* The device that USER_CALL_SOCKET named lets the call go.
LEMMA ClaimWriteKeeps ==
  ASSUME Typed, NEW c \in Calls, Alone(c), NEW t \in Slots, Gateway!ClaimWrite(t)
  PROVE  Kept(c)
<1> DEFINE q == task[t]
<1>0. /\ q \in Gateway!TaskState /\ Proper(q) /\ q.at \in 1 .. 16
  BY DEF Typed, Gateway!TypeOK, Gateway!TaskState
<1> USE DEF devices, Gateway!db, Gateway!redis, Gateway!clients, Gateway!hist, Gateway!past
<1>1. Claiming(q) /\ q.kind \in {"request", "accept", "join"}
  BY <1>0, AtStands, StepPlaces DEF Gateway!ClaimWrite, Claiming
<1>2. q.user \in People /\ q.call \in Calls
  BY <1>0, <1>1 DEF Proper
<1>3. PICK s0 \in MaybeSocket : s0 = Nobody
  BY DEF MaybeSocket
<1>4. PICK p \in Gateway!TaskState : Moved(p, t, 1, q.stale, s0, q.swept)
  <2>1. Gateway!Goto(t, 1, [task[t] EXCEPT !.seen = s0])
    BY <1>3 DEF Gateway!ClaimWrite
  <2>2. QED
    BY <2>1, SeenOn
<1>5. task' = [task EXCEPT ![t] = p] /\ p.kind \in {q.kind, "none"}
  BY <1>4, IdleType DEF Moved, Alike
<1>6. Sets(c) => Sets(c)'
  BY <1>1, <1>5, SetsQuiet DEF Gateway!ClaimWrite
<1>7. ASSUME Only(c), Show(c) PROVE Show(c)'
  <2>1. /\ Holds(q) /\ q.seen = callSock[q.user] /\ q.sock \in Devices
        /\ DeviceOwner[q.sock] = q.user /\ q.call = c
    BY <1>1, <1>7, OwnCall DEF Show, Holds
  <2>2. UNCHANGED <<online, inCall, status>>
    BY DEF Gateway!ClaimWrite
  <2>3. Holds(p)'
    <3>1. CASE p = Gateway!Idle
      BY <3>1, IdleHolds
    <3>2. CASE p # Gateway!Idle
      BY <1>1, <1>4, <2>1, <2>2, <3>2
      DEF Moved, Size, Alike, Holds, Claiming, Gateway!Exists
    <3>3. QED
      BY <3>1, <3>2
  <2>4. ASSUME NEW s \in Devices, holds'[s] # Nobody
        PROVE  holds'[s] = c /\ s \in online' /\ callSock'[DeviceOwner[s]] = s
    <3>0. /\ callSock \in [People -> Devices \union {Nobody}]
          /\ DeviceOwner[s] \in People
      BY OwnerIs DEF Typed, Gateway!TypeOK
    <3>1. /\ holds'[s] = CASE s = q.sock /\ s \in online -> q.call
                         [] s = q.seen /\ s # q.sock -> Nobody
                         [] OTHER -> holds[s]
          /\ callSock' = [callSock EXCEPT ![q.user] = q.sock]
      BY DEF Gateway!ClaimWrite
    <3>2. CASE s = q.sock /\ s \in online
      BY <1>2, <2>1, <2>2, <3>0, <3>1, <3>2
    <3>3. CASE ~(s = q.sock /\ s \in online)
      <4>1. holds[s] # Nobody /\ holds'[s] = holds[s] /\ ~(s = q.seen /\ s # q.sock)
        BY <2>4, <3>1, <3>3
      <4>2. holds[s] = c /\ s \in online /\ callSock[DeviceOwner[s]] = s
        BY <1>7, <4>1 DEF Show
      <4>3. DeviceOwner[s] # q.user
        BY <2>1, <3>3, <4>1, <4>2
      <4>4. QED
        BY <2>2, <3>0, <3>1, <4>1, <4>2, <4>3
    <3>4. QED
      BY <3>2, <3>3
  <2>5. \A u \in People : inCall'[u] # Nobody => inCall'[u] = c /\ Gateway!Exists(c)'
    BY <1>7, <2>2 DEF Show, Gateway!Exists
  <2>6. QED
    BY <1>1, <1>5, <1>7, <2>3, <2>4, <2>5, ShowGoes
<1>8. QED
  BY <1>6, <1>7 DEF Kept

\* Whoever loses the markers shows no call any more.
LEMMA UnmarkKeeps ==
  ASSUME Typed, NEW c \in Calls, Alone(c), NEW t \in Slots, Gateway!Unmark(t)
  PROVE  Kept(c)
<1> DEFINE q == task[t]
<1>0. /\ q \in Gateway!TaskState /\ Proper(q) /\ q.at \in 1 .. 16
  BY DEF Typed, Gateway!TypeOK, Gateway!TaskState
<1> USE DEF devices, Gateway!db, Gateway!redis, Gateway!clients, Gateway!hist, Gateway!past
<1>1. (q.kind = "end" /\ q.at = 7) \/ (q.kind = "drop" /\ q.at = 16)
  BY <1>0, AtStands, StepPlaces DEF Gateway!Unmark
<1>2. q.user \in People
  BY <1>0, <1>1 DEF Proper
<1>3. PICK p \in Gateway!TaskState : Moved(p, t, 1, q.stale, q.seen, q.swept)
  BY AdvancesOn DEF Gateway!Unmark
<1>4. task' = [task EXCEPT ![t] = p] /\ Counts(p, c) /\ ~Sweeping(q)
  BY <1>1, <1>3, IdleType DEF Moved, Alike, Size, Counts, Sweeping
<1>5. Sets(c) => Sets(c)'
  BY <1>4, SetsPlain DEF Gateway!Unmark
<1>6. ASSUME Only(c), Show(c) PROVE Show(c)'
  <2>1. Holds(q)
    BY <1>6 DEF Show
  <2>2. UNCHANGED <<holds, online, status>>
    BY DEF Gateway!Unmark
  <2>3. \A s \in Devices : holds[s] # Nobody => DeviceOwner[s] # q.user
    BY <1>1, <1>6, <2>1 DEF Show, Holds
  <2>4. Holds(p)'
    <3>1. CASE p = Gateway!Idle
      BY <3>1, IdleHolds
    <3>2. CASE p # Gateway!Idle
      BY <1>1, <1>3, <2>1, <2>2, <3>2
      DEF Moved, Stops, Size, Alike, Holds, Claiming, Gateway!Exists
    <3>3. QED
      BY <3>1, <3>2
  <2>5. \A s \in Devices :
          holds'[s] # Nobody => holds'[s] = c /\ s \in online' /\ callSock'[DeviceOwner[s]] = s
    BY <1>2, <1>6, <2>2, <2>3, OwnerIs DEF Show, Gateway!Unmark, Typed, Gateway!TypeOK
  <2>6. \A u \in People : inCall'[u] # Nobody => inCall'[u] = c /\ Gateway!Exists(c)'
    BY <1>2, <1>6, <2>2 DEF Show, Gateway!Exists, Gateway!Unmark, Typed, Gateway!TypeOK
  <2>7. \A u \in People : callSock'[u] \in {callSock[u], Nobody}
    BY <1>2 DEF Gateway!Unmark, Typed, Gateway!TypeOK
  <2>8. QED
    BY <1>1, <1>4, <1>6, <2>2, <2>4, <2>5, <2>6, <2>7, ShowGoes
<1>7. QED
  BY <1>5, <1>6 DEF Kept

\* Everybody's markers go only if no device shows the call.
LEMMA WipeKeeps ==
  ASSUME Typed, NEW c \in Calls, Alone(c), NEW t \in Slots, Gateway!Wipe(t)
  PROVE  Kept(c)
<1> DEFINE q == task[t]
<1>0. /\ q \in Gateway!TaskState /\ Proper(q) /\ q.at \in 1 .. 16
  BY DEF Typed, Gateway!TypeOK, Gateway!TaskState
<1> USE DEF devices, Gateway!db, Gateway!redis, Gateway!clients, Gateway!hist, Gateway!past
<1>1. q.kind = "end" /\ q.at = 8
  BY <1>0, AtStands, StepPlaces DEF Gateway!Wipe
<1>2. q.user \in People
  BY <1>0, <1>1 DEF Proper
<1>3. PICK p \in Gateway!TaskState : Moved(p, t, 1, q.stale, q.seen, q.swept)
  BY AdvancesOn DEF Gateway!Wipe
<1>4. task' = [task EXCEPT ![t] = p] /\ p = Gateway!Idle /\ Counts(p, c) /\ ~Sweeping(q)
  BY <1>1, <1>3, IdleType DEF Moved, Alike, Size, Counts, Sweeping
<1>5. Sets(c) => Sets(c)'
  BY <1>4, SetsPlain DEF Gateway!Wipe
<1>6. ASSUME Only(c), Show(c) PROVE Show(c)'
  <2>1. \A s \in Devices : holds[s] # Nobody => DeviceOwner[s] # q.user /\ q.live
    BY <1>1, <1>6 DEF Show, Holds
  <2>2. UNCHANGED <<holds, online, status>>
    BY DEF Gateway!Wipe
  <2>3. Holds(p)'
    BY <1>4, IdleHolds
  <2>4. \A s \in Devices :
          holds'[s] # Nobody => holds'[s] = c /\ s \in online' /\ callSock'[DeviceOwner[s]] = s
    <3>1. CASE q.live
      BY <1>6, <2>2, <3>1 DEF Show, Gateway!Wipe
    <3>2. CASE ~q.live
      BY <2>1, <2>2, <3>2
    <3>3. QED
      BY <3>1, <3>2
  <2>5. \A u \in People : inCall'[u] \in {inCall[u], Nobody}
    BY DEF Gateway!Wipe
  <2>6. \A u \in People : inCall'[u] # Nobody => inCall'[u] = c /\ Gateway!Exists(c)'
    BY <1>6, <2>2, <2>5 DEF Show, Gateway!Exists
  <2>7. QED
    BY <1>1, <1>4, <1>6, <2>3, <2>4, <2>6, ShowGoes
<1>7. QED
  BY <1>5, <1>6 DEF Kept

LEMMA DropSockDeleteKeeps ==
  ASSUME Typed, NEW c \in Calls, Alone(c), NEW t \in Slots, Gateway!DropSockDelete(t)
  PROVE  Kept(c)
<1> DEFINE q == task[t]
<1>0. /\ q \in Gateway!TaskState /\ Proper(q) /\ q.at \in 1 .. 16
  BY DEF Typed, Gateway!TypeOK, Gateway!TaskState
<1> USE DEF devices, Gateway!db, Gateway!redis, Gateway!clients, Gateway!hist, Gateway!past
<1>1. q.kind = "drop" /\ q.at = 9
  BY <1>0, AtStands, StepPlaces DEF Gateway!DropSockDelete
<1>2. q.user \in People
  BY <1>0, <1>1 DEF Proper
<1>3. PICK p \in Gateway!TaskState : Moved(p, t, 1, q.stale, q.seen, q.swept)
  BY AdvancesOn DEF Gateway!DropSockDelete
<1>4. task' = [task EXCEPT ![t] = p] /\ Counts(p, c) /\ ~Sweeping(q)
  BY <1>1, <1>3, IdleType DEF Moved, Alike, Size, Counts, Sweeping
<1>5. Sets(c) => Sets(c)'
  BY <1>4, SetsPlain DEF Gateway!DropSockDelete
<1>6. ASSUME Only(c), Show(c) PROVE Show(c)'
  <2>1. Holds(q) /\ q.sock \notin online /\ callSock[q.user] \in {Nobody, q.sock}
    BY <1>1, <1>6 DEF Show, Holds
  <2>2. UNCHANGED <<holds, online, status, inCall>>
    BY DEF Gateway!DropSockDelete
  <2>3. Nobody \notin Devices
    BY GatewayAssumption DEF Gateway!ConstantsAssumption
  <2>4. \A s \in Devices : holds[s] # Nobody => DeviceOwner[s] # q.user
    BY <1>6, <2>1, <2>3 DEF Show
  <2>5. Holds(p)'
    <3>1. CASE p = Gateway!Idle
      BY <3>1, IdleHolds
    <3>2. CASE p # Gateway!Idle
      BY <1>1, <1>3, <2>1, <2>2, <3>2
      DEF Moved, Stops, Size, Alike, Holds, Claiming, Gateway!Exists
    <3>3. QED
      BY <3>1, <3>2
  <2>6. \A s \in Devices :
          holds'[s] # Nobody => holds'[s] = c /\ s \in online' /\ callSock'[DeviceOwner[s]] = s
    BY <1>2, <1>6, <2>2, <2>4, OwnerIs
    DEF Show, Gateway!DropSockDelete, Typed, Gateway!TypeOK
  <2>7. \A u \in People : inCall'[u] # Nobody => inCall'[u] = c /\ Gateway!Exists(c)'
    BY <1>6, <2>2 DEF Show, Gateway!Exists
  <2>8. \A u \in People : callSock'[u] \in {callSock[u], Nobody}
    BY <1>2 DEF Gateway!DropSockDelete, Typed, Gateway!TypeOK
  <2>9. QED
    BY <1>1, <1>4, <1>6, <2>2, <2>5, <2>6, <2>7, <2>8, ShowGoes
<1>7. QED
  BY <1>5, <1>6 DEF Kept

\* The only handler of the call writes the sets and the index together.
LEMMA SetsGoes ==
  ASSUME Typed, NEW c \in Calls, Alone(c), NEW t \in Slots, task[t].call = c,
         NEW p \in Gateway!TaskState, task' = [task EXCEPT ![t] = p], Counts(p, c)',
         \A u \in People : u \in present'[c] <=> c \in index'[u]
  PROVE  Sets(c)'
<1>1. task \in [Slots -> Gateway!TaskState] /\ task'[t] = p
  BY DEF Typed, Gateway!TypeOK
<1>2. ASSUME NEW s \in Slots, s # t PROVE Counts(task[s], c)'
  <2>1. task'[s] = task[s] /\ task[s].call # c /\ task[s].kind # "drop"
    BY <1>1, <1>2 DEF Alone
  <2>2. QED
    BY <2>1 DEF Counts, Sweeping
<1>3. \A s \in Slots : Counts(task[s], c)'
  BY <1>1, <1>2
<1>4. QED
  BY <1>3 DEF Sets

\* Where a handler of the call runs, nobody is being swept out of it.
LEMMA InStep ==
  ASSUME NEW c \in Calls, Alone(c), Sets(c), NEW t \in Slots, task[t].call = c
  PROVE  \A u \in People : u \in present[c] <=> c \in index[u]
  BY DEF Alone, Sets, Sweeping

\* The chat service's answer: nobody of the call, or its sender, shows it any more.
LEMMA LiveOn ==
  ASSUME Typed, NEW t \in Slots, NEW b \in BOOLEAN,
         Gateway!Goto(t, 1, [task[t] EXCEPT !.live = b])
  PROVE  \E p \in Gateway!TaskState :
           /\ task' = [task EXCEPT ![t] = p]
           /\ \/ p = Gateway!Idle
              \/ /\ Alike(p, task[t]) /\ p.at = task[t].at + 1 /\ p.sock = task[t].sock
                 /\ p.stale = task[t].stale /\ p.live = b
<1> DEFINE K == {"none", "request", "accept", "join", "end", "miss", "drop"}
           U == People \union {Nobody}  S == Devices \union {Nobody}  C == Calls \union {Nobody}
           M == SUBSET People  D == SUBSET Calls  A == Gateway!EndStatus  B == BOOLEAN
           N == 1 .. 16
           T == [kind : K, at : N, user : U, sock : S, call : C, as : A,
                 stale : M, seen : S, swept : D, live : B]
           q == task[t]
           r == [q EXCEPT !.live = b]
<1>1. Gateway!TaskState = T /\ q \in T
  BY DEF Gateway!TaskState, Typed, Gateway!TypeOK
<1>2. b \in B
  OBVIOUS
<1> HIDE DEF K, U, S, C, M, D, A, B, N, q
<1>3. /\ r \in T /\ r.at = q.at /\ r.kind = q.kind /\ r.user = q.user /\ r.sock = q.sock
      /\ r.call = q.call /\ r.as = q.as /\ r.stale = q.stale /\ r.live = b
  BY <1>1, <1>2
<1>4. Gateway!Goto(t, 1, r)
  BY DEF q
<1> HIDE DEF r
<1>5. r \in Gateway!TaskState /\ 1 \in 1 .. 9 /\ Gateway!TypeOK
  BY <1>1, <1>3 DEF Typed
<1>6. PICK p \in Gateway!TaskState :
        /\ task' = [task EXCEPT ![t] = p]
        /\ \/ r.at + 1 > Len(Gateway!Script(r.kind)) /\ p = Gateway!Idle
           \/ r.at + 1 \leq Len(Gateway!Script(r.kind)) /\ Same(p, r) /\ p.at = r.at + 1
  BY <1>4, <1>5, HandlerGoes
<1>7. \/ p = Gateway!Idle
      \/ /\ Alike(p, q) /\ p.at = q.at + 1 /\ p.sock = q.sock
         /\ p.stale = q.stale /\ p.live = b
  BY <1>3, <1>6, Zenon DEF Same, Alike
<1>8. QED
  BY <1>6, <1>7 DEF q

LEMMA EndCallKeeps ==
  ASSUME Typed, NEW c \in Calls, Alone(c), NEW t \in Slots, Gateway!EndCall(t)
  PROVE  Kept(c)
<1> DEFINE q == task[t]
<1>0. /\ q \in Gateway!TaskState /\ Proper(q) /\ q.at \in 1 .. 16
  BY DEF Typed, Gateway!TypeOK, Gateway!TaskState
<1> USE DEF devices, Gateway!db, Gateway!redis, Gateway!clients, Gateway!hist, Gateway!past
<1> DEFINE e == q.call
           after == [u \in People |->
                       IF status[e][u] = "absent" THEN "absent"
                       ELSE IF Mode = "p2p" THEN "ended"
                       ELSE IF u = q.user THEN q.as ELSE status[e][u]]
           active == \E u \in People : after[u] = "started"
           Went(p) == /\ Alike(p, q) /\ p.at = q.at + 1 /\ p.sock = q.sock
                      /\ p.stale = q.stale /\ p.live = active
<1>1. (q.kind = "end" /\ q.at = 1) \/ (q.kind = "miss" /\ q.at = 3)
  BY <1>0, AtStands, StepPlaces DEF Gateway!EndCall
<1>2. q.user \in People /\ q.call \in Calls /\ q.as \in Gateway!EndStatus
  BY <1>0, <1>1 DEF Proper, Gateway!TaskState
<1>3. PICK answered \in BOOLEAN :
        /\ holds' = [s \in Devices |->
                       IF answered /\ holds[s] = e /\ (~active \/ DeviceOwner[s] = q.user)
                       THEN Nobody ELSE holds[s]]
        /\ Gateway!AfterGrpc(t, answered, [q EXCEPT !.live = active])
  BY DEF Gateway!EndCall, Gateway!Outcomes
<1>4. /\ status' = [status EXCEPT ![e] = after]
      /\ UNCHANGED <<inCall, callSock, online, present, index>>
  BY DEF Gateway!EndCall
<1> HIDE DEF after
<1>5. active \in BOOLEAN
  OBVIOUS
<1>6. PICK p \in Gateway!TaskState :
        /\ task' = [task EXCEPT ![t] = p]
        /\ p = Gateway!Idle \/ Went(p)
        /\ ~answered /\ q.kind = "end" => p = Gateway!Idle
  <2>1. CASE answered \/ q.kind = "miss"
    <3>1. Gateway!Goto(t, 1, [q EXCEPT !.live = active])
      BY <1>3, <2>1 DEF Gateway!AfterGrpc
    <3> HIDE DEF active
    <3>2. PICK p \in Gateway!TaskState :
            /\ task' = [task EXCEPT ![t] = p]
            /\ p = Gateway!Idle \/ Went(p)
      BY <1>5, <3>1, LiveOn
    <3>3. QED
      BY <2>1, <3>2
  <2>2. CASE ~(answered \/ q.kind = "miss")
    <3>1. Gateway!Answer(t)
      BY <1>3, <2>2 DEF Gateway!AfterGrpc
    <3> HIDE DEF Went
    <3>2. QED
      BY <2>2, <3>1, AnswersOn DEF Stops
  <2>3. QED
    BY <2>1, <2>2
<1>7. Counts(p, c) /\ ~Sweeping(q)
  <2>1. p # Gateway!Idle => Alike(p, q) /\ p.at = q.at + 1
    BY <1>6
  <2> HIDE DEF Went
  <2>2. QED
    BY <1>1, <2>1, IdleType DEF Alike, Counts, Sweeping
<1>8. Sets(c) => Sets(c)'
  BY <1>4, <1>6, <1>7, SetsPlain
<1>9. ASSUME Only(c), Show(c) PROVE Show(c)'
  <2>1. Holds(q)
    BY <1>9 DEF Show
  <2>2. Gateway!Exists(c)' <=> Gateway!Exists(c)
    <3>1. \A u \in People : after[u] # "absent" <=> status[e][u] # "absent"
      BY <1>2 DEF after, Gateway!EndStatus
    <3>2. status'[c] = IF c = e THEN after ELSE status[c]
      BY <1>2, <1>4 DEF Typed, Gateway!TypeOK
    <3>3. QED
      BY <3>1, <3>2 DEF Gateway!Exists
  <2>3. ASSUME NEW s \in Devices, holds'[s] # Nobody
        PROVE  /\ holds[s] # Nobody /\ holds'[s] = holds[s]
               /\ answered => active /\ DeviceOwner[s] # q.user
    <3>1. holds'[s] = IF answered /\ holds[s] = e /\ (~active \/ DeviceOwner[s] = q.user)
                      THEN Nobody ELSE holds[s]
      BY <1>3
    <3>2. holds[s] # Nobody
      BY <2>3, <3>1
    <3>3. holds[s] = e
      BY <1>1, <1>9, <3>2, OwnCall DEF Show
    <3>4. QED
      BY <2>3, <3>1, <3>2, <3>3
  <2>4. Holds(p)'
    <3>1. CASE p = Gateway!Idle
      BY <3>1, IdleHolds
    <3>2. CASE p # Gateway!Idle
      <4>1. Went(p)
        BY <1>6, <3>2
      <4>2. /\ p.kind = q.kind /\ p.user = q.user /\ p.call = q.call /\ p.at = q.at + 1
            /\ p.stale = {}
        BY <2>1, <4>1 DEF Alike, Holds
      <4>3. q.kind = "end" => Gateway!Exists(p.call)'
        BY <1>1, <1>9, <2>1, <2>2, <4>2, OwnCall DEF Holds
      <4>4. \A s \in Devices : holds'[s] # Nobody /\ q.kind = "end" =>
              active /\ DeviceOwner[s] # p.user
        BY <1>6, <2>3, <3>2, <4>2
      <4>5. active => p.live
        BY <4>1
      <4> HIDE DEF active
      <4>6. QED
        BY <1>1, <4>2, <4>3, <4>4, <4>5 DEF Holds, Claiming
    <3>3. QED
      BY <3>1, <3>2
  <2>5. \A s \in Devices :
          holds'[s] # Nobody => holds'[s] = c /\ s \in online' /\ callSock'[DeviceOwner[s]] = s
    BY <1>4, <1>9, <2>3 DEF Show
  <2>6. \A u \in People : inCall'[u] # Nobody => inCall'[u] = c /\ Gateway!Exists(c)'
    BY <1>4, <1>9, <2>2 DEF Show
  <2>7. QED
    BY <1>1, <1>6, <1>9, <2>4, <2>5, <2>6, ShowGoes
<1>10. QED
  BY <1>8, <1>9 DEF Kept

LEMMA EnlistKeeps ==
  ASSUME Typed, NEW c \in Calls, Alone(c), NEW t \in Slots, Gateway!Enlist(t)
  PROVE  Kept(c)
<1> DEFINE q == task[t]
<1>0. /\ q \in Gateway!TaskState /\ Proper(q) /\ q.at \in 1 .. 16
  BY DEF Typed, Gateway!TypeOK, Gateway!TaskState
<1> USE DEF devices, Gateway!db, Gateway!redis, Gateway!clients, Gateway!hist, Gateway!past
<1>1. (q.kind = "request" /\ q.at = 7) \/ (q.kind = "accept" /\ q.at = 9)
  BY <1>0, AtStands, StepPlaces DEF Gateway!Enlist
<1>2. q.user \in People /\ q.call \in Calls
  BY <1>0, <1>1 DEF Proper
<1>3. PICK p \in Gateway!TaskState : Moved(p, t, 1, q.stale, q.seen, q.swept)
  BY AdvancesOn DEF Gateway!Enlist
<1>4. ASSUME Sets(c) PROVE Sets(c)'
  <2>1. /\ Counts(p, c) /\ Counts(p, c)' /\ ~Sweeping(q) /\ task' = [task EXCEPT ![t] = p]
        /\ p.kind # "drop"
    BY <1>1, <1>3, IdleType DEF Moved, Alike, Size, Counts, Sweeping
  <2>2. CASE q.call = c
    <3>1. \A u \in People : u \in present[c] <=> c \in index[u]
      BY <1>4, <2>2, InStep
    <3>2. \A u \in People : u \in present'[c] <=> c \in index'[u]
      BY <1>2, <2>2, <3>1 DEF Gateway!Enlist, Typed, Gateway!TypeOK
    <3>3. QED
      BY <2>1, <2>2, <3>2, SetsGoes
  <2>3. CASE q.call # c
    <3>1. present'[c] = present[c] /\ \A u \in People : c \in index'[u] <=> c \in index[u]
      BY <1>2, <2>3 DEF Gateway!Enlist, Typed, Gateway!TypeOK
    <3>2. QED
      BY <1>4, <2>1, <3>1, SetsFrame
  <2>4. QED
    BY <2>2, <2>3
<1>5. ASSUME Only(c), Show(c) PROVE Show(c)'
  <2>1. Holds(q)
    BY <1>5 DEF Show
  <2>2. UNCHANGED <<holds, online, callSock, inCall, status>>
    BY DEF Gateway!Enlist
  <2>3. Holds(p)'
    <3>1. CASE p = Gateway!Idle
      BY <3>1, IdleHolds
    <3>2. CASE p # Gateway!Idle
      BY <1>1, <1>3, <2>1, <2>2, <3>2
      DEF Moved, Stops, Size, Alike, Holds, Claiming, Gateway!Exists
    <3>3. QED
      BY <3>1, <3>2
  <2>4. QED
    BY <1>1, <1>3, <1>5, <2>2, <2>3, ShowPlain DEF Moved, Gateway!Exists
<1>6. QED
  BY <1>4, <1>5 DEF Kept

LEMMA DelistKeeps ==
  ASSUME Typed, NEW c \in Calls, Alone(c), NEW t \in Slots, Gateway!Delist(t)
  PROVE  Kept(c)
<1> DEFINE q == task[t]
<1>0. /\ q \in Gateway!TaskState /\ Proper(q) /\ q.at \in 1 .. 16
  BY DEF Typed, Gateway!TypeOK, Gateway!TaskState
<1> USE DEF devices, Gateway!db, Gateway!redis, Gateway!clients, Gateway!hist, Gateway!past
<1>1. q.kind = "end" /\ q.at = 4
  BY <1>0, AtStands, StepPlaces DEF Gateway!Delist
<1>2. q.user \in People /\ q.call \in Calls
  BY <1>0, <1>1 DEF Proper
<1>3. PICK p \in Gateway!TaskState : Moved(p, t, 1, q.stale, q.seen, q.swept)
  BY AdvancesOn DEF Gateway!Delist
<1>4. ASSUME Sets(c) PROVE Sets(c)'
  <2>1. /\ Counts(p, c) /\ Counts(p, c)' /\ ~Sweeping(q) /\ task' = [task EXCEPT ![t] = p]
        /\ p.kind # "drop"
    BY <1>1, <1>3, IdleType DEF Moved, Alike, Size, Counts, Sweeping
  <2>2. CASE q.call = c
    <3>1. \A u \in People : u \in present[c] <=> c \in index[u]
      BY <1>4, <2>2, InStep
    <3>2. \A u \in People : u \in present'[c] <=> c \in index'[u]
      BY <1>2, <2>2, <3>1 DEF Gateway!Delist, Typed, Gateway!TypeOK
    <3>3. QED
      BY <2>1, <2>2, <3>2, SetsGoes
  <2>3. CASE q.call # c
    <3>1. present'[c] = present[c] /\ \A u \in People : c \in index'[u] <=> c \in index[u]
      BY <1>2, <2>3 DEF Gateway!Delist, Typed, Gateway!TypeOK
    <3>2. QED
      BY <1>4, <2>1, <3>1, SetsFrame
  <2>4. QED
    BY <2>2, <2>3
<1>5. ASSUME Only(c), Show(c) PROVE Show(c)'
  <2>1. Holds(q)
    BY <1>5 DEF Show
  <2>2. UNCHANGED <<holds, online, callSock, inCall, status>>
    BY DEF Gateway!Delist
  <2>3. Holds(p)'
    <3>1. CASE p = Gateway!Idle
      BY <3>1, IdleHolds
    <3>2. CASE p # Gateway!Idle
      BY <1>1, <1>3, <2>1, <2>2, <3>2
      DEF Moved, Stops, Size, Alike, Holds, Claiming, Gateway!Exists
    <3>3. QED
      BY <3>1, <3>2
  <2>4. QED
    BY <1>1, <1>3, <1>5, <2>2, <2>3, ShowPlain DEF Moved, Gateway!Exists
<1>6. QED
  BY <1>4, <1>5 DEF Kept

LEMMA DelistCountKeeps ==
  ASSUME Typed, NEW c \in Calls, Alone(c), NEW t \in Slots, Gateway!DelistCount(t)
  PROVE  Kept(c)
<1> DEFINE q == task[t]
<1>0. /\ q \in Gateway!TaskState /\ Proper(q) /\ q.at \in 1 .. 16
  BY DEF Typed, Gateway!TypeOK, Gateway!TaskState
<1> USE DEF devices, Gateway!db, Gateway!redis, Gateway!clients, Gateway!hist, Gateway!past
<1>1. q.kind = "end" /\ q.at = 5
  BY <1>0, AtStands, StepPlaces DEF Gateway!DelistCount
<1>2. q.user \in People /\ q.call \in Calls
  BY <1>0, <1>1 DEF Proper
<1>3. PICK p \in Gateway!TaskState :
        \/ present[q.call] = {} /\ Moved(p, t, 1, q.stale, q.seen, q.swept)
        \/ Moved(p, t, 2, q.stale, q.seen, q.swept)
  BY GoesOn1 DEF Gateway!DelistCount
<1>4. Sets(c) => Sets(c)'
  <2>1. Counts(p, c) /\ ~Sweeping(q) /\ task' = [task EXCEPT ![t] = p]
    BY <1>1, <1>3, IdleType DEF Moved, Alike, Size, Counts, Sweeping
  <2>2. QED
    BY <2>1, SetsPlain DEF Gateway!DelistCount
<1>5. ASSUME Only(c), Show(c) PROVE Show(c)'
  <2>1. Holds(q)
    BY <1>5 DEF Show
  <2>2. UNCHANGED <<holds, online, callSock, inCall, status>>
    BY DEF Gateway!DelistCount
  <2>3. Holds(p)'
    <3>1. CASE p = Gateway!Idle
      BY <3>1, IdleHolds
    <3>2. CASE p # Gateway!Idle
      BY <1>1, <1>3, <2>1, <2>2, <3>2
      DEF Moved, Stops, Size, Alike, Holds, Claiming, Gateway!Exists
    <3>3. QED
      BY <3>1, <3>2
  <2>4. QED
    BY <1>1, <1>3, <1>5, <2>2, <2>3, ShowPlain DEF Moved, Gateway!Exists
<1>6. QED
  BY <1>4, <1>5 DEF Kept

\* Only a set that was empty is deleted.
LEMMA DelistDeleteKeeps ==
  ASSUME Typed, NEW c \in Calls, Alone(c), NEW t \in Slots, Gateway!DelistDelete(t)
  PROVE  Kept(c)
<1> DEFINE q == task[t]
<1>0. /\ q \in Gateway!TaskState /\ Proper(q) /\ q.at \in 1 .. 16
  BY DEF Typed, Gateway!TypeOK, Gateway!TaskState
<1> USE DEF devices, Gateway!db, Gateway!redis, Gateway!clients, Gateway!hist, Gateway!past
<1>1. q.kind = "end" /\ q.at = 6
  BY <1>0, AtStands, StepPlaces DEF Gateway!DelistDelete
<1>2. q.user \in People /\ q.call \in Calls
  BY <1>0, <1>1 DEF Proper
<1>3. PICK p \in Gateway!TaskState : Moved(p, t, 1, q.stale, q.seen, q.swept)
  BY AdvancesOn DEF Gateway!DelistDelete
<1>4. ASSUME Sets(c) PROVE Sets(c)'
  <2>1. /\ Counts(p, c) /\ ~Sweeping(q) /\ task' = [task EXCEPT ![t] = p]
        /\ p.kind # "drop" /\ (q.call = c => present[c] = {})
    BY <1>1, <1>3, <1>4, IdleType DEF Moved, Alike, Size, Counts, Sweeping, Sets
  <2>2. present'[c] = present[c] /\ index' = index
    BY <1>2, <2>1 DEF Gateway!DelistDelete, Typed, Gateway!TypeOK
  <2>3. QED
    BY <1>4, <2>1, <2>2, SetsFrame
<1>5. ASSUME Only(c), Show(c) PROVE Show(c)'
  <2>1. Holds(q)
    BY <1>5 DEF Show
  <2>2. UNCHANGED <<holds, online, callSock, inCall, status>>
    BY DEF Gateway!DelistDelete
  <2>3. Holds(p)'
    <3>1. CASE p = Gateway!Idle
      BY <3>1, IdleHolds
    <3>2. CASE p # Gateway!Idle
      BY <1>1, <1>3, <2>1, <2>2, <3>2
      DEF Moved, Stops, Size, Alike, Holds, Claiming, Gateway!Exists
    <3>3. QED
      BY <3>1, <3>2
  <2>4. QED
    BY <1>1, <1>3, <1>5, <2>2, <2>3, ShowPlain DEF Moved, Gateway!Exists
<1>6. QED
  BY <1>4, <1>5 DEF Kept

LEMMA SweepReadKeeps ==
  ASSUME Typed, NEW c \in Calls, Alone(c), NEW t \in Slots, Gateway!SweepRead(t)
  PROVE  Kept(c)
<1> DEFINE q == task[t]
<1>0. /\ q \in Gateway!TaskState /\ Proper(q) /\ q.at \in 1 .. 16
  BY DEF Typed, Gateway!TypeOK, Gateway!TaskState
<1> USE DEF devices, Gateway!db, Gateway!redis, Gateway!clients, Gateway!hist, Gateway!past
<1>1. q.kind = "drop" /\ q.at \in {2, 11}
  BY <1>0, AtStands, StepPlaces DEF Gateway!SweepRead
<1>2. q.user \in People
  BY <1>0, <1>1 DEF Proper
<1>3. PICK e \in SUBSET Calls : e = index[q.user]
  BY <1>2 DEF Typed, Gateway!TypeOK
<1>4. PICK p \in Gateway!TaskState :
        \/ Moved(p, t, 5, q.stale, q.seen, q.swept)
        \/ Moved(p, t, 1, q.stale, q.seen, e)
  <2>1. \/ Gateway!Goto(t, 5, task[t])
        \/ Gateway!Goto(t, 1, [task[t] EXCEPT !.swept = e])
    BY <1>3 DEF Gateway!SweepRead
  <2>2. CASE Gateway!Goto(t, 5, task[t])
    BY <2>2, GoesOn1
  <2>3. CASE Gateway!Goto(t, 1, [task[t] EXCEPT !.swept = e])
    BY <2>3, SweptOn
  <2>4. QED
    BY <2>1, <2>2, <2>3
<1>5. Sets(c) => Sets(c)'
  <2>1. Counts(p, c) /\ ~Sweeping(q) /\ task' = [task EXCEPT ![t] = p]
    BY <1>1, <1>3, <1>4, IdleType DEF Moved, Alike, Size, Counts, Sweeping
  <2>2. QED
    BY <2>1, SetsPlain DEF Gateway!SweepRead
<1>6. ASSUME Only(c), Show(c) PROVE Show(c)'
  <2>1. Holds(q)
    BY <1>6 DEF Show
  <2>2. UNCHANGED <<holds, online, callSock, inCall, status>>
    BY DEF Gateway!SweepRead
  <2>3. Holds(p)'
    <3>1. CASE p = Gateway!Idle
      BY <3>1, IdleHolds
    <3>2. CASE p # Gateway!Idle
      BY <1>1, <1>4, <2>1, <2>2, <3>2
      DEF Moved, Stops, Size, Alike, Holds, Claiming, Gateway!Exists
    <3>3. QED
      BY <3>1, <3>2
  <2>4. QED
    BY <1>1, <1>4, <1>6, <2>2, <2>3, ShowPlain DEF Moved, Gateway!Exists
<1>7. QED
  BY <1>5, <1>6 DEF Kept

\* A sweep takes its user out of the call.
LEMMA SweptOut ==
  ASSUME Typed, NEW c \in Calls, Sets(c), NEW t \in Slots, NEW p \in Gateway!TaskState,
         task' = [task EXCEPT ![t] = p], ~Sweeping(task[t]),
         Sweeping(p), p.user = task[t].user, Counts(p, c)', index' = index,
         present'[c] \in {present[c], present[c] \ {p.user}}
  PROVE  Sets(c)'
<1>1. task \in [Slots -> Gateway!TaskState] /\ task'[t] = p
  BY DEF Typed, Gateway!TypeOK
<1>2. ASSUME NEW u \in People, c \in index'[u], u \notin present'[c]
      PROVE  \E s \in Slots : Sweeping(task'[s]) /\ task'[s].user = u
  <2>1. CASE u = p.user
    BY <1>1, <2>1
  <2>2. CASE u # p.user
    <3>1. PICK s \in Slots : Sweeping(task[s]) /\ task[s].user = u
      BY <1>2, <2>2 DEF Sets
    <3>2. task'[s] = task[s]
      BY <1>1, <3>1
    <3>3. QED
      BY <3>1, <3>2
  <2>3. QED
    BY <2>1, <2>2
<1>3. ASSUME NEW s \in Slots, s # t PROVE Counts(task[s], c)'
  <2>1. task'[s] = task[s] /\ Counts(task[s], c)
    BY <1>1, <1>3 DEF Sets
  <2>2. QED
    BY <2>1 DEF Counts, Sweeping
<1>4. \A u \in People : u \in present'[c] => c \in index'[u]
  BY DEF Sets
<1>5. \A s \in Slots : Counts(task[s], c)'
  BY <1>1, <1>3
<1>6. QED
  BY <1>2, <1>4, <1>5 DEF Sets, Sweeping

\* A user who is out of the call leaves the index.
LEMMA SweptClean ==
  ASSUME Typed, NEW c \in Calls, Sets(c), NEW t \in Slots, NEW p \in Gateway!TaskState,
         task' = [task EXCEPT ![t] = p], Counts(p, c)', task[t].user \notin present[c],
         present' = present, task[t].kind = "drop",
         \A u \in People : index'[u] = IF u = task[t].user THEN {} ELSE index[u]
  PROVE  Sets(c)'
<1>1. task \in [Slots -> Gateway!TaskState] /\ task'[t] = p
  BY DEF Typed, Gateway!TypeOK
<1>2. ASSUME NEW u \in People, c \in index'[u], u \notin present'[c]
      PROVE  \E s \in Slots : Sweeping(task'[s]) /\ task'[s].user = u
  <2>1. u # task[t].user /\ c \in index[u]
    BY <1>2
  <2>2. PICK s \in Slots : Sweeping(task[s]) /\ task[s].user = u
    BY <1>2, <2>1 DEF Sets
  <2>3. task'[s] = task[s]
    BY <1>1, <2>1, <2>2
  <2>4. QED
    BY <2>2, <2>3
<1>3. ASSUME NEW s \in Slots, s # t PROVE Counts(task[s], c)'
  <2>1. task'[s] = task[s] /\ Counts(task[s], c) /\ Proper(task[s])
    BY <1>1, <1>3 DEF Sets, Typed
  <2>2. QED
    BY <2>1 DEF Counts, Sweeping, Proper
<1>4. \A u \in People : u \in present'[c] => c \in index'[u]
  BY DEF Sets
<1>5. \A s \in Slots : Counts(task[s], c)'
  BY <1>1, <1>3
<1>6. QED
  BY <1>2, <1>4, <1>5 DEF Sets, Sweeping

\* The index as read names every call that the user is in.
LEMMA SweepRemoveKeeps ==
  ASSUME Typed, NEW c \in Calls, Alone(c), NEW t \in Slots, Gateway!SweepRemove(t)
  PROVE  Kept(c)
<1> DEFINE q == task[t]
<1>0. /\ q \in Gateway!TaskState /\ Proper(q) /\ q.at \in 1 .. 16
  BY DEF Typed, Gateway!TypeOK, Gateway!TaskState
<1> USE DEF devices, Gateway!db, Gateway!redis, Gateway!clients, Gateway!hist, Gateway!past
<1>1. q.kind = "drop" /\ q.at \in {3, 12}
  BY <1>0, AtStands, StepPlaces DEF Gateway!SweepRemove
<1>2. q.user \in People
  BY <1>0, <1>1 DEF Proper
<1>3. PICK p \in Gateway!TaskState : Moved(p, t, 1, q.stale, q.seen, q.swept)
  BY AdvancesOn DEF Gateway!SweepRemove
<1>4. ASSUME Sets(c) PROVE Sets(c)'
  <2>1. /\ ~Sweeping(q) /\ task' = [task EXCEPT ![t] = p]
        /\ p.kind = "drop" /\ p.at \in {4, 13} /\ p.user = q.user
        /\ c \in index[q.user] => c \in q.swept
    BY <1>1, <1>3, <1>4, IdleType DEF Moved, Alike, Size, Counts, Sweeping, Sets
  <2>2. index' = index /\ present'[c] = IF c \in q.swept THEN present[c] \ {q.user} ELSE present[c]
    BY DEF Gateway!SweepRemove
  <2>3. q.user \notin present'[c]
    BY <1>2, <1>4, <2>1, <2>2 DEF Sets
  <2>4. Sweeping(p) /\ Counts(p, c)'
    BY <2>1, <2>3 DEF Counts, Sweeping
  <2>5. QED
    BY <1>4, <2>1, <2>2, <2>4, SweptOut
<1>5. ASSUME Only(c), Show(c) PROVE Show(c)'
  <2>1. Holds(q)
    BY <1>5 DEF Show
  <2>2. UNCHANGED <<holds, online, callSock, inCall, status>>
    BY DEF Gateway!SweepRemove
  <2>3. Holds(p)'
    <3>1. CASE p = Gateway!Idle
      BY <3>1, IdleHolds
    <3>2. CASE p # Gateway!Idle
      BY <1>1, <1>3, <2>1, <2>2, <3>2
      DEF Moved, Stops, Size, Alike, Holds, Claiming, Gateway!Exists
    <3>3. QED
      BY <3>1, <3>2
  <2>4. QED
    BY <1>1, <1>3, <1>5, <2>2, <2>3, ShowPlain DEF Moved, Gateway!Exists
<1>6. QED
  BY <1>4, <1>5 DEF Kept

LEMMA SweepCountKeeps ==
  ASSUME Typed, NEW c \in Calls, Alone(c), NEW t \in Slots, Gateway!SweepCount(t)
  PROVE  Kept(c)
<1> DEFINE q == task[t]
<1>0. /\ q \in Gateway!TaskState /\ Proper(q) /\ q.at \in 1 .. 16
  BY DEF Typed, Gateway!TypeOK, Gateway!TaskState
<1> USE DEF devices, Gateway!db, Gateway!redis, Gateway!clients, Gateway!hist, Gateway!past
<1>1. q.kind = "drop" /\ q.at \in {4, 13}
  BY <1>0, AtStands, StepPlaces DEF Gateway!SweepCount
<1>2. q.user \in People
  BY <1>0, <1>1 DEF Proper
<1>3. PICK e \in SUBSET Calls : e = {d \in q.swept : present[d] = {}}
  BY <1>0 DEF Gateway!TaskState
<1>4. PICK p \in Gateway!TaskState : Moved(p, t, 1, q.stale, q.seen, e)
  <2>1. Gateway!Goto(t, 1, [task[t] EXCEPT !.swept = e])
    BY <1>3 DEF Gateway!SweepCount
  <2>2. QED
    BY <2>1, SweptOn
<1>5. ASSUME Sets(c) PROVE Sets(c)'
  <2>1. /\ task' = [task EXCEPT ![t] = p] /\ Sweeping(p) /\ p.user = q.user
        /\ p.kind = "drop" /\ p.at \in {5, 14} /\ p.swept = e
    BY <1>1, <1>4, IdleType DEF Moved, Alike, Size, Sweeping
  <2>2. q.user \notin present[c]
    BY <1>1, <1>5 DEF Sets, Counts, Sweeping
  <2>3. Counts(p, c)
    BY <1>3, <2>1, <2>2 DEF Counts
  <2>4. QED
    BY <1>5, <2>1, <2>3, SetsPlain DEF Gateway!SweepCount
<1>6. ASSUME Only(c), Show(c) PROVE Show(c)'
  <2>1. Holds(q)
    BY <1>6 DEF Show
  <2>2. UNCHANGED <<holds, online, callSock, inCall, status>>
    BY DEF Gateway!SweepCount
  <2>3. Holds(p)'
    <3>1. CASE p = Gateway!Idle
      BY <3>1, IdleHolds
    <3>2. CASE p # Gateway!Idle
      BY <1>1, <1>4, <2>1, <2>2, <3>2
      DEF Moved, Stops, Size, Alike, Holds, Claiming, Gateway!Exists
    <3>3. QED
      BY <3>1, <3>2
  <2>4. QED
    BY <1>1, <1>4, <1>6, <2>2, <2>3, ShowPlain DEF Moved, Gateway!Exists
<1>7. QED
  BY <1>5, <1>6 DEF Kept

LEMMA SweepWipeKeeps ==
  ASSUME Typed, NEW c \in Calls, Alone(c), NEW t \in Slots, Gateway!SweepWipe(t)
  PROVE  Kept(c)
<1> DEFINE q == task[t]
<1>0. /\ q \in Gateway!TaskState /\ Proper(q) /\ q.at \in 1 .. 16
  BY DEF Typed, Gateway!TypeOK, Gateway!TaskState
<1> USE DEF devices, Gateway!db, Gateway!redis, Gateway!clients, Gateway!hist, Gateway!past
<1>1. q.kind = "drop" /\ q.at \in {5, 14}
  BY <1>0, AtStands, StepPlaces DEF Gateway!SweepWipe
<1>2. q.user \in People
  BY <1>0, <1>1 DEF Proper
<1>3. PICK e \in SUBSET Calls : e = {}
  OBVIOUS
<1>4. PICK p \in Gateway!TaskState : Moved(p, t, 1, q.stale, q.seen, e)
  <2>1. Gateway!Goto(t, 1, [task[t] EXCEPT !.swept = e])
    BY <1>3 DEF Gateway!SweepWipe
  <2>2. QED
    BY <2>1, SweptOn
<1>5. ASSUME Sets(c) PROVE Sets(c)'
  <2>1. /\ task' = [task EXCEPT ![t] = p] /\ Sweeping(p) /\ p.user = q.user
        /\ p.kind = "drop" /\ p.at \in {6, 15}
    BY <1>1, <1>4, IdleType DEF Moved, Alike, Size, Sweeping
  <2>2. q.user \notin present[c] /\ (c \in q.swept => present[c] = {})
    BY <1>1, <1>5 DEF Sets, Counts, Sweeping
  <2>3. present'[c] = present[c] /\ index' = index
    BY <2>2 DEF Gateway!SweepWipe
  <2>4. Counts(p, c)
    BY <2>1, <2>2 DEF Counts
  <2>5. QED
    BY <1>2, <1>5, <2>1, <2>3, <2>4, SetsFrame
<1>6. ASSUME Only(c), Show(c) PROVE Show(c)'
  <2>1. Holds(q)
    BY <1>6 DEF Show
  <2>2. UNCHANGED <<holds, online, callSock, inCall, status>>
    BY DEF Gateway!SweepWipe
  <2>3. Holds(p)'
    <3>1. CASE p = Gateway!Idle
      BY <3>1, IdleHolds
    <3>2. CASE p # Gateway!Idle
      BY <1>1, <1>4, <2>1, <2>2, <3>2
      DEF Moved, Stops, Size, Alike, Holds, Claiming, Gateway!Exists
    <3>3. QED
      BY <3>1, <3>2
  <2>4. QED
    BY <1>1, <1>4, <1>6, <2>2, <2>3, ShowPlain DEF Moved, Gateway!Exists
<1>7. QED
  BY <1>5, <1>6 DEF Kept

LEMMA SweepDeleteKeeps ==
  ASSUME Typed, NEW c \in Calls, Alone(c), NEW t \in Slots, Gateway!SweepDelete(t)
  PROVE  Kept(c)
<1> DEFINE q == task[t]
<1>0. /\ q \in Gateway!TaskState /\ Proper(q) /\ q.at \in 1 .. 16
  BY DEF Typed, Gateway!TypeOK, Gateway!TaskState
<1> USE DEF devices, Gateway!db, Gateway!redis, Gateway!clients, Gateway!hist, Gateway!past
<1>1. q.kind = "drop" /\ q.at \in {6, 15}
  BY <1>0, AtStands, StepPlaces DEF Gateway!SweepDelete
<1>2. q.user \in People
  BY <1>0, <1>1 DEF Proper
<1>3. PICK p \in Gateway!TaskState : Moved(p, t, 1, q.stale, q.seen, q.swept)
  BY AdvancesOn DEF Gateway!SweepDelete
<1>4. ASSUME Sets(c) PROVE Sets(c)'
  <2>1. /\ task' = [task EXCEPT ![t] = p]
        /\ p.kind # "none" => p.kind = "drop" /\ p.at \in {7, 16}
    BY <1>1, <1>3, IdleType DEF Moved, Alike, Size
  <2>2. Counts(p, c)'
    BY <2>1, IdleType DEF Counts, Sweeping
  <2>3. q.user \notin present[c]
    BY <1>1, <1>4 DEF Sets, Counts, Sweeping
  <2>4. /\ present' = present
        /\ \A u \in People : index'[u] = IF u = q.user THEN {} ELSE index[u]
    BY <1>2 DEF Gateway!SweepDelete, Typed, Gateway!TypeOK
  <2>5. QED
    BY <1>1, <1>2, <1>4, <2>1, <2>2, <2>3, <2>4, SweptClean
<1>5. ASSUME Only(c), Show(c) PROVE Show(c)'
  <2>1. Holds(q)
    BY <1>5 DEF Show
  <2>2. UNCHANGED <<holds, online, callSock, inCall, status>>
    BY DEF Gateway!SweepDelete
  <2>3. Holds(p)'
    <3>1. CASE p = Gateway!Idle
      BY <3>1, IdleHolds
    <3>2. CASE p # Gateway!Idle
      BY <1>1, <1>3, <2>1, <2>2, <3>2
      DEF Moved, Stops, Size, Alike, Holds, Claiming, Gateway!Exists
    <3>3. QED
      BY <3>1, <3>2
  <2>4. QED
    BY <1>1, <1>3, <1>5, <2>2, <2>3, ShowPlain DEF Moved, Gateway!Exists
<1>6. QED
  BY <1>4, <1>5 DEF Kept


\* No step of a running handler is the meeting of two.
LEMMA StepMeetsNone ==
  ASSUME NEW t \in Slots, Gateway!Continue(t)
  PROVE  UNCHANGED <<met, cut, asked>>
<1> USE DEF Gateway!hist, Gateway!past
<1>1. CASE Gateway!Validate(t) \/ Gateway!ValidateTargets(t) \/ Gateway!ClearStale(t)
           \/ Gateway!Create(t) \/ Gateway!AcceptCall(t) \/ Gateway!EndCall(t)
  BY <1>1 DEF Gateway!Validate, Gateway!ValidateTargets, Gateway!ClearStale, Gateway!Create,
    Gateway!AcceptCall, Gateway!EndCall
<1>2. CASE Gateway!Lost(t) \/ Gateway!LockRead(t) \/ Gateway!Lock(t) \/ Gateway!Unlock(t)
           \/ Gateway!Mark(t) \/ Gateway!ClaimRead(t) \/ Gateway!ClaimWrite(t)
  BY <1>2 DEF Gateway!Lost, Gateway!LockRead, Gateway!Lock, Gateway!Unlock, Gateway!Mark,
    Gateway!ClaimRead, Gateway!ClaimWrite
<1>3. CASE Gateway!Unmark(t) \/ Gateway!Wipe(t) \/ Gateway!Enlist(t) \/ Gateway!Delist(t)
           \/ Gateway!DelistCount(t) \/ Gateway!DelistDelete(t)
  BY <1>3 DEF Gateway!Unmark, Gateway!Wipe, Gateway!Enlist, Gateway!Delist,
    Gateway!DelistCount, Gateway!DelistDelete
<1>4. CASE Gateway!SweepRead(t) \/ Gateway!SweepRemove(t) \/ Gateway!SweepCount(t)
           \/ Gateway!SweepWipe(t) \/ Gateway!SweepDelete(t)
  BY <1>4 DEF Gateway!SweepRead, Gateway!SweepRemove, Gateway!SweepCount, Gateway!SweepWipe,
    Gateway!SweepDelete
<1>5. CASE Gateway!Invite(t) \/ Gateway!Schedule(t) \/ Gateway!Uninvite(t) \/ Gateway!Cancel(t)
           \/ Gateway!UninviteAll(t) \/ Gateway!ReadInvite(t) \/ Gateway!ReadParts(t)
  BY <1>5 DEF Gateway!Invite, Gateway!Schedule, Gateway!Uninvite, Gateway!Cancel,
    Gateway!UninviteAll, Gateway!ReadInvite, Gateway!ReadParts
<1>6. CASE Gateway!DropRead(t) \/ Gateway!DropUnmark(t) \/ Gateway!DropSockRead(t)
           \/ Gateway!DropSockDelete(t) \/ Gateway!Leave(t)
  BY <1>6 DEF Gateway!DropRead, Gateway!DropUnmark, Gateway!DropSockRead,
    Gateway!DropSockDelete, Gateway!Leave
<1>7. QED
  BY <1>1, <1>2, <1>3, <1>4, <1>5, <1>6 DEF Gateway!Continue

\* The handler of t keeps its call until it has answered.
OnWay(t) ==
  \E p \in Gateway!TaskState :
    task' = [task EXCEPT ![t] = p] /\ (p = Gateway!Idle \/ Alike(p, task[t]))

LEMMA OnItsWay ==
  ASSUME Typed, NEW t \in Slots
  PROVE  /\ Gateway!Advance(t) \/ Gateway!Answer(t) => OnWay(t)
         /\ \A n \in 1 .. 9 : Gateway!Goto(t, n, task[t]) => OnWay(t)
         /\ \A n \in 1 .. 9, m \in SUBSET People :
              Gateway!Goto(t, n, [task[t] EXCEPT !.stale = m]) => OnWay(t)
         /\ \A n \in 1 .. 9, s \in MaybeSocket :
              Gateway!Goto(t, n, [task[t] EXCEPT !.seen = s]) => OnWay(t)
         /\ \A n \in 1 .. 9, e \in SUBSET Calls :
              Gateway!Goto(t, n, [task[t] EXCEPT !.swept = e]) => OnWay(t)
         /\ \A n \in 1 .. 9, b \in BOOLEAN :
              Gateway!Goto(t, n, [task[t] EXCEPT !.live = b]) => OnWay(t)
<1>1. CASE Gateway!Answer(t)
  BY <1>1, IdleType DEF Gateway!Answer, OnWay
<1>2. ASSUME NEW n \in 1 .. 9, NEW p \in Gateway!TaskState, Further(p, t, n) PROVE OnWay(t)
  BY <1>2 DEF Further, OnWay
<1>3. CASE Gateway!Advance(t)
  BY <1>2, <1>3, AdvancesFurther
<1>4. ASSUME NEW n \in 1 .. 9, Gateway!Goto(t, n, task[t]) PROVE OnWay(t)
  <2>1. task[t] \in Gateway!TaskState /\ Alike(task[t], task[t])
    BY DEF Typed, Gateway!TypeOK, Alike
  <2>2. QED
    BY <1>2, <1>4, <2>1, GoesFurther
<1>5. ASSUME NEW n \in 1 .. 9, NEW m \in SUBSET People,
             Gateway!Goto(t, n, [task[t] EXCEPT !.stale = m])
      PROVE  OnWay(t)
  BY <1>2, <1>5, WritesFurther
<1>6. ASSUME NEW n \in 1 .. 9, NEW s \in MaybeSocket,
             Gateway!Goto(t, n, [task[t] EXCEPT !.seen = s])
      PROVE  OnWay(t)
  BY <1>2, <1>6, WritesFurther
<1>7. ASSUME NEW n \in 1 .. 9, NEW e \in SUBSET Calls,
             Gateway!Goto(t, n, [task[t] EXCEPT !.swept = e])
      PROVE  OnWay(t)
  BY <1>2, <1>7, WritesFurther
<1>8. ASSUME NEW n \in 1 .. 9, NEW b \in BOOLEAN,
             Gateway!Goto(t, n, [task[t] EXCEPT !.live = b])
      PROVE  OnWay(t)
  BY <1>2, <1>8, WritesFurther
<1>9. QED
  BY <1>1, <1>3, <1>4, <1>5, <1>6, <1>7, <1>8

LEMMA StaysItsCalls ==
  ASSUME Typed, NEW t \in Slots, Gateway!Continue(t)
  PROVE  OnWay(t)
<1> DEFINE q == task[t]
<1>0. q \in Gateway!TaskState
  BY DEF Typed, Gateway!TypeOK
<1>1. CASE Gateway!Lock(t) \/ Gateway!Unlock(t) \/ Gateway!Mark(t) \/ Gateway!Unmark(t)
           \/ Gateway!Wipe(t) \/ Gateway!Enlist(t) \/ Gateway!Delist(t)
           \/ Gateway!DelistDelete(t) \/ Gateway!SweepRemove(t) \/ Gateway!SweepDelete(t)
  <2>1. Gateway!Advance(t)
    BY <1>1 DEF Gateway!Lock, Gateway!Unlock, Gateway!Mark, Gateway!Unmark, Gateway!Wipe,
      Gateway!Enlist, Gateway!Delist, Gateway!DelistDelete, Gateway!SweepRemove,
      Gateway!SweepDelete
  <2>2. QED
    BY <2>1, OnItsWay
<1>2. CASE Gateway!Invite(t) \/ Gateway!Schedule(t) \/ Gateway!Uninvite(t)
           \/ Gateway!Cancel(t) \/ Gateway!UninviteAll(t) \/ Gateway!DropUnmark(t)
           \/ Gateway!DropSockDelete(t)
  <2>1. Gateway!Advance(t)
    BY <1>2 DEF Gateway!Invite, Gateway!Schedule, Gateway!Uninvite, Gateway!Cancel,
      Gateway!UninviteAll, Gateway!DropUnmark, Gateway!DropSockDelete
  <2>2. QED
    BY <2>1, OnItsWay
<1>3. CASE Gateway!LockRead(t) \/ Gateway!ReadInvite(t) \/ Gateway!Leave(t)
  <2>1. Gateway!Advance(t) \/ Gateway!Answer(t)
    BY <1>3 DEF Gateway!LockRead, Gateway!ReadInvite, Gateway!Leave
  <2>2. QED
    BY <2>1, OnItsWay
<1>4. CASE Gateway!DelistCount(t) \/ Gateway!ReadParts(t) \/ Gateway!DropRead(t)
           \/ Gateway!DropSockRead(t)
  <2>1. PICK n \in 1 .. 9 : Gateway!Advance(t) \/ Gateway!Goto(t, n, q)
    BY <1>4 DEF Gateway!DelistCount, Gateway!ReadParts, Gateway!DropRead, Gateway!DropSockRead
  <2>2. QED
    BY <2>1, OnItsWay
<1>5. CASE Gateway!Lost(t) \/ Gateway!Create(t) \/ Gateway!AcceptCall(t)
  <2>1. Gateway!Goto(t, 1, q) \/ Gateway!Answer(t)
    BY <1>5 DEF Gateway!Lost, Gateway!Create, Gateway!AcceptCall, Gateway!AfterGrpc
  <2>2. QED
    BY <2>1, OnItsWay
<1>6. CASE Gateway!EndCall(t)
  <2>1. PICK b \in BOOLEAN : Gateway!Goto(t, 1, [q EXCEPT !.live = b]) \/ Gateway!Answer(t)
    BY <1>6 DEF Gateway!EndCall, Gateway!AfterGrpc
  <2>2. QED
    BY <2>1, OnItsWay
<1>7. CASE Gateway!Validate(t)
  <2>1. Proper(q) /\ Gateway!At(t, "validate")
    BY <1>7 DEF Gateway!Validate, Typed
  <2>2. q.user \in People
    BY <1>0, <2>1, AtStands, StepPlaces DEF Proper, Gateway!TaskState
  <2>3. \/ Gateway!Goto(t, 2, q) \/ Gateway!Answer(t)
        \/ Gateway!Goto(t, 1, [q EXCEPT !.stale = {q.user}])
    BY <1>7 DEF Gateway!Validate
  <2>4. QED
    BY <2>2, <2>3, OnItsWay
<1>8. CASE Gateway!ValidateTargets(t)
  <2>1. PICK m \in SUBSET People : Gateway!Goto(t, 1, [q EXCEPT !.stale = m])
    BY <1>8 DEF Gateway!ValidateTargets
  <2>2. QED
    BY <2>1, OnItsWay
<1>9. CASE Gateway!ClearStale(t)
  <2>1. PICK m \in SUBSET People : Gateway!Goto(t, 1, [q EXCEPT !.stale = m])
    BY <1>9 DEF Gateway!ClearStale
  <2>2. QED
    BY <2>1, OnItsWay
<1>10. CASE Gateway!ClaimRead(t) \/ Gateway!ClaimWrite(t)
  <2>1. Proper(q) /\ (Gateway!At(t, "claimRead") \/ Gateway!At(t, "claimWrite"))
    BY <1>10 DEF Gateway!ClaimRead, Gateway!ClaimWrite, Typed
  <2>2. q.user \in People
    BY <1>0, <2>1, AtStands, StepPlaces DEF Proper, Gateway!TaskState
  <2>3. callSock[q.user] \in MaybeSocket /\ Nobody \in MaybeSocket
    BY <2>2 DEF Typed, Gateway!TypeOK, MaybeSocket
  <2>4. PICK s \in MaybeSocket : Gateway!Goto(t, 1, [q EXCEPT !.seen = s])
    BY <1>10, <2>3 DEF Gateway!ClaimRead, Gateway!ClaimWrite
  <2>5. QED
    BY <2>4, OnItsWay
<1>11. CASE Gateway!SweepRead(t)
  <2>1. Proper(q) /\ Gateway!At(t, "sweepRead")
    BY <1>11 DEF Gateway!SweepRead, Typed
  <2>2. q.user \in People
    BY <1>0, <2>1, AtStands, StepPlaces DEF Proper, Gateway!TaskState
  <2>3. index[q.user] \in SUBSET Calls
    BY <2>2 DEF Typed, Gateway!TypeOK
  <2>4. PICK e \in SUBSET Calls :
          Gateway!Goto(t, 5, q) \/ Gateway!Goto(t, 1, [q EXCEPT !.swept = e])
    BY <1>11, <2>3 DEF Gateway!SweepRead
  <2>5. QED
    BY <2>4, OnItsWay
<1>12. CASE Gateway!SweepCount(t)
  <2>1. {d \in q.swept : present[d] = {}} \in SUBSET Calls
    BY <1>0 DEF Gateway!TaskState
  <2>2. PICK e \in SUBSET Calls : Gateway!Goto(t, 1, [q EXCEPT !.swept = e])
    BY <1>12, <2>1 DEF Gateway!SweepCount
  <2>3. QED
    BY <2>2, OnItsWay
<1>13. CASE Gateway!SweepWipe(t)
  <2>1. PICK e \in SUBSET Calls : Gateway!Goto(t, 1, [q EXCEPT !.swept = e])
    BY <1>13 DEF Gateway!SweepWipe
  <2>2. QED
    BY <2>1, OnItsWay
<1>14. QED
  BY <1>1, <1>2, <1>3, <1>4, <1>5, <1>6, <1>7, <1>8, <1>9, <1>10, <1>11, <1>12, <1>13
  DEF Gateway!Continue

\* A handler writes the record and the jobs of its own call.
OwnCallOnly(t) ==
  /\ \A d \in Calls : status'[d] # status[d] => d = task[t].call
  /\ \A u \in People, d \in Calls : <<u, d>> \in jobs' => <<u, d>> \in jobs \/ d = task[t].call

LEMMA WritesItsCall ==
  ASSUME Typed, NEW t \in Slots, Gateway!Continue(t)
  PROVE  OwnCallOnly(t)
<1> USE DEF Gateway!db, Gateway!redis
<1>1. CASE Gateway!Create(t) \/ Gateway!AcceptCall(t) \/ Gateway!EndCall(t)
  <2>1. jobs' = jobs
    BY <1>1 DEF Gateway!Create, Gateway!AcceptCall, Gateway!EndCall
  <2>2. ASSUME NEW d \in Calls, d # task[t].call PROVE status'[d] = status[d]
    BY <1>1, <2>2 DEF Gateway!Create, Gateway!AcceptCall, Gateway!EndCall, Typed, Gateway!TypeOK
  <2>3. QED
    BY <2>1, <2>2 DEF OwnCallOnly
<1>2. CASE Gateway!Schedule(t) \/ Gateway!Cancel(t)
  <2>1. status' = status
    BY <1>2 DEF Gateway!Schedule, Gateway!Cancel
  <2>2. ASSUME NEW u \in People, NEW d \in Calls, <<u, d>> \in jobs', <<u, d>> \notin jobs
        PROVE  d = task[t].call
    BY <1>2, <2>2 DEF Gateway!Schedule, Gateway!Cancel
  <2>3. QED
    BY <2>1, <2>2 DEF OwnCallOnly
<1>3. CASE Gateway!Validate(t) \/ Gateway!ValidateTargets(t) \/ Gateway!ClearStale(t)
           \/ Gateway!Lost(t) \/ Gateway!LockRead(t) \/ Gateway!Lock(t) \/ Gateway!Unlock(t)
           \/ Gateway!Mark(t) \/ Gateway!ClaimRead(t) \/ Gateway!ClaimWrite(t)
  BY <1>3 DEF Gateway!Validate, Gateway!ValidateTargets, Gateway!ClearStale, Gateway!Lost,
    Gateway!LockRead, Gateway!Lock, Gateway!Unlock, Gateway!Mark, Gateway!ClaimRead,
    Gateway!ClaimWrite, OwnCallOnly
<1>4. CASE Gateway!Unmark(t) \/ Gateway!Wipe(t) \/ Gateway!Enlist(t) \/ Gateway!Delist(t)
           \/ Gateway!DelistCount(t) \/ Gateway!DelistDelete(t)
  BY <1>4 DEF Gateway!Unmark, Gateway!Wipe, Gateway!Enlist, Gateway!Delist,
    Gateway!DelistCount, Gateway!DelistDelete, OwnCallOnly
<1>5. CASE Gateway!SweepRead(t) \/ Gateway!SweepRemove(t) \/ Gateway!SweepCount(t)
           \/ Gateway!SweepWipe(t) \/ Gateway!SweepDelete(t)
  BY <1>5 DEF Gateway!SweepRead, Gateway!SweepRemove, Gateway!SweepCount, Gateway!SweepWipe,
    Gateway!SweepDelete, OwnCallOnly
<1>6. CASE Gateway!Invite(t) \/ Gateway!Uninvite(t) \/ Gateway!UninviteAll(t)
           \/ Gateway!ReadInvite(t) \/ Gateway!ReadParts(t)
  BY <1>6 DEF Gateway!Invite, Gateway!Uninvite, Gateway!UninviteAll, Gateway!ReadInvite,
    Gateway!ReadParts, OwnCallOnly
<1>7. CASE Gateway!DropRead(t) \/ Gateway!DropUnmark(t) \/ Gateway!DropSockRead(t)
           \/ Gateway!DropSockDelete(t) \/ Gateway!Leave(t)
  BY <1>7 DEF Gateway!DropRead, Gateway!DropUnmark, Gateway!DropSockRead,
    Gateway!DropSockDelete, Gateway!Leave, OwnCallOnly
<1>8. QED
  BY <1>1, <1>2, <1>3, <1>4, <1>5, <1>6, <1>7 DEF Gateway!Continue

\* A handler that was alone goes on alone.
LEMMA StaysAlone ==
  ASSUME Typed, NEW c \in Calls, NEW t \in Slots, Gateway!Continue(t)
  PROVE  (Alone(c) => Alone(c)') /\ (Only(c) => Only(c)')
<1>1. PICK p \in Gateway!TaskState :
        task' = [task EXCEPT ![t] = p] /\ (p = Gateway!Idle \/ Alike(p, task[t]))
  BY StaysItsCalls DEF OnWay
<1>2. \A s \in Slots : \/ task'[s].call = task[s].call /\ task'[s].kind = task[s].kind
                       \/ task'[s].call = Nobody /\ task'[s].kind = "none"
  BY <1>1, IdleType, NobodyIs DEF Alike, Typed, Gateway!TypeOK
<1>3. Alone(c) => Alone(c)'
  BY <1>2, NobodyIs DEF Alone
<1>4. ASSUME Only(c) PROVE Only(c)'
  <2>1. task[t].call \in {c, Nobody} /\ OwnCallOnly(t)
    BY <1>4, WritesItsCall DEF Only
  <2>2. \A d \in Calls : d # c => status'[d] = status[d]
    BY <2>1, NobodyIs DEF OwnCallOnly
  <2>3. \A u \in People, d \in Calls : <<u, d>> \in jobs' => d = c
    BY <1>4, <2>1, NobodyIs DEF OwnCallOnly, Only
  <2>4. \A d \in Calls : Gateway!Exists(d)' => d = c
    BY <1>4, <2>2 DEF Only, Gateway!Exists
  <2>5. QED
    BY <1>2, <1>4, <2>3, <2>4 DEF Only
<1>5. QED
  BY <1>3, <1>4

-------------------------------------------------------------------------------
(* A handler that starts has read nothing. *)

IsStarted(t, p, kind, u, s, d) ==
  /\ task' = [task EXCEPT ![t] = p] /\ task[t] = Gateway!Idle
  /\ p.kind = kind /\ p.at = 1 /\ p.user = u /\ p.sock = s /\ p.call = d /\ p.stale = {}

LEMMA StartIs ==
  ASSUME NEW t \in Slots, NEW kind \in Kinds, NEW u \in People,
         NEW s \in MaybeSocket, NEW d \in MaybeCall, NEW as \in Gateway!EndStatus,
         Gateway!Start(t, kind, u, s, d, as)
  PROVE  \E p \in Gateway!TaskState : IsStarted(t, p, kind, u, s, d)
<1> DEFINE p == Begun(kind, u, s, d, as)
<1>1. task' = [task EXCEPT ![t] = p] /\ task[t] = Gateway!Idle
  BY DEF Gateway!Start, Begun
<1>2. IsBegun(p, kind, u, s, d, as)
  BY BegunType
<1> HIDE DEF p
<1>3. QED
  BY <1>1, <1>2 DEF IsBegun, IsStarted

\* What is known of call c: of its sets, if its handlers were alone, and of the devices, if no
\* other call was requested.
Orderly(c) ==
  c \notin met \union cut => /\ Alone(c) /\ Sets(c)
                             /\ asked \subseteq {c} => Only(c) /\ Show(c)

\* It finds no other handler of its call, or the two have met.
LEMMA StartsAlone ==
  ASSUME Typed, NEW c \in Calls, Alone(c), c \notin met' \union cut',
         NEW t \in Slots, NEW kind \in Kinds, NEW u \in People,
         NEW s \in MaybeSocket, NEW d \in MaybeCall, NEW as \in Gateway!EndStatus,
         Gateway!Start(t, kind, u, s, d, as), kind = "drop" => d = Nobody
  PROVE  Alone(c)'
<1>1. PICK p \in Gateway!TaskState : IsStarted(t, p, kind, u, s, d)
  BY StartIs
<1>2. task \in [Slots -> Gateway!TaskState] /\ task'[t] = p /\ p.call = d /\ p.kind = kind
  BY <1>1 DEF Typed, Gateway!TypeOK, IsStarted
<1>3. /\ d = c => \A r \in Slots : task[r].call # c
      /\ d = c => \A r \in Slots : task[r].kind # "drop"
      /\ kind = "drop" => \A r \in Slots : task[r].call # c
  BY DEF Gateway!Start
<1>4. \A r \in Slots : r # t => task'[r] = task[r]
  BY <1>1 DEF Typed, Gateway!TypeOK, IsStarted
<1>5. QED
  BY <1>2, <1>3, <1>4, NobodyIs DEF Alone

LEMMA StartsSets ==
  ASSUME Typed, NEW c \in Calls, Sets(c),
         NEW t \in Slots, NEW kind \in Kinds, NEW u \in People,
         NEW s \in MaybeSocket, NEW d \in MaybeCall, NEW as \in Gateway!EndStatus,
         Gateway!Start(t, kind, u, s, d, as), UNCHANGED <<present, index>>
  PROVE  Sets(c)'
<1>1. PICK p \in Gateway!TaskState : IsStarted(t, p, kind, u, s, d)
  BY StartIs
<1>2. /\ task' = [task EXCEPT ![t] = p] /\ Counts(p, c) /\ ~Sweeping(task[t])
  BY <1>1, IdleType DEF IsStarted, Counts, Sweeping
<1>3. QED
  BY <1>2, SetsPlain

\* Fewer devices show the call.
LEMMA ShowsLess ==
  ASSUME Typed, NEW c \in Calls, Show(c), NEW t \in Slots, NEW p \in Gateway!TaskState,
         task' = [task EXCEPT ![t] = p], Holds(p)', UNCHANGED <<callSock, inCall, status>>,
         online' \subseteq online, \A r \in Devices : holds'[r] \in {holds[r], Nobody},
         \A r \in Devices : holds'[r] # Nobody /\ r \in online => r \in online'
  PROVE  Show(c)'
<1>1. task \in [Slots -> Gateway!TaskState] /\ task'[t] = p
  BY DEF Typed, Gateway!TypeOK
<1>2. ASSUME NEW r \in Slots PROVE Holds(task[r])'
  <2>1. CASE r = t
    BY <1>1, <2>1
  <2>2. CASE r # t
    <3>1. task'[r] = task[r] /\ Holds(task[r])
      BY <1>1, <2>2 DEF Show
    <3>2. QED
      BY <3>1 DEF Holds, Claiming, Gateway!Exists
  <2>3. QED
    BY <2>1, <2>2
<1>3. QED
  BY <1>2 DEF Show, Gateway!Exists

\* A handler of another call starts only if one was requested.
LEMMA StartsOnly ==
  ASSUME Typed, NEW c \in Calls, Only(c),
         NEW t \in Slots, NEW kind \in Kinds, NEW u \in People,
         NEW s \in MaybeSocket, NEW d \in {c, Nobody}, NEW as \in Gateway!EndStatus,
         Gateway!Start(t, kind, u, s, d, as), status' = status, jobs' \subseteq jobs
  PROVE  Only(c)'
<1>1. PICK p \in Gateway!TaskState : IsStarted(t, p, kind, u, s, d)
  BY StartIs DEF MaybeCall
<1>2. \A r \in Slots : task'[r].call \in {task[r].call, d}
  BY <1>1 DEF Typed, Gateway!TypeOK, IsStarted
<1>3. QED
  BY <1>2 DEF Only, Gateway!Exists

LEMMA ReceiveKeeps ==
  ASSUME Typed, NEW c \in Calls, Orderly(c), NEW t \in Slots, NEW s \in Devices, NEW d \in Calls,
         NEW kind \in {"request", "accept", "join", "end"}, NEW as \in Gateway!EndStatus,
         Gateway!Receive(t, s, kind, d, as)
  PROVE  Orderly(c)'
<1> USE DEF Gateway!db, Gateway!redis, Gateway!clients
<1>1. PICK u \in People : u = DeviceOwner[s]
  BY OwnerIs
<1>2. /\ Gateway!Start(t, kind, u, s, d, as)
      /\ kind \in Kinds /\ kind # "drop" /\ s \in MaybeSocket /\ d \in MaybeCall
  BY <1>1 DEF Gateway!Receive, Kinds, MaybeSocket, MaybeCall
<1>3. UNCHANGED <<present, index, holds, online, callSock, inCall, status, jobs>>
  BY DEF Gateway!Receive
<1>4. SUFFICES ASSUME c \notin met' \union cut'
               PROVE  /\ Alone(c)' /\ Sets(c)'
                      /\ asked' \subseteq {c} => Only(c)' /\ Show(c)'
  BY DEF Orderly
<1>5. /\ Alone(c) /\ Sets(c)
      /\ asked' \subseteq {c} => Only(c) /\ Show(c)
  BY <1>2, <1>4 DEF Gateway!Start, Orderly
<1>6. Alone(c)'
  BY <1>2, <1>4, <1>5, StartsAlone
<1>7. Sets(c)'
  BY <1>2, <1>3, <1>5, StartsSets
<1>8. ASSUME asked' \subseteq {c} PROVE Only(c)' /\ Show(c)'
  <2>1. IF kind = "request" THEN ~Gateway!Exists(d) ELSE Gateway!Exists(d)
    BY DEF Gateway!Receive, Gateway!Fresh, Gateway!Announced
  <2>2. d = c
    BY <1>2, <1>5, <1>8, <2>1 DEF Gateway!Start, Only
  <2>3. Only(c)'
    BY <1>2, <1>3, <1>5, <1>8, <2>2, StartsOnly
  <2>4. PICK p \in Gateway!TaskState : IsStarted(t, p, kind, u, s, d)
    BY <1>2, StartIs
  <2>5. Holds(p)'
    BY <1>1, <1>2, <1>3, <2>1, <2>4 DEF IsStarted, Holds, Claiming, Gateway!Exists
  <2>6. QED
    BY <1>3, <1>5, <1>8, <2>3, <2>4, <2>5, ShowsLess DEF IsStarted
<1>9. QED
  BY <1>6, <1>7, <1>8

LEMMA JobDueKeeps ==
  ASSUME Typed, NEW c \in Calls, Orderly(c), NEW t \in Slots, NEW u \in People, NEW d \in Calls,
         Gateway!JobDue(t, u, d)
  PROVE  Orderly(c)'
<1> USE DEF Gateway!db, Gateway!redis, Gateway!clients
<1>1. Nobody \in MaybeSocket /\ d \in MaybeCall /\ "miss" \in Kinds /\ "missed" \in Gateway!EndStatus
  BY DEF Kinds, MaybeSocket, MaybeCall, Gateway!EndStatus
<1>2. Gateway!Start(t, "miss", u, Nobody, d, "missed") /\ <<u, d>> \in jobs /\ jobs' \subseteq jobs
  BY DEF Gateway!JobDue
<1>3. UNCHANGED <<present, index, holds, online, callSock, inCall, status>>
  BY DEF Gateway!JobDue
<1>4. SUFFICES ASSUME c \notin met' \union cut'
               PROVE  /\ Alone(c)' /\ Sets(c)'
                      /\ asked' \subseteq {c} => Only(c)' /\ Show(c)'
  BY DEF Orderly
<1>5. /\ Alone(c) /\ Sets(c)
      /\ asked' \subseteq {c} => Only(c) /\ Show(c)
  BY <1>2, <1>4 DEF Gateway!Start, Orderly
<1>6. Alone(c)'
  BY <1>1, <1>2, <1>4, <1>5, StartsAlone
<1>7. Sets(c)'
  BY <1>1, <1>2, <1>3, <1>5, StartsSets
<1>8. ASSUME asked' \subseteq {c} PROVE Only(c)' /\ Show(c)'
  <2>1. d = c
    BY <1>2, <1>5, <1>8 DEF Only
  <2>2. Only(c)'
    BY <1>1, <1>2, <1>3, <1>5, <1>8, <2>1, StartsOnly
  <2>3. PICK p \in Gateway!TaskState : IsStarted(t, p, "miss", u, Nobody, d)
    BY <1>1, <1>2, StartIs
  <2>4. Holds(p)'
    BY <2>3 DEF IsStarted, Holds, Claiming
  <2>5. QED
    BY <1>3, <1>5, <1>8, <2>2, <2>3, <2>4, ShowsLess DEF IsStarted
<1>9. QED
  BY <1>6, <1>7, <1>8

LEMMA DisconnectKeeps ==
  ASSUME Typed, NEW c \in Calls, Orderly(c), NEW t \in Slots, NEW s \in Devices,
         Gateway!Disconnect(t, s)
  PROVE  Orderly(c)'
<1> USE DEF Gateway!db, Gateway!redis
<1>1. PICK u \in People : u = DeviceOwner[s]
  BY OwnerIs
<1>2. /\ Gateway!Start(t, "drop", u, s, Nobody, "ended") /\ "drop" \in Kinds
      /\ s \in MaybeSocket /\ Nobody \in MaybeCall /\ "ended" \in Gateway!EndStatus
  BY <1>1 DEF Gateway!Disconnect, Kinds, MaybeSocket, MaybeCall, Gateway!EndStatus
<1>3. /\ UNCHANGED <<present, index, callSock, inCall, status, jobs>>
      /\ online' = online \ {s} /\ holds' = [holds EXCEPT ![s] = Nobody]
  BY DEF Gateway!Disconnect
<1>4. SUFFICES ASSUME c \notin met' \union cut'
               PROVE  /\ Alone(c)' /\ Sets(c)'
                      /\ asked' \subseteq {c} => Only(c)' /\ Show(c)'
  BY DEF Orderly
<1>5. /\ Alone(c) /\ Sets(c)
      /\ asked' \subseteq {c} => Only(c) /\ Show(c)
  BY <1>2, <1>4 DEF Gateway!Start, Orderly
<1>6. Alone(c)'
  BY <1>2, <1>4, <1>5, StartsAlone
<1>7. Sets(c)'
  BY <1>2, <1>3, <1>5, StartsSets
<1>8. ASSUME asked' \subseteq {c} PROVE Only(c)' /\ Show(c)'
  <2>1. Only(c)'
    BY <1>2, <1>3, <1>5, <1>8, StartsOnly
  <2>2. PICK p \in Gateway!TaskState : IsStarted(t, p, "drop", u, s, Nobody)
    BY <1>2, StartIs
  <2>3. Holds(p)'
    BY <1>3, <2>2 DEF IsStarted, Holds, Claiming
  <2>4. /\ \A r \in Devices : holds'[r] \in {holds[r], Nobody}
        /\ \A r \in Devices : holds'[r] # Nobody /\ r \in online => r \in online'
    BY <1>3 DEF Typed, Gateway!TypeOK
  <2>5. QED
    BY <1>3, <1>5, <1>8, <2>1, <2>2, <2>3, <2>4, ShowsLess DEF IsStarted
<1>9. QED
  BY <1>6, <1>7, <1>8

LEMMA RestKeeps ==
  ASSUME NEW c \in Calls, Orderly(c),
         UNCHANGED <<present, index, holds, online, callSock, inCall, status, jobs, task, met, cut,
                     asked>>
  PROVE  Orderly(c)'
<1>1. Alone(c) => Alone(c)'
  BY DEF Alone
<1>2. Sets(c) => Sets(c)'
  BY DEF Sets, Counts, Sweeping
<1>3. Only(c) => Only(c)'
  BY DEF Only, Gateway!Exists
<1>4. Show(c) => Show(c)'
  BY DEF Show, Holds, Claiming, Gateway!Exists
<1>5. QED
  BY <1>1, <1>2, <1>3, <1>4 DEF Orderly

LEMMA ContinueKeeps ==
  ASSUME Typed, NEW c \in Calls, Orderly(c), NEW t \in Slots, Gateway!Continue(t)
  PROVE  Orderly(c)'
<1>1. UNCHANGED <<met, cut, asked>>
  BY StepMeetsNone
<1>2. ASSUME Alone(c) PROVE Kept(c)
  BY <1>2, HandlerStep, ValidateKeeps, ValidateTargetsKeeps, ClearStaleKeeps, DeviceCreateKeeps,
     EndCallKeeps, DeviceMarkKeeps, ClaimWriteKeeps, UnmarkKeeps, WipeKeeps, DropSockDeleteKeeps,
     EnlistKeeps, DelistKeeps, DelistCountKeeps, DelistDeleteKeeps, SweepReadKeeps,
     SweepRemoveKeeps, SweepCountKeeps, SweepWipeKeeps, SweepDeleteKeeps
<1>3. QED
  BY <1>1, <1>2, StaysAlone DEF Orderly, Kept

LEMMA DevicesStep ==
  ASSUME Typed, NEW c \in Calls, Orderly(c), [Gateway!Next]_devices
  PROVE  Orderly(c)'
<1> USE DEF devices, Gateway!db, Gateway!redis, Gateway!clients, Gateway!hist, Gateway!past
<1>1. ASSUME NEW s \in Devices, Gateway!Toggle(s) PROVE Orderly(c)'
  BY <1>1, RestKeeps DEF Gateway!Toggle
<1>2. CASE UNCHANGED devices
  BY <1>2, RestKeeps
<1>3. "ended" \in Gateway!EndStatus
  BY DEF Gateway!EndStatus
<1>4. CASE Gateway!Next
  BY <1>1, <1>3, <1>4, ContinueKeeps, ReceiveKeeps, JobDueKeeps, DisconnectKeeps
  DEF Gateway!Next, Gateway!RunJob
<1>5. QED
  BY <1>2, <1>4

LEMMA DevicesFirst ==
  ASSUME Gateway!Init, NEW c \in Calls PROVE Orderly(c)
<1>1. \A t \in Slots : task[t] = Gateway!Idle
  BY DEF Gateway!Init
<1>2. Alone(c) /\ Only(c)
  BY <1>1, IdleType, NobodyIs DEF Gateway!Init, Alone, Only, Gateway!Exists
<1>3. Sets(c)
  BY <1>1, IdleType DEF Gateway!Init, Sets, Counts, Sweeping
<1>4. Holds(Gateway!Idle)
  BY IdleType DEF Holds, Claiming, Gateway!Idle
<1>5. Show(c)
  BY <1>1, <1>4 DEF Gateway!Init, Show
<1>6. QED
  BY <1>2, <1>3, <1>5 DEF Orderly

DevicesInv == part = "devices" => Typed /\ \A c \in Calls : Orderly(c)

LEMMA DevicesInvariance == AllSpec => []DevicesInv
<1>1. AllInit => DevicesInv
  BY TypedFirst, DevicesFirst DEF AllInit, DevicesInv
<1>2. DevicesInv /\ [AllNext]_allVars => DevicesInv'
  <2> SUFFICES ASSUME DevicesInv, [AllNext]_allVars, part' = "devices"
               PROVE  Typed' /\ \A c \in Calls : Orderly(c)'
    BY DEF DevicesInv
  <2>1. part = "devices" /\ [Gateway!Next]_devices
    BY DEF AllNext, allVars
  <2>2. Typed'
    BY <2>1, TypedStep DEF DevicesInv
  <2>3. ASSUME NEW c \in Calls PROVE Orderly(c)'
    BY <2>1, <2>3, DevicesStep DEF DevicesInv
  <2>4. QED
    BY <2>2, <2>3
<1>3. QED
  BY <1>1, <1>2, PTL DEF AllSpec

LEMMA LockstepFollows == DevicesInv => (part = "devices" => Gateway!Lockstep)
<1> SUFFICES ASSUME DevicesInv, part = "devices", NEW c \in Calls \ cut, NEW u \in People,
                    Gateway!Settled(c),
                    \A t \in Slots : task[t].kind = "drop" => task[t].user # u
             PROVE  u \in present[c] <=> c \in index[u]
  BY DEF Gateway!Lockstep
<1>1. Sets(c)
  BY DEF DevicesInv, Orderly, Gateway!Settled
<1>2. QED
  BY <1>1 DEF Sets, Sweeping

\* As long as no two handlers of a call ran at once and none beside a handleDisconnect, the
\* participant set of the call and the reverse index agree whenever none of its handlers runs:
\* whatever the handlers of other calls do meanwhile, whatever the messages, the disconnects
\* and the failures of the chat service (call.gateway.ts, addCallParticipant,
\* removeCallParticipant and sweepUserFromAllCalls).
THEOREM SetsAndIndexAgree == AllSpec => [](part = "devices" => Gateway!Lockstep)
<1>1. QED
  BY LockstepFollows, DevicesInvariance, PTL

\* If no other call was requested, besides, one device of a user is left in it: the socket
\* that USER_CALL_SOCKET names, which is connected (call.gateway.ts, claimCallSocket).
THEOREM OneDeviceShowsTheCall == AllSpec => []DevicesAgree
<1>1. DevicesInv => DevicesAgree
  <2> SUFFICES ASSUME DevicesInv, part = "devices" PROVE Gateway!Lockstep /\ Gateway!OneDevice
    BY DEF DevicesAgree
  <2>1. ASSUME NEW c \in Calls \ cut, Gateway!Settled(c), asked = {c},
               NEW s \in Devices, NEW r \in Devices,
               holds[s] = c, holds[r] = c, DeviceOwner[s] = DeviceOwner[r]
        PROVE  s = r
    <3>1. Show(c)
      BY <2>1 DEF DevicesInv, Orderly, Gateway!Settled
    <3>2. QED
      BY <2>1, <3>1, NobodyIs DEF Show
  <2>2. Gateway!OneDevice
    BY <2>1 DEF Gateway!OneDevice
  <2>3. QED
    BY <2>2, LockstepFollows
<1>2. QED
  BY <1>1, DevicesInvariance, PTL

===============================================================================
