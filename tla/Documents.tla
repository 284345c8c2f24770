------------------------------- MODULE Documents -------------------------------
(***************************************************************************)
(* Documents edited together: documents.service.ts, await by await, and    *)
(* the /doc gateway that opens them, relays the edits and has them saved.  *)
(*                                                                         *)
(* Content is a set of edits: Yjs merges by union, in any order.  One room *)
(* stands for the rooms a document is shared in.  A user has one socket.   *)
(* What is emitted to a socket arrives while it is connected.  Titles, *)
(* names, the plain text, which follows the snapshot, and what is told to  *)
(* the notifications and to the embedding are left out.                    *)
(***************************************************************************)
EXTENDS Naturals, Sequences, FiniteSets

CONSTANTS Users, Docs, Edits,
          Requests,   \* bound: requests handled at a time
          None, Gone, \* a document not made yet, and a deleted one
          MaxBegun,   \* bound: requests in all
          MaxMade,    \* bound: documents made otherwise than by a copy
          Member      \* each user's role in the room; Rooms has it change

VARIABLES docs,      \* the documents
          sock,      \* the sockets, with the document in the editor
          req,       \* requests in progress
          acked,     \* history: edits whose save was answered
          announced, \* history: those of them that were saved by a socket, with its user
          parallel,  \* history: edits saved while another save of theirs went on
          granted,   \* history: the role the owner gave last
          blurred,   \* history: users whose entry two requests were about at once
          begun

vars == <<docs, sock, req, acked, announced, parallel, granted, blurred, begun>>

Visibility == {"private", "room", "public"}
Roles == {"viewer", "editor"}

Doc == [owner : Users, visibility : Visibility,
        inRoom : BOOLEAN,                              \* roomIds is not empty
        shared : [Users -> Seq(Roles)],                \* sharedWith: each user's entries
        snapshot : SUBSET Edits]                       \* yjsSnapshot

\* No document is taken for one not made yet.
ASSUME ConstantsAssumption ==
  /\ MaxBegun \in Nat /\ MaxMade \in Nat /\ Member \in [Users -> {"none", "guest", "member"}]
  /\ None \notin Docs \union Users \union Doc \union {Gone}

NewDoc(u, v, in) == [owner |-> u, visibility |-> v, inRoom |-> in,
                     shared |-> [x \in Users |-> <<>>], snapshot |-> {}]

Socket == [rooms : SUBSET Docs, open : Docs \union {None}, ready : BOOLEAN, view : SUBSET Edits]

NoSocket == [rooms |-> {}, open |-> None, ready |-> FALSE, view |-> {}]

Ops == {"open", "save", "title", "copy", "share", "unshare", "show", "room", "delete"}

OwnerOps == {"share", "unshare", "show", "room", "delete"}

Request == [op : Ops, pc : {"idle", "read", "check", "write"},
            by : Users \union {None}, doc : Docs \union {None},
            got : Doc \union {None},          \* as it was read, until it is checked
            role : Roles \union {"none"},     \* in what was read, of the user or of
                                             \* whom it is shared with
            snap : SUBSET Edits,              \* the snapshot in it
            edits : SUBSET Edits,             \* to be saved
            socket : BOOLEAN,                 \* asked by a socket
            to : Users \union {None},         \* the user it is shared with
            give : Roles \union Visibility]   \* what is given

Idle == [op |-> "open", pc |-> "idle", by |-> None, doc |-> None, got |-> None,
         role |-> "none", snap |-> {}, edits |-> {}, socket |-> FALSE, to |-> None, give |-> "viewer"]

TypeOK ==
  /\ docs \in [Docs -> Doc \union {None, Gone}]
  /\ sock \in [Users -> Socket] /\ req \in [Requests -> Request]
  /\ acked \in [Docs -> SUBSET Edits] /\ announced \in [Docs -> SUBSET (Users \X Edits)]
  /\ parallel \in [Docs -> SUBSET Edits]
  /\ granted \in [Docs -> [Users -> Roles \union {"none"}]]
  /\ blurred \in [Docs -> SUBSET Users]
  /\ begun \in 0..MaxBegun

Init ==
  /\ docs = [d \in Docs |-> None]
  /\ sock = [u \in Users |-> NoSocket] /\ req = [r \in Requests |-> Idle]
  /\ acked = [d \in Docs |-> {}] /\ announced = acked /\ parallel = acked
  /\ granted = [d \in Docs |-> [u \in Users |-> "none"]]
  /\ blurred = [d \in Docs |-> {}]
  /\ begun = 0

history == <<acked, announced, parallel, granted, blurred>>

There(d) == docs[d] \notin {None, Gone}

-------------------------------------------------------------------------------
(* Access *)

\* find takes a user's first entry.
RoleOf(shared, u) == IF shared[u] = <<>> THEN "none" ELSE shared[u][1]

RoomRole(u) == CASE Member[u] = "none" -> "none" [] Member[u] = "guest" -> "viewer"
                 [] OTHER -> "editor"

\* As the aggregation shows it: the members of the room follow the entries.
FormattedRole(doc, u) ==
  LET role == RoleOf(doc.shared, u)
  IN  IF role = "none" /\ doc.inRoom THEN RoomRole(u) ELSE role

\* Mutant: the room is not looked up.
AccessByEntry(doc, role, u, edit) ==
  \/ doc.owner = u
  \/ role # "none" /\ (edit => role = "editor")
  \/ role = "none" /\ ~edit /\ doc.visibility = "public"

\* doc and role were read before, the room is looked up now.
Access(doc, role, u, edit) ==
  \/ doc.owner = u
  \/ /\ role # "none"
     /\ edit => role = "editor"
  \/ /\ role = "none" /\ doc.inRoom /\ RoomRole(u) # "none"
     /\ edit => RoomRole(u) = "editor"
  \/ /\ role = "none" /\ ~(doc.inRoom /\ RoomRole(u) # "none")
     /\ ~edit /\ doc.visibility = "public"

\* What a user is listed: their own documents outside of rooms, or those of the room.
Listed(u, room) ==
  {d \in Docs :
     /\ There(d) /\ docs[d].inRoom = room
     /\ \/ docs[d].owner = u \/ RoleOf(docs[d].shared, u) # "none"
        \/ docs[d].visibility = "public"
        \/ room /\ Member[u] # "none" /\ docs[d].visibility = "room"}

-------------------------------------------------------------------------------
(* Requests *)

\* The entries a request is about: an open may push its user's own.
About(q) == CASE q.op = "open" -> {q.by} [] q.op \in {"share", "unshare"} -> {q.to}
              [] OTHER -> {}

Busy(d) == {s \in Requests : req[s].pc # "idle" /\ req[s].doc = d}

Begin(r, q) ==
  LET d == q.doc
      saves == {s \in Busy(d) : req[s].op = "save"} IN
  /\ req[r] = Idle /\ begun < MaxBegun
  /\ req' = [req EXCEPT ![r] = [q EXCEPT !.pc = "read"]] /\ begun' = begun + 1
  /\ parallel' = IF q.op # "save" \/ saves = {} THEN parallel
                 ELSE [parallel EXCEPT ![d] = @ \union q.edits \union
                                              UNION {req[s].edits : s \in saves}]
  /\ blurred' = [blurred EXCEPT ![d] = @ \union
                   {u \in About(q) : \E s \in Busy(d) : u \in About(req[s])}]
  /\ UNCHANGED <<docs, acked, announced, granted>>

Answer(r) == req' = [req EXCEPT ![r] = Idle]

\* Whoever waits for a document that is not opened gives it up, and stays in its room.
Refuse(r) ==
  /\ Answer(r)
  /\ sock' = IF req[r].op = "open" /\ sock[req[r].by].open = req[r].doc
             THEN [sock EXCEPT ![req[r].by] = [NoSocket EXCEPT !.rooms = sock[req[r].by].rooms]]
             ELSE sock

\* The service dies with the request, or a read of it fails.
Fail(r) ==
  /\ req[r] # Idle /\ Refuse(r)
  /\ UNCHANGED <<docs, history, begun>>

\* The document is read; whoever is not its owner is sent away from the owner's requests.
Read(r) ==
  LET q == req[r]
      doc == docs[q.doc] IN
  /\ q.pc = "read"
  /\ IF ~There(q.doc) \/ (q.op \in OwnerOps /\ doc.owner # q.by) THEN Refuse(r)
     ELSE /\ req' = [req EXCEPT ![r] =
               IF q.op \in OwnerOps
               THEN [q EXCEPT !.pc = "write",
                              !.role = IF q.op = "share" THEN RoleOf(doc.shared, q.to)
                                       ELSE "none"]
               ELSE [q EXCEPT !.pc = "check", !.got = doc, !.snap = doc.snapshot,
                              !.role = IF q.op = "open" THEN FormattedRole(doc, q.by)
                                       ELSE RoleOf(doc.shared, q.by)]]
          /\ UNCHANGED sock
  /\ UNCHANGED <<docs, history, begun>>

\* Whether it is a visit: a public document remembers who came.
Visits(q) == q.got.visibility = "public" /\ q.got.owner # q.by /\ q.role = "none"

\* doc:opened: what was read joins what was received while it was read.
Opened(q) == IF sock[q.by].open = q.doc
             THEN [sock EXCEPT ![q.by].ready = TRUE, ![q.by].view = @ \union q.snap]
             ELSE sock

Check(r) ==
  LET q == req[r] IN
  /\ q.pc = "check"
  /\ IF ~Access(q.got, q.role, q.by, q.op \in {"save", "title"}) THEN Refuse(r)
     ELSE IF q.op = "open" /\ ~Visits(q) THEN Answer(r) /\ sock' = Opened(q)
     ELSE /\ req' = [req EXCEPT ![r] = [q EXCEPT !.pc = "write", !.got = None, !.role = "none"]]
          /\ UNCHANGED sock
  /\ UNCHANGED <<docs, history, begun>>

\* The write of a request, answered with it; nothing is written to a deleted document.
Writes(r, op) == req[r].pc = "write" /\ req[r].op = op

Set(d, doc) == docs' = IF There(d) THEN [docs EXCEPT ![d] = doc] ELSE docs

Entered(shared, u, role) == [shared EXCEPT ![u] = Append(@, role)]

-------------------------------------------------------------------------------
(* Sockets *)

\* Mutant: the editor does not wait for the document.
OpenAtOnce(r, u, d) ==
  /\ sock[u].open = None
  /\ \A s \in Requests : ~(req[s].op = "open" /\ req[s].by = u)
  /\ Begin(r, [Idle EXCEPT !.op = "open", !.by = u, !.doc = d, !.socket = TRUE])
  /\ sock' = [sock EXCEPT ![u].rooms = @ \union {d}, ![u].open = d, ![u].ready = TRUE]

\* doc:open: the socket joins the room of the document, then asks for it.
Open(r, u, d) ==
  /\ sock[u].open = None
  /\ \A s \in Requests : ~(req[s].op = "open" /\ req[s].by = u)  \* an earlier one is over
  /\ Begin(r, [Idle EXCEPT !.op = "open", !.by = u, !.doc = d, !.socket = TRUE])
  /\ sock' = [sock EXCEPT ![u].rooms = @ \union {d}, ![u].open = d]

\* GET of a document: nothing joins.
Get(r, u, d) ==
  /\ sock[u].open # d
  /\ Begin(r, [Idle EXCEPT !.op = "open", !.by = u, !.doc = d])
  /\ UNCHANGED sock

Visit(r) ==
  LET q == req[r]
      doc == docs[q.doc] IN
  /\ Writes(r, "open")
  /\ Set(q.doc, [doc EXCEPT !.shared = Entered(@, q.by, "viewer")])
  /\ sock' = Opened(q) /\ Answer(r)
  /\ UNCHANGED <<history, begun>>

\* What is emitted to the room of a document reaches the editors that have it open.
Tell(d, from, edits) ==
  [u \in Users |-> IF u # from /\ d \in sock[u].rooms /\ sock[u].open = d
                   THEN [sock[u] EXCEPT !.view = @ \union edits] ELSE sock[u]]

\* The user writes, and doc:broadcast relays it.
Edit(u, e) ==
  LET d == sock[u].open IN
  /\ sock[u].ready /\ \A v \in Users : e \notin sock[v].view
  /\ \A c \in Docs : There(c) => e \notin docs[c].snapshot \union acked[c]
  /\ \A s \in Requests : e \notin req[s].edits
  /\ sock' = [Tell(d, u, {e}) EXCEPT ![u].view = @ \union {e}]
  /\ UNCHANGED <<docs, req, history, begun>>

Close(u) ==
  /\ sock[u].ready
  /\ sock' = [sock EXCEPT ![u] = [NoSocket EXCEPT !.rooms = sock[u].rooms \ {sock[u].open}]]
  /\ UNCHANGED <<docs, req, history, begun>>

\* The connection is lost with the editor's content; it comes back without rooms.
Disconnect(u) ==
  /\ sock[u] # NoSocket
  /\ sock' = [sock EXCEPT ![u] = NoSocket]
  /\ UNCHANGED <<docs, req, history, begun>>

\* doc:change: all of the editor's content.
Save(r, u, viaSocket) ==
  /\ sock[u].ready /\ sock[u].view # {}
  /\ Begin(r, [Idle EXCEPT !.op = "save", !.by = u, !.doc = sock[u].open,
                           !.edits = sock[u].view, !.socket = viaSocket])
  /\ UNCHANGED sock

\* Mutant: what was read is written back.
MergedNothing(q) == q.snap

Merged(q) == q.snap \union q.edits

\* Unless its answer is lost, the others are told.
SaveWrite(r, answered) ==
  LET q == req[r] IN
  /\ Writes(r, "save")
  /\ Set(q.doc, [docs[q.doc] EXCEPT !.snapshot = Merged(q)])
  /\ Answer(r)
  /\ IF answered
     THEN /\ acked' = [acked EXCEPT ![q.doc] = @ \union q.edits]
          /\ IF q.socket
             THEN /\ announced' = [announced EXCEPT ![q.doc] = @ \union ({q.by} \X q.edits)]
                  /\ sock' = Tell(q.doc, q.by, q.edits)
             ELSE UNCHANGED <<announced, sock>>
     ELSE UNCHANGED <<acked, announced, sock>>
  /\ UNCHANGED <<parallel, granted, blurred, begun>>

-------------------------------------------------------------------------------
(* The owner's requests, and the copy *)

Create(u, d, v, in) ==
  /\ docs[d] = None /\ Cardinality({c \in Docs : docs[c] # None}) < MaxMade
  /\ begun < MaxBegun /\ begun' = begun + 1
  /\ docs' = [docs EXCEPT ![d] = NewDoc(u, v, in)]
  /\ UNCHANGED <<sock, req, history>>

\* The user a request names, and what it gives them.
Asked == ({"title", "copy", "room", "delete"} \X {None} \X {"viewer"})
           \union ({"show"} \X {None} \X Visibility)
           \union ({"share"} \X Users \X Roles) \union ({"unshare"} \X Users \X {"viewer"})

Ask(r, u, d, op, to, give) ==
  /\ docs[d] # None /\ to # u
  /\ Begin(r, [Idle EXCEPT !.op = op, !.by = u, !.doc = d, !.to = to, !.give = give])
  /\ UNCHANGED sock

\* The role of a user's first entry is set.
Reshared(shared, u, role) ==
  IF shared[u] = <<>> THEN shared
  ELSE [shared EXCEPT ![u] = [@ EXCEPT ![1] = role]]

\* Mutant: a user who is shared with gets another entry.
SharedAgain(q, shared) == Entered(shared, q.to, q.give)

\* Whoever had an entry in what was read has their role set.
Shared(q, shared) ==
  IF q.role # "none" THEN Reshared(shared, q.to, q.give)
  ELSE Entered(shared, q.to, q.give)

Share(r) ==
  LET q == req[r] IN
  /\ Writes(r, "share")
  /\ Set(q.doc, [docs[q.doc] EXCEPT !.shared = Shared(q, @)])
  /\ granted' = [granted EXCEPT ![q.doc][q.to] = q.give]
  /\ Answer(r)
  /\ UNCHANGED <<sock, acked, announced, parallel, blurred, begun>>

Unshared(q, shared) == [shared EXCEPT ![q.to] = <<>>]

Unshare(r) ==
  LET q == req[r] IN
  /\ Writes(r, "unshare")
  /\ Set(q.doc, [docs[q.doc] EXCEPT !.shared = Unshared(q, @)])
  /\ granted' = [granted EXCEPT ![q.doc][q.to] = "none"]
  /\ Answer(r)
  /\ UNCHANGED <<sock, acked, announced, parallel, blurred, begun>>

\* The writes that concern nothing but the document itself.
Plain(r, op, doc) ==
  /\ Writes(r, op) /\ Set(req[r].doc, doc) /\ Answer(r)
  /\ UNCHANGED <<sock, history, begun>>

\* The title itself is left out.
UpdateTitle(r) == Plain(r, "title", docs[req[r].doc])

UpdateVisibility(r) == Plain(r, "show", [docs[req[r].doc] EXCEPT !.visibility = req[r].give])

ShareForRoom(r) == Plain(r, "room", [docs[req[r].doc] EXCEPT !.inRoom = TRUE])

Delete(r) == Plain(r, "delete", Gone)

\* The copy is the user's own, with the content that was read.
Duplicate(r, d) ==
  LET q == req[r] IN
  /\ Writes(r, "copy") /\ docs[d] = None
  /\ docs' = [docs EXCEPT ![d] = [NewDoc(q.by, "private", FALSE) EXCEPT !.snapshot = q.snap]]
  /\ Answer(r)
  /\ UNCHANGED <<sock, history, begun>>

-------------------------------------------------------------------------------

Next ==
  \/ \E u \in Users :
       \/ Close(u) \/ Disconnect(u)
       \/ \E e \in Edits : Edit(u, e)
       \/ \E d \in Docs, v \in Visibility, in \in BOOLEAN : Create(u, d, v, in)
  \/ \E r \in Requests :
       \/ Read(r) \/ Check(r) \/ Visit(r) \/ Fail(r)
       \/ \E answered \in BOOLEAN : SaveWrite(r, answered)
       \/ Share(r) \/ Unshare(r) \/ UpdateTitle(r) \/ UpdateVisibility(r)
       \/ ShareForRoom(r) \/ Delete(r)
       \/ \E d \in Docs : Duplicate(r, d)
       \/ \E u \in Users :
            \/ \E d \in Docs : Open(r, u, d) \/ Get(r, u, d)
            \/ \E viaSocket \in BOOLEAN : Save(r, u, viaSocket)
            \/ \E d \in Docs, a \in Asked : Ask(r, u, d, a[1], a[2], a[3])

Spec == Init /\ [][Next]_vars

-------------------------------------------------------------------------------

\* A save that was answered and met no other save of the document stays in it: later
\* saves merge with what they read, and nobody wrote in between.
SavesAreKept ==
  \A d \in Docs : There(d) => acked[d] \ parallel[d] \subseteq docs[d].snapshot

\* Whoever has a document open has every edit that a save by another's socket put into
\* it, whether it was saved before they joined, while their copy was read, or after.
NothingMissed ==
  \A u \in Users : LET d == sock[u].open IN
    sock[u].ready /\ There(d) =>
      \A m \in announced[d] : m[1] # u /\ m[2] \notin parallel[d] => m[2] \in sock[u].view

\* A user's role is the one the owner gave last, unless two requests were about it at
\* once; who was never given one, or had it taken, is at most a viewer.
RoleIsLastGiven ==
  \A d \in Docs : There(d) =>
    \A u \in Users \ (blurred[d] \union {docs[d].owner}) :
      LET role == RoleOf(docs[d].shared, u) IN
      IF granted[d][u] = "none" THEN role # "editor" ELSE role = granted[d][u]

\* What a user is listed, outside of rooms or in one, they can open and copy.
ListedOpens ==
  \A u \in Users, room \in BOOLEAN : \A d \in Listed(u, room) :
    /\ Access(docs[d], FormattedRole(docs[d], u), u, FALSE)
    /\ Access(docs[d], RoleOf(docs[d].shared, u), u, FALSE)
================================================================================
