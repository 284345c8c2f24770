------------------------------- MODULE ChangeFeed -------------------------------
(***************************************************************************)
(* The change feed of the chat service: change-feed.service.ts, its trim   *)
(* job and the OUTBOX_APPEND consumer of handle-chat.controller.ts.        *)
(*                                                                         *)
(* A mutation takes a global sequence number (INCR), and later publishes   *)
(* the event on a one-partition Kafka topic; the consumer writes one row   *)
(* per recipient; a client pulls the rows above its cursor.  The Mongo     *)
(* rows of a user are kept in the order in which they expire, which is the *)
(* order of their last write.                                              *)
(***************************************************************************)
EXTENDS Naturals, Sequences, FiniteSets, SequencesExt

CONSTANTS Users,
          Rooms,       \* rooms whose new-message mark is compacted
          Cap,         \* CHANGEFEED_MAX_PER_USER
          Limit,       \* rows of a page
          MaxSeq,      \* bound: changes
          MaxFaults    \* bound: restarts of the chat service, failing writes and reads

ASSUME ConstantsAssumption ==
  /\ Cap \in Nat \ {0} /\ Limit \in Nat \ {0}
  /\ MaxSeq \in Nat /\ MaxFaults \in Nat

VARIABLES issued,    \* the changes by number; CHANGE_SEQ is its length
          taken,     \* numbers that a handler has taken and not published
          topic,     \* OUTBOX_APPEND: the numbers in order of arrival
          position,  \* events of the topic the consumer has handled
          committed, \* offset that is committed for certain
          written,   \* rows of the next event are written, dirty mark to come
          feed,      \* UserChangeEvents of each user
          dirty,     \* CHANGEFEED_DIRTY
          trim,      \* the trim job
          pull,      \* syncEvents call of each user's client
          cursor,    \* the client's cursor
          applied,   \* changes the client has seen
          hist,      \* history of each user's rows: see History
          crashes, fails

vars == <<issued, taken, topic, position, committed, written, feed, dirty,
          trim, pull, cursor, applied, hist, crashes, fails>>

Seqs == 1..MaxSeq

None == "none"           \* a row that is not a room.newmsgs mark

Change == [mark : Rooms \union {None}, to : (SUBSET Users) \ {{}}]

TrimState ==
  [pc : {"idle", "read", "delete"}, batch : SUBSET Users, left : SUBSET Users,
   on : SUBSET Users,      \* the user being trimmed
   cutoff : 0..MaxSeq]

PullState ==
  [pc : {"idle", "rows", "answer"}, resync : BOOLEAN, page : SUBSET Seqs]

NoTrim == [pc |-> "idle", batch |-> {}, left |-> {}, on |-> {}, cutoff |-> 0]

NoPull == [pc |-> "idle", resync |-> FALSE, page |-> {}]

History ==
  [top : 0..MaxSeq,      \* highest change ever written
   late : SUBSET Seqs,   \* written, not as a second row, after a higher one
   cut : SUBSET Seqs]    \* deleted by retention, and not written again

TypeOK ==
  /\ issued \in Seq(Change) /\ Len(issued) <= MaxSeq
  /\ taken \subseteq 1..Len(issued)
  /\ topic \in Seq(1..Len(issued))
  /\ position \in 0..Len(topic) /\ committed \in 0..position
  /\ written \in BOOLEAN
  /\ feed \in [Users -> Seq(1..Len(issued))]
  /\ dirty \subseteq Users
  /\ trim \in TrimState
  /\ pull \in [Users -> PullState]
  /\ cursor \in [Users -> 0..MaxSeq]
  /\ applied \in [Users -> SUBSET Seqs]
  /\ hist \in [Users -> History]
  /\ crashes \in 0..MaxFaults /\ fails \in 0..MaxFaults - crashes

Init ==
  /\ issued = <<>> /\ taken = {}
  /\ topic = <<>> /\ position = 0 /\ committed = 0 /\ written = FALSE
  /\ feed = [u \in Users |-> <<>>] /\ dirty = {}
  /\ trim = NoTrim
  /\ pull = [u \in Users |-> NoPull]
  /\ cursor = [u \in Users |-> 0]
  /\ applied = [u \in Users |-> {}]
  /\ hist = [u \in Users |-> [top |-> 0, late |-> {}, cut |-> {}]]
  /\ crashes = 0 /\ fails = 0

outbox == <<issued, taken, topic>>
consumer == <<position, committed, written, dirty>>
client == <<cursor, applied>>
faults == <<crashes, fails>>

MayFail(failing) ==
  IF failing THEN crashes + fails < MaxFaults /\ fails' = fails + 1 ELSE UNCHANGED fails

-------------------------------------------------------------------------------
(* Rows of a user *)

\* The rows of s at the positions S, as they stand.
Place(S, n) == CHOOSE k \in S : Cardinality({i \in S : i <= k}) = n

Left(s, S) == [n \in 1..Cardinality(S) |-> s[Place(S, n)]]

\* How many rows u has of the changes a to b.
Between(u, a, b) == Cardinality({k \in DOMAIN feed[u] : feed[u][k] \in a..b})

-------------------------------------------------------------------------------
(* Emitting *)

\* nextSeq, in any handler of any process.  createMessage does this long before its
\* tail publishes.
NextSeq(c) ==
  /\ Len(issued) < MaxSeq
  /\ issued' = Append(issued, c)
  /\ taken' = taken \union {Len(issued) + 1}
  /\ UNCHANGED <<topic, consumer, feed, trim, pull, client, hist, faults>>

\* emitWithSeq.  A number stays taken for good if the dispatch fails, which is
\* swallowed, or the process dies.
Publish(n) ==
  /\ n \in taken
  /\ topic' = Append(topic, n)
  /\ taken' = taken \ {n}
  /\ UNCHANGED <<issued, consumer, feed, trim, pull, client, hist, faults>>

-------------------------------------------------------------------------------
(* The consumer *)

\* The write of change n for u: an upsert of the room's mark, or an insert.
Stored(u, n) ==
  LET mark == issued[n].mark
      others == {k \in DOMAIN feed[u] : mark = None \/ issued[feed[u][k]].mark # mark}
  IN Append(Left(feed[u], others), n)

\* The history of that write.
Noted(u, n) ==
  LET h == hist[u] IN
  [top |-> IF n > h.top THEN n ELSE h.top,
   late |-> IF n < h.top /\ n \notin ToSet(feed[u]) THEN h.late \union {n}
            ELSE h.late,
   cut |-> h.cut \ {n}]

\* handleOutboxAppend up to the bulkWrite: unordered, so any of its writes may
\* fail; a failure skips the dirty mark and is swallowed by the controller.
WriteRows(ok) ==
  LET n == topic[position + 1] IN
  /\ ~written /\ position < Len(topic)
  /\ ok \subseteq issued[n].to
  /\ MayFail(ok # issued[n].to)
  /\ feed' = [u \in Users |-> IF u \in ok THEN Stored(u, n) ELSE feed[u]]
  /\ hist' = [u \in Users |-> IF u \in ok THEN Noted(u, n) ELSE hist[u]]
  /\ written' = (ok = issued[n].to)
  /\ position' = IF written' THEN position ELSE position + 1
  /\ UNCHANGED <<outbox, committed, dirty, trim, pull, client, crashes>>

\* handleOutboxAppend: sAdd
MarkDirty ==
  /\ written
  /\ \/ dirty' = dirty \union issued[topic[position + 1]].to /\ MayFail(FALSE)
     \/ dirty' = dirty /\ MayFail(TRUE)
  /\ written' = FALSE
  /\ position' = position + 1
  /\ UNCHANGED <<outbox, committed, feed, trim, pull, client, hist, crashes>>

\* The chat service restarts: the topic is read again from the offset that was
\* committed last, some time after its events were handled.
Restart ==
  /\ crashes + fails < MaxFaults
  /\ crashes' = crashes + 1
  /\ \E k \in committed..position : position' = k /\ committed' = k
  /\ written' = FALSE
  /\ trim' = NoTrim
  /\ pull' = [u \in Users |-> NoPull]
  /\ UNCHANGED <<outbox, dirty, feed, client, hist, fails>>

-------------------------------------------------------------------------------
(* Retention *)

\* The TTL index deletes the row that was written longest ago; 30 days after its
\* write its event is long committed.
Expire(u) ==
  /\ feed[u] # <<>>
  /\ \E k \in 1..position :
       /\ topic[k] = Head(feed[u])
       /\ committed' = IF committed < k THEN k ELSE committed
  /\ feed' = [feed EXCEPT ![u] = Tail(@)]
  /\ hist' = [hist EXCEPT ![u].cut = @ \union {Head(feed[u])}]
  /\ UNCHANGED <<outbox, position, written, dirty, trim, pull, client, faults>>

TrimStart ==
  /\ trim.pc = "idle" /\ dirty # {}
  /\ trim' = [pc |-> "read", batch |-> dirty, left |-> dirty, on |-> {},
              cutoff |-> 0]
  /\ UNCHANGED <<outbox, consumer, feed, pull, client, hist, faults>>

\* trimUserToCap: the row just below the newest Cap is the cutoff.
ReadCutoff(u) ==
  /\ trim.pc = "read" /\ u \in trim.left
  /\ IF Len(feed[u]) > Cap
     THEN \E n \in ToSet(feed[u]) :
            /\ Between(u, n + 1, MaxSeq) <= Cap /\ Cap < Between(u, n, MaxSeq)
            /\ trim' = [trim EXCEPT !.pc = "delete", !.left = @ \ {u}, !.on = {u},
                                    !.cutoff = n]
     ELSE trim' = [trim EXCEPT !.left = @ \ {u}]
  /\ UNCHANGED <<outbox, consumer, feed, pull, client, hist, faults>>

NextUser == [trim EXCEPT !.pc = "read", !.on = {}, !.cutoff = 0]

\* trimUserToCap: deleteMany
DeleteRows(u) ==
  LET kept == {k \in DOMAIN feed[u] : feed[u][k] > trim.cutoff} IN
  /\ u \in trim.on
  /\ feed' = [feed EXCEPT ![u] = Left(@, kept)]
  /\ hist' = [hist EXCEPT ![u].cut = @ \union {n \in ToSet(feed[u]) : n <= trim.cutoff}]
  /\ trim' = NextUser
  /\ UNCHANGED <<outbox, consumer, pull, client, faults>>

\* The trim of one user fails: the job goes on, and unmarks them all the same.
TrimFails(u) ==
  /\ MayFail(TRUE)
  /\ \/ trim.pc = "read" /\ u \in trim.left /\ trim' = [trim EXCEPT !.left = @ \ {u}]
     \/ u \in trim.on /\ trim' = NextUser
  /\ UNCHANGED <<outbox, consumer, feed, pull, client, hist, crashes>>

\* trim: sRem
TrimEnd ==
  /\ trim.pc = "read" /\ trim.left = {}
  /\ dirty' = dirty \ trim.batch
  /\ trim' = NoTrim
  /\ UNCHANGED <<outbox, position, committed, written, feed, pull, client, hist,
                 faults>>

-------------------------------------------------------------------------------
(* Catching up: syncEvents, one action per read *)

\* Mutant: off by one, the row just after a hole of one is taken for the next.
BehindByMore(u) ==
  cursor[u] > 0 /\ feed[u] # <<>> /\ \A n \in ToSet(feed[u]) : n > cursor[u] + 2

\* requireFullResync: the cursor is behind the oldest row, and not just before it.
Behind(u) ==
  cursor[u] > 0 /\ feed[u] # <<>> /\ \A n \in ToSet(feed[u]) : n > cursor[u] + 1

ReadOldest(u) ==
  /\ pull[u].pc = "idle"
  /\ pull' = [pull EXCEPT ![u] = [NoPull EXCEPT !.pc = "rows", !.resync = Behind(u)]]
  /\ UNCHANGED <<outbox, consumer, feed, trim, client, hist, faults>>

\* Mutant: the newest rows above the cursor, not the oldest.
NewestPage(u) ==
  {n \in ToSet(feed[u]) : n > cursor[u] /\ Between(u, n + 1, MaxSeq) < Limit}

\* The changes in the first Limit rows above the cursor.
Page(u) ==
  {n \in ToSet(feed[u]) : n > cursor[u] /\ Between(u, cursor[u] + 1, n - 1) < Limit}

ReadRows(u) ==
  /\ pull[u].pc = "rows"
  /\ pull' = [pull EXCEPT ![u].pc = "answer", ![u].page = Page(u)]
  /\ UNCHANGED <<outbox, consumer, feed, trim, client, hist, faults>>

\* syncEvents: currentSeq, which is 0 for a failed read
CurrentSeq == {0, Len(issued)}

\* nextSeq is the last of the page.
\* The client applies the page and moves its cursor, or, told to resync,
\* loads everything and takes currentSeq for cursor, as it does the first time.
Answer(u, current) ==
  LET page == pull[u].page IN
  /\ pull[u].pc = "answer"
  /\ MayFail(current # Len(issued))
  /\ \/ /\ ~pull[u].resync
        /\ applied' = [applied EXCEPT ![u] = @ \union page]
        /\ \/ page = {} /\ UNCHANGED cursor
           \/ \E last \in page : /\ \A n \in page : n <= last
                                 /\ cursor' = [cursor EXCEPT ![u] = last]
     \/ /\ pull[u].resync \/ cursor[u] = 0
        /\ applied' = [applied EXCEPT ![u] = @ \union 1..Len(issued)]
        /\ cursor' = [cursor EXCEPT ![u] = current]
  /\ pull' = [pull EXCEPT ![u] = NoPull]
  /\ UNCHANGED <<outbox, consumer, feed, trim, hist, crashes>>

-------------------------------------------------------------------------------

Next ==
  \/ \E c \in Change : NextSeq(c)
  \/ \E n \in taken : Publish(n)
  \/ \E ok \in SUBSET Users : WriteRows(ok)
  \/ MarkDirty \/ Restart
  \/ TrimStart \/ TrimEnd
  \/ \E u \in Users : \/ Expire(u) \/ ReadCutoff(u) \/ DeleteRows(u) \/ TrimFails(u)
                      \/ ReadOldest(u) \/ ReadRows(u)
                      \/ \E current \in CurrentSeq : Answer(u, current)

Spec == Init /\ [][Next]_vars

-------------------------------------------------------------------------------
(* What the feed promises *)

SameMark(n, m) == issued[n].mark # None /\ issued[m].mark = issued[n].mark

\* u has seen change n, or a later mark of the same room.
Seen(u, n) ==
  \E m \in applied[u] : m = n \/ (m > n /\ SameMark(n, m))

\* Through paging, compaction, redelivery, failures and retention, a row that is
\* stored is above its owner's cursor until they have seen it, unless it was
\* written after a higher one.
HiddenOnlyIfLate ==
  \A u \in Users : \A n \in ToSet(feed[u]) :
    n <= cursor[u] /\ ~Seen(u, n) => n \in hist[u].late

\* A client whose cursor is behind a row that retention deleted is told to
\* resync, if any row is left to compare with, none came late and none was
\* redelivered.
CutIsFlagged ==
  [][\A u \in Users :
       /\ pull[u].pc = "idle" /\ pull'[u].pc = "rows"
       /\ cursor[u] > 0 /\ feed[u] # <<>> /\ hist[u].late = {} /\ crashes = 0
       /\ \E n \in hist[u].cut \ ToSet(feed[u]) : n > cursor[u] /\ ~Seen(u, n)
       => pull'[u].resync]_vars
===============================================================================
