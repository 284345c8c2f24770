------------------------------ MODULE EntityCache ------------------------------
(***************************************************************************)
(* The two-level cache of libs/db/src/cache as the room repository of the  *)
(* chat service uses it: an in-process L1 per instance, Redis as L2, a     *)
(* reverse index from a document's ids to the cache keys that hold it, and *)
(* a pub/sub channel that drops L1 entries elsewhere.                      *)
(*                                                                         *)
(* A cached copy is only the current document or an old one.  It is risky  *)
(* if its way into the cache overlapped a write of the document, or if a   *)
(* Redis command that should have removed or recorded it failed.           *)
(***************************************************************************)
EXTENDS Naturals

CONSTANTS Instances,   \* processes: each serves one read and one write at a time
          Docs, Keys,
          Fields,      \* ids a document is indexed under: _id and room_id
          Queries,     \* [key, doc]: what a lookup caches under and what it loads
          None,
          RedisFails,  \* RedisService swallows failed commands
          MaxWrites    \* bound: writes

VARIABLES l1,      \* LruMap of each instance
          l2,      \* Redis entries
          idx,     \* reverse index: keys recorded under each id of each document
          inbox,   \* keys published to an instance and not dropped there yet
          link,    \* the instance's subscriber connection
          read,    \* getOrLoad
          inv,     \* invalidateEntity of a written document, for each of its ids
          writes

vars == <<l1, l2, idx, inbox, link, read, inv, writes>>

Copy == [doc : Docs, old : BOOLEAN, risky : BOOLEAN]

Entry == Copy \union {None}

\* What the modules that use this one assume of the constants.
ConstantsAssumption ==
  /\ Queries \subseteq [key : Keys, doc : Docs]
  /\ RedisFails \in BOOLEAN
  /\ None \notin Docs /\ None \notin Copy
  /\ MaxWrites \in Nat

ReadState ==
  [pc : {"idle", "l2", "load", "set", "index", "fill"}, key : Keys \union {None},
   doc : Docs \union {None}, copy : Entry, todo : SUBSET Fields]

InvState ==
  [pc : {"idle", "read", "delete", "unindex", "publish"},
   keys : SUBSET Keys, todo : SUBSET Keys]

Reading == [pc |-> "idle", key |-> None, doc |-> None, copy |-> None, todo |-> {}]

Quiet == [pc |-> "idle", keys |-> {}, todo |-> {}]

TypeOK ==
  /\ l1 \in [Instances -> [Keys -> Entry]]
  /\ l2 \in [Keys -> Entry]
  /\ idx \in [Docs -> [Fields -> SUBSET Keys]]
  /\ inbox \in [Instances -> SUBSET Keys]
  /\ link \in [Instances -> {"up", "down", "ready"}]
  /\ read \in [Instances -> ReadState]
  /\ inv \in [Instances -> [doc : Docs \union {None}, at : [Fields -> InvState]]]
  /\ writes \in 0..MaxWrites

Init ==
  /\ l1 = [i \in Instances |-> [k \in Keys |-> None]]
  /\ l2 = [k \in Keys |-> None]
  /\ idx = [d \in Docs |-> [f \in Fields |-> {}]]
  /\ inbox = [i \in Instances |-> {}]
  /\ link = [i \in Instances |-> "up"]
  /\ read = [i \in Instances |-> Reading]
  /\ inv = [i \in Instances |-> [doc |-> None, at |-> [f \in Fields |-> Quiet]]]
  /\ writes = 0

\* d is being written or invalidated.
Busy(d) == \E i \in Instances : inv[i].doc = d

Risk(c) == IF c = None THEN None ELSE [c EXCEPT !.risky = TRUE]

\* Copy c, if it is one of d, now marked old, and risky if the write comes upon
\* it on its way into the cache.
Aged(c, d, moving) ==
  IF c # None /\ c.doc = d
  THEN [c EXCEPT !.old = TRUE, !.risky = @ \/ moving] ELSE c

RiskIn(cache, d) ==
  [k \in Keys |-> IF cache[k] # None /\ cache[k].doc = d THEN Risk(cache[k])
                  ELSE cache[k]]

-------------------------------------------------------------------------------
(* getOrLoad *)

Unmoved == UNCHANGED <<idx, inbox, link, inv, writes>>

\* L1.  A hit answers at once.
ReadL1(i, q) ==
  /\ read[i].pc = "idle"
  /\ l1[i][q.key] = None
  /\ read' = [read EXCEPT ![i] =
                [Reading EXCEPT !.pc = "l2", !.key = q.key, !.doc = q.doc]]
  /\ UNCHANGED <<l1, l2>> /\ Unmoved

\* The copy an L2 hit brings back.
Hit(k) == LET c == l2[k] IN [c EXCEPT !.risky = @ \/ Busy(c.doc)]

ReadL2(i) ==
  LET k == read[i].key IN
  /\ read[i].pc = "l2"
  /\ \/ /\ l2[k] # None
        /\ read' = [read EXCEPT ![i].pc = "fill", ![i].copy = Hit(k)]
     \/ /\ l2[k] = None \/ RedisFails
        /\ read' = [read EXCEPT ![i].pc = "load"]
  /\ UNCHANGED <<l1, l2>> /\ Unmoved

\* Mutant: a lookup that finds nothing is cached too.
LoadNothing(i) ==
  /\ read[i].pc = "load"
  /\ read' = [read EXCEPT ![i].pc = "set",
                          ![i].copy = [doc |-> None, old |-> FALSE, risky |-> FALSE]]
  /\ UNCHANGED <<l1, l2>> /\ Unmoved

Load(i) ==
  LET d == read[i].doc IN
  /\ read[i].pc = "load"
  /\ read' = [read EXCEPT ![i].pc = "set",
                          ![i].copy = [doc |-> d, old |-> FALSE, risky |-> Busy(d)]]
  /\ UNCHANGED <<l1, l2>> /\ Unmoved

SetL2(i) ==
  /\ read[i].pc = "set"
  /\ \/ l2' = [l2 EXCEPT ![read[i].key] = read[i].copy]
     \/ RedisFails /\ l2' = l2
  /\ read' = [read EXCEPT ![i].pc = "index", ![i].todo = Fields]
  /\ UNCHANGED l1 /\ Unmoved

\* The key is recorded under each id, in parallel.
Index(i, f) ==
  LET k == read[i].key
      d == read[i].doc
      Done(r) == [r EXCEPT !.todo = @ \ {f}, !.pc = IF r.todo = {f} THEN "fill" ELSE @]
      Unrecorded(j) == IF read[j].key = k THEN [read[j] EXCEPT !.copy = Risk(@)]
                       ELSE read[j]
  IN
  /\ read[i].pc = "index" /\ f \in read[i].todo
  /\ \/ /\ idx' = [idx EXCEPT ![d][f] = @ \union {k}]
        /\ read' = [read EXCEPT ![i] = Done(@)]
        /\ UNCHANGED <<l1, l2>>
     \/ /\ RedisFails
        /\ l2' = [l2 EXCEPT ![k] = Risk(@)]
        /\ l1' = [j \in Instances |-> [l1[j] EXCEPT ![k] = Risk(@)]]
        /\ read' = [j \in Instances |-> IF j = i THEN Done(Unrecorded(i))
                                        ELSE Unrecorded(j)]
        /\ UNCHANGED idx
  /\ UNCHANGED <<inbox, link, inv, writes>>

\* Mutant: every miss of L1 renews the entry of L2.
FillBoth(i) ==
  /\ read[i].pc = "fill"
  /\ l1' = [l1 EXCEPT ![i][read[i].key] = read[i].copy]
  /\ l2' = [l2 EXCEPT ![read[i].key] = read[i].copy]
  /\ read' = [read EXCEPT ![i] = Reading]
  /\ Unmoved

Fill(i) ==
  /\ read[i].pc = "fill"
  /\ l1' = [l1 EXCEPT ![i][read[i].key] = read[i].copy]
  /\ read' = [read EXCEPT ![i] = Reading]
  /\ UNCHANGED l2 /\ Unmoved

-------------------------------------------------------------------------------
(* A write of a document, and its invalidation *)

\* A key whose reader has set L2 and not recorded it under every id yet.
BeingSet(k) == \E i \in Instances : read[i].pc = "index" /\ read[i].key = k

Write(i, d) ==
  /\ inv[i].doc = None /\ writes < MaxWrites
  /\ writes' = writes + 1
  /\ l1' = [j \in Instances |-> [k \in Keys |-> Aged(l1[j][k], d, BeingSet(k))]]
  /\ l2' = [k \in Keys |-> Aged(l2[k], d, BeingSet(k))]
  /\ read' = [j \in Instances |-> [read[j] EXCEPT !.copy = Aged(@, d, TRUE)]]
  /\ inv' = [inv EXCEPT ![i] = [doc |-> d,
                                at |-> [f \in Fields |-> [Quiet EXCEPT !.pc = "read"]]]]
  /\ UNCHANGED <<idx, inbox, link>>

\* invalidateEntity for id f ends; the writer is free when all have ended.
Ended(i, f) ==
  IF \A g \in Fields \ {f} : inv[i].at[g].pc = "idle"
  THEN [doc |-> None, at |-> [g \in Fields |-> Quiet]]
  ELSE [inv[i] EXCEPT !.at[f] = Quiet]

\* sMembers.  A failed one reads as no keys, and nothing is invalidated.
InvRead(i, f) ==
  LET d == inv[i].doc IN
  /\ inv[i].at[f].pc = "read"
  /\ \/ /\ inv' = [inv EXCEPT ![i].at[f] =
                     [pc |-> "delete", keys |-> idx[d][f], todo |-> idx[d][f]]]
        /\ UNCHANGED <<l1, l2>>
     \/ /\ RedisFails
        /\ inv' = [inv EXCEPT ![i].at[f].pc = "delete"]
        /\ l1' = [j \in Instances |-> RiskIn(l1[j], d)]
        /\ l2' = RiskIn(l2, d)
  /\ UNCHANGED <<idx, inbox, link, read, writes>>

\* delKey of the cache keys, in parallel
InvDelete(i, f, k) ==
  /\ inv[i].at[f].pc = "delete" /\ k \in inv[i].at[f].todo
  /\ \/ l2' = [l2 EXCEPT ![k] = None]
     \/ RedisFails /\ l2' = [l2 EXCEPT ![k] = Risk(@)]
  /\ inv' = [inv EXCEPT ![i].at[f].todo = @ \ {k}]
  /\ UNCHANGED <<l1, idx, inbox, link, read, writes>>

InvDropL1(i, f) ==
  /\ inv[i].at[f].pc = "delete" /\ inv[i].at[f].todo = {}
  /\ l1' = [l1 EXCEPT ![i] = [k \in Keys |-> IF k \in inv[i].at[f].keys THEN None
                                             ELSE @[k]]]
  /\ inv' = [inv EXCEPT ![i].at[f].pc = "unindex"]
  /\ UNCHANGED <<l2, idx, inbox, link, read, writes>>

\* delKey of the index, which may hold more by now than was read.
InvUnindex(i, f) ==
  /\ inv[i].at[f].pc = "unindex"
  /\ \/ idx' = [idx EXCEPT ![inv[i].doc][f] = {}]
     \/ RedisFails /\ idx' = idx
  /\ inv' = [inv EXCEPT ![i] = IF inv[i].at[f].keys = {} THEN Ended(i, f)
                               ELSE [inv[i] EXCEPT !.at[f].pc = "publish"]]
  /\ UNCHANGED <<l1, l2, inbox, link, read, writes>>

\* Mutant: only the own L1 is dropped.
InvTellNobody(i, f) ==
  /\ inv[i].at[f].pc = "publish"
  /\ inv' = [inv EXCEPT ![i] = Ended(i, f)]
  /\ UNCHANGED <<l1, l2, idx, inbox, link, read, writes>>

\* Only a subscribed instance gets the message.
InvPublish(i, f) ==
  LET keys == inv[i].at[f].keys
      Publish(heard) ==
        /\ inbox' = [j \in Instances |-> IF j \in heard THEN inbox[j] \union keys
                                         ELSE inbox[j]]
        /\ l1' = [j \in Instances |-> IF j \in heard THEN l1[j]
                                      ELSE RiskIn(l1[j], inv[i].doc)]
  IN
  /\ inv[i].at[f].pc = "publish"
  /\ \/ Publish({j \in Instances : link[j] = "up"})
     \/ RedisFails /\ Publish({})
  /\ inv' = [inv EXCEPT ![i] = Ended(i, f)]
  /\ UNCHANGED <<l2, idx, link, read, writes>>

-------------------------------------------------------------------------------
(* The subscriber *)

DropFromL1(i) ==
  /\ inbox[i] # {}
  /\ l1' = [l1 EXCEPT ![i] = [k \in Keys |-> IF k \in inbox[i] THEN None ELSE @[k]]]
  /\ inbox' = [inbox EXCEPT ![i] = {}]
  /\ UNCHANGED <<l2, idx, link, read, inv, writes>>

\* The connection breaks; what was on its way is lost.
Unlink(i) ==
  /\ link[i] # "down"
  /\ link' = [link EXCEPT ![i] = "down"]
  /\ inbox' = [inbox EXCEPT ![i] = {}]
  /\ l1' = [l1 EXCEPT ![i] = [k \in Keys |-> IF k \in inbox[i] THEN Risk(@[k])
                                             ELSE @[k]]]
  /\ UNCHANGED <<l2, idx, read, inv, writes>>

\* flushL1 on ready; the client subscribes again after that.
FlushL1(i) ==
  /\ link[i] = "down"
  /\ link' = [link EXCEPT ![i] = "ready"]
  /\ l1' = [l1 EXCEPT ![i] = [k \in Keys |-> None]]
  /\ UNCHANGED <<l2, idx, inbox, read, inv, writes>>

Resubscribe(i) ==
  /\ link[i] = "ready"
  /\ link' = [link EXCEPT ![i] = "up"]
  /\ UNCHANGED <<l1, l2, idx, inbox, read, inv, writes>>

-------------------------------------------------------------------------------
(* Time: an entry lives for its TTL, and the LRU may evict one earlier *)

ExpireL1(i, k) ==
  /\ l1[i][k] # None
  /\ l1' = [l1 EXCEPT ![i][k] = None]
  /\ UNCHANGED l2 /\ UNCHANGED read /\ Unmoved

ExpireL2(k) ==
  /\ l2[k] # None
  /\ l2' = [l2 EXCEPT ![k] = None]
  /\ UNCHANGED l1 /\ UNCHANGED read /\ Unmoved

-------------------------------------------------------------------------------

ReadStep(i) ==
  \/ ReadL2(i) \/ Load(i) \/ SetL2(i) \/ Fill(i) \/ \E f \in Fields : Index(i, f)

InvStep(i, f) ==
  \/ InvRead(i, f) \/ InvDropL1(i, f) \/ InvUnindex(i, f) \/ InvPublish(i, f)
  \/ \E k \in Keys : InvDelete(i, f, k)

Next ==
  \/ \E i \in Instances :
       \/ \E q \in Queries : ReadL1(i, q)
       \/ ReadStep(i)
       \/ \E d \in Docs : Write(i, d)
       \/ \E f \in Fields : InvStep(i, f)
       \/ DropFromL1(i) \/ Unlink(i) \/ FlushL1(i) \/ Resubscribe(i)
       \/ \E k \in Keys : ExpireL1(i, k)
  \/ \E k \in Keys : ExpireL2(k)

Spec == Init /\ [][Next]_vars

\* A handler that has started goes on, and every entry has a TTL.
FairSpec ==
  /\ Spec
  /\ \A i \in Instances :
       /\ WF_vars(ReadStep(i))
       /\ \A f \in Fields : WF_vars(InvStep(i, f))
       /\ \A k \in Keys : WF_vars(ExpireL1(i, k))
  /\ \A k \in Keys : WF_vars(ExpireL2(k))

-------------------------------------------------------------------------------
(* What the cache promises *)

Stale(c) == c # None /\ c.old

\* Once a write has been invalidated no cache serves the old document, unless
\* the copy got in while the document was being written, or Redis failed: no
\* alias, no other instance and no lost message keeps it.
StaleOnlyIfRisky ==
  \A k \in Keys :
    /\ Stale(l2[k]) /\ ~Busy(l2[k].doc) => l2[k].risky
    /\ \A i \in Instances :
         LET c == l1[i][k] IN
         Stale(c) /\ ~Busy(c.doc) => c.risky \/ k \in inbox[i]

\* When the writes stop, every cache is right in the end, whatever raced.
Heals ==
  <>[](\A k \in Keys : ~Stale(l2[k]) /\ \A i \in Instances : ~Stale(l1[i][k]))

\* Spec 2026-05-30-room-user-cache, 3.2: each looked-up value is a key of its own,
\* so what a lookup finds in the cache is the document it asks for.
FindsItsDocument ==
  \A q \in Queries :
    /\ l2[q.key] # None => l2[q.key].doc = q.doc
    /\ \A i \in Instances : l1[i][q.key] # None => l1[i][q.key].doc = q.doc
===============================================================================
