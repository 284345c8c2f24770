--------------------------- MODULE MessageTailProofs ---------------------------
(***************************************************************************)
(* Proofs about MessageTail, for any members, any number of chat service   *)
(* processes, messages and bounded events.                                 *)
(***************************************************************************)
EXTENDS MessageTail, FiniteSetTheorems, TLAPS

-------------------------------------------------------------------------------
(* Types *)

LEMMA ConstantTypes ==
  /\ IdleTail \in TailState
  /\ NoRead \in ReadState
  /\ NoRecount \in RecountState /\ [NoRecount EXCEPT !.pc = "pointer"] \in RecountState
  /\ NoFlush \in FlushState
BY ConstantsAssumption
DEF IdleTail, TailState, NoRead, ReadState, NoRecount, RecountState, NoFlush, FlushState, Counts

\* The messages that a recount counts are at most all messages.
LEMMA UnseenFits ==
  ASSUME TypeOK, NEW u \in Users, NEW t \in Nat
  PROVE  Cardinality(Unseen(u, t)) \in 0..MaxMsgs
<1>1. Len(log) \in Nat /\ Len(log) <= MaxMsgs
  BY DEF TypeOK
<1>2. Unseen(u, t) \subseteq 1..MaxMsgs
  BY <1>1, ConstantsAssumption DEF Unseen
<1>3. IsFiniteSet(1..MaxMsgs) /\ Cardinality(1..MaxMsgs) = MaxMsgs
  <2>1. 1 \in Int /\ MaxMsgs \in Int /\ MaxMsgs \in Nat
    BY ConstantsAssumption
  <2>2. QED
    BY <2>1, FS_Interval
<1>4. QED
  BY <1>2, <1>3, FS_Subset, FS_CardinalityType, ConstantsAssumption

\* The parts of the history, and of the history after one of them changes.
LEMMA HistoryParts ==
  ASSUME hist \in History
  PROVE  /\ hist.counted \in [Msgs -> Counts] /\ hist.since \in [Users -> 0..MaxMsgs]
         /\ hist.unguarded \subseteq Msgs /\ hist.torn \subseteq Msgs
         /\ hist.last \in 0..MaxMsgs /\ hist.beside \in BOOLEAN
BY DEF History

LEMMA HistoryStep ==
  ASSUME hist \in History
  PROVE  /\ \A m \in Msgs : [hist EXCEPT !.counted[m] = @ + 1] \in History
         /\ \A u \in Users, n \in 0..MaxMsgs : [hist EXCEPT !.since[u] = n] \in History
         /\ \A ct \in [Msgs -> Counts], to \in SUBSET Msgs :
              [hist EXCEPT !.counted = ct, !.torn = to] \in History
         /\ \A un \in SUBSET Msgs : [hist EXCEPT !.unguarded = un] \in History
         /\ \A l \in 0..MaxMsgs, un \in SUBSET Msgs :
              /\ [hist EXCEPT !.last = l] \in History
              /\ [hist EXCEPT !.unguarded = un, !.last = l] \in History
<1>1. ASSUME NEW m \in Msgs PROVE [hist EXCEPT !.counted[m] = @ + 1] \in History
  <2>1. [hist.counted EXCEPT ![m] = @ + 1] \in [Msgs -> Counts]
    BY HistoryParts DEF Counts
  <2>2. [hist EXCEPT !.counted = [hist.counted EXCEPT ![m] = @ + 1]] \in History
    BY <2>1 DEF History
  <2>3. QED
    BY <2>2
<1>2. ASSUME NEW u \in Users, NEW n \in 0..MaxMsgs
      PROVE [hist EXCEPT !.since[u] = n] \in History
  <2>1. [hist.since EXCEPT ![u] = n] \in [Users -> 0..MaxMsgs]
    BY HistoryParts
  <2>2. [hist EXCEPT !.since = [hist.since EXCEPT ![u] = n]] \in History
    BY <2>1 DEF History
  <2>3. QED
    BY <2>2
<1>3. ASSUME NEW l \in 0..MaxMsgs, NEW un \in SUBSET Msgs
      PROVE /\ [hist EXCEPT !.last = l] \in History
            /\ [hist EXCEPT !.unguarded = un, !.last = l] \in History
  BY DEF History
<1>4. ASSUME NEW ct \in [Msgs -> Counts], NEW to \in SUBSET Msgs
      PROVE [hist EXCEPT !.counted = ct, !.torn = to] \in History
  BY DEF History
<1>5. ASSUME NEW un \in SUBSET Msgs PROVE [hist EXCEPT !.unguarded = un] \in History
  BY DEF History
<1>6. QED
  BY <1>1, <1>2, <1>3, <1>4, <1>5

\* createMessage, and what becomes of its record before the topic.
LEMMA TypeOfMessages ==
  ASSUME TypeOK,
         \/ \E u \in Users : Create(u)
         \/ \E m \in 1..Len(log) :
              Resend(m) \/ Dispatch(m) \/ LoseDispatch(m) \/ MarkExpires(m)
  PROVE  TypeOK'
<1> USE ConstantsAssumption
      DEF messages, topic, consumer, redis, mongo, calls
<1>1. ASSUME NEW u \in Users, Create(u) PROVE TypeOK'
  <2>1. log' \in Seq(Users) /\ Len(log') = Len(log) + 1 /\ Len(log) \in Nat
    BY <1>1 DEF Create, TypeOK
  <2>2. queue' \in Seq(1..Len(log'))
    BY <1>1, <2>1 DEF Create, TypeOK
  <2>3. 1..Len(log) \subseteq 1..Len(log') /\ Len(log) + 1 \in 1..Len(log')
        /\ 0..Len(log) \subseteq 0..Len(log')
    BY <2>1
  <2>5. sending' \subseteq 1..Len(log') /\ processed' \subseteq 1..Len(log')
    BY <1>1, <2>3 DEF Create, TypeOK
  <2>6. preview' \in 0..Len(log') /\ deleting' \in 0..Len(log')
    BY <1>1, <2>3 DEF Create, TypeOK
  <2>4. QED
    BY <1>1, <2>1, <2>2, <2>5, <2>6 DEF Create, TypeOK
<1>2. ASSUME NEW m \in 1..Len(log), Resend(m) PROVE TypeOK'
  BY <1>2 DEF Resend, Event, TypeOK
<1>3. ASSUME NEW m \in 1..Len(log), Dispatch(m) PROVE TypeOK'
  <2>1. queue' \in Seq(1..Len(log)) /\ Len(queue') = Len(queue) + 1 /\ Len(queue) \in Nat
    BY <1>3 DEF Dispatch, TypeOK
  <2>2. QED
    BY <1>3, <2>1 DEF Dispatch, TypeOK
<1>4. ASSUME NEW m \in 1..Len(log), LoseDispatch(m) PROVE TypeOK'
  <2>1. m \in Msgs
    BY DEF TypeOK, Msgs
  <2>2. hist' \in History
    BY <1>4, <2>1 DEF LoseDispatch, TypeOK, History
  <2>3. QED
    BY <1>4, <2>2 DEF LoseDispatch, Event, TypeOK
<1>5. ASSUME NEW m \in 1..Len(log), MarkExpires(m) PROVE TypeOK'
  <2>1. m \in Msgs /\ hist \in History
    BY DEF TypeOK, Msgs
  <2>2. hist.unguarded \union {m} \in SUBSET Msgs
    BY <2>1, HistoryParts
  <2>3. hist' \in History
    BY <1>5, <2>1, <2>2, HistoryStep DEF MarkExpires
  <2>4. QED
    BY <1>5, <2>3 DEF MarkExpires, Event, TypeOK
<1>6. QED
  BY <1>1, <1>2, <1>3, <1>4, <1>5

\* A running tail is about a message that exists, and has writes to come only
\* after its count.
TailInv ==
  \A c \in Consumers :
    /\ tail[c].pc # "idle" => tail[c].msg \in 1..Len(log)
    /\ tail[c].pc # "write" => tail[c].left = {}

\* A settled write: the tail goes on to the others, or the handler returns.
LEMMA SettleStep ==
  ASSUME TypeOK, TailInv, NEW c \in Consumers, NEW w, Settle(c, w)
  PROVE  /\ tail[c].pc = "write" /\ tail' \in [Consumers -> TailState]
         /\ \A d \in Consumers \ {c} : tail'[d] = tail[d]
         /\ \/ tail[c].left = {w} /\ tail'[c] = IdleTail
            \/ /\ tail'[c].pc = "write" /\ tail'[c].msg = tail[c].msg
               /\ tail'[c].left = tail[c].left \ {w}
<1>1. tail \in [Consumers -> TailState] /\ tail[c] \in TailState /\ w \in tail[c].left
  BY DEF TypeOK, Settle
<1>2. tail[c].pc = "write"
  BY <1>1 DEF TailInv
<1>3. CASE tail[c].left = {w}
  <2>1. tail' = [tail EXCEPT ![c] = IdleTail]
    BY <1>3 DEF Settle
  <2>2. QED
    BY <1>1, <1>2, <1>3, <2>1, ConstantTypes
<1>4. CASE tail[c].left # {w}
  <2> DEFINE rest == [tail[c] EXCEPT !.left = tail[c].left \ {w}]
  <2>1. tail' = [tail EXCEPT ![c] = rest]
    BY <1>4 DEF Settle
  <2>2. /\ rest \in TailState /\ rest.pc = "write" /\ rest.msg = tail[c].msg
        /\ rest.left = tail[c].left \ {w}
    BY <1>1, <1>2 DEF TailState
  <2> HIDE DEF rest
  <2>3. QED
    BY <1>1, <1>2, <2>1, <2>2
<1>5. QED
  BY <1>3, <1>4

\* The consumer: what a tail's step leaves in it.
LEMMA TypeOfTail ==
  ASSUME TypeOK, TailInv, NEW c \in Consumers, RunTail(c)
  PROVE  TypeOK'
<1> USE ConstantsAssumption
      DEF messages, topic, consumer, redis, mongo, calls
<1>0. /\ tail \in [Consumers -> TailState] /\ tail[c] \in TailState
      /\ Len(log) \in Nat /\ Len(log) <= MaxMsgs
      /\ tail[c].pc # "idle" => tail[c].msg \in 1..Len(log) /\ tail[c].msg \in Msgs
                                /\ log[tail[c].msg] \in Users
      /\ tail[c].left # {} => tail[c].pc = "write"
      /\ IdleTail \in TailState
  BY ConstantTypes DEF TypeOK, TailInv, TailState, Msgs
<1>1. CASE Skip(c)
  BY <1>1 DEF Skip, TypeOK
<1>2. CASE Check(c)
  <2> DEFINE m == queue[position + 1]
  <2>1. m \in 1..Len(log) /\ position + 1 \in 0..Len(queue)
    BY <1>2 DEF Check, TypeOK
  <2>2. m \in Msgs /\ [pc |-> "mark", msg |-> m, left |-> {}] \in TailState
    BY <1>0, <2>1 DEF TailState, Msgs
  <2>3. tail' \in [Consumers -> TailState]
    BY <1>2, <1>0, <2>2 DEF Check
  <2>4. hist' \in History
    <3>1. PICK un \in SUBSET Msgs, be \in BOOLEAN :
            hist' = [hist EXCEPT !.unguarded = un, !.beside = be]
      <4>1. hist.unguarded \in SUBSET Msgs /\ hist.beside \in BOOLEAN
        BY DEF TypeOK, History
      <4>2. QED
        BY <1>2, <2>2, <4>1 DEF Check
    <3>2. QED
      BY <3>1 DEF TypeOK, History
  <2>5. events' \in 0..MaxEvents
    BY <1>2 DEF Check, Event, TypeOK
  <2>6. QED
    BY <1>2, <2>1, <2>3, <2>4, <2>5 DEF Check, TypeOK
<1>3. CASE MarkProcessed(c)
  <2>1. tail' \in [Consumers -> TailState]
    BY <1>3, <1>0 DEF MarkProcessed, TailState
  <2>2. hist' \in History
    <3>1. hist \in History /\ tail[c].msg \in Msgs /\ tail[c].msg \in 0..MaxMsgs
      BY <1>3, <1>0 DEF MarkProcessed, TypeOK, Msgs
    <3>2. hist.unguarded \union {tail[c].msg} \in SUBSET Msgs
      BY <3>1, HistoryParts
    <3>3. QED
      BY <1>3, <3>1, <3>2, HistoryStep DEF MarkProcessed
  <2>3. processed' \subseteq 1..Len(log) /\ events' \in 0..MaxEvents
    BY <1>3, <1>0 DEF MarkProcessed, TypeOK, Event
  <2>4. QED
    BY <1>3, <2>1, <2>2, <2>3 DEF MarkProcessed, TypeOK
<1>4. CASE Count(c)
  <2>1. tail' \in [Consumers -> TailState]
    BY <1>4, <1>0 DEF Count, Add, AllWrites, TailState
  <2>2. hist' \in History
    BY <1>4, <1>0, HistoryStep DEF Count, Add, TypeOK
  <2>3. unread' \in [Users -> Counts]
    BY <1>4 DEF Count, Add, TypeOK, Counts
  <2>4. QED
    BY <1>4, <2>1, <2>2, <2>3 DEF Count, Add, Others, TypeOK
<1>5. CASE CountFails(c)
  <2> DEFINE m == tail[c].msg
  <2>0. PICK us \in SUBSET Others(m) :
          /\ Add(c, us)
          /\ hist' = [hist EXCEPT !.counted[m] = IF us = {} THEN @ ELSE @ + 1,
                                 !.torn = @ \union {m}]
    BY <1>5 DEF CountFails
  <2>1. tail' \in [Consumers -> TailState] /\ tail[c].pc = "count"
    BY <2>0, <1>0 DEF Add, AllWrites, TailState
  <2>2. hist' \in History
    <3>1. m \in Msgs /\ hist \in History
      BY <2>1, <1>0 DEF TypeOK
    <3>2. PICK n \in Counts : n = IF us = {} THEN hist.counted[m] ELSE hist.counted[m] + 1
      BY <3>1, HistoryParts DEF Counts
    <3> DEFINE ct == [hist.counted EXCEPT ![m] = n]
               to == hist.torn \union {m}
    <3>3. ct \in [Msgs -> Counts] /\ to \in SUBSET Msgs
      BY <3>1, HistoryParts
    <3>4. hist' = [hist EXCEPT !.counted = ct, !.torn = to]
      BY <2>0, <3>1, <3>2 DEF History
    <3> HIDE DEF ct, to
    <3>5. QED
      BY <3>1, <3>3, <3>4, HistoryStep
  <2>3. unread' \in [Users -> Counts]
    BY <2>0 DEF Add, TypeOK, Counts
  <2>4. dirty' \subseteq Users /\ events' \in 0..MaxEvents
    BY <1>5 DEF CountFails, Event, Others, TypeOK
  <2>5. QED
    BY <2>0, <2>1, <2>2, <2>3, <2>4 DEF Add, TypeOK
<1>a. CASE FindThrows(c)
  <2>1. tail[c].pc = "write" /\ tail[c].msg \in Msgs
    BY <1>a, <1>0 DEF FindThrows, AllWrites
  <2>2. tail' \in [Consumers -> TailState]
    BY <1>a, <1>0 DEF FindThrows
  <2>3. hist' \in History
    BY <1>a, <2>1 DEF FindThrows, TypeOK, History
  <2>4. QED
    BY <1>a, <2>2, <2>3 DEF FindThrows, Event, TypeOK
<1>6. CASE WritePreview(c)
  <2>1. tail' \in [Consumers -> TailState] /\ tail[c].pc = "write"
    BY <1>6, SettleStep DEF WritePreview
  <2>2. QED
    BY <1>6, <2>1, <1>0 DEF WritePreview, TypeOK
<1>7. CASE WritePointer(c)
  <2>1. tail' \in [Consumers -> TailState] /\ tail[c].pc = "write"
    BY <1>7, SettleStep DEF WritePointer
  <2>2. state' \in [Users -> UserState]
    <3>1. [at |-> tail[c].msg, count |-> 0] \in UserState
      BY <2>1, <1>0 DEF UserState, Counts
    <3>2. state' = [state EXCEPT ![log[tail[c].msg]] = [at |-> tail[c].msg, count |-> 0]]
      BY <1>7 DEF WritePointer
    <3>3. QED
      BY <3>1, <3>2 DEF TypeOK
  <2>3. QED
    BY <1>7, <2>1, <2>2 DEF WritePointer, TypeOK
<1>8. CASE WriteBadge(c)
  <2>1. tail' \in [Consumers -> TailState] /\ tail[c].pc = "write"
    BY <1>8, SettleStep DEF WriteBadge
  <2>2. hist' \in History
    <3>1. Len(log) \in 0..MaxMsgs /\ hist \in History /\ log[tail[c].msg] \in Users
      BY <2>1, <1>0 DEF TypeOK
    <3>2. hist' = [hist EXCEPT !.since[log[tail[c].msg]] = Len(log)]
      BY <1>8 DEF WriteBadge
    <3>3. QED
      BY <3>1, <3>2, HistoryStep
  <2>3. unread' \in [Users -> Counts]
    BY <1>8, <2>1, <1>0 DEF WriteBadge, TypeOK, Counts
  <2>4. QED
    BY <1>8, <2>1, <2>2, <2>3 DEF WriteBadge, TypeOK
<1>9. CASE WriteFails(c)
  <2>1. tail' \in [Consumers -> TailState] /\ tail[c].pc = "write"
    BY <1>9, SettleStep DEF WriteFails
  <2>2. hist' \in History
    BY <1>9, <2>1, <1>0 DEF WriteFails, TypeOK, History
  <2>3. QED
    BY <1>9, <2>1, <2>2 DEF WriteFails, TypeOK, Event
<1>10. QED
  BY <1>1, <1>2, <1>3, <1>4, <1>5, <1>a, <1>6, <1>7, <1>8, <1>9 DEF RunTail

\* Commits, moves and crashes.
LEMMA TypeOfTopic ==
  ASSUME TypeOK, Commit \/ \E c \in Consumers : Rebalance(c) \/ Crash(c)
  PROVE  TypeOK'
<1> USE ConstantsAssumption
      DEF messages, topic, consumer, redis, mongo, calls
<1>1. CASE Commit
  <2>1. queue \in Seq(1..Len(log)) /\ position \in 1..Len(queue)
    BY <1>1 DEF Commit, TypeOK
  <2>2. queue' \in Seq(1..Len(log))
    BY <1>1, <2>1 DEF Commit
  <2>3. position' = 0 /\ 0 \in 0..Len(queue')
    BY <1>1, <2>2 DEF Commit
  <2>4. QED
    BY <1>1, <2>2, <2>3 DEF Commit, TypeOK
<1>2. ASSUME NEW c \in Consumers, Rebalance(c) PROVE TypeOK'
  BY <1>2 DEF Rebalance, Event, TypeOK
<1>3. ASSUME NEW c \in Consumers, Crash(c) PROVE TypeOK'
  <2>1. hist' \in History
    BY <1>3 DEF Crash, TypeOK, History
  <2>2. tail' \in [Consumers -> TailState] /\ flush' \in [Consumers -> FlushState]
    BY <1>3, ConstantTypes DEF Crash, TypeOK
  <2>3. read' \in [Users -> ReadState] /\ recount' \in [Users -> RecountState]
        /\ deleting' \in 0..Len(log)
    BY <1>3, ConstantTypes DEF Crash, TypeOK
  <2>4. owner' \in Consumers /\ position' \in 0..Len(queue)
    BY <1>3 DEF Crash, TypeOK
  <2>5. QED
    BY <1>3, <2>1, <2>2, <2>3, <2>4 DEF Crash, Event, TypeOK
<1>4. QED
  BY <1>1, <1>2, <1>3

\* Reads, hides, deletes and recounts.
LEMMA TypeOfCalls ==
  ASSUME TypeOK,
         \/ \E u \in Users : MarkRead(u) \/ RunRead(u) \/ RunRecount(u)
         \/ \E m \in 1..Len(log) : Delete(m) \/ \E u \in Users : Hide(u, m)
         \/ DeleteMessage \/ CallFails
  PROVE  TypeOK'
<1> USE ConstantsAssumption
      DEF messages, topic, consumer, redis, mongo, calls
<1>0. Len(log) \in Nat /\ Len(log) <= MaxMsgs /\ 1..Len(log) \subseteq Msgs
  BY DEF TypeOK, Msgs
<1>1. ASSUME NEW u \in Users, MarkRead(u) PROVE TypeOK'
  <2>1. read' \in [Users -> ReadState]
    BY <1>1, <1>0 DEF MarkRead, TypeOK, ReadState
  <2>2. QED
    BY <1>1, <2>1 DEF MarkRead, Event, TypeOK
<1>2. ASSUME NEW u \in Users, RunRead(u) PROVE TypeOK'
  <2>1. ASSUME NEW w, Answered(u, w) PROVE read' \in [Users -> ReadState]
    BY <2>1 DEF Answered, TypeOK, ReadState
  <2>2. CASE ReadPointer(u)
    <3>1. state' \in [Users -> UserState]
      BY <2>2 DEF ReadPointer, TypeOK, UserState, ReadState, Counts
    <3>2. QED
      BY <2>2, <2>1, <3>1 DEF ReadPointer, TypeOK
  <2>3. CASE ReadBadge(u)
    <3>1. hist' \in History /\ unread' \in [Users -> Counts]
      <4>1. Len(log) \in 0..MaxMsgs /\ hist \in History
        BY <1>0 DEF TypeOK
      <4>2. hist' = [hist EXCEPT !.since[u] = Len(log)] /\ unread' = [unread EXCEPT ![u] = 0]
        BY <2>3 DEF ReadBadge
      <4>3. QED
        BY <4>1, <4>2, HistoryStep DEF TypeOK, Counts
    <3>2. QED
      BY <2>3, <2>1, <3>1 DEF ReadBadge, TypeOK
  <2>4. CASE ReadDirty(u)
    BY <2>4, <2>1 DEF ReadDirty, TypeOK
  <2>5. QED
    BY <1>2, <2>2, <2>3, <2>4 DEF RunRead
<1>3. ASSUME NEW u \in Users, RunRecount(u) PROVE TypeOK'
  <2>1. CASE RecountPointer(u)
    <3>1. recount' \in [Users -> RecountState]
      BY <2>1 DEF RecountPointer, TypeOK, RecountState, UserState
    <3>2. QED
      BY <2>1, <3>1 DEF RecountPointer, TypeOK
  <2>2. CASE RecountMessages(u)
    <3>1. recount[u].held \in Nat
      BY DEF TypeOK, RecountState
    <3>2. Cardinality(Unseen(u, recount[u].held)) \in 0..MaxMsgs
      BY <3>1, UnseenFits
    <3>3. recount' \in [Users -> RecountState]
      BY <2>2, <3>2 DEF RecountMessages, TypeOK, RecountState
    <3>4. QED
      BY <2>2, <3>3 DEF RecountMessages, TypeOK
  <2>3. CASE RecountWrite(u)
    <3>1. state' \in [Users -> UserState]
      <4>0. state[u] \in UserState /\ recount[u].held \in Counts
        BY DEF TypeOK, RecountState, Counts
      <4>1. [state[u] EXCEPT !.count = recount[u].held] \in UserState
        BY <4>0 DEF UserState
      <4>2. QED
        BY <2>3, <4>1 DEF RecountWrite, TypeOK
    <3>2. QED
      BY <2>3, <3>1, ConstantTypes DEF RecountWrite, TypeOK
  <2>4. QED
    BY <1>3, <2>1, <2>2, <2>3 DEF RunRecount
<1>4. ASSUME NEW m \in 1..Len(log), Delete(m) PROVE TypeOK'
  <2>1. recount' \in [Users -> RecountState] /\ events' \in 0..MaxEvents
        /\ deleting' \in 0..Len(log)
    BY <1>4, ConstantTypes DEF Delete, TypeOK
  <2>2. QED
    BY <1>4, <2>1 DEF Delete, TypeOK
<1>5. ASSUME NEW m \in 1..Len(log), NEW u \in Users, Hide(u, m) PROVE TypeOK'
  <2>1. recount' \in [Users -> RecountState]
    BY <1>5 DEF Hide, TypeOK, RecountState
  <2>2. hidden' \in [Users -> SUBSET Msgs]
    BY <1>5, <1>0 DEF Hide, TypeOK
  <2>3. QED
    BY <1>5, <2>1, <2>2 DEF Hide, Event, TypeOK
<1>6. CASE DeleteMessage
  <2>1. hidden' \in [Users -> SUBSET Msgs]
    <3>1. deleting \in 0..Len(log) /\ deleting # 0
      BY <1>6 DEF DeleteMessage, TypeOK
    <3>2. deleting \in Msgs
      BY <1>0, <3>1
    <3>3. hidden \in [Users -> SUBSET Msgs]
      BY DEF TypeOK
    <3>4. QED
      BY <1>6, <3>2, <3>3 DEF DeleteMessage
  <2>2. QED
    BY <1>6, <2>1 DEF DeleteMessage, TypeOK
<1>7. CASE CallFails
  <2>1. /\ read' \in [Users -> ReadState] /\ recount' \in [Users -> RecountState]
        /\ deleting' \in 0..Len(log)
    <3>1. ASSUME NEW u \in Users, NEW w, Answered(u, w) PROVE read' \in [Users -> ReadState]
      BY <3>1 DEF Answered, TypeOK, ReadState
    <3>2. ASSUME NEW u \in Users, recount' = [recount EXCEPT ![u] = NoRecount]
          PROVE  recount' \in [Users -> RecountState]
      BY <3>2, ConstantTypes DEF TypeOK
    <3>3. QED
      BY <1>7, <1>0, <3>1, <3>2 DEF CallFails, TypeOK
  <2>2. QED
    BY <1>7, <2>1 DEF CallFails, Event, TypeOK
<1>8. QED
  BY <1>1, <1>2, <1>3, <1>4, <1>5, <1>6, <1>7

\* The flush.
LEMMA TypeOfFlush ==
  ASSUME TypeOK, NEW f \in Consumers, RunFlush(f)
  PROVE  TypeOK'
<1> USE ConstantsAssumption
      DEF messages, topic, consumer, redis, mongo, calls
<1>0. flush[f] \in FlushState /\ flush[f].batch \subseteq Users
  BY DEF TypeOK, FlushState
<1>1. CASE FlushStart(f)
  <2>1. flush' \in [Consumers -> FlushState]
    BY <1>1, ConstantTypes DEF FlushStart, TypeOK, FlushState
  <2>2. QED
    BY <1>1, <2>1 DEF FlushStart, Event, TypeOK
<1>2. ASSUME NEW ok \in SUBSET Users, Mirror(f, ok) PROVE state' \in [Users -> UserState]
  <2>1. \A u \in Users : flush[f].value[u] \in Counts /\ state[u] \in UserState
    BY <1>0 DEF TypeOK, FlushState
  <2>2. QED
    BY <1>2, <2>1 DEF Mirror, UserState
<1>3. CASE FlushWrite(f)
  <2>1. flush' \in [Consumers -> FlushState]
    BY <1>3 DEF FlushWrite, TypeOK, FlushState
  <2>2. QED
    BY <1>3, <1>0, <1>2, <2>1 DEF FlushWrite, TypeOK
<1>4. CASE FlushFails(f)
  <2>1. state' \in [Users -> UserState]
    BY <1>4, <1>0, <1>2 DEF FlushFails
  <2>2. QED
    BY <1>4, <2>1, ConstantTypes DEF FlushFails, Event, TypeOK
<1>5. CASE FlushClear(f)
  BY <1>5, ConstantTypes DEF FlushClear, TypeOK
<1>6. ASSUME NEW u \in Users, FlushRead(f, u) PROVE TypeOK'
  <2>1. PICK n \in {0, unread[u]} :
          LET got == flush[f].got \union {u} IN
          /\ flush' = [flush EXCEPT ![f].got = got, ![f].value[u] = n,
                                    ![f].pc = IF got = flush[f].batch THEN "write" ELSE "read"]
          /\ IF n = unread[u] THEN UNCHANGED events ELSE Event
    BY <1>6 DEF FlushRead
  <2>4. n \in Counts
    BY DEF TypeOK, Counts
  <2>2. flush' \in [Consumers -> FlushState]
    <3> DEFINE got == flush[f].got \union {u}
               pc == IF got = flush[f].batch THEN "write" ELSE "read"
               value == [flush[f].value EXCEPT ![u] = n]
    <3>1. got \in SUBSET Users /\ value \in [Users -> Counts] /\ pc \in {"read", "write"}
      BY <1>0, <2>4 DEF FlushState
    <3>2. [flush[f] EXCEPT !.got = got, !.value = value, !.pc = pc] \in FlushState
      BY <3>1, <1>0 DEF FlushState
    <3>3. flush' = [flush EXCEPT ![f] = [flush[f] EXCEPT !.got = got, !.value = value, !.pc = pc]]
      BY <2>1
    <3>4. QED
      BY <3>2, <3>3 DEF TypeOK
  <2>3. QED
    BY <1>6, <2>1, <2>2 DEF FlushRead, Event, TypeOK
<1>7. QED
  BY <1>1, <1>3, <1>4, <1>5, <1>6 DEF RunFlush

LEMMA TypeStep == TypeOK /\ TailInv /\ [Next]_vars => TypeOK'
<1> SUFFICES ASSUME TypeOK, TailInv, [Next]_vars PROVE TypeOK'
  OBVIOUS
<1>1. CASE UNCHANGED vars
  BY <1>1 DEF vars, TypeOK
<1>2. CASE Next
  BY <1>2, TypeOfMessages, TypeOfTail, TypeOfTopic, TypeOfCalls, TypeOfFlush DEF Next
<1>3. QED
  BY <1>1, <1>2

-------------------------------------------------------------------------------
(* What a step does to the tails and to the history *)

\* A step that no invariant below is about.
Quiet ==
  /\ UNCHANGED <<log, topic, consumer, unread, preview, hist>>
  /\ sending \subseteq sending'

LEMMA Steps ==
  ASSUME [Next]_vars
  PROVE  \/ \E u \in Users : Create(u) \/ ReadBadge(u)
         \/ \E m \in 1..Len(log) : Dispatch(m) \/ LoseDispatch(m) \/ MarkExpires(m)
         \/ \E c \in Consumers : RunTail(c) \/ Rebalance(c) \/ Crash(c)
         \/ Commit
         \/ Quiet
<1> USE DEF messages, topic, consumer, redis, mongo, calls, Quiet
<1>1. ASSUME UNCHANGED vars PROVE Quiet
  BY <1>1 DEF vars
<1>2. ASSUME NEW u \in Users,
             MarkRead(u) \/ ReadPointer(u) \/ ReadDirty(u) \/ RunRecount(u)
      PROVE  Quiet
  BY <1>2 DEF MarkRead, ReadPointer, ReadDirty, RunRecount, RecountPointer,
              RecountMessages, RecountWrite
<1>3. ASSUME NEW m \in 1..Len(log), Resend(m) \/ Delete(m) \/ \E u \in Users : Hide(u, m)
      PROVE  Quiet
  BY <1>3 DEF Resend, Delete, Hide
<1>4. ASSUME DeleteMessage \/ CallFails PROVE Quiet
  BY <1>4 DEF DeleteMessage, CallFails
<1>5. ASSUME NEW f \in Consumers, RunFlush(f) PROVE Quiet
  BY <1>5 DEF RunFlush, FlushStart, FlushRead, FlushWrite, FlushFails, FlushClear
<1>6. QED
  BY <1>1, <1>2, <1>3, <1>4, <1>5 DEF Next, RunRead

\* A settled write changes the tail as Settle says, and nothing else but what it
\* writes; a find that throws ends the tail before its writes.
Write(c) ==
  WritePreview(c) \/ WritePointer(c) \/ WriteBadge(c) \/ WriteFails(c) \/ FindThrows(c)

\* The pipeline, whatever came of it.
Counted(c) == Count(c) \/ CountFails(c)

LEMMA CountStep ==
  ASSUME TypeOK, TailInv, NEW c \in Consumers, Counted(c)
  PROVE  /\ UNCHANGED <<log, sending, queue, position, owner, processed, preview>>
         /\ tail[c].pc = "count" /\ tail[c].msg \in Msgs /\ tail[c].msg \in 1..Len(log)
         /\ tail'[c].pc = "write" /\ tail'[c].msg = tail[c].msg /\ tail'[c].left = AllWrites
         /\ \A d \in Consumers \ {c} : tail'[d] = tail[d]
         /\ hist'.unguarded = hist.unguarded /\ hist'.since = hist.since
         /\ hist'.last = hist.last /\ hist'.beside = hist.beside
         /\ hist.torn \subseteq hist'.torn
         /\ \A m \in Msgs : /\ hist'.counted[m] \in {hist.counted[m], hist.counted[m] + 1}
                            /\ m # tail[c].msg => hist'.counted[m] = hist.counted[m]
         /\ \/ hist'.counted[tail[c].msg] = hist.counted[tail[c].msg] + 1
            \/ tail[c].msg \in hist'.torn
<1> USE DEF messages, topic, consumer, redis, mongo, calls
<1> DEFINE m == tail[c].msg
<1>0. /\ tail \in [Consumers -> TailState] /\ hist \in History
      /\ hist.counted \in [Msgs -> Nat]
  BY DEF TypeOK, History, Counts
<1>1. PICK us \in SUBSET Users : Add(c, us)
  BY DEF Counted, Count, CountFails, Others
<1>2. m \in 1..Len(log) /\ m \in Msgs
  BY <1>1, ConstantsAssumption DEF Add, TypeOK, TailInv, Msgs
<1>3. /\ tail[c].pc = "count"
      /\ tail'[c].pc = "write" /\ tail'[c].msg = m /\ tail'[c].left = AllWrites
      /\ \A d \in Consumers \ {c} : tail'[d] = tail[d]
      /\ UNCHANGED <<log, sending, queue, position, owner, processed, preview>>
  BY <1>0, <1>1 DEF Add, TailState
<1>4. PICK n \in {hist.counted[m], hist.counted[m] + 1}, to \in SUBSET Msgs :
        /\ hist' = [hist EXCEPT !.counted = [hist.counted EXCEPT ![m] = n], !.torn = to]
        /\ hist.torn \subseteq to
        /\ n = hist.counted[m] + 1 \/ m \in to
  <2>1. CASE Count(c)
    <3>1. hist' = [hist EXCEPT !.counted = [hist.counted EXCEPT ![m] = hist.counted[m] + 1],
                               !.torn = hist.torn]
      BY <1>0, <2>1 DEF Count, History
    <3>2. hist.torn \in SUBSET Msgs
      BY <1>0 DEF History
    <3>3. QED
      BY <3>1, <3>2
  <2>2. CASE CountFails(c)
    <3>1. PICK vs \in SUBSET Others(m) :
            hist' = [hist EXCEPT !.counted[m] = IF vs = {} THEN @ ELSE @ + 1,
                                 !.torn = @ \union {m}]
      BY <2>2 DEF CountFails
    <3>2. PICK n \in {hist.counted[m], hist.counted[m] + 1} :
            n = IF vs = {} THEN hist.counted[m] ELSE hist.counted[m] + 1
      OBVIOUS
    <3>3. hist' = [hist EXCEPT !.counted = [hist.counted EXCEPT ![m] = n],
                               !.torn = hist.torn \union {m}]
      BY <1>0, <3>1, <3>2 DEF History
    <3>4. hist.torn \union {m} \in SUBSET Msgs
      BY <1>0, <1>2 DEF History
    <3>5. QED
      BY <3>3, <3>4
  <2>3. QED
    BY <2>1, <2>2 DEF Counted
<1>5. /\ hist'.unguarded = hist.unguarded /\ hist'.since = hist.since
      /\ hist'.last = hist.last /\ hist'.beside = hist.beside
      /\ hist'.torn = to /\ hist'.counted = [hist.counted EXCEPT ![m] = n]
  BY <1>0, <1>4 DEF History
<1> HIDE DEF m
<1>6. QED
  BY <1>0, <1>2, <1>3, <1>4, <1>5 DEF m

LEMMA Writes ==
  ASSUME TypeOK, TailInv, NEW c \in Consumers, Write(c)
  PROVE  /\ UNCHANGED <<log, sending, queue, position, owner, processed>>
         /\ hist'.counted = hist.counted /\ hist'.unguarded = hist.unguarded
         /\ hist'.last = hist.last /\ hist'.beside = hist.beside
         /\ hist.torn \subseteq hist'.torn
         /\ tail[c].pc = "write" /\ tail' \in [Consumers -> TailState]
         /\ \A d \in Consumers \ {c} : tail'[d] = tail[d]
         /\ \/ tail'[c] = IdleTail
            \/ /\ tail'[c].pc = "write" /\ tail'[c].msg = tail[c].msg
<1> USE DEF messages, topic, consumer, redis, mongo, calls
<1>1. ASSUME NEW w, Settle(c, w)
      PROVE  /\ tail[c].pc = "write" /\ tail' \in [Consumers -> TailState]
             /\ \A d \in Consumers \ {c} : tail'[d] = tail[d]
             /\ \/ tail'[c] = IdleTail
                \/ tail'[c].pc = "write" /\ tail'[c].msg = tail[c].msg
  BY <1>1, SettleStep
<1>5. ASSUME FindThrows(c)
      PROVE  /\ tail[c].pc = "write" /\ tail' \in [Consumers -> TailState]
             /\ \A d \in Consumers \ {c} : tail'[d] = tail[d]
             /\ tail'[c] = IdleTail
  BY <1>5, ConstantTypes DEF FindThrows, AllWrites, TailInv, TypeOK
<1>2. /\ UNCHANGED <<log, sending, queue, position, owner, processed>>
  BY DEF Write, WritePreview, WritePointer, WriteBadge, WriteFails, FindThrows
<1>3. /\ hist'.counted = hist.counted /\ hist'.unguarded = hist.unguarded
      /\ hist'.last = hist.last /\ hist'.beside = hist.beside
      /\ hist.torn \subseteq hist'.torn
  BY DEF Write, WritePreview, WritePointer, WriteBadge, WriteFails, FindThrows, TypeOK, History
<1>4. QED
  BY <1>1, <1>2, <1>3, <1>5
  DEF Write, WritePreview, WritePointer, WriteBadge, WriteFails

LEMMA TailStep == TypeOK /\ TailInv /\ [Next]_vars => TailInv'
<1> SUFFICES ASSUME TypeOK, TailInv, [Next]_vars, NEW d \in Consumers
             PROVE  /\ tail'[d].pc # "idle" => tail'[d].msg \in 1..Len(log')
                    /\ tail'[d].pc # "write" => tail'[d].left = {}
  BY DEF TailInv
<1> USE DEF messages, topic, consumer, redis, mongo, calls, IdleTail
<1>0. /\ tail \in [Consumers -> TailState] /\ tail[d] \in TailState /\ Len(log) \in Nat
      /\ tail[d].pc # "idle" => tail[d].msg \in 1..Len(log)
      /\ tail[d].pc # "write" => tail[d].left = {}
  BY DEF TypeOK, TailInv
<1>1. ASSUME NEW u \in Users, Create(u) PROVE tail' = tail /\ Len(log') = Len(log) + 1
  BY <1>1 DEF Create, TypeOK
<1>2. ASSUME NEW u \in Users, ReadBadge(u) PROVE tail' = tail /\ log' = log
  BY <1>2 DEF ReadBadge
<1>3. ASSUME NEW m \in 1..Len(log), Dispatch(m) \/ LoseDispatch(m) \/ MarkExpires(m)
      PROVE  tail' = tail /\ log' = log
  BY <1>3 DEF Dispatch, LoseDispatch, MarkExpires
<1>4. ASSUME NEW c \in Consumers, Skip(c) \/ Rebalance(c) PROVE tail' = tail /\ log' = log
  BY <1>4 DEF Skip, Rebalance
<1>5. ASSUME NEW c \in Consumers, Check(c)
      PROVE  /\ tail'[d].pc # "idle" => tail'[d].msg \in 1..Len(log')
             /\ tail'[d].pc # "write" => tail'[d].left = {}
  <2>1. queue[position + 1] \in 1..Len(log)
    BY <1>5 DEF Check, TypeOK
  <2>2. QED
    BY <1>0, <1>5, <2>1 DEF Check
<1>6. ASSUME NEW c \in Consumers, MarkProcessed(c)
      PROVE  /\ tail'[d].pc # "idle" => tail'[d].msg \in 1..Len(log')
             /\ tail'[d].pc # "write" => tail'[d].left = {}
  BY <1>0, <1>6 DEF MarkProcessed, TailState
<1>7. ASSUME NEW c \in Consumers, Counted(c)
      PROVE  /\ tail'[d].pc # "idle" => tail'[d].msg \in 1..Len(log')
             /\ tail'[d].pc # "write" => tail'[d].left = {}
  BY <1>0, <1>7, CountStep
<1>8. ASSUME NEW c \in Consumers, Write(c)
      PROVE  /\ tail'[d].pc # "idle" => tail'[d].msg \in 1..Len(log')
             /\ tail'[d].pc # "write" => tail'[d].left = {}
  BY <1>0, <1>8, Writes DEF TailInv
<1>9. ASSUME NEW c \in Consumers, Crash(c)
      PROVE  /\ tail'[d].pc # "idle" => tail'[d].msg \in 1..Len(log')
             /\ tail'[d].pc # "write" => tail'[d].left = {}
  BY <1>0, <1>9 DEF Crash
<1>10. ASSUME Commit \/ Quiet PROVE tail' = tail /\ log' = log
  BY <1>10 DEF Commit, Quiet
<1>11. QED
  BY <1>0, <1>1, <1>2, <1>3, <1>4, <1>5, <1>6, <1>7, <1>8, <1>9, <1>10, Steps
  DEF RunTail, Write, Counted

-------------------------------------------------------------------------------
(* Each message is counted once *)

\* Tail c is between the check of message m and its count, or just before the count.
Before(c, m) == tail[c].pc \in {"mark", "count"} /\ tail[c].msg = m
Counting(c, m) == tail[c].pc = "count" /\ tail[c].msg = m

\* A guarded message has one tail at most before its count, and none once it is
\* counted; while it is not marked it is neither counted nor about to be.
Guarded(m) ==
  /\ \A c, d \in Consumers : Before(c, m) /\ Before(d, m) => c = d
  /\ hist.counted[m] <= 1
  /\ hist.counted[m] > 0 => \A c \in Consumers : ~Before(c, m)
  /\ m \notin processed => hist.counted[m] = 0 /\ \A c \in Consumers : ~Counting(c, m)

OnceInv == \A m \in Msgs \ hist.unguarded : Guarded(m)

LEMMA OnceStep == TypeOK /\ TailInv /\ OnceInv /\ [Next]_vars => OnceInv'
<1> SUFFICES ASSUME TypeOK, TailInv, OnceInv, [Next]_vars,
                    NEW m \in Msgs, m \notin hist'.unguarded
             PROVE  Guarded(m)'
  BY DEF OnceInv
<1> USE DEF messages, topic, consumer, redis, mongo, calls
<1>0. tail \in [Consumers -> TailState] /\ hist \in History /\ hist.counted[m] \in Nat
  BY DEF TypeOK, History, Counts
<1>1. ASSUME UNCHANGED <<tail, processed>>, hist'.counted = hist.counted,
             hist'.unguarded = hist.unguarded
      PROVE  Guarded(m)'
  BY <1>1 DEF OnceInv, Guarded, Before, Counting
<1>2. ASSUME NEW u \in Users, Create(u) \/ ReadBadge(u) PROVE Guarded(m)'
  BY <1>0, <1>1, <1>2 DEF Create, ReadBadge, History
<1>3. ASSUME NEW n \in 1..Len(log), Dispatch(n) \/ LoseDispatch(n) PROVE Guarded(m)'
  BY <1>0, <1>1, <1>3 DEF Dispatch, LoseDispatch, History
<1>12. ASSUME NEW n \in 1..Len(log), MarkExpires(n) PROVE Guarded(m)'
  <2>1. /\ tail' = tail /\ hist'.counted = hist.counted /\ processed' = processed \ {n}
        /\ m \notin hist.unguarded /\ m # n
    BY <1>0, <1>12 DEF MarkExpires, History
  <2>2. Guarded(m)
    BY <2>1 DEF OnceInv
  <2>3. QED
    BY <2>1, <2>2 DEF Guarded, Before, Counting
<1>4. ASSUME NEW c \in Consumers, Skip(c) \/ Rebalance(c) PROVE Guarded(m)'
  BY <1>0, <1>1, <1>4 DEF Skip, Rebalance
<1>5. ASSUME Commit \/ Quiet PROVE Guarded(m)'
  BY <1>0, <1>1, <1>5 DEF Commit, Quiet
<1>6. ASSUME NEW c \in Consumers, Check(c) PROVE Guarded(m)'
  <2> DEFINE n == queue[position + 1]
             new == [pc |-> "mark", msg |-> n, left |-> {}]
  <2>1. /\ tail' = [tail EXCEPT ![c] = new] /\ processed' = processed
        /\ new.pc = "mark" /\ new.msg = n
    BY <1>6 DEF Check
  <2>2. /\ hist'.counted = hist.counted /\ m \notin hist.unguarded
        /\ m = n => n \notin processed /\ \A d \in Consumers : tail[d].pc # "idle" => tail[d].msg # n
    BY <1>0, <1>6 DEF Check, History
  <2>3. Guarded(m)
    BY <2>2 DEF OnceInv
  <2> HIDE DEF n, new
  <2>4. QED
    BY <1>0, <2>1, <2>2, <2>3 DEF Guarded, Before, Counting
<1>7. ASSUME NEW c \in Consumers, MarkProcessed(c) PROVE Guarded(m)'
  <2>1. /\ tail[c].pc = "mark" /\ tail'[c].pc = "count" /\ tail'[c].msg = tail[c].msg
        /\ \A d \in Consumers \ {c} : tail'[d] = tail[d]
    BY <1>0, <1>7 DEF MarkProcessed, TailState
  <2>2. /\ hist'.counted = hist.counted /\ m \notin hist.unguarded
        /\ processed \subseteq processed'
        /\ m = tail[c].msg => m \in processed'
    <3>1. CASE processed' = processed \union {tail[c].msg} /\ hist' = [hist EXCEPT !.last = tail[c].msg]
      BY <1>0, <3>1 DEF History
    <3>2. CASE /\ hist' = [hist EXCEPT !.unguarded = @ \union {tail[c].msg}, !.last = tail[c].msg]
               /\ processed' = processed
      BY <1>0, <3>2 DEF History
    <3>3. QED
      BY <1>7, <3>1, <3>2 DEF MarkProcessed
  <2>3. Guarded(m)
    BY <2>2 DEF OnceInv
  <2>4. QED
    BY <2>1, <2>2, <2>3 DEF Guarded, Before, Counting
<1>8. ASSUME NEW c \in Consumers, Counted(c) PROVE Guarded(m)'
  <2>1. /\ tail[c].pc = "count" /\ tail'[c].pc = "write" /\ processed' = processed
        /\ \A d \in Consumers \ {c} : tail'[d] = tail[d]
    BY <1>8, CountStep
  <2>2. /\ m \notin hist.unguarded
        /\ hist'.counted[m] \in {hist.counted[m], hist.counted[m] + 1}
        /\ m # tail[c].msg => hist'.counted[m] = hist.counted[m]
    BY <1>8, CountStep
  <2>3. Guarded(m)
    BY <2>2 DEF OnceInv
  <2>4. QED
    BY <1>0, <2>1, <2>2, <2>3 DEF Guarded, Before, Counting
<1>9. ASSUME NEW c \in Consumers, Write(c) PROVE Guarded(m)'
  <2>1. Guarded(m) /\ hist'.counted = hist.counted /\ processed' = processed
    BY <1>9, Writes DEF OnceInv
  <2>2. /\ tail[c].pc = "write" /\ \A d \in Consumers \ {c} : tail'[d] = tail[d]
        /\ tail'[c].pc \in {"idle", "write"}
    BY <1>9, Writes DEF IdleTail
  <2>3. QED
    BY <2>1, <2>2 DEF Guarded, Before, Counting
<1>10. ASSUME NEW c \in Consumers, Crash(c) PROVE Guarded(m)'
  <2>1. Guarded(m) /\ hist'.counted = hist.counted /\ processed' = processed
    BY <1>0, <1>10 DEF Crash, OnceInv, History
  <2>2. /\ tail'[c].pc = "idle" /\ \A d \in Consumers \ {c} : tail'[d] = tail[d]
    BY <1>0, <1>10 DEF Crash, IdleTail
  <2>3. QED
    BY <2>1, <2>2 DEF Guarded, Before, Counting
<1>11. QED
  BY <1>2, <1>3, <1>4, <1>5, <1>6, <1>7, <1>8, <1>9, <1>10, <1>12, Steps
  DEF RunTail, Write, Counted

-------------------------------------------------------------------------------
(* No message is dropped *)

\* The tail of m counted it, was cut off, or is about to count it.
Handled(m) ==
  hist.counted[m] > 0 \/ m \in hist.torn \/ \E c \in Consumers : Counting(c, m)

\* Place p of the partition is still to be taken, or its record is being marked by
\* the tail of the owner.
Pending(p) ==
  p > position \/ (tail[owner].pc = "mark" /\ tail[owner].msg = queue[p])

ToCome(m) == \E p \in 1..Len(queue) : queue[p] = m /\ Pending(p)

\* What is marked was not dropped, so what is neither sent nor to come is handled.
RunInv ==
  /\ \A m \in processed : Handled(m)
  /\ \A m \in 1..Len(log) : Handled(m) \/ m \in sending \/ ToCome(m)

LEMMA HandledStep ==
  ASSUME TypeOK, TailInv, [Next]_vars, NEW m \in 1..Len(log), Handled(m)
  PROVE  Handled(m)'
<1> USE DEF messages, topic, consumer, redis, mongo, calls
<1>0. /\ tail \in [Consumers -> TailState] /\ hist \in History /\ m \in Msgs
      /\ hist.counted[m] \in Nat
  <2>1. m \in Msgs
    BY ConstantsAssumption DEF TypeOK, Msgs
  <2>2. QED
    BY <2>1 DEF TypeOK, History, Counts
<1>1. ASSUME tail' = tail, hist'.counted = hist.counted, hist.torn \subseteq hist'.torn
      PROVE  Handled(m)'
  BY <1>1 DEF Handled, Counting
<1>2. ASSUME NEW u \in Users, Create(u) \/ ReadBadge(u) PROVE Handled(m)'
  BY <1>0, <1>1, <1>2 DEF Create, ReadBadge, History
<1>3. ASSUME NEW n \in 1..Len(log), Dispatch(n) \/ LoseDispatch(n) \/ MarkExpires(n)
      PROVE  Handled(m)'
  BY <1>0, <1>1, <1>3 DEF Dispatch, LoseDispatch, MarkExpires, History
<1>4. ASSUME NEW c \in Consumers, Skip(c) \/ Rebalance(c) PROVE Handled(m)'
  BY <1>0, <1>1, <1>4 DEF Skip, Rebalance
<1>5. ASSUME Commit \/ Quiet PROVE Handled(m)'
  BY <1>0, <1>1, <1>5 DEF Commit, Quiet
<1>6. ASSUME NEW c \in Consumers, Check(c) PROVE Handled(m)'
  <2>1. /\ tail[c].pc = "idle" /\ \A d \in Consumers \ {c} : tail'[d] = tail[d]
    BY <1>0, <1>6 DEF Check
  <2>2. hist'.counted = hist.counted /\ hist'.torn = hist.torn
    BY <1>0, <1>6 DEF Check, History
  <2>3. QED
    BY <2>1, <2>2 DEF Handled, Counting
<1>7. ASSUME NEW c \in Consumers, MarkProcessed(c) PROVE Handled(m)'
  <2>1. /\ tail[c].pc = "mark" /\ \A d \in Consumers \ {c} : tail'[d] = tail[d]
    BY <1>0, <1>7 DEF MarkProcessed
  <2>2. hist'.counted = hist.counted /\ hist'.torn = hist.torn
    BY <1>0, <1>7 DEF MarkProcessed, History
  <2>3. QED
    BY <2>1, <2>2 DEF Handled, Counting
<1>8. ASSUME NEW c \in Consumers, Counted(c) PROVE Handled(m)'
  <2>1. /\ tail[c].pc = "count" /\ \A d \in Consumers \ {c} : tail'[d] = tail[d]
    BY <1>8, CountStep
  <2>2. /\ hist'.counted[m] \in {hist.counted[m], hist.counted[m] + 1}
        /\ m = tail[c].msg => hist'.counted[m] = hist.counted[m] + 1 \/ m \in hist'.torn
        /\ hist.torn \subseteq hist'.torn
    BY <1>0, <1>8, CountStep
  <2>3. QED
    BY <1>0, <2>1, <2>2 DEF Handled, Counting
<1>9. ASSUME NEW c \in Consumers, Write(c) PROVE Handled(m)'
  <2>1. hist'.counted = hist.counted /\ hist.torn \subseteq hist'.torn
    BY <1>9, Writes
  <2>2. tail[c].pc = "write" /\ \A d \in Consumers \ {c} : tail'[d] = tail[d]
    BY <1>9, Writes
  <2>3. QED
    BY <2>1, <2>2 DEF Handled, Counting
<1>10. ASSUME NEW c \in Consumers, Crash(c) PROVE Handled(m)'
  <2>1. /\ hist'.counted = hist.counted
        /\ hist'.torn = hist.torn \union {n \in Msgs : tail[c].msg = n /\ tail[c].pc # "mark"}
    BY <1>0, <1>10 DEF Crash, History
  <2>2. \A d \in Consumers \ {c} : tail'[d] = tail[d]
    BY <1>0, <1>10 DEF Crash
  <2>3. QED
    BY <1>0, <2>1, <2>2 DEF Handled, Counting
<1>11. QED
  BY <1>2, <1>3, <1>4, <1>5, <1>6, <1>7, <1>8, <1>9, <1>10, Steps DEF RunTail, Write, Counted

\* Only a mark makes a message marked, and the count comes next.
LEMMA MarkedStep ==
  ASSUME TypeOK, TailInv, RunInv, [Next]_vars, NEW m \in processed'
  PROVE  Handled(m)'
<1> USE DEF messages, topic, consumer, redis, mongo, calls
<1>1. CASE m \in processed
  BY <1>1, HandledStep DEF RunInv, TypeOK
<1>2. CASE m \notin processed
  <2>1. PICK c \in Consumers : MarkProcessed(c)
    <3>1. \A c \in Consumers : Write(c) \/ Counted(c) => processed' = processed
      BY Writes, CountStep
    <3>2. QED
      BY <1>2, <3>1, Steps DEF Create, ReadBadge, Dispatch, LoseDispatch, MarkExpires, RunTail,
         Skip, Check, Counted, Write, Rebalance, Crash, Commit, Quiet
  <2>2. tail[c].msg = m /\ tail'[c].msg = m /\ tail'[c].pc = "count"
    BY <1>2, <2>1 DEF MarkProcessed, TypeOK, TailState
  <2>3. QED
    BY <2>2 DEF Handled, Counting
<1>3. QED
  BY <1>1, <1>2

\* A record leaves the partition only when the owner has gone past its mark.
LEMMA ToComeStep ==
  ASSUME TypeOK, TailInv, RunInv, [Next]_vars, NEW m \in 1..Len(log), ToCome(m)
  PROVE  Handled(m)' \/ ToCome(m)'
<1> USE DEF messages, topic, consumer, redis, mongo, calls
<1>0. /\ tail \in [Consumers -> TailState] /\ owner \in Consumers
      /\ queue \in Seq(1..Len(log)) /\ Len(queue) \in Nat /\ position \in 0..Len(queue)
  BY DEF TypeOK
<1>a. PICK p \in 1..Len(queue) : queue[p] = m /\ Pending(p)
  BY DEF ToCome
<1>1. ASSUME UNCHANGED <<queue, position, owner, tail>> PROVE ToCome(m)'
  BY <1>1, <1>a DEF ToCome, Pending
<1>2. ASSUME NEW u \in Users, Create(u) \/ ReadBadge(u) PROVE ToCome(m)'
  BY <1>1, <1>2 DEF Create, ReadBadge
<1>3. ASSUME NEW n \in 1..Len(log), LoseDispatch(n) \/ MarkExpires(n) PROVE ToCome(m)'
  BY <1>1, <1>3 DEF LoseDispatch, MarkExpires
<1>4. ASSUME NEW n \in 1..Len(log), Dispatch(n) PROVE ToCome(m)'
  <2>1. queue' = Append(queue, n) /\ UNCHANGED <<position, owner, tail>>
    BY <1>4 DEF Dispatch
  <2>2. Len(queue') = Len(queue) + 1 /\ queue'[p] = queue[p]
    BY <1>0, <2>1
  <2>3. p \in 1..Len(queue')
    BY <1>0, <2>2
  <2>4. QED
    BY <1>a, <2>1, <2>2, <2>3 DEF ToCome, Pending
<1>5. ASSUME NEW c \in Consumers, Skip(c) PROVE Handled(m)' \/ ToCome(m)'
  <2>1. /\ owner = c /\ tail[c].pc = "idle" /\ queue[position + 1] \in processed
        /\ position' = position + 1 /\ UNCHANGED <<queue, owner, tail, processed>>
    BY <1>5 DEF Skip
  <2>2. CASE p = position + 1
    BY <1>a, <2>1, <2>2, HandledStep DEF RunInv
  <2>3. CASE p # position + 1
    BY <1>0, <1>a, <2>1, <2>3 DEF ToCome, Pending
  <2>4. QED
    BY <2>2, <2>3
<1>6. ASSUME NEW c \in Consumers, Check(c) PROVE ToCome(m)'
  <2>1. /\ owner = c /\ tail[c].pc = "idle" /\ position' = position + 1
        /\ tail'[c].pc = "mark" /\ tail'[c].msg = queue[position + 1]
        /\ UNCHANGED <<queue, owner>>
    BY <1>0, <1>6 DEF Check
  <2>2. QED
    BY <1>0, <1>a, <2>1 DEF ToCome, Pending
<1>7. ASSUME NEW c \in Consumers, MarkProcessed(c) PROVE Handled(m)' \/ ToCome(m)'
  <2>1. /\ tail'[c].pc = "count" /\ tail'[c].msg = tail[c].msg
        /\ \A d \in Consumers \ {c} : tail'[d] = tail[d]
        /\ UNCHANGED <<queue, position, owner>>
    BY <1>0, <1>7 DEF MarkProcessed, TailState
  <2>2. CASE p > position
    BY <1>a, <2>1, <2>2 DEF ToCome, Pending
  <2>3. CASE tail[owner].pc = "mark" /\ tail[owner].msg = m
    BY <1>0, <1>a, <2>1, <2>3 DEF ToCome, Pending, Handled, Counting
  <2>4. QED
    BY <1>a, <2>2, <2>3 DEF Pending
<1>8. ASSUME NEW c \in Consumers, Counted(c) PROVE ToCome(m)'
  <2>1. /\ tail[c].pc = "count" /\ \A d \in Consumers \ {c} : tail'[d] = tail[d]
        /\ UNCHANGED <<queue, position, owner>>
    BY <1>8, CountStep
  <2>2. QED
    BY <1>0, <1>a, <2>1 DEF ToCome, Pending
<1>9. ASSUME NEW c \in Consumers, Write(c) PROVE ToCome(m)'
  <2>1. tail[c].pc = "write" /\ \A d \in Consumers \ {c} : tail'[d] = tail[d]
    BY <1>9, Writes
  <2>2. UNCHANGED <<queue, position, owner>>
    BY <1>9, Writes
  <2>3. QED
    BY <1>0, <1>a, <2>1, <2>2 DEF ToCome, Pending
<1>10. CASE Commit
  <2>1. /\ position \in 1..Len(queue) /\ tail[owner].pc = "idle" /\ position' = 0
        /\ queue' = SubSeq(queue, position + 1, Len(queue))
    BY <1>0, <1>10 DEF Commit
  <2>2. p > position
    BY <1>a, <2>1 DEF Pending
  <2>3. p - position \in 1..Len(queue') /\ queue'[p - position] = m
    BY <1>0, <1>a, <2>1, <2>2
  <2>4. p - position > position'
    BY <1>0, <2>1, <2>2
  <2>5. QED
    BY <2>3, <2>4 DEF ToCome, Pending
<1>11. ASSUME NEW c \in Consumers, Rebalance(c) PROVE ToCome(m)'
  <2>1. position' = 0 /\ queue' = queue
    BY <1>11 DEF Rebalance
  <2>2. QED
    BY <1>a, <2>1 DEF ToCome, Pending
<1>12. ASSUME NEW c \in Consumers, Crash(c) PROVE ToCome(m)'
  <2>1. queue' = queue /\ \A d \in Consumers \ {c} : tail'[d] = tail[d]
    BY <1>0, <1>12 DEF Crash
  <2>2. position' = 0 \/ (owner # c /\ UNCHANGED <<owner, position>>)
    BY <1>12 DEF Crash
  <2>3. QED
    BY <1>0, <1>a, <2>1, <2>2 DEF ToCome, Pending
<1>13. CASE Quiet
  BY <1>1, <1>13 DEF Quiet
<1>14. QED
  BY <1>2, <1>3, <1>4, <1>5, <1>6, <1>7, <1>8, <1>9, <1>10, <1>11, <1>12, <1>13, Steps
  DEF RunTail, Write, Counted

LEMMA RunStep == TypeOK /\ TailInv /\ RunInv /\ [Next]_vars => RunInv'
<1> SUFFICES ASSUME TypeOK, TailInv, RunInv, [Next]_vars
             PROVE  RunInv'
  OBVIOUS
<1> USE DEF messages, topic, consumer, redis, mongo, calls
<1>1. \A m \in processed' : Handled(m)'
  BY MarkedStep
<1>2. ASSUME NEW m \in 1..Len(log') PROVE Handled(m)' \/ m \in sending' \/ ToCome(m)'
  <2>1. CASE m \notin 1..Len(log)
    <3>1. \A c \in Consumers : Write(c) \/ Counted(c) => log' = log
      BY Writes, CountStep
    <3>2. PICK u \in Users : Create(u)
      BY <2>1, <3>1, Steps DEF ReadBadge, Dispatch, LoseDispatch, MarkExpires, RunTail, Skip,
         Check, MarkProcessed, Counted, Write, Rebalance, Crash, Commit, Quiet
    <3>3. m = Len(log) + 1
      BY <2>1, <3>2 DEF Create, TypeOK
    <3>4. QED
      BY <3>2, <3>3 DEF Create
  <2>2. CASE m \in 1..Len(log) /\ Handled(m)
    BY <2>2, HandledStep
  <2>3. CASE m \in 1..Len(log) /\ ToCome(m)
    BY <2>3, ToComeStep
  <2>4. CASE m \in 1..Len(log) /\ m \in sending
    <3>1. \A c \in Consumers : Write(c) \/ Counted(c) => sending' = sending
      BY Writes, CountStep
    <3>2. CASE m \in sending'
      BY <3>2
    <3>3. CASE LoseDispatch(m)
      <4>1. m \in hist'.torn
        BY <3>3 DEF LoseDispatch, TypeOK, History
      <4>2. QED
        BY <4>1 DEF Handled
    <3>4. CASE Dispatch(m)
      <4>1. /\ queue' = Append(queue, m) /\ position' = position
            /\ queue \in Seq(1..Len(log)) /\ position \in 0..Len(queue)
        BY <3>4 DEF Dispatch, TypeOK
      <4>2. Len(queue') = Len(queue) + 1 /\ Len(queue) \in Nat /\ queue'[Len(queue) + 1] = m
        BY <4>1
      <4>3. Len(queue) + 1 \in 1..Len(queue') /\ Len(queue) + 1 > position'
        BY <4>1, <4>2
      <4>4. QED
        BY <4>2, <4>3 DEF ToCome, Pending
    <3>5. CASE m \notin sending' /\ ~LoseDispatch(m) /\ ~Dispatch(m)
      <4>1. \A u \in Users : Create(u) \/ ReadBadge(u) => sending \subseteq sending'
        BY DEF Create, ReadBadge
      <4>2. \A n \in 1..Len(log) : n # m /\ (Dispatch(n) \/ LoseDispatch(n)) => m \in sending'
        BY <2>4 DEF Dispatch, LoseDispatch
      <4>3. \A c \in Consumers : Rebalance(c) \/ Crash(c) => sending' = sending
        BY DEF Rebalance, Crash
      <4>4. ASSUME NEW c \in Consumers, RunTail(c) PROVE sending' = sending
        <5>1. Skip(c) \/ Check(c) \/ MarkProcessed(c) => sending' = sending
          BY DEF Skip, Check, MarkProcessed
        <5>2. QED
          BY <3>1, <4>4, <5>1 DEF RunTail, Write, Counted
      <4>5. Commit \/ Quiet => sending \subseteq sending'
        BY DEF Commit, Quiet
      <4>7. \A n \in 1..Len(log) : MarkExpires(n) => sending' = sending
        BY DEF MarkExpires
      <4>6. QED
        BY <2>4, <3>5, <4>1, <4>2, <4>3, <4>4, <4>5, <4>7, Steps
    <3>6. QED
      BY <3>2, <3>3, <3>4, <3>5
  <2>5. QED
    BY <2>1, <2>2, <2>3, <2>4 DEF RunInv
<1>3. QED
  BY <1>1, <1>2 DEF RunInv

-------------------------------------------------------------------------------
(* No reset swallows news *)

\* The messages of others that came after the badge of u was reset and were counted
\* for all of them.
News(u) ==
  {m \in hist.since[u] + 1 .. Len(log) :
     log[m] # u /\ hist.counted[m] > 0 /\ m \notin hist.torn}

NewsInv ==
  /\ \A m \in Msgs : hist.counted[m] > 0 => m <= Len(log)
  /\ \A u \in Users : Cardinality(News(u)) <= unread[u]

LEMMA NewsFinite ==
  ASSUME TypeOK, NEW u \in Users
  PROVE  /\ News(u) \subseteq 1..Len(log) /\ News(u) \subseteq Msgs
         /\ IsFiniteSet(News(u)) /\ Cardinality(News(u)) \in Nat
<1>1. Len(log) \in Nat /\ Len(log) <= MaxMsgs /\ hist.since[u] \in Nat
  BY ConstantsAssumption DEF TypeOK, History
<1>2. News(u) \subseteq 1..Len(log) /\ News(u) \subseteq Msgs
  BY <1>1, ConstantsAssumption DEF News, Msgs
<1>3. IsFiniteSet(1..Len(log))
  <2>1. 1 \in Int /\ Len(log) \in Int
    BY <1>1
  <2>2. QED
    BY <2>1, FS_Interval
<1>4. QED
  BY <1>2, <1>3, FS_Subset, FS_CardinalityType

\* Counted messages exist.
LEMMA CountedExists ==
  ASSUME TypeOK, TailInv, NewsInv, [Next]_vars, NEW m \in Msgs, hist'.counted[m] > 0
  PROVE  m <= Len(log) /\ Len(log) <= Len(log')
<1> USE DEF messages, topic, consumer, redis, mongo, calls
<1>0. /\ tail \in [Consumers -> TailState] /\ hist \in History /\ Len(log) \in Nat
      /\ \A c \in Consumers : tail[c].pc # "idle" => tail[c].msg \in 1..Len(log)
  BY DEF TypeOK, TailInv
<1>1. /\ \A c \in Consumers : Write(c) => log' = log /\ hist'.counted = hist.counted
      /\ \A c \in Consumers : Counted(c) => log' = log
  <2>1. \A c \in Consumers : Counted(c) => log' = log
    BY CountStep
  <2>2. QED
    BY <2>1, Writes
<1>2. ASSUME NEW u \in Users, Create(u) PROVE Len(log') = Len(log) + 1 /\ hist' = hist
  BY <1>2 DEF Create, TypeOK
<1>3. Len(log) <= Len(log')
  <2>1. log' = log \/ \E u \in Users : Create(u)
    BY <1>1, Steps DEF ReadBadge, Dispatch, LoseDispatch, MarkExpires, RunTail, Skip,
       Check, MarkProcessed, Counted, Write, Rebalance, Crash, Commit, Quiet
  <2>2. QED
    BY <1>0, <1>2, <2>1
<1>4. CASE hist.counted[m] > 0
  BY <1>3, <1>4 DEF NewsInv
<1>5. CASE ~(hist.counted[m] > 0)
  <2>1. hist'.counted # hist.counted
    BY <1>5
  <2>2. PICK c \in Consumers : Counted(c)
    <3>1. ASSUME NEW u \in Users, ReadBadge(u) PROVE hist'.counted = hist.counted
      BY <1>0, <3>1 DEF ReadBadge, History
    <3>2. ASSUME NEW n \in 1..Len(log), Dispatch(n) \/ LoseDispatch(n) \/ MarkExpires(n)
          PROVE hist'.counted = hist.counted
      BY <1>0, <3>2 DEF Dispatch, LoseDispatch, MarkExpires, History
    <3>3. ASSUME NEW c \in Consumers,
                 Skip(c) \/ Check(c) \/ MarkProcessed(c) \/ Rebalance(c) \/ Crash(c)
          PROVE hist'.counted = hist.counted
      BY <1>0, <3>3 DEF Skip, Check, MarkProcessed, Rebalance, Crash, History
    <3>4. ASSUME Commit \/ Quiet PROVE hist'.counted = hist.counted
      BY <3>4 DEF Commit, Quiet
    <3>5. QED
      BY <1>1, <1>2, <2>1, <3>1, <3>2, <3>3, <3>4, Steps DEF RunTail, Write, Counted
  <2>3. tail[c].pc = "count" /\ m = tail[c].msg
    BY <1>5, <2>2, CountStep
  <2>4. QED
    BY <1>0, <1>3, <2>3
<1>6. QED
  BY <1>4, <1>5

\* A badge that is not reset, while no message becomes news.
LEMMA NewsSmaller ==
  ASSUME TypeOK, NewsInv, NEW u \in Users, unread[u] <= unread'[u], unread'[u] \in Nat,
         News(u)' \subseteq News(u)
  PROVE  Cardinality(News(u)') <= unread'[u]
<1>1. Cardinality(News(u)') <= Cardinality(News(u)) /\ Cardinality(News(u)') \in Nat
  BY NewsFinite, FS_Subset, FS_CardinalityType
<1>2. Cardinality(News(u)) <= unread[u] /\ Cardinality(News(u)) \in Nat /\ unread[u] \in Nat
  BY NewsFinite DEF NewsInv, TypeOK, Counts
<1>3. QED
  BY <1>1, <1>2

LEMMA NewsKept ==
  ASSUME TypeOK, NewsInv, NEW u \in Users,
         unread'[u] = unread[u], hist'.since[u] = hist.since[u],
         hist'.counted = hist.counted, hist.torn \subseteq hist'.torn, log' = log
  PROVE  Cardinality(News(u)') <= unread'[u]
<1>1. News(u)' \subseteq News(u)
  BY DEF News
<1>2. unread[u] <= unread'[u] /\ unread'[u] \in Nat
  BY DEF TypeOK, Counts
<1>3. QED
  BY <1>1, <1>2, NewsSmaller

\* A badge that is reset.
LEMMA NewsReset ==
  ASSUME TypeOK, NEW u \in Users,
         unread'[u] = 0, hist'.since[u] = Len(log), log' = log
  PROVE  Cardinality(News(u)') <= unread'[u]
<1>1. News(u)' = {}
  BY DEF News, TypeOK
<1>2. QED
  BY <1>1, FS_EmptySet

LEMMA NewsStep == TypeOK /\ TailInv /\ NewsInv /\ [Next]_vars => NewsInv'
<1> SUFFICES ASSUME TypeOK, TailInv, NewsInv, [Next]_vars
             PROVE  NewsInv'
  OBVIOUS
<1>a. \A m \in Msgs : hist'.counted[m] > 0 => m <= Len(log')
  <2>1. ASSUME NEW m \in Msgs, hist'.counted[m] > 0
        PROVE  m <= Len(log) /\ Len(log) <= Len(log')
    BY <2>1, CountedExists
  <2>2. TypeOK'
    BY TypeStep
  <2>3. Len(log) \in Nat /\ Len(log') \in Nat /\ \A m \in Msgs : m \in Nat
    BY <2>2 DEF TypeOK, Msgs
  <2>4. QED
    BY <2>1, <2>3
<1> SUFFICES ASSUME NEW u \in Users
             PROVE  Cardinality(News(u)') <= unread'[u]
  BY <1>a DEF NewsInv
<1> USE DEF messages, topic, consumer, redis, mongo, calls
<1>0. /\ tail \in [Consumers -> TailState] /\ hist \in History /\ unread \in [Users -> Nat]
      /\ Len(log) \in Nat /\ Len(log) <= MaxMsgs /\ log \in Seq(Users)
      /\ hist.counted \in [Msgs -> Nat] /\ hist.since \in [Users -> 0..MaxMsgs]
  BY DEF TypeOK, History, Counts
<1>1. ASSUME NEW v \in Users, Create(v) PROVE Cardinality(News(u)') <= unread'[u]
  <2>1. hist' = hist /\ unread' = unread /\ log' = Append(log, v)
    BY <1>1 DEF Create
  <2>2. Len(log') = Len(log) + 1 /\ \A m \in 1..Len(log) : log'[m] = log[m]
    BY <1>0, <2>1
  <2>3. Len(log) + 1 \in Msgs /\ ~(hist.counted[Len(log) + 1] > 0)
    <3>1. Len(log) + 1 \in Msgs
      BY <1>0, <1>1, ConstantsAssumption DEF Create, Msgs
    <3>2. QED
      BY <1>0, <3>1 DEF NewsInv
  <2>4. News(u)' \subseteq News(u)
    <3>1. ASSUME NEW m \in News(u)' PROVE m \in News(u)
      <4>1. /\ m \in hist.since[u] + 1 .. Len(log) + 1 /\ log'[m] # u
            /\ hist.counted[m] > 0 /\ m \notin hist.torn
        BY <2>1, <2>2 DEF News
      <4>2. m # Len(log) + 1
        BY <2>3, <4>1
      <4>3. m \in 1..Len(log) /\ m \in hist.since[u] + 1 .. Len(log)
        BY <1>0, <4>1, <4>2
      <4>4. QED
        BY <2>2, <4>1, <4>3 DEF News
    <3>2. QED
      BY <3>1
  <2>5. Cardinality(News(u)') <= Cardinality(News(u))
    BY <2>4, NewsFinite, FS_Subset
  <2>6. Cardinality(News(u)) <= unread[u] /\ Cardinality(News(u)) \in Nat
        /\ Cardinality(News(u)') \in Nat /\ unread[u] \in Nat
    BY <1>0, <2>4, NewsFinite, FS_Subset, FS_CardinalityType DEF NewsInv
  <2>7. QED
    BY <2>1, <2>5, <2>6
<1>2. ASSUME NEW v \in Users, ReadBadge(v) PROVE Cardinality(News(u)') <= unread'[u]
  <2>1. CASE u = v
    <3>1. unread'[u] = 0 /\ hist'.since[u] = Len(log) /\ log' = log
      BY <1>0, <1>2, <2>1 DEF ReadBadge, History
    <3>2. QED
      BY <3>1, NewsReset
  <2>2. CASE u # v
    <3>1. /\ unread'[u] = unread[u] /\ hist'.since[u] = hist.since[u]
          /\ hist'.counted = hist.counted /\ hist'.torn = hist.torn /\ log' = log
      BY <1>0, <1>2, <2>2 DEF ReadBadge, History
    <3>2. QED
      BY <3>1, NewsKept
  <2>3. QED
    BY <2>1, <2>2
<1>3. ASSUME NEW n \in 1..Len(log), Dispatch(n) \/ LoseDispatch(n) \/ MarkExpires(n)
      PROVE Cardinality(News(u)') <= unread'[u]
  <2>1. /\ unread'[u] = unread[u] /\ hist'.since[u] = hist.since[u]
        /\ hist'.counted = hist.counted /\ hist.torn \subseteq hist'.torn /\ log' = log
    BY <1>0, <1>3 DEF Dispatch, LoseDispatch, MarkExpires, History
  <2>2. QED
    BY <2>1, NewsKept
<1>4. ASSUME NEW c \in Consumers,
             Skip(c) \/ Check(c) \/ MarkProcessed(c) \/ Rebalance(c) \/ Crash(c)
             \/ WritePreview(c) \/ WritePointer(c) \/ WriteFails(c) \/ FindThrows(c)
      PROVE Cardinality(News(u)') <= unread'[u]
  <2>1. unread' = unread /\ log' = log
    BY <1>4 DEF Skip, Check, MarkProcessed, Rebalance, Crash, WritePreview, WritePointer,
                WriteFails, FindThrows
  <2>2. /\ hist'.since = hist.since /\ hist'.counted = hist.counted
        /\ hist.torn \subseteq hist'.torn
    BY <1>0, <1>4 DEF Skip, Check, MarkProcessed, Rebalance, Crash, WritePreview, WritePointer,
                      WriteFails, FindThrows, History
  <2>3. QED
    BY <2>1, <2>2, NewsKept
<1>5. ASSUME Commit \/ Quiet PROVE Cardinality(News(u)') <= unread'[u]
  <2>1. unread' = unread /\ log' = log /\ hist' = hist
    BY <1>5 DEF Commit, Quiet
  <2>2. QED
    BY <2>1, NewsKept
<1>6. ASSUME NEW c \in Consumers, Count(c) PROVE Cardinality(News(u)') <= unread'[u]
  <2> DEFINE m == tail[c].msg
  <2>1. m \in 1..Len(log) /\ m \in Msgs /\ log[m] \in Users
    BY <1>0, <1>6, ConstantsAssumption DEF Count, Add, TailInv, Msgs
  <2>2. /\ hist'.since = hist.since /\ hist'.torn = hist.torn /\ log' = log
        /\ \A n \in Msgs : hist'.counted[n] = IF n = m THEN hist.counted[n] + 1 ELSE hist.counted[n]
        /\ unread'[u] = IF u # log[m] THEN unread[u] + 1 ELSE unread[u]
    BY <1>0, <1>6 DEF Count, Add, Others, History
  <2>3. /\ Cardinality(News(u)) <= unread[u] /\ unread[u] \in Nat
        /\ IsFiniteSet(News(u)) /\ Cardinality(News(u)) \in Nat
    BY <1>0, NewsFinite DEF NewsInv
  <2>4. News(u) \subseteq Msgs /\ News(u)' \subseteq Msgs
    <3>1. hist.since[u] \in Nat /\ hist.since[u] + 1 .. Len(log) \subseteq Msgs
      BY <1>0, ConstantsAssumption DEF Msgs
    <3>2. QED
      BY <2>2, <3>1 DEF News
  <2> HIDE DEF m
  <2>5. CASE u = log[m]
    <3>1. News(u)' \subseteq News(u)
      BY <1>0, <2>2, <2>4, <2>5 DEF News
    <3>2. Cardinality(News(u)') <= Cardinality(News(u)) /\ Cardinality(News(u)') \in Nat
      BY <2>3, <3>1, FS_Subset, FS_CardinalityType
    <3>3. QED
      BY <2>2, <2>3, <2>5, <3>2
  <2>6. CASE u # log[m]
    <3>1. News(u)' \subseteq News(u) \union {m}
      BY <1>0, <2>2, <2>4 DEF News
    <3>2. /\ IsFiniteSet(News(u) \union {m})
          /\ Cardinality(News(u) \union {m}) <= Cardinality(News(u)) + 1
          /\ Cardinality(News(u) \union {m}) \in Nat
      <4>1. /\ IsFiniteSet(News(u) \union {m})
            /\ Cardinality(News(u) \union {m}) = IF m \in News(u) THEN Cardinality(News(u))
                                                 ELSE Cardinality(News(u)) + 1
        BY <2>3, FS_AddElement
      <4>2. QED
        BY <2>3, <4>1
    <3>3. Cardinality(News(u)') <= Cardinality(News(u) \union {m})
          /\ Cardinality(News(u)') \in Nat
      BY <3>1, <3>2, FS_Subset, FS_CardinalityType
    <3>4. QED
      BY <2>2, <2>3, <2>6, <3>2, <3>3
  <2>7. QED
    BY <2>5, <2>6
<1>7. ASSUME NEW c \in Consumers, WriteBadge(c) PROVE Cardinality(News(u)') <= unread'[u]
  <2> DEFINE v == log[tail[c].msg]
  <2>1. CASE u = v
    <3>1. unread'[u] = 0 /\ hist'.since[u] = Len(log) /\ log' = log
      BY <1>0, <1>7, <2>1 DEF WriteBadge, History
    <3>2. QED
      BY <3>1, NewsReset
  <2>2. CASE u # v
    <3>1. /\ unread'[u] = unread[u] /\ hist'.since[u] = hist.since[u]
          /\ hist'.counted = hist.counted /\ hist'.torn = hist.torn /\ log' = log
      BY <1>0, <1>7, <2>2 DEF WriteBadge, History
    <3>2. QED
      BY <3>1, NewsKept
  <2>3. QED
    BY <2>1, <2>2
<1>8. ASSUME NEW c \in Consumers, CountFails(c) PROVE Cardinality(News(u)') <= unread'[u]
  <2>1. PICK us \in SUBSET Users : Add(c, us)
    BY <1>8 DEF CountFails, Others
  <2>2. unread'[u] \in {unread[u], unread[u] + 1} /\ unread[u] \in Nat
    BY <1>0, <2>1 DEF Add
  <2>3. tail[c].msg \in hist'.torn
    BY <1>0, <1>8 DEF CountFails, History
  <2>4. /\ hist'.since = hist.since /\ hist.torn \subseteq hist'.torn /\ log' = log
        /\ \A m \in Msgs : m # tail[c].msg => hist'.counted[m] = hist.counted[m]
    BY <1>8, CountStep DEF Counted
  <2>5. hist.since[u] + 1 .. Len(log) \subseteq Msgs
    BY <1>0, ConstantsAssumption DEF Msgs
  <2>6. News(u)' \subseteq News(u)
    BY <2>3, <2>4, <2>5 DEF News
  <2>7. unread[u] <= unread'[u] /\ unread'[u] \in Nat
    BY <2>2
  <2>8. QED
    BY <2>6, <2>7, NewsSmaller
<1>9. QED
  BY <1>1, <1>2, <1>3, <1>4, <1>5, <1>6, <1>7, <1>8, Steps DEF RunTail

-------------------------------------------------------------------------------
(* The preview is the last message's *)

\* As long as no tail began beside another, one runs at a time, past its mark it is
\* the last, and after its write the preview is its message.
PreviewInv ==
  ~hist.beside =>
    /\ \A c, d \in Consumers : tail[c].pc # "idle" /\ tail[d].pc # "idle" => c = d
    /\ \A c \in Consumers : tail[c].pc \in {"count", "write"} => tail[c].msg = hist.last
    /\ preview = hist.last \/ hist.last \in hist.torn
       \/ \E c \in Consumers : \/ tail[c].pc = "count"
                               \/ tail[c].pc = "write" /\ "preview" \in tail[c].left

LEMMA PreviewStep == TypeOK /\ TailInv /\ PreviewInv /\ [Next]_vars => PreviewInv'
<1> SUFFICES ASSUME TypeOK, TailInv, PreviewInv, [Next]_vars, ~hist'.beside
             PROVE  PreviewInv'
  BY DEF PreviewInv
<1> USE DEF messages, topic, consumer, redis, mongo, calls
<1>0. tail \in [Consumers -> TailState] /\ hist \in History
  BY DEF TypeOK
<1>1. ASSUME tail' = tail, preview' = preview, hist'.beside = hist.beside,
             hist'.last = hist.last, hist.torn \subseteq hist'.torn
      PROVE  PreviewInv'
  BY <1>1 DEF PreviewInv
<1>2. ASSUME NEW u \in Users, Create(u) \/ ReadBadge(u) PROVE PreviewInv'
  BY <1>0, <1>1, <1>2 DEF Create, ReadBadge, History
<1>3. ASSUME NEW n \in 1..Len(log), Dispatch(n) \/ LoseDispatch(n) \/ MarkExpires(n)
      PROVE  PreviewInv'
  BY <1>0, <1>1, <1>3 DEF Dispatch, LoseDispatch, MarkExpires, History
<1>4. ASSUME NEW c \in Consumers, Skip(c) \/ Rebalance(c) PROVE PreviewInv'
  BY <1>0, <1>1, <1>4 DEF Skip, Rebalance
<1>5. ASSUME Commit \/ Quiet PROVE PreviewInv'
  BY <1>0, <1>1, <1>5 DEF Commit, Quiet
<1>6. ASSUME NEW c \in Consumers, Check(c) PROVE PreviewInv'
  <2>1. /\ tail'[c].pc = "mark" /\ \A d \in Consumers \ {c} : tail'[d] = tail[d]
        /\ preview' = preview
    BY <1>0, <1>6 DEF Check
  <2>2. /\ ~hist.beside /\ \A d \in Consumers : tail[d].pc = "idle"
        /\ hist'.last = hist.last /\ hist'.torn = hist.torn
    BY <1>0, <1>6 DEF Check, History
  <2>3. QED
    BY <2>1, <2>2 DEF PreviewInv
<1>7. ASSUME NEW c \in Consumers, MarkProcessed(c) PROVE PreviewInv'
  <2>1. /\ tail[c].pc = "mark" /\ tail'[c].pc = "count" /\ tail'[c].msg = tail[c].msg
        /\ \A d \in Consumers \ {c} : tail'[d] = tail[d]
    BY <1>0, <1>7 DEF MarkProcessed, TailState
  <2>2. ~hist.beside /\ hist'.last = tail[c].msg
    BY <1>0, <1>7 DEF MarkProcessed, History
  <2>3. QED
    BY <2>1, <2>2 DEF PreviewInv
<1>8. ASSUME NEW c \in Consumers, Counted(c) PROVE PreviewInv'
  <2>1. /\ tail[c].pc = "count" /\ tail'[c].pc = "write" /\ tail'[c].msg = tail[c].msg
        /\ tail'[c].left = {"preview", "pointer", "badge"}
        /\ \A d \in Consumers \ {c} : tail'[d] = tail[d]
    BY <1>8, CountStep DEF AllWrites
  <2>2. ~hist.beside /\ hist'.last = hist.last /\ preview' = preview
        /\ hist.torn \subseteq hist'.torn
    BY <1>8, CountStep
  <2>3. QED
    BY <2>1, <2>2 DEF PreviewInv
<1>9. ASSUME NEW c \in Consumers, Write(c) PROVE PreviewInv'
  <2>1. /\ tail[c].pc = "write" /\ \A d \in Consumers \ {c} : tail'[d] = tail[d]
        /\ ~hist.beside /\ hist'.last = hist.last /\ hist.torn \subseteq hist'.torn
    BY <1>9, Writes
  <2>2. /\ tail[c].msg = hist.last
        /\ \A d \in Consumers : tail[d].pc # "idle" => d = c
    BY <2>1 DEF PreviewInv
  <2>3. tail'[c].pc \in {"idle", "write"} /\ (tail'[c].pc = "write" => tail'[c].msg = hist.last)
    BY <1>9, <2>2, Writes DEF IdleTail
  <2>4. \/ preview' = hist.last \/ hist.last \in hist'.torn
        \/ /\ preview' = preview
           /\ "preview" \in tail[c].left => "preview" \in tail'[c].left /\ tail'[c].pc = "write"
    <3>1. CASE WritePreview(c)
      BY <2>2, <3>1 DEF WritePreview
    <3>2. CASE WriteFails(c) \/ FindThrows(c)
      BY <1>0, <2>2, <3>2 DEF WriteFails, FindThrows, History
    <3>3. CASE WritePointer(c) \/ WriteBadge(c)
      <4>1. PICK w \in {"pointer", "badge"} : Settle(c, w)
        BY <3>3 DEF WritePointer, WriteBadge
      <4>2. QED
        BY <3>3, <4>1, SettleStep DEF WritePointer, WriteBadge
    <3>4. QED
      BY <1>9, <3>1, <3>2, <3>3 DEF Write
  <2>5. \/ preview' = hist'.last \/ hist'.last \in hist'.torn
        \/ tail'[c].pc = "write" /\ "preview" \in tail'[c].left
    BY <2>1, <2>2, <2>4 DEF PreviewInv
  <2>6. QED
    BY <2>1, <2>2, <2>3, <2>5 DEF PreviewInv
<1>10. ASSUME NEW c \in Consumers, Crash(c) PROVE PreviewInv'
  <2>1. /\ tail'[c].pc = "idle" /\ \A d \in Consumers \ {c} : tail'[d] = tail[d]
        /\ preview' = preview
    BY <1>0, <1>10 DEF Crash, IdleTail
  <2>2. /\ hist'.torn = hist.torn \union {m \in Msgs : tail[c].msg = m /\ tail[c].pc # "mark"}
        /\ hist'.last = hist.last /\ hist'.beside = hist.beside
    BY <1>0, <1>10 DEF Crash, History
  <2>3. tail[c].pc # "idle" => tail[c].msg \in Msgs
    BY ConstantsAssumption DEF TailInv, TypeOK, Msgs
  <2>4. QED
    BY <2>1, <2>2, <2>3 DEF PreviewInv
<1>11. QED
  BY <1>2, <1>3, <1>4, <1>5, <1>6, <1>7, <1>8, <1>9, <1>10, Steps DEF RunTail, Write, Counted

-------------------------------------------------------------------------------

IInv == TypeOK /\ TailInv /\ OnceInv /\ RunInv /\ NewsInv /\ PreviewInv

LEMMA InitIInv == Init => IInv
<1> SUFFICES ASSUME Init PROVE IInv
  OBVIOUS
<1> USE ConstantsAssumption
<1>0. Len(log) = 0 /\ log \in Seq(Users)
  BY DEF Init
<1>1. TypeOK
  <2>1. hist \in History
    BY DEF Init, History, Counts, Msgs
  <2>2. queue \in Seq(1..Len(log)) /\ Len(queue) = 0
    BY DEF Init
  <2>3. state \in [Users -> UserState] /\ unread \in [Users -> Counts]
    BY DEF Init, UserState, Counts
  <2>4. QED
    BY <1>0, <2>1, <2>2, <2>3, ConstantTypes DEF Init, TypeOK
<1>2. TailInv /\ OnceInv /\ RunInv /\ PreviewInv
  BY <1>0 DEF Init, TailInv, OnceInv, Guarded, Before, Counting, RunInv, Handled, ToCome,
              PreviewInv, IdleTail
<1>3. NewsInv
  <2>1. \A u \in Users : News(u) = {} /\ unread[u] = 0
    BY <1>0 DEF Init, News
  <2>2. \A u \in Users : Cardinality(News(u)) <= unread[u]
    BY <2>1, FS_EmptySet
  <2>3. \A m \in Msgs : hist.counted[m] = 0
    BY DEF Init
  <2>4. QED
    BY <2>2, <2>3 DEF NewsInv
<1>4. QED
  BY <1>1, <1>2, <1>3 DEF IInv

LEMMA Invariance == Spec => []IInv
<1>1. IInv /\ [Next]_vars => IInv'
  BY TypeStep, TailStep, OnceStep, RunStep, NewsStep, PreviewStep DEF IInv
<1>2. QED
  BY InitIInv, <1>1, PTL DEF Spec

\* When nothing is under way, a message was counted or its tail was torn.
LEMMA SettledHandled ==
  ASSUME IInv, Settled, NEW m \in 1..Len(log), m \notin hist.torn
  PROVE  hist.counted[m] > 0
<1>1. ~ToCome(m)
  BY DEF IInv, TypeOK, Settled, ToCome, Pending
<1>2. QED
  BY <1>1 DEF IInv, RunInv, Handled, Counting, Settled

\* Every variable of the room's messages keeps its type, whatever is resent,
\* redelivered, moved or cut off (createMessage, handleMessagePersisted,
\* markReadUpTo, handleDeleteForUser and handleDelete of handle-chat.service.ts).
THEOREM TypeCorrect == Spec => []TypeOK
<1>1. IInv => TypeOK
  BY DEF IInv
<1>2. QED
  BY <1>1, Invariance, PTL

\* However often the topic brings a record back, its message adds to a badge once,
\* unless MSG_PROCESSED did not guard it, and what is marked was not dropped, unless
\* its record was never sent, or its tail was cut off or had a failed count or write
\* (handleMessagePersisted of handle-chat.service.ts).
THEOREM TailRunsOnce == Spec => []CountedExactlyOnce
<1>1. ASSUME IInv PROVE CountedExactlyOnce
  <2>1. CountedOnce
    BY <1>1 DEF IInv, OnceInv, Guarded, CountedOnce
  <2>2. TailRuns
    BY <1>1, SettledHandled DEF TailRuns
  <2>3. QED
    BY <1>1, <2>1, <2>2 DEF IInv, CountedExactlyOnce
<1>2. QED
  BY <1>1, Invariance, PTL

\* Once nothing is under way, a badge holds at least the messages of others that came
\* after its last reset (the resets of markReadUpTo and of the sender's own tail), but
\* for those whose tail a failure tore.
THEOREM ResetsSwallowNothing == Spec => []NewsIsCounted
<1>1. ASSUME IInv, Settled, NEW u \in Users
      PROVE  Cardinality({m \in hist.since[u] + 1 .. Len(log) :
                            log[m] # u /\ m \notin hist.torn}) <= unread[u]
  <2> DEFINE kept == {m \in hist.since[u] + 1 .. Len(log) : log[m] # u /\ m \notin hist.torn}
  <2>1. kept \subseteq News(u)
    <3>1. hist.since[u] \in Nat /\ Len(log) \in Nat
      BY <1>1, ConstantsAssumption DEF IInv, TypeOK, History
    <3>2. QED
      BY <1>1, <3>1, SettledHandled DEF News
  <2>2. IsFiniteSet(News(u)) /\ Cardinality(News(u)) \in Nat
    BY <1>1, NewsFinite DEF IInv
  <2>3. Cardinality(kept) <= Cardinality(News(u)) /\ Cardinality(kept) \in Nat
    BY <2>1, <2>2, FS_Subset, FS_CardinalityType
  <2>4. Cardinality(News(u)) <= unread[u] /\ unread[u] \in Nat
    BY <1>1 DEF IInv, NewsInv, TypeOK, Counts
  <2> HIDE DEF kept
  <2>5. Cardinality(kept) <= unread[u]
    BY <2>2, <2>3, <2>4
  <2>6. QED
    BY <2>5 DEF kept
<1>2. IInv => NewsIsCounted
  BY <1>1 DEF NewsIsCounted
<1>3. QED
  BY <1>2, Invariance, PTL

\* Tails that run one after the other leave the room's preview at the last message
\* that got past its mark, unless its own tail was cut off.
THEOREM LastTailWins == Spec => []PreviewIsLast
<1>1. IInv => PreviewIsLast
  BY DEF IInv, PreviewInv, PreviewIsLast, Settled
<1>2. QED
  BY <1>1, Invariance, PTL
===============================================================================
