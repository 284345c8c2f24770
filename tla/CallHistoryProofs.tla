--------------------------- MODULE CallHistoryProofs ---------------------------
(***************************************************************************)
(* Proofs about CallHistory, for any sets of users and of requests.        *)
(***************************************************************************)
EXTENDS CallHistory, TLAPS

\* One request holds the right to announce the end, and loses it by doing so.
WinnerInv ==
  /\ \A r \in Requests : req[r].won => endedAt /\ req[r].pc = "log"
  /\ \A r, s \in Requests : req[r].won /\ req[s].won => r = s
  /\ \A e \in log : e.event = "call.ended" =>
       endedAt /\ \A r \in Requests : ~req[r].won

\* A status in the call, in the document or in a request's copy of it, is
\* somebody's who joined.
JoinInv ==
  /\ \A u \in Users : status[u] \in Active => HasJoined(u)
  /\ \A r \in Requests : req[r].kind = "end" /\ req[r].prev \in Active
                           => HasJoined(req[r].actor)
  /\ \A r \in Requests : req[r].kind = "accept"
                           => req[r].pc \in {"start", "joinLog", "done"}
  /\ \A r \in Requests : req[r].pc \in {"start", "joinLog"}
                           => req[r].kind = "accept"
  /\ \A r \in Requests : req[r].pc \in {"flip", "refetch", "stamp", "log"}
                           => req[r].kind = "end"

IInv == TypeOK /\ EndedLoggedOnce /\ DesertedIsClosed /\ LeaverHadJoined
          /\ WinnerInv /\ JoinInv

-------------------------------------------------------------------------------

\* The initial state: no document, no request, nothing logged.
LEMMA InitIInv == Init => IInv
<1> SUFFICES ASSUME Init PROVE IInv
  OBVIOUS
<1>1. TypeOK
  BY DEF Init, TypeOK, ReqState, MemberStatus, EndStatus, LogEntry
<1>2. EndedLoggedOnce /\ LeaverHadJoined /\ WinnerInv
  BY DEF Init, EndedLoggedOnce, LeaverHadJoined, WinnerInv
<1>3. DesertedIsClosed
  BY DEF Init, DesertedIsClosed, Deserted, TrulyEnded
<1>4. JoinInv
  BY DEF Init, JoinInv, Active
<1>5. QED
  BY <1>1, <1>2, <1>3, <1>4 DEF IInv

LEMMA AnsweredType == ASSUME NEW q \in ReqState PROVE Answered(q) \in ReqState
  BY DEF ReqState, Answered, EndStatus, MemberStatus

\* Types: every command writes values of the right kind.
LEMMA TypeStep == TypeOK /\ [Next]_vars => TypeOK'
<1> SUFFICES ASSUME TypeOK, [Next]_vars PROVE TypeOK'
  OBVIOUS
<1>1. ASSUME NEW ms \in SUBSET Users, RequestCall(ms) PROVE TypeOK'
  BY <1>1 DEF RequestCall, TypeOK, MemberStatus
<1>2. ASSUME NEW r \in Requests, NEW u \in Users, AcceptRead(r, u) PROVE TypeOK'
  <2>1. [req[r] EXCEPT !.pc = "start", !.kind = "accept", !.actor = u,
                       !.prev = status[u]] \in ReqState
    BY DEF TypeOK, ReqState
  <2>2. QED
    BY <1>2, <2>1 DEF TypeOK, AcceptRead
<1>3. ASSUME NEW r \in Requests, AcceptStart(r) PROVE TypeOK'
  <2>1. [req[r] EXCEPT !.pc = "joinLog"] \in ReqState
    BY DEF TypeOK, ReqState
  <2>2. req' \in [Requests -> ReqState]
    BY <1>3, <2>1, AnsweredType DEF TypeOK, AcceptStart
  <2>3. status' \in [Users -> MemberStatus \union {"absent"}]
    BY <1>3 DEF TypeOK, AcceptStart, MemberStatus
  <2>4. QED
    BY <1>3, <2>2, <2>3 DEF TypeOK, AcceptStart
<1>4. ASSUME NEW r \in Requests, AcceptLog(r) PROVE TypeOK'
  <2>1. req[r].actor \in Users
    BY DEF TypeOK, ReqState
  <2>2. log' \subseteq LogEntry
    BY <1>4, <2>1 DEF TypeOK, AcceptLog, LogEntry
  <2>3. QED
    BY <1>4, <2>2, AnsweredType DEF TypeOK, AcceptLog
<1>5. ASSUME NEW r \in Requests, NEW u \in Users, NEW s \in EndStatus, EndRead(r, u, s)
      PROVE TypeOK'
  <2>1. [req[r] EXCEPT !.pc = "flip", !.kind = "end", !.actor = u, !.as = s,
                       !.prev = status[u]] \in ReqState
    BY DEF TypeOK, ReqState
  <2>2. QED
    BY <1>5, <2>1 DEF TypeOK, EndRead
<1>6. ASSUME NEW r \in Requests, EndFlip(r) PROVE TypeOK'
  <2>1. /\ [req[r] EXCEPT !.pc = "refetch"] \in ReqState
        /\ req[r].as \in EndStatus
    BY DEF TypeOK, ReqState
  <2>2. status' \in [Users -> MemberStatus \union {"absent"}]
    BY <1>6, <2>1 DEF TypeOK, EndFlip, MemberStatus, EndStatus
  <2>3. QED
    BY <1>6, <2>1, <2>2 DEF TypeOK, EndFlip
<1>7. ASSUME NEW r \in Requests, EndRefetch(r) PROVE TypeOK'
  <2>1. ShouldEnd(status) \in BOOLEAN /\ (~endedAt) \in BOOLEAN
    BY DEF ShouldEnd
  <2>2. [req[r] EXCEPT !.pc = "stamp", !.close = ShouldEnd(status),
                       !.open = ~endedAt] \in ReqState
    BY <2>1 DEF TypeOK, ReqState
  <2>3. QED
    BY <1>7, <2>2 DEF TypeOK, EndRefetch
<1>8. ASSUME NEW r \in Requests, EndStamp(r) PROVE TypeOK'
  <2> DEFINE wins == req[r].close /\ ~endedAt
  <2>1. wins \in BOOLEAN /\ endedAt' \in BOOLEAN
    BY <1>8 DEF EndStamp
  <2>2. [req[r] EXCEPT !.pc = "log", !.won = wins] \in ReqState
    BY <2>1 DEF TypeOK, ReqState
  <2>3. QED
    BY <1>8, <2>1, <2>2 DEF TypeOK, EndStamp
<1>9. ASSUME NEW r \in Requests, EndLog(r) PROVE TypeOK'
  <2>1. req[r].actor \in Users
    BY DEF TypeOK, ReqState
  <2>2. log' \subseteq LogEntry
    BY <1>9, <2>1 DEF TypeOK, EndLog, LogEntry
  <2>3. QED
    BY <1>9, <2>2, AnsweredType DEF TypeOK, EndLog
<1>10. CASE UNCHANGED vars
  BY <1>10 DEF vars, TypeOK
<1>11. QED
  BY <1>1, <1>2, <1>3, <1>4, <1>5, <1>6, <1>7, <1>8, <1>9, <1>10
  DEF Next, Receive, Continue

\* The announcement of the end: the conditional update of ended_at makes one
\* request the winner, and no second one can win once ended_at is set.
LEMMA WinnerStep ==
  TypeOK /\ WinnerInv /\ EndedLoggedOnce /\ [Next]_vars => (WinnerInv /\ EndedLoggedOnce)'
<1> SUFFICES ASSUME TypeOK, WinnerInv, EndedLoggedOnce, [Next]_vars
             PROVE (WinnerInv /\ EndedLoggedOnce)'
  OBVIOUS
<1> USE DEF TypeOK, ReqState, WinnerInv, EndedLoggedOnce, Answered
<1>1. ASSUME NEW ms \in SUBSET Users, RequestCall(ms)
      PROVE (WinnerInv /\ EndedLoggedOnce)'
  BY <1>1 DEF RequestCall
<1>2. ASSUME NEW r \in Requests, NEW u \in Users, AcceptRead(r, u)
      PROVE (WinnerInv /\ EndedLoggedOnce)'
  BY <1>2 DEF AcceptRead
<1>3. ASSUME NEW r \in Requests, AcceptStart(r) PROVE (WinnerInv /\ EndedLoggedOnce)'
  BY <1>3 DEF AcceptStart
<1>4. ASSUME NEW r \in Requests, AcceptLog(r) PROVE (WinnerInv /\ EndedLoggedOnce)'
  BY <1>4 DEF AcceptLog
<1>5. ASSUME NEW r \in Requests, NEW u \in Users, NEW s \in EndStatus, EndRead(r, u, s)
      PROVE (WinnerInv /\ EndedLoggedOnce)'
  BY <1>5 DEF EndRead
<1>6. ASSUME NEW r \in Requests, EndFlip(r) PROVE (WinnerInv /\ EndedLoggedOnce)'
  BY <1>6 DEF EndFlip
<1>7. ASSUME NEW r \in Requests, EndRefetch(r) PROVE (WinnerInv /\ EndedLoggedOnce)'
  BY <1>7 DEF EndRefetch
<1>8. ASSUME NEW r \in Requests, EndStamp(r) PROVE (WinnerInv /\ EndedLoggedOnce)'
  BY <1>8 DEF EndStamp
<1>9. ASSUME NEW r \in Requests, EndLog(r) PROVE (WinnerInv /\ EndedLoggedOnce)'
  BY <1>9 DEF EndLog
<1>10. CASE UNCHANGED vars
  BY <1>10 DEF vars
<1>11. QED
  BY <1>1, <1>2, <1>3, <1>4, <1>5, <1>6, <1>7, <1>8, <1>9, <1>10
  DEF Next, Receive, Continue

\* A deserted call: only a flip can desert it, and the request that flips
\* still has its re-read before it.
LEMMA DesertedStep ==
  TypeOK /\ DesertedIsClosed /\ [Next]_vars => DesertedIsClosed'
<1> SUFFICES ASSUME TypeOK, DesertedIsClosed, [Next]_vars PROVE DesertedIsClosed'
  OBVIOUS
<1> USE DEF TypeOK, ReqState, DesertedIsClosed, Closing, Answered
<1>1. ASSUME NEW ms \in SUBSET Users, RequestCall(ms) PROVE DesertedIsClosed'
  BY <1>1 DEF RequestCall, Deserted, TrulyEnded
<1>2. ASSUME NEW r \in Requests, NEW u \in Users, AcceptRead(r, u)
      PROVE DesertedIsClosed'
  BY <1>2 DEF AcceptRead, Deserted, TrulyEnded, StillActive
<1>3. ASSUME NEW r \in Requests, AcceptStart(r) PROVE DesertedIsClosed'
  <2>1. Deserted' => Deserted
    BY <1>3 DEF AcceptStart, Deserted, TrulyEnded, StillActive, Active
  <2>2. QED
    BY <1>3, <2>1 DEF AcceptStart
<1>4. ASSUME NEW r \in Requests, AcceptLog(r) PROVE DesertedIsClosed'
  BY <1>4 DEF AcceptLog, Deserted, TrulyEnded, StillActive
<1>5. ASSUME NEW r \in Requests, NEW u \in Users, NEW s \in EndStatus, EndRead(r, u, s)
      PROVE DesertedIsClosed'
  BY <1>5 DEF EndRead, Deserted, TrulyEnded, StillActive
<1>6. ASSUME NEW r \in Requests, EndFlip(r) PROVE DesertedIsClosed'
  BY <1>6 DEF EndFlip
<1>7. ASSUME NEW r \in Requests, EndRefetch(r) PROVE DesertedIsClosed'
  BY <1>7 DEF EndRefetch, ShouldEnd, Deserted, TrulyEnded, StillActive
<1>8. ASSUME NEW r \in Requests, EndStamp(r) PROVE DesertedIsClosed'
  BY <1>8 DEF EndStamp, Deserted, TrulyEnded, StillActive
<1>9. ASSUME NEW r \in Requests, EndLog(r) PROVE DesertedIsClosed'
  BY <1>9 DEF EndLog, Deserted, TrulyEnded, StillActive
<1>10. CASE UNCHANGED vars
  BY <1>10 DEF vars, Deserted, TrulyEnded, StillActive
<1>11. QED
  BY <1>1, <1>2, <1>3, <1>4, <1>5, <1>6, <1>7, <1>8, <1>9, <1>10
  DEF Next, Receive, Continue

\* Who joined: no step takes a join back, so what follows from it stays.
LEMMA JoinedForever ==
  ASSUME TypeOK, JoinInv, [Next]_vars, NEW v \in Users, HasJoined(v)
  PROVE HasJoined(v)'
<1> USE DEF TypeOK, ReqState, HasJoined, Answered
<1>1. ASSUME NEW ms \in SUBSET Users, RequestCall(ms) PROVE HasJoined(v)'
  BY <1>1 DEF RequestCall
<1>2. ASSUME NEW r \in Requests, NEW u \in Users, AcceptRead(r, u) PROVE HasJoined(v)'
  BY <1>2 DEF AcceptRead
<1>3. ASSUME NEW r \in Requests, AcceptStart(r) PROVE HasJoined(v)'
  BY <1>3 DEF AcceptStart
<1>4. ASSUME NEW r \in Requests, AcceptLog(r) PROVE HasJoined(v)'
  BY <1>4 DEF AcceptLog
<1>5. ASSUME NEW r \in Requests, NEW u \in Users, NEW s \in EndStatus, EndRead(r, u, s)
      PROVE HasJoined(v)'
  BY <1>5 DEF EndRead
<1>6. ASSUME NEW r \in Requests, EndFlip(r) PROVE HasJoined(v)'
  BY <1>6 DEF EndFlip
<1>7. ASSUME NEW r \in Requests, EndRefetch(r) PROVE HasJoined(v)'
  BY <1>7 DEF EndRefetch
<1>8. ASSUME NEW r \in Requests, EndStamp(r) PROVE HasJoined(v)'
  BY <1>8 DEF EndStamp
<1>9. ASSUME NEW r \in Requests, EndLog(r) PROVE HasJoined(v)'
  BY <1>9 DEF EndLog
<1>10. CASE UNCHANGED vars
  BY <1>10 DEF vars
<1>11. QED
  BY <1>1, <1>2, <1>3, <1>4, <1>5, <1>6, <1>7, <1>8, <1>9, <1>10
  DEF Next, Receive, Continue

\* A status that counts as "in the call" comes from requestCall, for the
\* caller, or from an accept of that very user.
LEMMA JoinStep ==
  TypeOK /\ JoinInv /\ LeaverHadJoined /\ [Next]_vars => (JoinInv /\ LeaverHadJoined)'
<1> SUFFICES ASSUME TypeOK, JoinInv, LeaverHadJoined, [Next]_vars
             PROVE (JoinInv /\ LeaverHadJoined)'
  OBVIOUS
<1>0. \A v \in Users : HasJoined(v) => HasJoined(v)'
  BY JoinedForever
<1>a. TypeOK'
  BY TypeStep
<1> USE DEF TypeOK, JoinInv, LeaverHadJoined
<1>1. ASSUME NEW ms \in SUBSET Users, RequestCall(ms)
      PROVE (JoinInv /\ LeaverHadJoined)'
  BY <1>0, <1>1 DEF RequestCall, ReqState, LogEntry, HasJoined, Active
<1>2. ASSUME NEW r \in Requests, NEW u \in Users, AcceptRead(r, u)
      PROVE (JoinInv /\ LeaverHadJoined)'
  BY <1>0, <1>2 DEF AcceptRead, ReqState, LogEntry
<1>3. ASSUME NEW r \in Requests, AcceptStart(r) PROVE (JoinInv /\ LeaverHadJoined)'
  <2>1. req[r].kind = "accept"
    BY <1>3 DEF AcceptStart
  <2>2. HasJoined(req[r].actor)'
    BY <1>3, <2>1 DEF AcceptStart, HasJoined, Answered, ReqState
  <2>3. QED
    BY <1>0, <1>3, <2>2 DEF AcceptStart, Answered, ReqState, LogEntry, Active
<1>4. ASSUME NEW r \in Requests, AcceptLog(r) PROVE (JoinInv /\ LeaverHadJoined)'
  BY <1>0, <1>4 DEF AcceptLog, Answered, ReqState, LogEntry, Active
<1>5. ASSUME NEW r \in Requests, NEW u \in Users, NEW s \in EndStatus, EndRead(r, u, s)
      PROVE (JoinInv /\ LeaverHadJoined)'
  BY <1>0, <1>5 DEF EndRead, ReqState, LogEntry
<1>6. ASSUME NEW r \in Requests, EndFlip(r) PROVE (JoinInv /\ LeaverHadJoined)'
  <2>1. req[r].as \in EndStatus
    BY DEF ReqState
  <2>2. \A u \in Users : status'[u] \in Active => status[u] \in Active
    BY <1>6, <2>1 DEF EndFlip, Active, EndStatus
  <2>3. /\ UNCHANGED <<log, caller>>
        /\ req' = [req EXCEPT ![r].pc = "refetch"]
        /\ req[r].kind = "end"
    BY <1>6 DEF EndFlip
  <2>4. LeaverHadJoined'
    BY <1>0, <2>3 DEF LogEntry
  <2>5. QED
    BY <1>0, <2>2, <2>3, <2>4 DEF ReqState
<1>7. ASSUME NEW r \in Requests, EndRefetch(r) PROVE (JoinInv /\ LeaverHadJoined)'
  BY <1>0, <1>7 DEF EndRefetch, ReqState, LogEntry
<1>8. ASSUME NEW r \in Requests, EndStamp(r) PROVE (JoinInv /\ LeaverHadJoined)'
  BY <1>0, <1>8 DEF EndStamp, ReqState, LogEntry
<1>9. ASSUME NEW r \in Requests, EndLog(r) PROVE (JoinInv /\ LeaverHadJoined)'
  <2>1. /\ UNCHANGED status
        /\ req[r].kind # "accept"
        /\ \A s \in Requests : req[s].actor \in Users
    BY <1>9 DEF EndLog, ReqState
  <2>2. \A s \in Requests :
          IF s = r THEN req'[s].prev = "absent" /\ req'[s].kind = req[s].kind
                          /\ req'[s].pc = "done"
                   ELSE req'[s] = req[s]
    BY <1>9 DEF EndLog, Answered, ReqState
  <2>3. \A e \in log' : e.event = "call.left" =>
          e \in log \/ (e.actor = req[r].actor /\ req[r].prev \in Active)
    BY <1>9 DEF EndLog
  <2>4. req[r].kind = "end"
    BY <1>9 DEF EndLog
  <2>5. LeaverHadJoined'
    BY <1>0, <2>1, <2>3, <2>4 DEF LogEntry
  <2>6. QED
    BY <1>0, <2>1, <2>2, <2>5 DEF Active
<1>10. CASE UNCHANGED vars
  BY <1>0, <1>10 DEF vars, LogEntry, ReqState
<1>11. QED
  BY <1>1, <1>2, <1>3, <1>4, <1>5, <1>6, <1>7, <1>8, <1>9, <1>10
  DEF Next, Receive, Continue

-------------------------------------------------------------------------------

LEMMA Invariance == Spec => []IInv
<1>1. IInv /\ [Next]_vars => IInv'
  BY TypeStep, WinnerStep, DesertedStep, JoinStep DEF IInv
<1>2. QED
  BY <1>1, InitIInv, PTL DEF Spec

\* Every variable keeps its type.
THEOREM TypeCorrect == Spec => []TypeOK
<1>1. IInv => TypeOK
  BY DEF IInv
<1>2. QED
  BY <1>1, Invariance, PTL

\* Racing end requests, any number of them, announce the end of a call once,
\* and only when ended_at is set.
THEOREM EndIsAnnouncedOnce == Spec => []EndedLoggedOnce
<1>1. IInv => EndedLoggedOnce
  BY DEF IInv
<1>2. QED
  BY <1>1, Invariance, PTL

\* A group call left by its last participant has ended_at, or a request that
\* is going to set it.
THEOREM DesertedCallIsClosed == Spec => []DesertedIsClosed
<1>1. IInv => DesertedIsClosed
  BY DEF IInv
<1>2. QED
  BY <1>1, Invariance, PTL

\* The room is told that X left only if X is the caller or accepted before.
THEOREM OnlyJoinersLeave == Spec => []LeaverHadJoined
<1>1. IInv => LeaverHadJoined
  BY DEF IInv
<1>2. QED
  BY <1>1, Invariance, PTL

-------------------------------------------------------------------------------
(* The record implements CallStory. *)

\* A request that has begun is about a call that was made.
MadeInv ==
  /\ \A r \in Requests : req[r].pc # "idle" => exists
  /\ endedAt => exists

LEMMA MadeFirst == Init => MadeInv
  BY DEF Init, MadeInv

LEMMA MadeStep == TypeOK /\ MadeInv /\ [Next]_vars => MadeInv'
<1> SUFFICES ASSUME TypeOK, MadeInv, [Next]_vars PROVE MadeInv'
  OBVIOUS
<1> USE DEF TypeOK, MadeInv, Answered
<1>1. ASSUME NEW ms \in SUBSET Users, RequestCall(ms) PROVE MadeInv'
  BY <1>1 DEF RequestCall
<1>2. ASSUME NEW r \in Requests, Receive(r) PROVE MadeInv'
  <2>1. exists /\ UNCHANGED <<exists, endedAt>>
    BY <1>2 DEF Receive, AcceptRead, EndRead
  <2>2. QED
    BY <2>1
<1>3. ASSUME NEW r \in Requests, Continue(r) PROVE MadeInv'
  BY <1>3 DEF Continue, AcceptStart, AcceptLog, EndFlip, EndRefetch, EndStamp, EndLog
<1>4. CASE UNCHANGED vars
  BY <1>4 DEF vars
<1>5. QED
  BY <1>1, <1>2, <1>3, <1>4 DEF Next

LEMMA StoryBegins == Init => Story!Init
<1> SUFFICES ASSUME Init PROVE Story!Init
  OBVIOUS
<1>1. {u \in Users : HasJoined(u)} = {caller}
  BY DEF Init, HasJoined
<1>2. {<<e.event, e.actor>> : e \in log} = {}
  BY DEF Init
<1>3. QED
  BY <1>1, <1>2 DEF Init, Story!Init

\* What one more entry of the log tells.
LEMMA ToldMore ==
  ASSUME NEW L, NEW x
  PROVE  {<<e.event, e.actor>> : e \in L \union {x}}
           = {<<e.event, e.actor>> : e \in L} \union {<<x.event, x.actor>>}
  OBVIOUS

\* A step of a request that neither accepts nor ends an accept adds nobody.
LEMMA SameJoined ==
  ASSUME TypeOK, UNCHANGED caller, NEW r \in Requests,
         \A s \in Requests \ {r} : req'[s] = req[s],
         req'[r].kind # "accept" \/ req'[r].pc \notin {"joinLog", "done"}
           \/ (req[r].kind = "accept" /\ req[r].pc \in {"joinLog", "done"}
                 /\ req'[r].actor = req[r].actor),
         req[r].kind = "accept" /\ req[r].pc \in {"joinLog", "done"} =>
           /\ req'[r].kind = "accept" /\ req'[r].pc \in {"joinLog", "done"}
           /\ req'[r].actor = req[r].actor
  PROVE  {u \in Users : HasJoined(u)}' = {u \in Users : HasJoined(u)}
<1>1. \A u \in Users : HasJoined(u)' <=> HasJoined(u)
  BY DEF HasJoined
<1>2. QED
  BY <1>1

\* Every command is a step of the story, or none.
LEMMA StoryGoesOn ==
  IInv /\ MadeInv /\ [Next]_vars => [Story!Next]_(Story!vars)
<1> SUFFICES ASSUME IInv, MadeInv, [Next]_vars
             PROVE [Story!Next]_(Story!vars)
  OBVIOUS
<1> USE DEF IInv
<1> DEFINE phase == IF ~exists THEN "none" ELSE IF endedAt THEN "over" ELSE "open"
           joined == {u \in Users : HasJoined(u)}
           told == {<<e.event, e.actor>> : e \in log}
<1>t. log' = log => told' = told
  OBVIOUS
<1>s. UNCHANGED <<phase, joined, told>> => UNCHANGED (Story!vars)
  BY DEF Story!vars
<1>a. \A r \in Requests : req[r].actor \in Users
  BY DEF TypeOK, ReqState
<1>1. ASSUME NEW ms \in SUBSET Users, RequestCall(ms) PROVE [Story!Next]_(Story!vars)
  <2>1. joined' = joined
    BY <1>1 DEF RequestCall, HasJoined
  <2>2. phase = "none" /\ phase' = "open"
    BY <1>1 DEF RequestCall, MadeInv
  <2>3. QED
    BY <1>1, <1>t, <2>1, <2>2 DEF RequestCall, Story!Next, Story!Open
<1>2. ASSUME NEW r \in Requests, NEW u \in Users, AcceptRead(r, u)
      PROVE [Story!Next]_(Story!vars)
  <2>1. joined' = joined
    BY <1>2, SameJoined DEF AcceptRead, TypeOK, ReqState
  <2>2. QED
    BY <1>2, <1>t, <1>s, <2>1 DEF AcceptRead
<1>3. ASSUME NEW r \in Requests, AcceptStart(r) PROVE [Story!Next]_(Story!vars)
  <2>1. joined' = joined \union {req[r].actor}
    <3>1. req[r].pc = "start" /\ req[r].kind = "accept"
      BY <1>3 DEF AcceptStart, JoinInv
    <3>2. /\ UNCHANGED caller
          /\ \A x \in Requests \ {r} : req'[x] = req[x]
          /\ req'[r].pc \in {"joinLog", "done"}
          /\ req'[r].kind = "accept" /\ req'[r].actor = req[r].actor
      BY <1>3, <3>1 DEF AcceptStart, Answered, TypeOK, ReqState
    <3>3. \A u \in Users : HasJoined(u)' <=> HasJoined(u) \/ u = req[r].actor
      BY <3>1, <3>2 DEF HasJoined
    <3>4. QED
      BY <1>a, <3>3
  <2>2. phase # "none" /\ phase' = phase
    BY <1>3 DEF AcceptStart, MadeInv
  <2>3. QED
    BY <1>3, <1>a, <1>t, <2>1, <2>2 DEF AcceptStart, Story!Next, Story!Join
<1>4. ASSUME NEW r \in Requests, AcceptLog(r) PROVE [Story!Next]_(Story!vars)
  <2>1. req[r].pc = "joinLog" /\ req[r].kind = "accept"
    BY <1>4 DEF AcceptLog, JoinInv
  <2>2. joined' = joined
    BY <1>4, <2>1, SameJoined DEF AcceptLog, Answered, TypeOK, ReqState
  <2>3. req[r].actor \in joined
    BY <1>a, <2>1 DEF HasJoined
  <2>4. phase # "none" /\ phase' = phase
    BY <1>4 DEF AcceptLog, MadeInv
  <2>5. told' = told \/ told' = told \union {<<"call.joined", req[r].actor>>}
    BY <1>4, <1>t DEF AcceptLog
  <2>6. QED
    BY <1>a, <1>s, <2>2, <2>3, <2>4, <2>5 DEF Story!Next, Story!TellMove
<1>5. ASSUME NEW r \in Requests, NEW u \in Users, NEW s \in EndStatus, EndRead(r, u, s)
      PROVE [Story!Next]_(Story!vars)
  <2>1. joined' = joined
    BY <1>5, SameJoined DEF EndRead, TypeOK, ReqState
  <2>2. QED
    BY <1>5, <1>t, <1>s, <2>1 DEF EndRead
<1>6. ASSUME NEW r \in Requests, EndFlip(r) PROVE [Story!Next]_(Story!vars)
  <2>1. joined' = joined
    BY <1>6, SameJoined DEF EndFlip, TypeOK, ReqState
  <2>2. QED
    BY <1>6, <1>t, <1>s, <2>1 DEF EndFlip
<1>7. ASSUME NEW r \in Requests, EndRefetch(r) PROVE [Story!Next]_(Story!vars)
  <2>1. joined' = joined
    BY <1>7, SameJoined DEF EndRefetch, TypeOK, ReqState
  <2>2. QED
    BY <1>7, <1>t, <1>s, <2>1 DEF EndRefetch
<1>8. ASSUME NEW r \in Requests, EndStamp(r) PROVE [Story!Next]_(Story!vars)
  <2>1. joined' = joined
    BY <1>8, SameJoined DEF EndStamp, TypeOK, ReqState
  <2>2. phase' = phase \/ (phase = "open" /\ phase' = "over")
    BY <1>8 DEF EndStamp, MadeInv
  <2>3. QED
    BY <1>8, <1>t, <1>s, <2>1, <2>2 DEF EndStamp, Story!Next, Story!Close
<1>9. ASSUME NEW r \in Requests, EndLog(r) PROVE [Story!Next]_(Story!vars)
  <2>1. req[r].pc = "log" /\ req[r].kind = "end"
    BY <1>9 DEF EndLog, JoinInv
  <2>2. joined' = joined
    BY <1>9, <2>1, SameJoined DEF EndLog, Answered, TypeOK, ReqState
  <2>3. phase # "none" /\ phase' = phase
    BY <1>9 DEF EndLog, MadeInv
  <2>4. CASE log' = log
    BY <1>t, <1>s, <2>2, <2>3, <2>4
  <2>5. CASE req[r].won /\ log' = log \union {[event |-> "call.ended", actor |-> req[r].actor, by |-> r]}
    <3> DEFINE x == [event |-> "call.ended", actor |-> req[r].actor, by |-> r]
    <3>0. log' = log \union {x} /\ x.event = "call.ended" /\ x.actor = req[r].actor
      BY <2>5
    <3> HIDE DEF x
    <3>1. told' = told \union {<<"call.ended", req[r].actor>>}
      BY <3>0, ToldMore
    <3>2. phase = "over"
      BY <2>3, <2>5 DEF WinnerInv
    <3>3. \A v \in Users : <<"call.ended", v>> \notin told
      BY <2>5 DEF WinnerInv
    <3>4. QED
      BY <1>a, <2>2, <2>3, <3>1, <3>2, <3>3 DEF Story!Next, Story!TellEnd
  <2>6. CASE req[r].prev \in Active /\ log' = log \union {[event |-> "call.left", actor |-> req[r].actor, by |-> r]}
    <3> DEFINE x == [event |-> "call.left", actor |-> req[r].actor, by |-> r]
    <3>0. log' = log \union {x} /\ x.event = "call.left" /\ x.actor = req[r].actor
      BY <2>6
    <3> HIDE DEF x
    <3>1. told' = told \union {<<"call.left", req[r].actor>>}
      BY <3>0, ToldMore
    <3>2. req[r].actor \in joined
      BY <1>a, <2>1, <2>6 DEF JoinInv
    <3>3. QED
      BY <1>a, <2>2, <2>3, <3>1, <3>2 DEF Story!Next, Story!TellMove
  <2>7. QED
    BY <1>9, <2>4, <2>5, <2>6 DEF EndLog
<1>10. CASE UNCHANGED vars
  BY <1>10, <1>s DEF vars, HasJoined
<1>11. QED
  BY <1>1, <1>2, <1>3, <1>4, <1>5, <1>6, <1>7, <1>8, <1>9, <1>10
  DEF Next, Receive, Continue

\* requestCall, acceptCall and endCall, their commands interleaved in any way,
\* implement the story of a call, for any users and any number of requests.
THEOREM CallImplementsItsStory == Spec => TellsTheStory
<1>1. Init => Story!Init
  BY StoryBegins
<1>2. IInv /\ MadeInv /\ [Next]_vars => [Story!Next]_(Story!vars)
  BY StoryGoesOn
<1>3. Init => MadeInv
  BY MadeFirst
<1>4. IInv /\ MadeInv /\ [Next]_vars => MadeInv'
  BY MadeStep DEF IInv
<1>5. QED
  BY <1>1, <1>2, <1>3, <1>4, Invariance, PTL DEF Spec, TellsTheStory, Story!Spec

===============================================================================
