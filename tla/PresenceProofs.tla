---------------------------- MODULE PresenceProofs ----------------------------
(***************************************************************************)
(* Proofs about Presence, for any sockets, any number of sweepers and with *)
(* or without failing reads.                                               *)
(***************************************************************************)
EXTENDS Presence, TLAPS

\* What unregister has done so far for a socket that dropped with no handler
\* running; a socket that never connected has no handler.
Progress(s) ==
  /\ conn[s] = "never" => proc[s].pc = "idle"
  /\ conn[s] = "never" \/ proc[s].pc = "auth" =>
       beat[s] = "idle" /\ s \notin online \union alive
  /\ conn[s] # "gone" => unreg[s] = "idle"
  /\ conn[s] = "gone" /\ s \notin late =>
       /\ proc[s].pc = "done" /\ beat[s] = "idle" /\ unreg[s] # "idle"
       /\ unreg[s] # "remove" => s \notin online
       /\ unreg[s] \in {"count", "tell", "done"} => s \notin alive

IInv == TypeOK /\ \A s \in Sockets : Progress(s)

LEMMA RestType ==
  ASSUME NEW pc \in {"idle", "auth", "read", "check", "remove", "count", "add",
                     "mark", "tell", "done"}
  PROVE  Rest(pc) \in ProcState
  BY DEF Rest, ProcState

\* Types: each command writes values of the right kind.
LEMMA TypeStep == TypeOK /\ [Next]_vars => TypeOK'
<1> SUFFICES ASSUME TypeOK, [Next]_vars PROVE TypeOK'
  OBVIOUS
<1> USE ConstantsAssumption DEF TypeOK, Procs
<1>1. ASSUME NEW s \in Sockets, Connect(s) PROVE TypeOK'
  BY <1>1, RestType DEF Connect
<1>2. ASSUME NEW s \in Sockets, Authenticate(s) \/ Refuse(s) PROVE TypeOK'
  BY <1>2, RestType DEF Authenticate, Refuse
<1>3. ASSUME NEW p \in Procs, ReadMembers(p) PROVE TypeOK'
  <2>1. \A seen \in SUBSET Sockets :
          [pc |-> "check", held |-> seen, flag |-> FALSE] \in ProcState
    BY DEF ProcState
  <2>2. QED
    BY <1>3, <2>1 DEF ReadMembers
<1>4. ASSUME NEW p \in Procs, CheckAlive(p) PROVE TypeOK'
  <2>1. proc[p].held \subseteq Sockets
    BY DEF ProcState
  <2>2. \A found \in SUBSET Sockets :
          LET dead == proc[p].held \ found IN
          [pc |-> "remove", held |-> dead,
           flag |-> dead # {} /\ dead = proc[p].held] \in ProcState
    BY <2>1 DEF ProcState
  <2>3. PICK found \in SUBSET Sockets :
          LET dead == proc[p].held \ found IN
          proc' = [proc EXCEPT ![p] = [pc |-> "remove", held |-> dead,
                                       flag |-> dead # {} /\ dead = proc[p].held]]
    <3>1. PICK found \in {alive} \union (IF p \in Faulty THEN {{}} ELSE {}) :
            LET dead == proc[p].held \ found IN
            proc' = [proc EXCEPT ![p] = [pc |-> "remove", held |-> dead,
                                         flag |-> dead # {} /\ dead = proc[p].held]]
      BY <1>4, Zenon DEF CheckAlive
    <3>2. found \in SUBSET Sockets
      BY <3>1
    <3>3. QED
      BY <3>1, <3>2, Zenon
  <2>4. [proc EXCEPT ![p] =
           [pc |-> "remove", held |-> proc[p].held \ found,
            flag |-> proc[p].held \ found # {} /\ proc[p].held \ found = proc[p].held]]
          \in [Procs -> ProcState]
    BY <2>2
  <2>5. QED
    BY <1>4, <2>3, <2>4 DEF CheckAlive
<1>5. ASSUME NEW p \in Procs, RemoveDead(p) PROVE TypeOK'
  BY <1>5, RestType DEF RemoveDead
<1>6. ASSUME NEW w \in Sweepers, SweepStart(w) \/ SweepTell(w) PROVE TypeOK'
  BY <1>6, RestType DEF SweepStart, SweepTell
<1>7. ASSUME NEW s \in Sockets, CountBefore(s) PROVE TypeOK'
  <2>1. \A first \in BOOLEAN : [pc |-> "add", held |-> {}, flag |-> first] \in ProcState
    BY DEF ProcState
  <2>2. PICK first \in BOOLEAN :
          proc' = [proc EXCEPT ![s] = [pc |-> "add", held |-> {}, flag |-> first]]
    BY <1>7 DEF CountBefore
  <2>3. QED
    BY <1>7, <2>1, <2>2 DEF CountBefore
<1>8. ASSUME NEW s \in Sockets, AddMember(s) \/ MarkAlive(s) \/ TellOnline(s) PROVE TypeOK'
  <2>a. proc[s] \in ProcState
    OBVIOUS
  <2>1. [proc[s] EXCEPT !.pc = "mark"] \in ProcState
    BY <2>a DEF ProcState
  <2>2. [proc[s] EXCEPT !.pc = "tell"] \in ProcState
    BY <2>a DEF ProcState
  <2>3. (told \/ proc[s].flag) \in BOOLEAN
    OBVIOUS
  <2>4. CASE AddMember(s)
    BY <2>1, <2>4 DEF AddMember
  <2>5. CASE MarkAlive(s)
    BY <2>2, <2>5 DEF MarkAlive
  <2>6. CASE TellOnline(s)
    BY <2>3, <2>6, RestType DEF TellOnline
  <2>7. QED
    BY <1>8, <2>4, <2>5, <2>6
<1>9. ASSUME NEW s \in Sockets, Disconnect(s) \/ Unregister(s) PROVE TypeOK'
  <2>1. CASE Disconnect(s) \/ RemoveMember(s) \/ Unmark(s)
    BY <2>1 DEF Disconnect, RemoveMember, Unmark
  <2>2. CASE CountAfter(s)
    <3>1. PICK none \in BOOLEAN :
            unreg' = [unreg EXCEPT ![s] = IF none THEN "tell" ELSE "done"]
      BY <2>2 DEF CountAfter
    <3>2. QED
      BY <2>2, <3>1 DEF CountAfter
  <2>3. CASE TellOffline(s)
    BY <2>3 DEF TellOffline
  <2>4. QED
    BY <1>9, <2>1, <2>2, <2>3 DEF Unregister
<1>10. ASSUME NEW s \in Sockets, Heartbeat(s) \/ Expire(s) PROVE TypeOK'
  BY <1>10 DEF Heartbeat, BeatMark, BeatAdd, Expire
<1>11. CASE Crash
  <2>1. crashes' \in 0..MaxCrashes
    BY <1>11 DEF Crash
  <2>2. QED
    BY <1>11, <2>1, RestType DEF Crash
<1>12. CASE UNCHANGED vars
  BY <1>12 DEF vars
<1>13. QED
  BY <1>1, <1>2, <1>3, <1>4, <1>5, <1>6, <1>7, <1>8, <1>9, <1>10, <1>11, <1>12
  DEF Next, Register, Sweep

\* Only a handler of s adds s to the two keys, and once s has dropped with
\* none running no new one starts.
LEMMA ProgressStep ==
  ASSUME TypeOK, [Next]_vars, NEW s \in Sockets, Progress(s)
  PROVE  Progress(s)'
<1> USE ConstantsAssumption DEF TypeOK, Procs, Progress, Rest
<1>1. ASSUME NEW t \in Sockets, Connect(t) \/ Authenticate(t) \/ Refuse(t)
      PROVE Progress(s)'
  BY <1>1 DEF Connect, Authenticate, Refuse
<1>2. ASSUME NEW p \in Procs, ReadMembers(p) \/ CheckAlive(p) PROVE Progress(s)'
  BY <1>2 DEF ReadMembers, CheckAlive
<1>3. ASSUME NEW p \in Procs, RemoveDead(p) PROVE Progress(s)'
  BY <1>3 DEF RemoveDead
<1>4. ASSUME NEW w \in Sweepers, SweepStart(w) \/ SweepTell(w) PROVE Progress(s)'
  BY <1>4 DEF SweepStart, SweepTell
<1>5. ASSUME NEW t \in Sockets, CountBefore(t) PROVE Progress(s)'
  BY <1>5 DEF CountBefore
<1>6. ASSUME NEW t \in Sockets, AddMember(t) PROVE Progress(s)'
  BY <1>6 DEF AddMember, ProcState
<1>7. ASSUME NEW t \in Sockets, MarkAlive(t) PROVE Progress(s)'
  BY <1>7 DEF MarkAlive, ProcState
<1>8. ASSUME NEW t \in Sockets, TellOnline(t) PROVE Progress(s)'
  BY <1>8 DEF TellOnline
<1>9. ASSUME NEW t \in Sockets, Disconnect(t) PROVE Progress(s)'
  BY <1>9 DEF Disconnect
<1>10. ASSUME NEW t \in Sockets, Unregister(t) PROVE Progress(s)'
  BY <1>10 DEF Unregister, RemoveMember, Unmark, CountAfter, TellOffline
<1>11. ASSUME NEW t \in Sockets, Heartbeat(t) PROVE Progress(s)'
  BY <1>11 DEF Heartbeat, BeatMark, BeatAdd
<1>12. ASSUME NEW t \in Sockets, Expire(t) PROVE Progress(s)'
  BY <1>12 DEF Expire
<1>13. CASE Crash
  <2>1. /\ conn'[s] = IF conn[s] = "up" THEN "gone" ELSE conn[s]
        /\ proc'[s].pc = IF conn[s] = "never" THEN "idle" ELSE "done"
        /\ unreg'[s] = IF conn[s] = "never" THEN "idle" ELSE "done"
        /\ beat'[s] = "idle"
        /\ UNCHANGED <<online, alive>>
    BY <1>13 DEF Crash
  <2>2. conn[s] = "up" \/ unreg[s] \notin {"idle", "done"} => s \in late'
    BY <1>13 DEF Crash
  <2>3. s \notin late' => s \notin late
    BY <1>13 DEF Crash
  <2>4. QED
    BY <2>1, <2>2, <2>3
<1>14. CASE UNCHANGED vars
  BY <1>14 DEF vars
<1>15. QED
  BY <1>1, <1>2, <1>3, <1>4, <1>5, <1>6, <1>7, <1>8, <1>9, <1>10, <1>11, <1>12,
     <1>13, <1>14
  DEF Next, Register, Sweep

LEMMA Invariance == Spec => []IInv
<1>1. Init => IInv
  <2> SUFFICES ASSUME Init PROVE IInv
    OBVIOUS
  <2>1. Rest("idle") \in ProcState
    BY RestType
  <2>2. crashes \in 0..MaxCrashes
    BY ConstantsAssumption DEF Init
  <2>3. TypeOK
    BY <2>1, <2>2 DEF Init, TypeOK
  <2>4. \A s \in Sockets : Progress(s)
    BY DEF Init, Progress, Procs, Rest
  <2>5. QED
    BY <2>3, <2>4 DEF IInv
<1>2. IInv /\ [Next]_vars => IInv'
  BY TypeStep, ProgressStep DEF IInv
<1>3. QED
  BY <1>1, <1>2, PTL DEF Spec

\* Every variable keeps its type.
THEOREM TypeCorrect == Spec => []TypeOK
<1>1. IInv => TypeOK
  BY DEF IInv
<1>2. QED
  BY <1>1, Invariance, PTL

\* A socket that drops with no handler running leaves nothing in Redis once
\* unregister has answered.
THEOREM CleanDisconnect == Spec => []CleanExit
<1>1. IInv => CleanExit
  BY DEF IInv, CleanExit, Progress
<1>2. QED
  BY <1>1, Invariance, PTL
===============================================================================
