------------------------------- MODULE MCCalls -------------------------------
(* Instances of the call record and of the call gateway, which share no state *)
(* here: each behaviour is the record's or the gateway's.                     *)
EXTENDS CallHistory

CONSTANTS alice, bob, phone, laptop, Sockets, DeviceOwner, Calls, None, Slots, MaxEvents

VARIABLES member, over, inCall, callSock, invites, jobs, parts, index, lock, flags,
          up, holds, task, events, met, cut, asked, part

OneEach == [s \in Sockets |-> IF s = phone THEN alice ELSE bob]

Gateway == INSTANCE CallGateway WITH
  Owner <- DeviceOwner, Mode <- "sfu", RoomsAtDrop <- BOOLEAN, GrpcFails <- FALSE,
  status <- member, endedAt <- over

ASSUME GatewayAssumption == Gateway!ConstantsAssumption

-------------------------------------------------------------------------------
gateway == <<member, over, inCall, callSock, invites, jobs, parts, index, lock, flags,
             up, holds, task, events, met, cut, asked>>
allVars == <<vars, gateway, part>>

AllInit ==
  /\ part \in {"gateway", "record"} /\ Init /\ Gateway!Init
  /\ part = "gateway" => mode = "p2p" /\ caller = alice

AllNext ==
  \/ part = "record" /\ Next /\ UNCHANGED <<gateway, part>>
  \/ part = "gateway" /\ Gateway!Next /\ UNCHANGED <<vars, part>>

\* The fairness of both (FairSpec): nothing of the other part is ever enabled.
AllSpec ==
  /\ AllInit /\ [][AllNext]_allVars
  /\ \A r \in Requests : WF_vars(Continue(r))
  /\ \A t \in Slots :
       WF_gateway(Gateway!Continue(t)) /\ SF_gateway(Gateway!RunJob(t))

-------------------------------------------------------------------------------
\* A ring ends (call.gateway.ts, the auto-miss job and handleCallEnd).
RingEnds == Gateway!RingEnds
===============================================================================
