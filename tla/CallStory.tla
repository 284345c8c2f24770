------------------------------- MODULE CallStory -------------------------------
(***************************************************************************)
(* What a room is promised of one call, whatever requests race: the call   *)
(* is made, is over once and for good, and the room's log tells of it only *)
(* what has happened, its end at most once.  CallHistory implements it.    *)
(***************************************************************************)
CONSTANT Users

VARIABLES phase,   \* "none", "open" or "over"
          joined,  \* who has ever been in the call
          told     \* what the room's log says of it

vars == <<phase, joined, told>>

Init == phase = "none" /\ joined \in {{u} : u \in Users} /\ told = {}

Open == phase = "none" /\ phase' = "open" /\ UNCHANGED <<joined, told>>

Join(u) == phase # "none" /\ joined' = joined \union {u} /\ UNCHANGED <<phase, told>>

Close == phase = "open" /\ phase' = "over" /\ UNCHANGED <<joined, told>>

\* That somebody came or went is said of those who were in it.
TellMove(event, u) ==
  /\ phase # "none" /\ u \in joined
  /\ told' = told \union {<<event, u>>}
  /\ UNCHANGED <<phase, joined>>

TellEnd(u) ==
  /\ phase = "over"
  /\ \A v \in Users : <<"call.ended", v>> \notin told
  /\ told' = told \union {<<"call.ended", u>>}
  /\ UNCHANGED <<phase, joined>>

Next ==
  \/ Open \/ Close
  \/ \E u \in Users :
       Join(u) \/ TellEnd(u) \/ \E event \in {"call.joined", "call.left"} : TellMove(event, u)

Spec == Init /\ [][Next]_vars
===============================================================================
