------------------------------ MODULE CallScripts ------------------------------
(***************************************************************************)
(* The handlers of the /call socket gateway (call.gateway.ts) and of its   *)
(* auto-miss job as lists of steps, with an await between any two of them. *)
(* CallGateway says what each step does.                                   *)
(***************************************************************************)
EXTENDS Naturals, Sequences

\* The awaits of each handler, in the order of the code.
RequestScript ==
  <<"validate", "clear", "validateTargets", "clear", "create", "mark", "enlist",
    "claimRead", "claimWrite", "invite", "schedule">>

AcceptScript ==
  <<"lockRead", "validate", "clear", "lock", "claimRead", "claimWrite", "acceptCall",
    "mark", "enlist", "uninvite", "cancel">>

\* Mutant: a late joiner keeps the invite and the auto-miss job, as before the
\* production bug the code's comment tells of was fixed.
JoinScriptKeepsInvite ==
  <<"validate", "clear", "claimRead", "claimWrite", "acceptCall", "mark">>

JoinScript ==
  <<"validate", "clear", "claimRead", "claimWrite", "acceptCall", "mark",
    "uninvite", "cancel">>

EndScript ==
  <<"endCall", "uninviteAll", "unlock", "delist", "delistCount", "delistDel",
    "unmark", "wipe">>

MissScript == <<"readInvite", "readParts", "endCall", "uninvite">>

\* sweepUserFromAllCalls runs before the markers go and after the user went offline.
DropScript ==
  <<"dropRead", "sweepRead", "sweepRem", "sweepCount", "sweepWipe", "sweepDel",
    "dropUnmark", "dropSockRead", "dropSockDel", "leave",
    "sweepRead", "sweepRem", "sweepCount", "sweepWipe", "sweepDel", "unmark">>

Script(kind) ==
  CASE kind = "none" -> <<>>
    [] kind = "request" -> RequestScript
    [] kind = "accept" -> AcceptScript
    [] kind = "join" -> JoinScript
    [] kind = "end" -> EndScript
    [] kind = "miss" -> MissScript
    [] kind = "drop" -> DropScript
================================================================================
