------------------------------- MODULE MCExpiry -------------------------------
(* Instances of what expires in Redis, presence and the entity cache, which share *)
(* no state: each behaviour is one's.                                             *)
EXTENDS Presence

CONSTANTS Instances, Docs, Keys, Fields, None, MaxWrites

VARIABLES l1, l2, idx, inbox, link, read, inv, writes, part

\* With one document, every key is its own.
Lookups == [key : Keys, doc : Docs]

Cache == INSTANCE EntityCache WITH Queries <- Lookups, RedisFails <- TRUE

ASSUME CacheAssumption == Cache!ConstantsAssumption

-------------------------------------------------------------------------------
cache == <<l1, l2, idx, inbox, link, read, inv, writes>>
allVars == <<vars, cache, part>>

AllInit == part \in {"presence", "cache"} /\ Init /\ Cache!Init

Of(A) == part = "presence" /\ A /\ UNCHANGED <<cache, part>>

AllNext ==
  \/ Of(Next)
  \/ part = "cache" /\ Cache!Next /\ UNCHANGED <<vars, part>>

\* The fairness of both (FairSpec): in the other part no action of the cache is enabled,
\* while the cron of presence is.
AllSpec ==
  /\ AllInit /\ [][AllNext]_allVars
  /\ \A s \in Sockets :
       /\ WF_vars(Of(Register(s))) /\ WF_vars(Of(Unregister(s)))
       /\ WF_vars(Of(Heartbeat(s))) /\ WF_vars(Of(conn[s] = "gone" /\ Expire(s)))
  /\ \A w \in Sweepers : WF_vars(Of(Sweep(w)))
  /\ \A i \in Instances :
       /\ WF_cache(Cache!ReadStep(i))
       /\ \A f \in Fields : WF_cache(Cache!InvStep(i, f))
       /\ \A k \in Keys : WF_cache(Cache!ExpireL1(i, k))
  /\ \A k \in Keys : WF_cache(Cache!ExpireL2(k))

-------------------------------------------------------------------------------
(* The properties of the parts. *)

\* What a crash left is pruned, and a live socket that was pruned gets back in
\* (presence.service.ts, sweep and heartbeat).
PresenceHeals == GhostsArePruned /\ HeartbeatHeals

\* When the writes stop, every cached copy is right in the end (entity-cache.service.ts).
Heals == Cache!Heals
===============================================================================
