----------------------------- MODULE MCEntityCache -----------------------------
(* A small instance of EntityCache for TLC: two documents under one key, as two *)
(* users' private rooms with one peer share the key of that peer.                *)
EXTENDS EntityCache

Lookups == [key : Keys, doc : Docs]
===============================================================================
