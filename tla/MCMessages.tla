------------------------------ MODULE MCMessages ------------------------------
(* An instance of MessageTail for TLC. *)
EXTENDS MessageTail, TLC

Symm == Permutations(Users) \union Permutations(Consumers)
===============================================================================
