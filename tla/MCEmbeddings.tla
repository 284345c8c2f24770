----------------------------- MODULE MCEmbeddings -----------------------------
(* Instances of Embeddings for TLC. *)
EXTENDS Embeddings
===============================================================================
