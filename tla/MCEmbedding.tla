---------------------------- MODULE MCEmbedding -----------------------------
(***************************************************************************)
(* Two replicas and two calls: one of three prompts, and one of a client   *)
(* that announces a number no request can have.                            *)
(***************************************************************************)
EXTENDS Embedding

mcPrompts == [c \in Calls |-> IF c = 1 THEN 3 ELSE -1]
=============================================================================
