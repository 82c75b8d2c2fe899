------------------------------ MODULE MCPgSpace -----------------------------
(***************************************************************************)
(* Instances of PgSpace for TLC: the requests of MCPgStore, sent to three  *)
(* processes of which one has another embedder and one another tokenizer.  *)
(***************************************************************************)
EXTENDS PgSpace, MCPgStore
=============================================================================
