----------------------------- MODULE MCPgStore ------------------------------
(***************************************************************************)
(* Instances of PgStore for TLC.                                           *)
(***************************************************************************)
EXTENDS PgStore, MCChunks, TLC

Symmetry == Permutations(Calls)
=============================================================================
