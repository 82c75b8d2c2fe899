----------------------------- MODULE MCMigrations -----------------------------
(***************************************************************************)
(* An instance of Migrations for TLC: two processes of a new binary and    *)
(* one of an old binary, each started twice.                               *)
(***************************************************************************)
EXTENDS Migrations

CONSTANTS p1, p2, old

OldAndNew == [p \in Procs |-> IF p = old THEN 1 ELSE 2]
=============================================================================
