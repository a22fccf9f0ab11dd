----------------------------- MODULE MCSpawner -----------------------------
(* Small instances of Spawner for TLC. *)
EXTENDS Spawner
=============================================================================
