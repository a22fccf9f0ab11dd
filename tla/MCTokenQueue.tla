---------------------------- MODULE MCTokenQueue ----------------------------
(* Small instances of TokenQueue for TLC. *)
EXTENDS TokenQueue, TLC
=============================================================================
