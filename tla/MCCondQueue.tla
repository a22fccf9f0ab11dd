---------------------------- MODULE MCCondQueue ----------------------------
(* Small instances of CondQueue for TLC. *)
EXTENDS CondQueue, TLC

Interchangeable == Permutations(Prod) \cup Permutations(Cons) \cup Permutations(Msg)
=============================================================================
