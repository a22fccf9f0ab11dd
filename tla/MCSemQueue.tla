----------------------------- MODULE MCSemQueue -----------------------------
(* Small instances of SemQueue for TLC. *)
EXTENDS SemQueue, TLC

Interchangeable == Permutations(Prod) \cup Permutations(Cons) \cup Permutations(Msg)
=============================================================================
