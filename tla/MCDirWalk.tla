----------------------------- MODULE MCDirWalk -----------------------------
(* Small instances of DirWalk for TLC. *)
EXTENDS DirWalk
=============================================================================
