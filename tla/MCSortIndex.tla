---------------------------- MODULE MCSortIndex ----------------------------
(* Small instances of SortIndex for TLC. *)
EXTENDS SortIndex

CommandLine(t, b, c, r) == [threads |-> t, blocks |-> b, perChunk |-> c, records |-> r]

(* One chunk for two threads; and for one thread two chunks of equal size, *)
(* blocks of unequal size, a last chunk too small, an empty file.          *)
MCArgs == {CommandLine(2, 8, 9, 9), CommandLine(1, 4, 4, 8), CommandLine(1, 4, 5, 9),
           CommandLine(1, 4, 4, 5), CommandLine(1, 4, 4, 0)}
=============================================================================
