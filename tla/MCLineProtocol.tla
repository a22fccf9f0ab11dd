--------------------------- MODULE MCLineProtocol ---------------------------
(* Small instances of LineProtocol for TLC. *)
EXTENDS LineProtocol

(* Every line the parsers tell apart. *)
EveryLine == {l \in AllLines : l.word = "" => l.rest = "none"}
=============================================================================
