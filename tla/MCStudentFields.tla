-------------------------- MODULE MCStudentFields --------------------------
(* Small instances of StudentFields for TLC: records of two fields with    *)
(* two values each.                                                        *)
EXTENDS StudentFields

MCField == {"name", "semester"}
MCRec == [MCField -> {0, 1}]
=============================================================================
