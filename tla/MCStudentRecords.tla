-------------------------- MODULE MCStudentRecords --------------------------
(* Small instances of StudentRecords for TLC: Seq(Rec) in the abstract     *)
(* specification's initial condition is only tested for membership.        *)
EXTENDS StudentRecords
=============================================================================
