--------------------------- MODULE StudentFields ---------------------------
(***************************************************************************)
(* StudentRecords with the fields of a record: which fields a user has     *)
(* typed, and which ones she has left as they were with an empty line.     *)
(*                                                                         *)
(* base and told are history variables: they record what the steps of      *)
(* StudentRecords do and decide nothing.                                   *)
(***************************************************************************)
EXTENDS StudentRecords

CONSTANT Field  \* the fields of a record: name, address, semester

ASSUME FieldAssumption == \A r \in Rec : DOMAIN r = Field

VARIABLES
    base,   \* the content from which the user of each PUT has made her copy
    told    \* whether she has been shown another content since

fieldVars == <<vars, base, told>>

FieldInit == /\ Init
             /\ base = [p \in Procs |-> Nothing]
             /\ told = [p \in Procs |-> FALSE]

(* REC_WRK <-- REC and the three questions; the line about the change by   *)
(* another process; the end of the command.                                *)
Remember ==
    /\ base' = [p \in Procs |-> IF pc'[p] \in {"off", "ready"} THEN Nothing
                                ELSE IF pc'[p] = "edit" THEN rec[p] ELSE base[p]]
    /\ told' = [p \in Procs |-> /\ pc'[p] \notin {"off", "ready"}
                                /\ told[p] \/ pc'[p] = "ask"]

FieldNext == Next /\ Remember

FieldSpec == FieldInit /\ [][FieldNext]_fieldVars /\ Fairness

-----------------------------------------------------------------------------
(* "New (Enter: no change)", commands.c:71.  A field that the user of PUT  *)
(* left alone is taken back to an older value only after she has been told *)
(* of the change by another process and has answered that her own changes  *)
(* go on top (commands.c:92-98).  Then it is taken back: the program       *)
(* writes her whole copy.                                                  *)
TakenBackOnlyWhenTold ==
    [][\A p \in Procs : Write(p) /\ cmd[p] = "put" =>
         \A f \in Field :
           wrk[p][f] = base[p][f] /\ file'[n[p]][f] # file[n[p]][f] => told[p]]_fieldVars
=============================================================================
