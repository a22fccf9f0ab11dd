----------------------- MODULE StudentRecordsProofs -----------------------
(***************************************************************************)
(* Proofs about StudentRecords, and about StudentFields, which adds the    *)
(* fields of a record, for any number of processes, records and contents.  *)
(*                                                                         *)
(* The inductive invariant Inv says what each place of a command means:    *)
(* which commands pass there and what their variables hold (Commands),     *)
(* which lock covers the record (Covered), and that locks of two processes *)
(* on one record are read locks (Compatible).  From these follows that no  *)
(* Write can change a record under the eyes of a process that has it       *)
(* locked, which is ReadIsCurrent.  What is in the file when a PUT writes  *)
(* is therefore what its user saw last, and this differs from what she     *)
(* began with only if she was asked, which is TakenBackOnlyWhenTold.       *)
(***************************************************************************)
EXTENDS StudentFields, TLAPS

(* What the place of a process says about its command and variables. *)
Commands ==
    \A p \in Procs :
      /\ pc[p] \in {"off", "ready"} => cmd[p] = "none" /\ rec[p] = Nothing
      /\ pc[p] \in {"wantRead", "read", "endRead"} => cmd[p] \in {"show", "put"}
      /\ pc[p] \in {"edit", "again", "check", "ask"} => cmd[p] = "put"
      /\ pc[p] \in {"wantWrite", "write", "unlock"} => cmd[p] \in {"put", "add"}
      /\ pc[p] \in {"again", "wantWrite", "check", "ask", "write"} => wrk[p] \in Rec
      /\ cmd[p] = "add" => p \in Adders
      /\ cmd[p] \in {"show", "put"} => n[p] \in 1..Len(file)
      /\ cmd[p] = "show" => last[p] \in 1..Len(file)

(* A process that uses a record has it locked. *)
Covered ==
    \A p \in Procs :
      /\ pc[p] \in {"read", "endRead"} => <<p, n[p], "read">> \in locks
      /\ pc[p] \in {"check", "write", "unlock"} => <<p, n[p], "write">> \in locks

(* Two processes that have one record locked only read it. *)
Compatible ==
    \A l, m \in locks : l[2] = m[2] /\ l[1] # m[1] => l[3] = "read" /\ m[3] = "read"

Inv == TypeOK /\ Commands /\ Covered /\ Compatible /\ ReadIsCurrent

-----------------------------------------------------------------------------
(* Writing a record changes that record, or adds it at the end. *)
LEMMA WriteRecord ==
    ASSUME TypeOK, NEW p \in Procs, Write(p), wrk[p] \in Rec
    PROVE  /\ file' \in Seq(Rec)
           /\ Len(file') \in Nat /\ Len(file') >= Len(file)
           /\ \A i \in 1..Len(file) : i # n[p] => file'[i] = file[i]
  BY DEF TypeOK, Write, Goto

(* The initial state satisfies the invariant. *)
LEMMA InitInv == Init => Inv
<1> SUFFICES ASSUME Init PROVE Inv
  OBVIOUS
<1>1. file \in Seq(Rec)
  BY RecordAssumption DEF Init
<1> QED
  BY <1>1 DEF Init, Inv, TypeOK, Commands, Covered, Compatible, ReadIsCurrent, Places

(* Start preserves the invariant. *)
LEMMA StartInv == ASSUME Inv, NEW p \in Procs, Start(p) PROVE Inv'
<1>0. TypeOK /\ Commands /\ Covered /\ Compatible /\ ReadIsCurrent
  BY DEF Inv
<1>1. TypeOK'
  BY <1>0 DEF Start, Goto, localVars, TypeOK, Commands, Places
<1>2. Commands'
  BY <1>0 DEF Start, Goto, localVars, TypeOK, Commands
<1>3. Covered'
  BY <1>0 DEF Start, Goto, localVars, TypeOK, Commands, Covered
<1>4. Compatible'
  BY <1>0 DEF Start, Goto, localVars, TypeOK, Commands, Covered, Compatible
<1>5. ReadIsCurrent'
  BY <1>0 DEF Start, Goto, localVars, TypeOK, Commands, Covered, Compatible, ReadIsCurrent
<1> QED
  BY <1>1, <1>2, <1>3, <1>4, <1>5 DEF Inv

(* Exit preserves the invariant. *)
LEMMA ExitInv == ASSUME Inv, NEW p \in Procs, Exit(p) PROVE Inv'
<1>0. TypeOK /\ Commands /\ Covered /\ Compatible /\ ReadIsCurrent
  BY DEF Inv
<1>1. TypeOK'
  BY <1>0 DEF Exit, Return, Goto, localVars, TypeOK, Commands, Places
<1>2. Commands'
  BY <1>0 DEF Exit, Return, Goto, localVars, TypeOK, Commands
<1>3. Covered'
  BY <1>0 DEF Exit, Return, Goto, localVars, TypeOK, Commands, Covered
<1>4. Compatible'
  BY <1>0 DEF Exit, Return, Goto, localVars, TypeOK, Commands, Covered, Compatible
<1>5. ReadIsCurrent'
  BY <1>0 DEF Exit, Return, Goto, localVars, TypeOK, Commands, Covered, Compatible, ReadIsCurrent
<1> QED
  BY <1>1, <1>2, <1>3, <1>4, <1>5 DEF Inv

(* Edit preserves the invariant. *)
LEMMA EditInv == ASSUME Inv, NEW p \in Procs, Edit(p) PROVE Inv'
<1>0. TypeOK /\ Commands /\ Covered /\ Compatible /\ ReadIsCurrent
  BY DEF Inv
<1>1. TypeOK'
  BY <1>0 DEF Edit, Goto, localVars, TypeOK, Commands, Places
<1>2. Commands'
  BY <1>0 DEF Edit, Goto, localVars, TypeOK, Commands
<1>3. Covered'
  BY <1>0 DEF Edit, Goto, localVars, TypeOK, Commands, Covered
<1>4. Compatible'
  BY <1>0 DEF Edit, Goto, localVars, TypeOK, Commands, Covered, Compatible
<1>5. ReadIsCurrent'
  BY <1>0 DEF Edit, Goto, localVars, TypeOK, Commands, Covered, Compatible, ReadIsCurrent
<1> QED
  BY <1>1, <1>2, <1>3, <1>4, <1>5 DEF Inv

(* Ask preserves the invariant. *)
LEMMA AskInv == ASSUME Inv, NEW p \in Procs, Ask(p) PROVE Inv'
<1>0. TypeOK /\ Commands /\ Covered /\ Compatible /\ ReadIsCurrent
  BY DEF Inv
<1>1. TypeOK'
  <2>1. CASE Goto(p, "again") /\ UNCHANGED localVars
    BY <1>0, <2>1 DEF Ask, Goto, localVars, TypeOK, Places
  <2>2. CASE Return(p, "ready")
    BY <1>0, <2>2 DEF Ask, Return, Goto, TypeOK, Places
  <2> QED
    BY <2>1, <2>2 DEF Ask
<1>2. Commands'
  BY <1>0 DEF Ask, Return, Goto, localVars, TypeOK, Commands
<1>3. Covered'
  BY <1>0 DEF Ask, Return, Goto, localVars, TypeOK, Commands, Covered
<1>4. Compatible'
  BY <1>0 DEF Ask, Return, Goto, localVars, TypeOK, Commands, Covered, Compatible
<1>5. ReadIsCurrent'
  <2>1. CASE Goto(p, "again") /\ UNCHANGED localVars
    BY <1>0, <2>1 DEF Ask, Goto, localVars, TypeOK, ReadIsCurrent
  <2>2. CASE Return(p, "ready")
    BY <1>0, <2>2 DEF Ask, Return, Goto, TypeOK, ReadIsCurrent
  <2> QED
    BY <2>1, <2>2 DEF Ask
<1> QED
  BY <1>1, <1>2, <1>3, <1>4, <1>5 DEF Inv

(* GetCommand preserves the invariant. *)
LEMMA GetCommandInv == ASSUME Inv, NEW p \in Procs, GetCommand(p) PROVE Inv'
<1>0. TypeOK /\ Commands /\ Covered /\ Compatible /\ ReadIsCurrent
  BY DEF Inv
<1>1. TypeOK'
  BY <1>0 DEF GetCommand, Show, Goto, localVars, TypeOK, Commands, Places
<1>2. Commands'
  BY <1>0 DEF GetCommand, Show, Goto, localVars, TypeOK, Commands
<1>3. Covered'
  BY <1>0 DEF GetCommand, Show, Goto, localVars, TypeOK, Commands, Covered
<1>4. Compatible'
  BY <1>0 DEF GetCommand, Show, Goto, localVars, TypeOK, Commands, Covered, Compatible
<1>5. ReadIsCurrent'
  BY <1>0 DEF GetCommand, Show, Goto, localVars, TypeOK, Commands, Covered, Compatible, ReadIsCurrent
<1> QED
  BY <1>1, <1>2, <1>3, <1>4, <1>5 DEF Inv

(* ListCommand preserves the invariant. *)
LEMMA ListCommandInv == ASSUME Inv, NEW p \in Procs, ListCommand(p) PROVE Inv'
<1>0. TypeOK /\ Commands /\ Covered /\ Compatible /\ ReadIsCurrent
  BY DEF Inv
<1>1. TypeOK'
  BY <1>0 DEF ListCommand, Show, Goto, localVars, TypeOK, Commands, Places
<1>2. Commands'
  BY <1>0 DEF ListCommand, Show, Goto, localVars, TypeOK, Commands
<1>3. Covered'
  BY <1>0 DEF ListCommand, Show, Goto, localVars, TypeOK, Commands, Covered
<1>4. Compatible'
  BY <1>0 DEF ListCommand, Show, Goto, localVars, TypeOK, Commands, Covered, Compatible
<1>5. ReadIsCurrent'
  BY <1>0 DEF ListCommand, Show, Goto, localVars, TypeOK, Commands, Covered, Compatible, ReadIsCurrent
<1> QED
  BY <1>1, <1>2, <1>3, <1>4, <1>5 DEF Inv

(* PutCommand preserves the invariant. *)
LEMMA PutCommandInv == ASSUME Inv, NEW p \in Procs, PutCommand(p) PROVE Inv'
<1>0. TypeOK /\ Commands /\ Covered /\ Compatible /\ ReadIsCurrent
  BY DEF Inv
<1>1. TypeOK'
  BY <1>0 DEF PutCommand, Goto, localVars, TypeOK, Commands, Places
<1>2. Commands'
  BY <1>0 DEF PutCommand, Goto, localVars, TypeOK, Commands
<1>3. Covered'
  BY <1>0 DEF PutCommand, Goto, localVars, TypeOK, Commands, Covered
<1>4. Compatible'
  BY <1>0 DEF PutCommand, Goto, localVars, TypeOK, Commands, Covered, Compatible
<1>5. ReadIsCurrent'
  BY <1>0 DEF PutCommand, Goto, localVars, TypeOK, Commands, Covered, Compatible, ReadIsCurrent
<1> QED
  BY <1>1, <1>2, <1>3, <1>4, <1>5 DEF Inv

(* AddCommand preserves the invariant. *)
LEMMA AddCommandInv == ASSUME Inv, NEW p \in Procs, AddCommand(p) PROVE Inv'
<1>0. TypeOK /\ Commands /\ Covered /\ Compatible /\ ReadIsCurrent
  BY DEF Inv
<1>1. TypeOK'
  BY <1>0 DEF AddCommand, Goto, localVars, TypeOK, Commands, Places
<1>2. Commands'
  BY <1>0 DEF AddCommand, Goto, localVars, TypeOK, Commands
<1>3. Covered'
  BY <1>0 DEF AddCommand, Goto, localVars, TypeOK, Commands, Covered
<1>4. Compatible'
  BY <1>0 DEF AddCommand, Goto, localVars, TypeOK, Commands, Covered, Compatible
<1>5. ReadIsCurrent'
  BY <1>0 DEF AddCommand, Goto, localVars, TypeOK, Commands, Covered, Compatible, ReadIsCurrent
<1> QED
  BY <1>1, <1>2, <1>3, <1>4, <1>5 DEF Inv

(* LockRead preserves the invariant. *)
LEMMA LockReadInv == ASSUME Inv, NEW p \in Procs, LockRead(p) PROVE Inv'
<1>0. TypeOK /\ Commands /\ Covered /\ Compatible /\ ReadIsCurrent
  BY DEF Inv
<1>1. TypeOK'
  BY <1>0 DEF LockRead, Lock, Goto, localVars, TypeOK, Commands, Places
<1>2. Commands'
  BY <1>0 DEF LockRead, Lock, Goto, localVars, TypeOK, Commands
<1>3. Covered'
  BY <1>0 DEF LockRead, Lock, Goto, localVars, TypeOK, Commands, Covered
<1>4. Compatible'
  BY <1>0 DEF LockRead, Lock, Goto, localVars, TypeOK, Commands, Covered, Compatible
<1>5. ReadIsCurrent'
  BY <1>0 DEF LockRead, Lock, Goto, localVars, TypeOK, Commands, Covered, Compatible, ReadIsCurrent
<1> QED
  BY <1>1, <1>2, <1>3, <1>4, <1>5 DEF Inv

(* Read preserves the invariant. *)
LEMMA ReadInv == ASSUME Inv, NEW p \in Procs, Read(p) PROVE Inv'
<1>0. TypeOK /\ Commands /\ Covered /\ Compatible /\ ReadIsCurrent
  BY DEF Inv
<1>1. TypeOK'
  <2>1. n[p] \in 1..Len(file)
    BY <1>0 DEF Read, Commands
  <2>2. file[n[p]] \in Rec
    BY <1>0, <2>1 DEF TypeOK
  <2> QED
    BY <1>0, <2>2 DEF Read, Goto, TypeOK, Places
<1>2. Commands'
  BY <1>0 DEF Read, Goto, localVars, TypeOK, Commands
<1>3. Covered'
  BY <1>0 DEF Read, Goto, localVars, TypeOK, Commands, Covered
<1>4. Compatible'
  BY <1>0 DEF Read, Goto, localVars, TypeOK, Commands, Covered, Compatible
<1>5. ReadIsCurrent'
  BY <1>0 DEF Read, Goto, localVars, TypeOK, Commands, Covered, Compatible, ReadIsCurrent
<1> QED
  BY <1>1, <1>2, <1>3, <1>4, <1>5 DEF Inv

(* EndShow preserves the invariant. *)
LEMMA EndShowInv == ASSUME Inv, NEW p \in Procs, EndShow(p) PROVE Inv'
<1>0. TypeOK /\ Commands /\ Covered /\ Compatible /\ ReadIsCurrent
  BY DEF Inv
<1>1. TypeOK'
  <2>1. locks' \subseteq locks /\ file' = file
    BY DEF EndShow, Unlock
  <2>2. n[p] \in Nat /\ n[p] + 1 \in Nat
    BY <1>0 DEF TypeOK
  <2>3. CASE n[p] < last[p]
    <3>1. /\ n' = [n EXCEPT ![p] = n[p] + 1]
          /\ rec' = [rec EXCEPT ![p] = Nothing]
          /\ pc' = [pc EXCEPT ![p] = "wantRead"]
          /\ UNCHANGED <<cmd, last, wrk>>
      BY <2>3 DEF EndShow, Goto
    <3> QED
      BY <1>0, <2>1, <2>2, <3>1 DEF TypeOK, Places
  <2>4. CASE ~(n[p] < last[p])
    <3>1. Return(p, "ready")
      BY <2>4 DEF EndShow
    <3> QED
      BY <1>0, <2>1, <3>1 DEF Return, Goto, TypeOK, Places
  <2> QED
    BY <2>3, <2>4
<1>2. Commands'
  BY <1>0 DEF EndShow, Unlock, Return, Goto, localVars, TypeOK, Commands
<1>3. Covered'
  BY <1>0 DEF EndShow, Unlock, Return, Goto, localVars, TypeOK, Commands, Covered
<1>4. Compatible'
  BY <1>0 DEF EndShow, Unlock, Return, Goto, localVars, TypeOK, Commands, Covered, Compatible
<1>5. ReadIsCurrent'
  BY <1>0 DEF EndShow, Unlock, Return, Goto, localVars, TypeOK, Commands, Covered, Compatible, ReadIsCurrent
<1> QED
  BY <1>1, <1>2, <1>3, <1>4, <1>5 DEF Inv

(* EndRead preserves the invariant. *)
LEMMA EndReadInv == ASSUME Inv, NEW p \in Procs, EndRead(p) PROVE Inv'
<1>0. TypeOK /\ Commands /\ Covered /\ Compatible /\ ReadIsCurrent
  BY DEF Inv
<1>1. TypeOK'
  BY <1>0 DEF EndRead, Unlock, Goto, localVars, TypeOK, Commands, Places
<1>2. Commands'
  BY <1>0 DEF EndRead, Unlock, Goto, localVars, TypeOK, Commands
<1>3. Covered'
  BY <1>0 DEF EndRead, Unlock, Goto, localVars, TypeOK, Commands, Covered
<1>4. Compatible'
  BY <1>0 DEF EndRead, Unlock, Goto, localVars, TypeOK, Commands, Covered, Compatible
<1>5. ReadIsCurrent'
  BY <1>0 DEF EndRead, Unlock, Goto, localVars, TypeOK, Commands, Covered, Compatible, ReadIsCurrent
<1> QED
  BY <1>1, <1>2, <1>3, <1>4, <1>5 DEF Inv

(* Again preserves the invariant. *)
LEMMA AgainInv == ASSUME Inv, NEW p \in Procs, Again(p) PROVE Inv'
<1>0. TypeOK /\ Commands /\ Covered /\ Compatible /\ ReadIsCurrent
  BY DEF Inv
<1>1. TypeOK'
  <2>1. CASE Goto(p, "wantWrite") /\ UNCHANGED localVars
    BY <1>0, <2>1 DEF Again, Goto, localVars, TypeOK, Places
  <2>2. CASE Return(p, "ready")
    BY <1>0, <2>2 DEF Again, Return, Goto, TypeOK, Places
  <2> QED
    BY <2>1, <2>2 DEF Again
<1>2. Commands'
  <2>1. CASE Goto(p, "wantWrite") /\ UNCHANGED localVars
    BY <1>0, <2>1 DEF Again, Goto, localVars, TypeOK, Commands
  <2>2. CASE Return(p, "ready")
    BY <1>0, <2>2 DEF Again, Return, Goto, TypeOK, Commands
  <2> QED
    BY <2>1, <2>2 DEF Again
<1>3. Covered'
  BY <1>0 DEF Again, Return, Goto, localVars, TypeOK, Commands, Covered
<1>4. Compatible'
  BY <1>0 DEF Again, Return, Goto, localVars, TypeOK, Commands, Covered, Compatible
<1>5. ReadIsCurrent'
  <2>1. CASE Goto(p, "wantWrite") /\ UNCHANGED localVars
    BY <1>0, <2>1 DEF Again, Goto, localVars, TypeOK, ReadIsCurrent
  <2>2. CASE Return(p, "ready")
    BY <1>0, <2>2 DEF Again, Return, Goto, TypeOK, ReadIsCurrent
  <2> QED
    BY <2>1, <2>2 DEF Again
<1> QED
  BY <1>1, <1>2, <1>3, <1>4, <1>5 DEF Inv

(* LockWrite preserves the invariant. *)
LEMMA LockWriteInv == ASSUME Inv, NEW p \in Procs, LockWrite(p) PROVE Inv'
<1>0. TypeOK /\ Commands /\ Covered /\ Compatible /\ ReadIsCurrent
  BY DEF Inv
<1>1. TypeOK'
  BY <1>0 DEF LockWrite, Lock, Goto, localVars, TypeOK, Commands, Places
<1>2. Commands'
  BY <1>0 DEF LockWrite, Lock, Goto, localVars, TypeOK, Commands
<1>3. Covered'
  BY <1>0 DEF LockWrite, Lock, Goto, localVars, TypeOK, Commands, Covered
<1>4. Compatible'
  BY <1>0 DEF LockWrite, Lock, Goto, localVars, TypeOK, Commands, Covered, Compatible
<1>5. ReadIsCurrent'
  BY <1>0 DEF LockWrite, Lock, Goto, localVars, TypeOK, Commands, Covered, Compatible, ReadIsCurrent
<1> QED
  BY <1>1, <1>2, <1>3, <1>4, <1>5 DEF Inv

(* Check preserves the invariant. *)
LEMMA CheckInv == ASSUME Inv, NEW p \in Procs, Check(p) PROVE Inv'
<1>0. TypeOK /\ Commands /\ Covered /\ Compatible /\ ReadIsCurrent
  BY DEF Inv
<1>1. TypeOK'
  <2>1. file[n[p]] \in Rec
    BY <1>0 DEF Check, TypeOK, Commands
  <2>2. CASE file[n[p]] = rec[p]
    BY <1>0, <2>2 DEF Check, Goto, TypeOK, Places
  <2>3. CASE file[n[p]] # rec[p]
    BY <1>0, <2>1, <2>3 DEF Check, Unlock, Goto, TypeOK, Places
  <2> QED
    BY <2>2, <2>3
<1>2. Commands'
  BY <1>0 DEF Check, Unlock, Goto, localVars, TypeOK, Commands
<1>3. Covered'
  BY <1>0 DEF Check, Unlock, Goto, localVars, TypeOK, Commands, Covered
<1>4. Compatible'
  BY <1>0 DEF Check, Unlock, Goto, localVars, TypeOK, Commands, Covered, Compatible
<1>5. ReadIsCurrent'
  BY <1>0 DEF Check, Unlock, Goto, localVars, TypeOK, Commands, Covered, Compatible, ReadIsCurrent
<1> QED
  BY <1>1, <1>2, <1>3, <1>4, <1>5 DEF Inv

(* Write preserves the invariant. *)
LEMMA WriteInv == ASSUME Inv, NEW p \in Procs, Write(p) PROVE Inv'
<1>0. TypeOK /\ Commands /\ Covered /\ Compatible /\ ReadIsCurrent
  BY DEF Inv
<1>w. wrk[p] \in Rec
  BY <1>0 DEF Write, Commands
<1>f. /\ file' \in Seq(Rec)
      /\ Len(file') \in Nat /\ Len(file') >= Len(file)
      /\ \A i \in 1..Len(file) : i # n[p] => file'[i] = file[i]
  BY <1>0, <1>w, WriteRecord
<1>1. TypeOK'
  BY <1>0, <1>f DEF Write, Goto, localVars, TypeOK, Commands, Places
<1>2. Commands'
  BY <1>0, <1>f DEF Write, Goto, localVars, TypeOK, Commands
<1>3. Covered'
  BY <1>0, <1>f DEF Write, Goto, localVars, TypeOK, Commands, Covered
<1>4. Compatible'
  BY <1>0, <1>f DEF Write, Goto, localVars, TypeOK, Commands, Covered, Compatible
<1>5. ReadIsCurrent'
  <2> SUFFICES ASSUME NEW o \in Procs,
                      pc'[o] = "endRead" \/ (pc'[o] = "write" /\ cmd'[o] = "put")
               PROVE  n'[o] \in DOMAIN file' /\ file'[n'[o]] = rec'[o]
    BY DEF ReadIsCurrent
  <2>1. o # p
    BY <1>0 DEF Write, Goto, TypeOK
  <2>2. /\ pc[o] = "endRead" \/ (pc[o] = "write" /\ cmd[o] = "put")
        /\ n'[o] = n[o] /\ rec'[o] = rec[o]
    BY <1>0, <2>1 DEF Write, Goto, localVars, TypeOK
  <2>3. n[o] \in 1..Len(file) /\ file[n[o]] = rec[o]
    BY <1>0, <2>2 DEF ReadIsCurrent, TypeOK
  <2>4. PICK type \in {"read", "write"} : <<o, n[o], type>> \in locks
    BY <1>0, <2>2 DEF Covered
  <2>5. <<p, n[p], "write">> \in locks
    BY <1>0 DEF Write, Covered
  <2>6. n[o] # n[p]
    BY <1>0, <2>1, <2>4, <2>5 DEF Compatible
  <2> QED
    BY <1>f, <2>2, <2>3, <2>6
<1> QED
  BY <1>1, <1>2, <1>3, <1>4, <1>5 DEF Inv

(* EndWrite preserves the invariant. *)
LEMMA EndWriteInv == ASSUME Inv, NEW p \in Procs, EndWrite(p) PROVE Inv'
<1>0. TypeOK /\ Commands /\ Covered /\ Compatible /\ ReadIsCurrent
  BY DEF Inv
<1>1. TypeOK'
  BY <1>0 DEF EndWrite, Unlock, Return, Goto, localVars, TypeOK, Commands, Places
<1>2. Commands'
  BY <1>0 DEF EndWrite, Unlock, Return, Goto, localVars, TypeOK, Commands
<1>3. Covered'
  BY <1>0 DEF EndWrite, Unlock, Return, Goto, localVars, TypeOK, Commands, Covered
<1>4. Compatible'
  BY <1>0 DEF EndWrite, Unlock, Return, Goto, localVars, TypeOK, Commands, Covered, Compatible
<1>5. ReadIsCurrent'
  BY <1>0 DEF EndWrite, Unlock, Return, Goto, localVars, TypeOK, Commands, Covered, Compatible, ReadIsCurrent
<1> QED
  BY <1>1, <1>2, <1>3, <1>4, <1>5 DEF Inv

-----------------------------------------------------------------------------
(* Every step preserves the invariant. *)
LEMMA StepInv == Inv /\ [Next]_vars => Inv'
<1> SUFFICES ASSUME Inv, [Next]_vars PROVE Inv'
  OBVIOUS
<1>1. CASE UNCHANGED vars
  BY <1>1 DEF Inv, TypeOK, Commands, Covered, Compatible, ReadIsCurrent, vars, localVars
<1>2. ASSUME NEW p \in Procs, UserStep(p) PROVE Inv'
  BY <1>2, StartInv, ExitInv, EditInv, AskInv, GetCommandInv, ListCommandInv, PutCommandInv, AddCommandInv DEF UserStep
<1>3. ASSUME NEW p \in Procs, ProgramStep(p) PROVE Inv'
  BY <1>3, LockReadInv, ReadInv, EndShowInv, EndReadInv, AgainInv, LockWriteInv, CheckInv, WriteInv, EndWriteInv DEF ProgramStep
<1> QED
  BY <1>1, <1>2, <1>3 DEF Next

(* The invariant holds in every state of every behaviour. *)
THEOREM Invariance == Spec => []Inv
  BY InitInv, StepInv, PTL DEF Spec

(* Every variable keeps its type. *)
THEOREM TypeCorrect == Spec => []TypeOK
  BY Invariance, PTL DEF Inv

(* PUT writes over what its user saw, and a record being shown is current, *)
(* for any processes, with any number of them executing ADD.               *)
THEOREM ReadsStayCurrent == Spec => []ReadIsCurrent
  BY Invariance, PTL DEF Inv
-----------------------------------------------------------------------------
(* The file implements RecordStore when one process at most executes ADD.  *)
(* Then the number that process has read is still the end of the file when *)
(* it writes there.                                                        *)
SoleAdder == \A a, b \in Adders : a = b

AtEnd == \A p \in Procs : cmd[p] = "add" /\ pc[p] \in {"wantWrite", "write"} =>
                            n[p] = Len(file) + 1

(* Every step keeps the number a sole adder has read at the end of the     *)
(* file: only the adder itself makes the file longer.                      *)
LEMMA StepAtEnd == ASSUME SoleAdder, Inv, AtEnd, [Next]_vars PROVE AtEnd'
<1>0. TypeOK /\ Commands
  BY DEF Inv
<1>1. CASE UNCHANGED vars
  BY <1>1 DEF AtEnd, vars, localVars
<1>2. ASSUME NEW p \in Procs, Start(p) PROVE AtEnd'
  BY <1>0, <1>2 DEF Start, Goto, localVars, AtEnd, TypeOK
<1>3. ASSUME NEW p \in Procs, Exit(p) PROVE AtEnd'
  BY <1>0, <1>3 DEF Exit, Return, Goto, localVars, AtEnd, TypeOK
<1>4. ASSUME NEW p \in Procs, Edit(p) PROVE AtEnd'
  BY <1>0, <1>4 DEF Edit, Goto, localVars, AtEnd, TypeOK
<1>5. ASSUME NEW p \in Procs, GetCommand(p) PROVE AtEnd'
  BY <1>0, <1>5 DEF GetCommand, Show, Goto, localVars, AtEnd, TypeOK
<1>6. ASSUME NEW p \in Procs, ListCommand(p) PROVE AtEnd'
  BY <1>0, <1>6 DEF ListCommand, Show, Goto, localVars, AtEnd, TypeOK
<1>7. ASSUME NEW p \in Procs, PutCommand(p) PROVE AtEnd'
  BY <1>0, <1>7 DEF PutCommand, Goto, localVars, AtEnd, TypeOK
<1>8. ASSUME NEW p \in Procs, LockRead(p) PROVE AtEnd'
  BY <1>0, <1>8 DEF LockRead, Lock, Goto, localVars, AtEnd, TypeOK
<1>9. ASSUME NEW p \in Procs, Read(p) PROVE AtEnd'
  BY <1>0, <1>9 DEF Read, Goto, localVars, AtEnd, TypeOK
<1>10. ASSUME NEW p \in Procs, EndRead(p) PROVE AtEnd'
  BY <1>0, <1>10 DEF EndRead, Unlock, Goto, localVars, AtEnd, TypeOK
<1>11. ASSUME NEW p \in Procs, Check(p) PROVE AtEnd'
  BY <1>0, <1>11 DEF Check, Goto, AtEnd, TypeOK, Commands
<1>12. ASSUME NEW p \in Procs, EndWrite(p) PROVE AtEnd'
  BY <1>0, <1>12 DEF EndWrite, Unlock, Return, Goto, localVars, AtEnd, TypeOK
<1>13. ASSUME NEW p \in Procs, Ask(p) PROVE AtEnd'
  <2>1. CASE Goto(p, "again") /\ UNCHANGED localVars
    BY <1>0, <1>13, <2>1 DEF Ask, Goto, localVars, AtEnd, TypeOK, Commands
  <2>2. CASE Return(p, "ready")
    BY <1>0, <1>13, <2>2 DEF Ask, Return, Goto, AtEnd, TypeOK
  <2> QED
    BY <1>13, <2>1, <2>2 DEF Ask
<1>14. ASSUME NEW p \in Procs, Again(p) PROVE AtEnd'
  <2>1. CASE Goto(p, "wantWrite") /\ UNCHANGED localVars
    BY <1>0, <1>14, <2>1 DEF Again, Goto, localVars, AtEnd, TypeOK, Commands
  <2>2. CASE Return(p, "ready")
    BY <1>0, <1>14, <2>2 DEF Again, Return, Goto, AtEnd, TypeOK
  <2> QED
    BY <1>14, <2>1, <2>2 DEF Again
<1>15. ASSUME NEW p \in Procs, EndShow(p) PROVE AtEnd'
  <2>1. UNCHANGED file
    BY <1>15 DEF EndShow
  <2>2. cmd'[p] # "add"
    BY <1>0, <1>15 DEF EndShow, Return, TypeOK
  <2>3. ASSUME NEW o \in Procs, o # p
        PROVE  cmd'[o] = cmd[o] /\ pc'[o] = pc[o] /\ n'[o] = n[o]
    BY <1>0, <1>15, <2>3 DEF EndShow, Return, Goto, TypeOK
  <2>4. ASSUME NEW o \in Procs, cmd'[o] = "add", pc'[o] \in {"wantWrite", "write"}
        PROVE  n'[o] = Len(file') + 1
    <3>1. o # p
      BY <2>2, <2>4
    <3> QED
      BY <2>1, <2>3, <2>4, <3>1 DEF AtEnd
  <2> QED
    BY <2>4 DEF AtEnd
<1>16. ASSUME NEW p \in Procs, AddCommand(p) PROVE AtEnd'
  <2>1. n'[p] = Len(file) + 1 /\ Len(file') = Len(file)
    BY <1>0, <1>16 DEF AddCommand, TypeOK
  <2>2. ASSUME NEW o \in Procs, o # p
        PROVE  cmd'[o] = cmd[o] /\ pc'[o] = pc[o] /\ n'[o] = n[o]
    BY <1>0, <1>16, <2>2 DEF AddCommand, Goto, TypeOK
  <2>3. ASSUME NEW o \in Procs, cmd'[o] = "add", pc'[o] \in {"wantWrite", "write"}
        PROVE  n'[o] = Len(file') + 1
    <3>1. CASE o = p
      BY <2>1, <3>1
    <3>2. CASE o # p
      BY <2>1, <2>2, <2>3, <3>2 DEF AtEnd
    <3> QED
      BY <3>1, <3>2
  <2> QED
    BY <2>3 DEF AtEnd
<1>17. ASSUME NEW p \in Procs, LockWrite(p) PROVE AtEnd'
  BY <1>0, <1>17 DEF LockWrite, Goto, localVars, AtEnd, TypeOK, Commands
<1>18. ASSUME NEW p \in Procs, Write(p) PROVE AtEnd'
  <2>1. CASE cmd[p] = "put"
    <3>1. n[p] \in 1..Len(file) /\ wrk[p] \in Rec
      BY <1>0, <1>18, <2>1 DEF Write, Commands
    <3>2. Len(file') = Len(file)
      BY <1>0, <1>18, <3>1 DEF Write, TypeOK
    <3> QED
      BY <1>0, <1>18, <3>2 DEF Write, Goto, localVars, AtEnd, TypeOK
  <2>2. CASE cmd[p] = "add"
    <3>1. \A o \in Procs : cmd[o] = "add" => o = p
      BY <1>0, <2>2 DEF SoleAdder, Commands
    <3> QED
      BY <1>0, <1>18, <3>1 DEF Write, Goto, localVars, AtEnd, TypeOK
  <2> QED
    BY <1>0, <1>18, <2>1, <2>2 DEF Write, Commands
<1> QED
  BY <1>1, <1>2, <1>3, <1>4, <1>5, <1>6, <1>7, <1>8, <1>9, <1>10, <1>11, <1>12, <1>13, <1>14, <1>15, <1>16, <1>17, <1>18 DEF Next, UserStep, ProgramStep

(* A process that turns to a record, or away, takes a Turn of the store.   *)
LEMMA TurnStep ==
    ASSUME NEW p \in Procs, NEW i \in 0..Len(file)+1, file' = file,
           n' = [n EXCEPT ![p] = i], rec' = [rec EXCEPT ![p] = Nothing]
    PROVE  [Store!StoreNext]_<<file, n, rec>>
  BY DEF Store!StoreNext, Store!Turn

(* Every step of a file with a sole adder is a step of the store.          *)
LEMMA StepStore ==
    ASSUME Inv, AtEnd, [Next]_vars
    PROVE  [Store!StoreNext]_<<file, n, rec>>
<1> DEFINE Abs == [Store!StoreNext]_<<file, n, rec>>
<1>0. TypeOK /\ Commands /\ ReadIsCurrent /\ Len(file) \in Nat
  BY DEF Inv, TypeOK
<1>1. CASE UNCHANGED vars
  BY <1>1 DEF vars, localVars
<1>2. ASSUME NEW p \in Procs, Start(p) PROVE Abs
  BY <1>2 DEF Start, localVars
<1>3. ASSUME NEW p \in Procs, Edit(p) PROVE Abs
  BY <1>3 DEF Edit, localVars
<1>4. ASSUME NEW p \in Procs, LockRead(p) PROVE Abs
  BY <1>4 DEF LockRead, localVars
<1>5. ASSUME NEW p \in Procs, EndRead(p) PROVE Abs
  BY <1>5 DEF EndRead, localVars
<1>6. ASSUME NEW p \in Procs, LockWrite(p) PROVE Abs
  BY <1>6 DEF LockWrite, localVars
<1>7. ASSUME NEW p \in Procs, Exit(p) PROVE Abs
  <2>1. 0 \in 0..Len(file)+1
    BY <1>0
  <2>2. /\ file' = file
        /\ n' = [n EXCEPT ![p] = 0]
        /\ rec' = [rec EXCEPT ![p] = Nothing]
    BY <1>7 DEF Exit, Return
  <2> QED
    BY <2>1, <2>2, TurnStep
<1>8. ASSUME NEW p \in Procs, EndWrite(p) PROVE Abs
  <2>1. 0 \in 0..Len(file)+1
    BY <1>0
  <2>2. /\ file' = file
        /\ n' = [n EXCEPT ![p] = 0]
        /\ rec' = [rec EXCEPT ![p] = Nothing]
    BY <1>8 DEF EndWrite, Return
  <2> QED
    BY <2>1, <2>2, TurnStep
<1>9. ASSUME NEW p \in Procs, Ask(p) PROVE Abs
  <2>1. CASE UNCHANGED localVars
    BY <1>9, <2>1 DEF Ask, localVars
  <2>2. CASE Return(p, "ready")
    <3>1. 0 \in 0..Len(file)+1
      BY <1>0
    <3>2. /\ file' = file
          /\ n' = [n EXCEPT ![p] = 0]
          /\ rec' = [rec EXCEPT ![p] = Nothing]
      BY <1>9, <2>2 DEF Ask, Return
    <3> QED
      BY <3>1, <3>2, TurnStep
  <2> QED
    BY <1>9, <2>1, <2>2 DEF Ask
<1>10. ASSUME NEW p \in Procs, Again(p) PROVE Abs
  <2>1. CASE UNCHANGED localVars
    BY <1>10, <2>1 DEF Again, localVars
  <2>2. CASE Return(p, "ready")
    <3>1. 0 \in 0..Len(file)+1
      BY <1>0
    <3>2. /\ file' = file
          /\ n' = [n EXCEPT ![p] = 0]
          /\ rec' = [rec EXCEPT ![p] = Nothing]
      BY <1>10, <2>2 DEF Again, Return
    <3> QED
      BY <3>1, <3>2, TurnStep
  <2> QED
    BY <1>10, <2>1, <2>2 DEF Again
<1>11. ASSUME NEW p \in Procs, EndShow(p) PROVE Abs
  <2>1. CASE n[p] < last[p]
    <3>1. n[p] + 1 \in 0..Len(file)+1
      BY <1>0, <1>11, <2>1 DEF EndShow, Commands, TypeOK
    <3>2. /\ file' = file
          /\ n' = [n EXCEPT ![p] = n[p] + 1]
          /\ rec' = [rec EXCEPT ![p] = Nothing]
      BY <1>11, <2>1 DEF EndShow
    <3> QED
      BY <3>1, <3>2, TurnStep
  <2>2. CASE ~(n[p] < last[p])
    BY <1>0, <1>11, <2>2, TurnStep DEF EndShow, Return
  <2> QED
    BY <2>1, <2>2
<1>12. ASSUME NEW p \in Procs, GetCommand(p) PROVE Abs
  <2>1. PICK i \in DOMAIN file : Show(p, i, i)
    BY <1>12 DEF GetCommand
  <2>2. n' = [n EXCEPT ![p] = i] /\ UNCHANGED <<file, rec>> /\ pc[p] = "ready"
    BY <2>1 DEF Show
  <2>3. i \in 0..Len(file)+1
    BY <1>0, <2>1 DEF TypeOK
  <2>4. rec' = [rec EXCEPT ![p] = Nothing]
    BY <1>0, <2>2 DEF Commands, TypeOK
  <2> QED
    BY <2>2, <2>3, <2>4, TurnStep
<1>13. ASSUME NEW p \in Procs, ListCommand(p) PROVE Abs
  <2> DEFINE i == 1
  <2>2. n' = [n EXCEPT ![p] = i] /\ UNCHANGED <<file, rec>> /\ pc[p] = "ready"
    BY <1>13 DEF ListCommand, Show
  <2>3. i \in 0..Len(file)+1
    BY <1>0 DEF TypeOK
  <2>4. rec' = [rec EXCEPT ![p] = Nothing]
    BY <1>0, <2>2 DEF Commands, TypeOK
  <2> QED
    BY <2>2, <2>3, <2>4, TurnStep
<1>14. ASSUME NEW p \in Procs, PutCommand(p) PROVE Abs
  <2>1. PICK i \in DOMAIN file : n' = [n EXCEPT ![p] = i]
    BY <1>14 DEF PutCommand
  <2>2. n' = [n EXCEPT ![p] = i] /\ UNCHANGED <<file, rec>> /\ pc[p] = "ready"
    BY <1>14, <2>1 DEF PutCommand
  <2>3. i \in 0..Len(file)+1
    BY <1>0, <2>1 DEF TypeOK
  <2>4. rec' = [rec EXCEPT ![p] = Nothing]
    BY <1>0, <2>2 DEF Commands, TypeOK
  <2> QED
    BY <2>2, <2>3, <2>4, TurnStep
<1>15. ASSUME NEW p \in Procs, AddCommand(p) PROVE Abs
  <2> DEFINE i == Len(file) + 1
  <2>2. n' = [n EXCEPT ![p] = i] /\ UNCHANGED <<file, rec>> /\ pc[p] = "ready"
    BY <1>15 DEF AddCommand
  <2>3. i \in 0..Len(file)+1
    BY <1>0 DEF TypeOK
  <2>4. rec' = [rec EXCEPT ![p] = Nothing]
    BY <1>0, <2>2 DEF Commands, TypeOK
  <2> QED
    BY <2>2, <2>3, <2>4, TurnStep
<1>16. ASSUME NEW p \in Procs, Read(p) PROVE Abs
  <2>1. n[p] \in 1..Len(file)
    BY <1>0, <1>16 DEF Read, Commands
  <2>2. Store!See(p)
    BY <1>0, <1>16, <2>1 DEF Read, Store!See, TypeOK
  <2> QED
    BY <2>2 DEF Store!StoreNext
<1>17. ASSUME NEW p \in Procs, Check(p) PROVE Abs
  <2>1. n[p] \in 1..Len(file)
    BY <1>0, <1>17 DEF Check, Commands
  <2>2. CASE file[n[p]] = rec[p]
    BY <1>17, <2>2 DEF Check
  <2>3. CASE file[n[p]] # rec[p]
    <3>1. Store!See(p)
      BY <1>0, <1>17, <2>1, <2>3 DEF Check, Store!See, TypeOK
    <3> QED
      BY <3>1 DEF Store!StoreNext
  <2> QED
    BY <2>2, <2>3
<1>18. ASSUME NEW p \in Procs, Write(p) PROVE Abs
  <2>0. wrk[p] \in Rec /\ UNCHANGED <<n, rec>> /\ pc[p] = "write"
    BY <1>0, <1>18 DEF Write, Commands, localVars
  <2>1. CASE cmd[p] = "put"
    <3>1. n[p] \in DOMAIN file /\ file[n[p]] = rec[p]
      BY <1>0, <2>0, <2>1 DEF ReadIsCurrent
    <3>2. Store!CompareAndWrite(p, wrk[p])
      BY <1>0, <1>18, <2>0, <3>1 DEF Write, Store!CompareAndWrite
    <3> QED
      BY <2>0, <3>2 DEF Store!StoreNext
  <2>2. CASE cmd[p] = "add"
    <3>1. n[p] \notin DOMAIN file
      BY <1>0, <2>0, <2>2 DEF AtEnd, TypeOK
    <3>2. Store!Extend(wrk[p])
      BY <1>18, <2>0, <3>1 DEF Write, Store!Extend
    <3> QED
      BY <2>0, <3>2 DEF Store!StoreNext
  <2> QED
    BY <1>0, <2>0, <2>1, <2>2 DEF Commands
<1> QED
  BY <1>1, <1>2, <1>3, <1>4, <1>5, <1>6, <1>7, <1>8, <1>9, <1>10, <1>11, <1>12, <1>13, <1>14, <1>15, <1>16, <1>17, <1>18 DEF Next, UserStep, ProgramStep

(* With one process at most that executes ADD, students.dat is a store in  *)
(* which records are only compared and written, or added at the end.       *)
THEOREM ImplementsStore == ASSUME SoleAdder PROVE Spec => StoreRefinement
<1>1. Init => AtEnd /\ Store!StoreInit
  BY RecordAssumption DEF Init, AtEnd, Store!StoreInit
<1>2. Inv /\ AtEnd /\ [Next]_vars => AtEnd'
  BY StepAtEnd
<1>3. Inv /\ AtEnd /\ [Next]_vars => [Store!StoreNext]_<<file, n, rec>>
  BY StepStore
<1> QED
  BY <1>1, <1>2, <1>3, Invariance, PTL DEF Spec, StoreRefinement, Store!StoreSpec, Store!storeVars

-----------------------------------------------------------------------------
(* A lock is held in the middle of a read or write only, and on the record *)
(* that is being read or written.                                          *)
HeldNow ==
    \A l \in locks : /\ pc[l[1]] \in {"read", "endRead", "check", "write", "unlock"}
                     /\ n[l[1]] = l[2]

(* Every step keeps it that way: what takes a lock goes to such a place,   *)
(* and what leaves the last of them gives the lock up.                     *)
LEMMA StepHeldNow == ASSUME TypeOK, HeldNow, [Next]_vars PROVE HeldNow'
<1>a. pc \in [Procs -> Places] /\ n \in [Procs -> Nat] /\ \A l \in locks : l[1] \in Procs
  BY DEF TypeOK
<1> USE DEF HeldNow
<1>1. ASSUME NEW p \in Procs, LockRead(p) \/ LockWrite(p) PROVE HeldNow'
  <2>1. PICK type \in {"read", "write"} :
          locks' = {l \in locks : <<l[1], l[2]>> # <<p, n[p]>>} \cup {<<p, n[p], type>>}
    BY <1>1 DEF LockRead, LockWrite, Lock
  <2>2. /\ pc' = [pc EXCEPT ![p] = pc'[p]] /\ pc'[p] \in {"read", "check", "write"}
        /\ n' = n
    BY <1>a, <1>1 DEF LockRead, LockWrite, Goto, localVars
  <2> QED
    BY <1>a, <2>1, <2>2
<1>2. ASSUME NEW p \in Procs, Read(p) \/ Write(p) PROVE HeldNow'
  BY <1>a, <1>2 DEF Read, Write, Goto, localVars
<1>3. ASSUME NEW p \in Procs, EndShow(p) \/ EndRead(p) \/ EndWrite(p) \/ Check(p) PROVE HeldNow'
  <2>1. CASE Check(p) /\ ~Unlock(p)
    <3>1. /\ locks' = locks /\ n' = n
          /\ pc' = [pc EXCEPT ![p] = "write"]
      BY <2>1 DEF Check, Goto
    <3> QED
      BY <1>a, <3>1
  <2>2. CASE Unlock(p)
    <3>1. \A l \in locks' : l \in locks /\ l[1] # p
      BY <2>2 DEF Unlock
    <3>2. \A o \in Procs : o # p => pc'[o] = pc[o] /\ n'[o] = n[o]
      BY <1>a, <1>3 DEF EndShow, EndRead, EndWrite, Check, Return, Goto, localVars
    <3> QED
      BY <1>a, <3>1, <3>2
  <2> QED
    BY <1>3, <2>1, <2>2 DEF EndShow, EndRead, EndWrite, Check
<1>4. ASSUME NEW p \in Procs, Exit(p) PROVE HeldNow'
  <2>1. \A o \in Procs : o # p => pc'[o] = pc[o] /\ n'[o] = n[o]
    BY <1>a, <1>4 DEF Exit, Return, Goto
  <2> QED
    BY <1>a, <1>4, <2>1 DEF Exit
<1>5. ASSUME NEW p \in Procs,
             \/ Start(p) \/ Edit(p) \/ Ask(p) \/ Again(p)
             \/ GetCommand(p) \/ ListCommand(p) \/ PutCommand(p) \/ AddCommand(p)
      PROVE  HeldNow'
  <2>1. /\ locks' = locks
        /\ pc[p] \notin {"read", "endRead", "check", "write", "unlock"}
        /\ \A o \in Procs : o # p => pc'[o] = pc[o] /\ n'[o] = n[o]
    BY <1>a, <1>5 DEF Start, Edit, Ask, Again, GetCommand, ListCommand, Show, PutCommand,
       AddCommand, Return, Goto, localVars
  <2> QED
    BY <1>a, <2>1
<1>6. CASE UNCHANGED vars
  BY <1>6 DEF vars, localVars
<1> QED
  BY <1>1, <1>2, <1>3, <1>4, <1>5, <1>6 DEF Next, UserStep, ProgramStep

(* No command leaves a lock behind, and no user is waited for under one    *)
(* (commands.c:58, 91, 107).                                               *)
THEOREM NobodyThinksLocked == Spec => []NoIdleLock
<1>1. Init => HeldNow
  BY DEF Init, HeldNow
<1>2. HeldNow => NoIdleLock
  BY DEF HeldNow, NoIdleLock
<1> QED
  BY <1>1, <1>2, StepHeldNow, TypeCorrect, PTL DEF Spec

-----------------------------------------------------------------------------
(* A user of PUT who has been told of no change still has before her what  *)
(* her copy was made from.                                                 *)
Untold ==
    /\ base \in [Procs -> Rec \cup {Nothing}] /\ told \in [Procs -> BOOLEAN]
    /\ \A p \in Procs :
         /\ pc[p] = "ask" => told[p]
         /\ pc[p] \in {"edit", "again", "wantWrite", "check", "write"} /\ cmd[p] = "put" =>
              told[p] \/ rec[p] = base[p]

(* What a step may do to a process as far as Untold is concerned. *)
Turns(p) ==
    \/ pc'[p] = pc[p] /\ cmd'[p] = cmd[p] /\ rec'[p] = rec[p]
    \/ pc'[p] \notin {"edit", "again", "wantWrite", "check", "write", "ask"}
    \/ cmd'[p] = "add" /\ pc'[p] = "wantWrite"
    \/ pc'[p] = "edit" /\ rec'[p] = rec[p]
    \/ /\ pc[p] \in {"edit", "again", "wantWrite", "check", "ask"}
       /\ pc'[p] \in {"again", "wantWrite", "check", "write"}
       /\ cmd'[p] = cmd[p] /\ rec'[p] = rec[p]
    \/ pc[p] = "check" /\ pc'[p] = "ask"

(* Every step does one of these to every process. *)
LEMMA StepTurns == ASSUME TypeOK, Next, NEW p \in Procs PROVE Turns(p)
<1>a. /\ pc \in [Procs -> Places] /\ cmd \in [Procs -> {"none", "show", "put", "add"}]
      /\ rec \in [Procs -> Rec \cup {Nothing}]
  BY DEF TypeOK
<1>1. PICK o \in Procs : UserStep(o) \/ ProgramStep(o)
  BY DEF Next
<1>2. CASE p # o
  <2>1. pc'[p] = pc[p]
    BY <1>a, <1>1, <1>2 DEF UserStep, ProgramStep, Start, Exit, Edit, Ask, GetCommand, ListCommand,
       PutCommand, AddCommand, LockRead, Read, EndShow, EndRead, Again, LockWrite, Check,
       Write, EndWrite, Show, Return, Goto
  <2>2. cmd'[p] = cmd[p]
    BY <1>a, <1>1, <1>2 DEF UserStep, ProgramStep, Start, Exit, Edit, Ask, GetCommand, ListCommand,
       PutCommand, AddCommand, LockRead, Read, EndShow, EndRead, Again, LockWrite, Check,
       Write, EndWrite, Show, Return, localVars
  <2>3. rec'[p] = rec[p]
    BY <1>a, <1>1, <1>2 DEF UserStep, ProgramStep, Start, Exit, Edit, Ask, GetCommand, ListCommand,
       PutCommand, AddCommand, LockRead, Read, EndShow, EndRead, Again, LockWrite, Check,
       Write, EndWrite, Show, Return, localVars
  <2> QED
    BY <2>1, <2>2, <2>3 DEF Turns
<1>3. CASE p = o
  <2>1. CASE Start(p) \/ Exit(p) \/ GetCommand(p) \/ ListCommand(p) \/ PutCommand(p)
    BY <1>a, <2>1 DEF Start, Exit, GetCommand, ListCommand, PutCommand, Show, Return, Goto, Turns
  <2>2. CASE LockRead(p) \/ Read(p) \/ EndShow(p) \/ Write(p) \/ EndWrite(p)
    BY <1>a, <2>2 DEF LockRead, Read, EndShow, Write, EndWrite, Return, Goto, Turns
  <2>3. CASE EndRead(p)
    BY <1>a, <2>3 DEF EndRead, Goto, localVars, Turns
  <2>4. CASE AddCommand(p)
    BY <1>a, <2>4 DEF AddCommand, Goto, Turns
  <2>5. CASE Edit(p)
    BY <1>a, <2>5 DEF Edit, Goto, Turns
  <2>6. CASE Ask(p) \/ Again(p)
    BY <1>a, <2>6 DEF Ask, Again, Return, Goto, localVars, Turns
  <2>7. CASE LockWrite(p)
    BY <1>a, <2>7 DEF LockWrite, Goto, localVars, Turns
  <2>8. CASE Check(p)
    BY <1>a, <2>8 DEF Check, Goto, Turns
  <2> QED
    BY <1>1, <1>3, <2>1, <2>2, <2>3, <2>4, <2>5, <2>6, <2>7, <2>8 DEF UserStep, ProgramStep
<1> QED
  BY <1>2, <1>3

(* Every step keeps that: REC changes in Check, which goes on to tell her. *)
LEMMA StepUntold == ASSUME TypeOK, Untold, [FieldNext]_fieldVars PROVE Untold'
<1>a. rec \in [Procs -> Rec \cup {Nothing}]
  BY DEF TypeOK
<1>1. CASE UNCHANGED fieldVars
  BY <1>1 DEF fieldVars, vars, localVars, Untold
<1>2. CASE FieldNext
  <2>1. /\ base' = [p \in Procs |-> IF pc'[p] \in {"off", "ready"} THEN Nothing
                                    ELSE IF pc'[p] = "edit" THEN rec[p] ELSE base[p]]
        /\ told' = [p \in Procs |-> pc'[p] \notin {"off", "ready"}
                                    /\ (told[p] \/ pc'[p] = "ask")]
    BY <1>2 DEF FieldNext, Remember
  <2>2. base' \in [Procs -> Rec \cup {Nothing}] /\ told' \in [Procs -> BOOLEAN]
    BY <1>a, <2>1 DEF Untold
  <2>3. ASSUME NEW p \in Procs
        PROVE  /\ pc'[p] = "ask" => told'[p]
               /\ pc'[p] \in {"edit", "again", "wantWrite", "check", "write"} /\ cmd'[p] = "put" =>
                    told'[p] \/ rec'[p] = base'[p]
    <3>1. Turns(p)
      BY <1>2, StepTurns DEF FieldNext
    <3>2. /\ base'[p] = IF pc'[p] \in {"off", "ready"} THEN Nothing
                        ELSE IF pc'[p] = "edit" THEN rec[p] ELSE base[p]
          /\ told'[p] <=> pc'[p] \notin {"off", "ready"} /\ (told[p] \/ pc'[p] = "ask")
      BY <2>1
    <3> QED
      BY <3>1, <3>2 DEF Turns, Untold
  <2> QED
    BY <2>2, <2>3 DEF Untold
<1> QED
  BY <1>1, <1>2

(* A write of PUT takes nothing back of which its user was not told. *)
LEMMA WriteTakesBack ==
    ASSUME TypeOK, ReadIsCurrent, Untold, NEW p \in Procs, Write(p), cmd[p] = "put",
           NEW f \in Field,
           wrk[p][f] = base[p][f], file'[n[p]][f] # file[n[p]][f]
    PROVE  told[p]
<1> SUFFICES ASSUME ~told[p] PROVE FALSE
  OBVIOUS
<1>1. pc[p] = "write" /\ n[p] \in DOMAIN file /\ file[n[p]] = rec[p]
  BY DEF Write, ReadIsCurrent
<1>2. rec[p] = base[p]
  BY <1>1 DEF Untold
<1>3. file'[n[p]] = wrk[p]
  BY <1>1 DEF Write, TypeOK
<1> QED
  BY <1>1, <1>2, <1>3

(* A field the user of PUT left alone is never taken back behind her back, *)
(* for any processes and any fields (commands.c:64-98).                    *)
THEOREM NothingTakenBackUntold == FieldSpec => TakenBackOnlyWhenTold
<1>1. FieldInit => Init /\ Untold
  <2> SUFFICES ASSUME FieldInit PROVE Init /\ Untold
    OBVIOUS
  <2> QED
    BY DEF FieldInit, Init, Untold
<1>2. [FieldNext]_fieldVars => [Next]_vars
  BY DEF FieldNext, fieldVars
<1>3. Inv => TypeOK /\ ReadIsCurrent
  BY DEF Inv
<1>4. Inv /\ Untold /\ [FieldNext]_fieldVars => Untold'
  BY <1>3, StepUntold
<1>5. Inv /\ Untold =>
        [\A p \in Procs : Write(p) /\ cmd[p] = "put" =>
           \A f \in Field :
             wrk[p][f] = base[p][f] /\ file'[n[p]][f] # file[n[p]][f] => told[p]]_fieldVars
  BY <1>3, WriteTakesBack
<1> QED
  BY <1>1, <1>2, <1>4, <1>5, InitInv, StepInv, PTL DEF FieldSpec, TakenBackOnlyWhenTold
=============================================================================
