--------------------------- MODULE StudentRecords ---------------------------
(***************************************************************************)
(* LAB_7: several processes that show and change the records of one file,  *)
(* coordinated by open-file-description locks on single records.           *)
(*                                                                         *)
(* One step is one system call, or one answer of a user.  A record is      *)
(* opaque: the user's edit of its three fields is any other record.        *)
(* Record i of the file is record i - 1 of the program.                    *)
(***************************************************************************)
EXTENDS Integers, Sequences

CONSTANTS
    Procs,      \* the processes that have the file open
    Adders,     \* the processes whose users give ADD
    Rec,        \* the contents a record can have
    Nothing,    \* a local variable not yet assigned
    MaxRecords  \* bound: no ADD starts when the file has that many records

ASSUME RecordAssumption == /\ Adders \subseteq Procs
                           /\ Nothing \notin Rec
                           /\ MaxRecords \in Nat

VARIABLES
    file,   \* the records of students.dat
    locks,  \* the record locks held: <<process, record, type>>
    pc,     \* where each process is
    cmd,    \* the command it executes
    n,      \* the record it works on
    last,   \* the last record that LST or GET shows
    rec,    \* REC, the content its user has seen last
    wrk     \* REC_WRK, the content its user wants

localVars == <<cmd, n, last, rec, wrk>>
vars == <<file, locks, pc, localVars>>

Places == {"off", "ready", "wantRead", "read", "endRead", "edit", "again",
           "wantWrite", "check", "ask", "write", "unlock"}

Init == /\ file \in UNION {[1..k -> Rec] : k \in 0..MaxRecords}
        /\ locks = {}
        /\ pc = [p \in Procs |-> "off"]
        /\ cmd = [p \in Procs |-> "none"]
        /\ n = [p \in Procs |-> 0]
        /\ last = [p \in Procs |-> 0]
        /\ rec = [p \in Procs |-> Nothing]
        /\ wrk = [p \in Procs |-> Nothing]

-----------------------------------------------------------------------------
Goto(p, place) == pc' = [pc EXCEPT ![p] = place]

(* A command is over: its local variables are gone. *)
Return(p, place) == /\ Goto(p, place)
                    /\ cmd' = [cmd EXCEPT ![p] = "none"]
                    /\ n' = [n EXCEPT ![p] = 0]
                    /\ last' = [last EXCEPT ![p] = 0]
                    /\ rec' = [rec EXCEPT ![p] = Nothing]
                    /\ wrk' = [wrk EXCEPT ![p] = Nothing]

(* lock_record.  External: the kernel lets any number read or one write,   *)
(* and a process that asks for more waits.                                 *)
Lock(p, type) ==
    /\ \A l \in locks : l[2] = n[p] /\ l[1] # p => type = "read" /\ l[3] = "read"
    /\ locks' = {l \in locks : <<l[1], l[2]>> # <<p, n[p]>>} \cup {<<p, n[p], type>>}

Unlock(p) == locks' = {l \in locks : <<l[1], l[2]>> # <<p, n[p]>>}

(* open, and the loop of main. *)
Start(p) == /\ pc[p] = "off"
            /\ Goto(p, "ready")
            /\ UNCHANGED <<file, locks, localVars>>

(* QUIT and the end of the input come to the prompt, a fatal signal        *)
(* anywhere; the kernel drops the locks of the file description.           *)
Exit(p) == /\ pc[p] # "off"
           /\ Return(p, "off")
           /\ locks' = {l \in locks : l[1] # p}
           /\ UNCHANGED file

-----------------------------------------------------------------------------
(* GET and LST; the number of records is read once and without a lock. *)

Show(p, from, to) ==
    /\ pc[p] = "ready"
    /\ cmd' = [cmd EXCEPT ![p] = "show"]
    /\ n' = [n EXCEPT ![p] = from]
    /\ last' = [last EXCEPT ![p] = to]
    /\ Goto(p, "wantRead")
    /\ UNCHANGED <<file, locks, rec, wrk>>

GetCommand(p) == \E i \in DOMAIN file : Show(p, i, i)

ListCommand(p) == file # <<>> /\ Show(p, 1, Len(file))

(* PUT as far as its first lock. *)
PutCommand(p) ==
    /\ pc[p] = "ready"
    /\ \E i \in DOMAIN file : n' = [n EXCEPT ![p] = i]
    /\ cmd' = [cmd EXCEPT ![p] = "put"]
    /\ Goto(p, "wantRead")
    /\ UNCHANGED <<file, locks, last, rec, wrk>>

LockRead(p) ==
    /\ pc[p] = "wantRead"
    /\ Lock(p, "read")
    /\ Goto(p, "read")
    /\ UNCHANGED <<file, localVars>>

Read(p) ==
    /\ pc[p] = "read"
    /\ rec' = [rec EXCEPT ![p] = file[n[p]]]
    /\ Goto(p, "endRead")
    /\ UNCHANGED <<file, locks, cmd, n, last, wrk>>

(* The record has been shown; LST goes on to the next one. *)
EndShow(p) ==
    /\ pc[p] = "endRead" /\ cmd[p] = "show"
    /\ Unlock(p)
    /\ IF n[p] < last[p]
         THEN /\ n' = [n EXCEPT ![p] = @ + 1]
              /\ rec' = [rec EXCEPT ![p] = Nothing]
              /\ Goto(p, "wantRead")
              /\ UNCHANGED <<cmd, last, wrk>>
         ELSE Return(p, "ready")
    /\ UNCHANGED file

EndRead(p) ==
    /\ pc[p] = "endRead" /\ cmd[p] = "put"
    /\ Unlock(p)
    /\ Goto(p, "edit")
    /\ UNCHANGED <<file, localVars>>

(* The user edits the copy, without any lock, for as long as it takes. *)
Edit(p) ==
    /\ pc[p] = "edit"
    /\ \E r \in Rec : wrk' = [wrk EXCEPT ![p] = r]
    /\ Goto(p, "again")
    /\ UNCHANGED <<file, locks, cmd, n, last, rec>>

(* The label Again: nothing to do if the copy is what REC says. *)
Again(p) ==
    /\ pc[p] = "again"
    /\ \/ wrk[p] = rec[p] /\ Return(p, "ready")
       \/ wrk[p] # rec[p] /\ Goto(p, "wantWrite") /\ UNCHANGED localVars
    /\ UNCHANGED <<file, locks>>

(* Mutant: F_RDLCK in place of F_WRLCK. *)
LockWriteShared(p) ==
    /\ pc[p] = "wantWrite"
    /\ Lock(p, "read")
    /\ Goto(p, IF cmd[p] = "put" THEN "check" ELSE "write")
    /\ UNCHANGED <<file, localVars>>

LockWrite(p) ==
    /\ pc[p] = "wantWrite"
    /\ Lock(p, "write")
    /\ Goto(p, IF cmd[p] = "put" THEN "check" ELSE "write")
    /\ UNCHANGED <<file, localVars>>

(* Mutants of Check: nothing is compared; the lock is kept while she is    *)
(* asked.                                                                  *)
CheckNothing(p) ==
    /\ pc[p] = "check"
    /\ Goto(p, "write")
    /\ UNCHANGED <<file, locks, localVars>>

CheckKeepsLock(p) ==
    /\ pc[p] = "check"
    /\ rec' = [rec EXCEPT ![p] = file[n[p]]]
    /\ Goto(p, IF file[n[p]] = rec[p] THEN "write" ELSE "ask")
    /\ UNCHANGED <<file, locks, cmd, n, last, wrk>>

(* The record is read again under the lock.  If it is not what the user    *)
(* saw, the lock is given up and the new content becomes what she saw.     *)
Check(p) ==
    /\ pc[p] = "check"
    /\ \/ /\ file[n[p]] = rec[p]
          /\ Goto(p, "write")
          /\ UNCHANGED <<locks, rec>>
       \/ /\ file[n[p]] # rec[p]
          /\ Unlock(p)
          /\ rec' = [rec EXCEPT ![p] = file[n[p]]]
          /\ Goto(p, "ask")
    /\ UNCHANGED <<file, cmd, n, last, wrk>>

(* "Apply your changes on top?" *)
Ask(p) ==
    /\ pc[p] = "ask"
    /\ \/ Goto(p, "again") /\ UNCHANGED localVars
       \/ Return(p, "ready")
    /\ UNCHANGED <<file, locks>>

(* write_record: at the end of the file it makes the file longer. *)
Write(p) ==
    /\ pc[p] = "write"
    /\ file' = IF n[p] \in DOMAIN file THEN [file EXCEPT ![n[p]] = wrk[p]]
                                       ELSE Append(file, wrk[p])
    /\ Goto(p, "unlock")
    /\ UNCHANGED <<locks, localVars>>

EndWrite(p) ==
    /\ pc[p] = "unlock"
    /\ Unlock(p)
    /\ Return(p, "ready")
    /\ UNCHANGED file

(* ADD: the user has typed the record in; its number is read before the    *)
(* lock on it is asked for.                                                *)
AddCommand(p) ==
    /\ pc[p] = "ready" /\ p \in Adders /\ Len(file) < MaxRecords
    /\ \E r \in Rec : wrk' = [wrk EXCEPT ![p] = r]
    /\ cmd' = [cmd EXCEPT ![p] = "add"]
    /\ n' = [n EXCEPT ![p] = Len(file) + 1]
    /\ Goto(p, "wantWrite")
    /\ UNCHANGED <<file, locks, last, rec>>

(* What waits for the user, and what does not. *)
UserStep(p) == \/ Start(p) \/ Exit(p) \/ Edit(p) \/ Ask(p)
               \/ GetCommand(p) \/ ListCommand(p) \/ PutCommand(p) \/ AddCommand(p)

ProgramStep(p) == \/ LockRead(p) \/ Read(p) \/ EndShow(p) \/ EndRead(p)
                  \/ Again(p) \/ LockWrite(p) \/ Check(p) \/ Write(p) \/ EndWrite(p)

Next == \E p \in Procs : UserStep(p) \/ ProgramStep(p)

(* A process that can run is run; no user need ever answer. *)
Fairness == \A p \in Procs : WF_vars(ProgramStep(p))

Spec == Init /\ [][Next]_vars /\ Fairness

-----------------------------------------------------------------------------
(* Properties. *)

(* Type correctness of every variable. *)
TypeOK ==
    /\ file \in Seq(Rec)
    /\ locks \subseteq Procs \X Nat \X {"read", "write"}
    /\ pc \in [Procs -> Places]
    /\ cmd \in [Procs -> {"none", "show", "put", "add"}]
    /\ n \in [Procs -> Nat]
    /\ last \in [Procs -> Nat]
    /\ rec \in [Procs -> Rec \cup {Nothing}]
    /\ wrk \in [Procs -> Rec \cup {Nothing}]

(* What a process has read under a lock stays true as long as it holds it: *)
(* in particular PUT overwrites exactly the content its user has seen      *)
(* last, whatever other processes did while she was editing (the purpose   *)
(* of the compare under WRLCK in cmd_put).                                 *)
ReadIsCurrent ==
    \A p \in Procs :
      pc[p] = "endRead" \/ (pc[p] = "write" /\ cmd[p] = "put") =>
        n[p] \in DOMAIN file /\ file[n[p]] = rec[p]

(* No lock is left behind by a command, nor held while a user thinks: not  *)
(* on the early returns, not while she edits, not while she is asked.      *)
NoIdleLock ==
    \A l \in locks : pc[l[1]] \notin {"off", "ready", "edit", "again", "ask"}

Holds(p) == \E l \in locks : l[1] = p

(* Whoever waits for a record waits for a process that will let go of it:  *)
(* a lock is never held across a wait for a user or for another lock.      *)
EveryLockReleased == \A p \in Procs : Holds(p) ~> ~Holds(p)

(* The file is a store in which records are only compared and written.     *)
(* ADD keeps that promise as long as one process at most executes it.      *)
Store == INSTANCE RecordStore WITH Client <- Procs, Unseen <- Nothing,
                                   store <- file, at <- n, seen <- rec

StoreRefinement == Store!StoreSpec

(* "ADD: add a record" (commands.c:113): a record that ADD has written is  *)
(* not overwritten by another ADD.                                         *)
AddAppends ==
    [][\A p \in Procs : Write(p) /\ cmd[p] = "add" => Len(file') = Len(file) + 1]_vars
=============================================================================
