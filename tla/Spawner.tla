------------------------------ MODULE Spawner ------------------------------
(***************************************************************************)
(* LAB_2: a parent that builds a reduced environment, starts children with *)
(* it on "+" and "*", and ends on "q" or at the end of its input.          *)
(*                                                                         *)
(* Children are reaped in two places: by the handler of SIGCHLD, a signal  *)
(* that is pending once however many children have died, and, after "q",   *)
(* by a loop of wait, before which the handler is taken out.               *)
(*                                                                         *)
(* The environment is a table that grows; execve reads it up to its NULL.  *)
(***************************************************************************)
EXTENDS Naturals, Sequences

CONSTANTS
    Child,      \* the children the parent may start
    InitCap,    \* c_env_capacity at first (10)
    MaxNames    \* bound: the lines of the file env

ASSUME SpawnerAssumption == InitCap \in Nat \ {0, 1} /\ MaxNames \in Nat

VARIABLES
    main,       \* where the parent is
    names,      \* the lines of env still to be read
    cap,        \* c_env_capacity
    count,      \* c_env_count
    slots,      \* the block child_env points at
    num,        \* child_num
    kids,       \* what has become of each child
    handler,    \* whether SIGCHLD has its handler, or the default
    pending,    \* whether SIGCHLD is pending
    handling,   \* whether the handler runs; the parent stands still meanwhile
    quit        \* history: the user gave "q"

envVars == <<names, cap, count, slots>>
signalVars == <<handler, pending, handling>>
spawnVars == <<main, envVars, num, kids, signalVars, quit>>

Line == {"empty", "set", "unset"}       \* a name may have a value, or not
SlotContent == {"garbage", "var", "null"}
MainPlaces == {"env", "scan", "quit", "wait", "free", "done", "aborted"}
KidPlaces == {"none", "forked", "running", "zombie", "reaped"}

Block(n) == [i \in 0..n-1 |-> "garbage"]

SpawnInit == /\ main = "env"
             /\ names \in UNION {[1..n -> Line] : n \in 0..MaxNames}
             /\ cap = InitCap /\ count = 0 /\ slots = Block(InitCap)
             /\ num = 0
             /\ kids = [c \in Child |-> "none"]
             /\ handler = TRUE /\ pending = FALSE /\ handling = FALSE
             /\ quit = FALSE

-----------------------------------------------------------------------------
(* The reduced environment. *)

UnchangedByEnv == UNCHANGED <<num, kids, signalVars, quit>>

SkipName ==
    /\ main = "env" /\ names # <<>> /\ Head(names) # "set"
    /\ names' = Tail(names)
    /\ UNCHANGED <<main, cap, count, slots>> /\ UnchangedByEnv

AddVar(block) ==
    /\ slots' = [block EXCEPT ![count] = "var"]
    /\ count' = count + 1

(* Mutant: no slot is kept for the NULL. *)
FillTable ==
    /\ main = "env" /\ names # <<>> /\ Head(names) = "set" /\ count < cap
    /\ names' = Tail(names)
    /\ \/ count \in DOMAIN slots /\ AddVar(slots)
       \/ UNCHANGED <<slots, count>>
    /\ UNCHANGED <<main, cap>> /\ UnchangedByEnv

(* malloc of the string may fail, and the variable is left out. *)
StoreVar ==
    /\ main = "env" /\ names # <<>> /\ Head(names) = "set" /\ count < cap - 1
    /\ names' = Tail(names)
    /\ \/ AddVar(slots)
       \/ UNCHANGED <<slots, count>>
    /\ UNCHANGED <<main, cap>> /\ UnchangedByEnv

(* One slot is kept for the NULL.  The capacity is doubled before realloc  *)
(* is asked; when it fails, the file is not read any further.              *)
GrowTable ==
    /\ main = "env" /\ names # <<>> /\ Head(names) = "set" /\ count >= cap - 1
    /\ cap' = 2 * cap
    /\ \/ \E block \in {[i \in 0..cap' - 1 |->
                           IF i \in DOMAIN slots THEN slots[i] ELSE "garbage"]} :
            \/ AddVar(block)
            \/ slots' = block /\ UNCHANGED count
          /\ names' = Tail(names)
       \/ names' = <<>> /\ UNCHANGED <<slots, count>>
    /\ UNCHANGED main /\ UnchangedByEnv

EndTable ==
    /\ main = "env" /\ names = <<>>
    /\ slots' = [i \in DOMAIN slots |-> IF i = count THEN "null" ELSE slots[i]]
    /\ main' = "scan"
    /\ UNCHANGED <<names, cap, count>> /\ UnchangedByEnv

-----------------------------------------------------------------------------
(* The handler. *)

UnchangedByHandler == UNCHANGED <<main, envVars, num, quit, handler>>

HandlerStart ==
    /\ pending /\ ~handling
    /\ pending' = FALSE /\ handling' = TRUE
    /\ UNCHANGED kids /\ UnchangedByHandler

Zombie(c) == kids[c] = "zombie"

ReapOne(c) == Zombie(c) /\ kids' = [kids EXCEPT ![c] = "reaped"]

(* Mutant: waitpid is called once. *)
HandlerReapOnce ==
    /\ handling
    /\ \E c \in Child : ReapOne(c)
    /\ handling' = FALSE
    /\ UNCHANGED pending /\ UnchangedByHandler

HandlerReap ==
    /\ handling
    /\ \E c \in Child : ReapOne(c)
    /\ UNCHANGED <<pending, handling>> /\ UnchangedByHandler

HandlerEnd ==
    /\ handling /\ ~\E c \in Child : Zombie(c)
    /\ handling' = FALSE
    /\ UNCHANGED <<kids, pending>> /\ UnchangedByHandler

HandlerStep == HandlerStart \/ HandlerReap \/ HandlerEnd

-----------------------------------------------------------------------------
(* A child: its first steps in the parent's code, then the program child.  *)

UnchangedByChild == UNCHANGED <<main, envVars, num, quit, handler, handling>>

Exec(c) ==
    /\ kids[c] = "forked"
    /\ kids' = [kids EXCEPT ![c] = "running"]
    /\ UNCHANGED pending /\ UnchangedByChild

(* At the end of child's main, or after an execve that failed.  SIGCHLD is *)
(* dropped where it has its default, which is to ignore it.                *)
Exit(c) ==
    /\ kids[c] \in {"forked", "running"}
    /\ kids' = [kids EXCEPT ![c] = "zombie"]
    /\ pending' = (pending \/ (handler /\ main \notin {"done", "aborted"}))
    /\ UnchangedByChild

ChildStep(c) == Exec(c) \/ Exit(c)

-----------------------------------------------------------------------------
(* The parent's loop and its end. *)

UnchangedByMain == UNCHANGED envVars

(* "+" or "*"; fork may fail. *)
Fork(c) ==
    /\ main = "scan" /\ ~handling /\ kids[c] = "none"
    /\ kids' = [kids EXCEPT ![c] = "forked"]
    /\ num' = (num + 1) % 100
    /\ UNCHANGED <<main, signalVars, quit>> /\ UnchangedByMain

Quit ==
    /\ main = "scan" /\ ~handling
    /\ main' = "quit" /\ quit' = TRUE
    /\ UNCHANGED <<num, kids, signalVars>> /\ UnchangedByMain

(* The end of the input: nobody waits for the children. *)
EndOfCommands ==
    /\ main = "scan" /\ ~handling
    /\ main' = "free"
    /\ UNCHANGED <<num, kids, signalVars, quit>> /\ UnchangedByMain

(* A SIGCHLD that is pending is dropped with the handler. *)
ResetHandler ==
    /\ main = "quit" /\ ~handling
    /\ main' = "wait"
    /\ handler' = FALSE /\ pending' = FALSE
    /\ UNCHANGED <<num, kids, handling, quit>> /\ UnchangedByMain

Wait ==
    /\ main = "wait"
    /\ \E c \in Child : ReapOne(c)
    /\ UNCHANGED <<main, num, signalVars, quit>> /\ UnchangedByMain

(* Mutant: the loop ends when no child has died yet. *)
WaitNoHang ==
    /\ main = "wait" /\ ~\E c \in Child : Zombie(c)
    /\ main' = "free"
    /\ UNCHANGED <<num, kids, signalVars, quit>> /\ UnchangedByMain

(* wait fails when there is no child left. *)
WaitFails ==
    /\ main = "wait" /\ \A c \in Child : kids[c] \in {"none", "reaped"}
    /\ main' = "free"
    /\ UNCHANGED <<num, kids, signalVars, quit>> /\ UnchangedByMain

(* free is called for every slot up to the capacity.  What the slots hold  *)
(* that were never written, or the memory behind the block, is arbitrary:  *)
(* it may be zero, or the C library may stop the program.                  *)
FreeTable ==
    /\ main = "free" /\ ~handling
    /\ \/ main' = "done"
       \/ /\ \E i \in 0..cap-1 : i \in DOMAIN slots => slots[i] = "garbage"
          /\ main' = "aborted"
    /\ UNCHANGED <<num, kids, signalVars, quit>> /\ UnchangedByMain

MainStep == \/ SkipName \/ StoreVar \/ GrowTable \/ EndTable
            \/ ResetHandler \/ Wait \/ WaitFails \/ FreeTable
CommandStep == Quit \/ EndOfCommands \/ \E c \in Child : Fork(c)

SpawnNext == \/ MainStep \/ CommandStep
             \/ HandlerStep
             \/ \E c \in Child : ChildStep(c)

(* Every process that can run is run; the user need not type anything.     *)
(* child prints its environment and ends.                                  *)
SpawnFairness == /\ WF_spawnVars(MainStep) /\ WF_spawnVars(HandlerStep)
                 /\ \A c \in Child : WF_spawnVars(ChildStep(c))

SpawnSpec == SpawnInit /\ [][SpawnNext]_spawnVars /\ SpawnFairness

-----------------------------------------------------------------------------
(* Properties. *)

(* Type correctness of every variable; the table never outgrows its block. *)
SpawnTypeOK ==
    /\ main \in MainPlaces
    /\ names \in Seq(Line)
    /\ cap \in Nat /\ count \in 0..cap
    /\ \E n \in 1..cap : slots \in [0..n-1 -> SlotContent]
    /\ num \in 0..99
    /\ kids \in [Child -> KidPlaces]
    /\ {handler, pending, handling, quit} \subseteq BOOLEAN

(* What execve gets is a list of variables that ends inside its block, in  *)
(* spite of the capacity that is wrong after realloc has failed.           *)
EnvTerminated ==
    main # "env" =>
      /\ count \in DOMAIN slots /\ slots[count] = "null"
      /\ \A i \in 0..count-1 : slots[i] = "var"

(* "q" ends the parent after its children (readme.txt): whatever the       *)
(* handler reaped and the loop did not, no child is left behind.           *)
QuitWaitsForAll ==
    quit /\ main \in {"free", "done", "aborted"} =>
      \A c \in Child : kids[c] \in {"none", "reaped"}

(* No child stays a zombie as long as the parent lives, though several     *)
(* deaths may be announced by one signal and the handler may be taken out  *)
(* while one is pending.                                                   *)
ZombiesReaped ==
    \A c \in Child : Zombie(c) ~> (kids[c] = "reaped" \/ main \in {"done", "aborted"})
=============================================================================
