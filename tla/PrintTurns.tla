----------------------------- MODULE PrintTurns -----------------------------
(***************************************************************************)
(* LAB_3: child processes that gather statistics and ask their parent, by  *)
(* SIGUSR1, for the permission to print them, which it gives by SIGUSR2;   *)
(* the parent remembers one asking child at a time.                        *)
(*                                                                         *)
(* A step is one system call or one access to a flag that a handler        *)
(* shares.  A child's handlers only set a flag of the child and end its    *)
(* pause; they run in the step that sends the signal.                      *)
(***************************************************************************)
EXTENDS Integers, Sequences

CONSTANTS
    Child,      \* the child processes that may be forked
    NoChild,    \* the PID 0
    MaxChildren,\* MAX_CHILDREN
    MaxCycles   \* MAX_CYCLES

ASSUME TurnAssumption == NoChild \notin Child /\ {MaxChildren, MaxCycles} \subseteq Nat

VARIABLES
    pc,         \* where each child is
    cycles,     \* cycles_completed of each child: how often it has asked
    canPrint,   \* can_print of each child
    terminate,  \* terminate_child of each child
    printed,    \* history: how often each child has printed
    granted,    \* history: how often each child has been sent SIGUSR2
    lost,       \* history: the children whose last request, or the permission
                \* it got, fell into one of the gaps between two steps
    pending,    \* the sender of the SIGUSR1 the parent has not yet handled
    ready,      \* ready_to_print_pid
    sigint,     \* got_sigint
    main,       \* where the parent is
    pid,        \* its local pid
    after,      \* where it goes from delete_last_child
    table       \* the used part of child_pids

childVars == <<pc, cycles, canPrint, terminate, printed>>
parentVars == <<main, pid, after, table>>
vars == <<childVars, parentVars, granted, lost, pending, ready, sigint>>

Places == {"unborn", "forked", "cycle", "ask", "reset", "test", "drowsy", "pause",
           "print", "sleep", "dead"}

Init == /\ pc = [c \in Child |-> "unborn"]
        /\ cycles = [c \in Child |-> 0]
        /\ canPrint = [c \in Child |-> FALSE]
        /\ terminate = [c \in Child |-> FALSE]
        /\ printed = [c \in Child |-> 0]
        /\ granted = [c \in Child |-> 0]
        /\ lost = {}
        /\ pending = NoChild
        /\ ready = NoChild
        /\ sigint = FALSE
        /\ main = "top"
        /\ pid = NoChild
        /\ after = "top"
        /\ table = <<>>

-----------------------------------------------------------------------------
(* child_main_loop. *)

At(c, place) == pc[c] = place
Goto(c, place) == pc' = [pc EXCEPT ![c] = place]

UnchangedByChild == UNCHANGED <<parentVars, granted, ready, sigint>>

(* The handlers for SIGUSR2 and SIGTERM are installed. *)
Begin(c) ==
    /\ At(c, "forked")
    /\ Goto(c, "cycle")
    /\ UNCHANGED <<cycles, canPrint, terminate, printed, pending, lost>> /\ UnchangedByChild

(* Mutant: one cycle more. *)
CycleOnceMore(c) ==
    /\ At(c, "cycle")
    /\ IF terminate[c] \/ cycles[c] > MaxCycles
         THEN Goto(c, "dead") /\ UNCHANGED cycles
         ELSE Goto(c, "ask") /\ cycles' = [cycles EXCEPT ![c] = @ + 1]
    /\ UNCHANGED <<canPrint, terminate, printed, pending, lost>> /\ UnchangedByChild

(* The loop head; the statistics of one cycle, given up on SIGTERM. *)
Cycle(c) ==
    /\ At(c, "cycle")
    /\ IF terminate[c] \/ cycles[c] >= MaxCycles
         THEN Goto(c, "dead") /\ UNCHANGED cycles
         ELSE Goto(c, "ask") /\ cycles' = [cycles EXCEPT ![c] = @ + 1]
    /\ UNCHANGED <<canPrint, terminate, printed, pending, lost>> /\ UnchangedByChild

(* Whether the last request of c has been granted. *)
Allowed(c) == granted[c] = cycles[c]

(* SIGUSR1 to the parent.  One that is still pending swallows it; when the *)
(* parent is gone the call fails and the loop ends.                        *)
Ask(c) ==
    /\ At(c, "ask")
    /\ IF main = "gone"
         THEN Goto(c, "dead") /\ UNCHANGED <<pending, lost>>
         ELSE /\ Goto(c, "reset")
              /\ pending' = IF pending = NoChild THEN c ELSE pending
              /\ lost' = IF pending = NoChild THEN lost ELSE lost \cup {c}
    /\ UNCHANGED <<cycles, canPrint, terminate, printed>> /\ UnchangedByChild

(* Mutant: can_print is not cleared. *)
ResetNothing(c) ==
    /\ At(c, "reset")
    /\ Goto(c, "test")
    /\ UNCHANGED <<cycles, canPrint, terminate, printed, pending, lost>> /\ UnchangedByChild

(* can_print is cleared after the question has been asked. *)
Reset(c) ==
    /\ At(c, "reset")
    /\ canPrint' = [canPrint EXCEPT ![c] = FALSE]
    /\ lost' = IF Allowed(c) THEN lost \cup {c} ELSE lost
    /\ Goto(c, "test")
    /\ UNCHANGED <<cycles, terminate, printed, pending>> /\ UnchangedByChild

(* while (!can_print && !terminate_child) ... *)
Test(c) ==
    /\ At(c, "test")
    /\ Goto(c, IF terminate[c] THEN "dead" ELSE IF canPrint[c] THEN "print" ELSE "drowsy")
    /\ UNCHANGED <<cycles, canPrint, terminate, printed, pending, lost>> /\ UnchangedByChild

(* ... pause(), which only a signal from now on can end. *)
Pause(c) ==
    /\ At(c, "drowsy")
    /\ Goto(c, "pause")
    /\ UNCHANGED <<cycles, canPrint, terminate, printed, pending, lost>> /\ UnchangedByChild

PrintStats(c) ==
    /\ At(c, "print")
    /\ printed' = [printed EXCEPT ![c] = @ + 1]
    /\ Goto(c, "sleep")
    /\ UNCHANGED <<cycles, canPrint, terminate, pending, lost>> /\ UnchangedByChild

Sleep(c) ==
    /\ At(c, "sleep")
    /\ Goto(c, "cycle")
    /\ UNCHANGED <<cycles, canPrint, terminate, printed, pending, lost>> /\ UnchangedByChild

ChildStep(c) == \/ Begin(c) \/ Cycle(c) \/ Ask(c) \/ Reset(c) \/ Test(c)
                \/ Pause(c) \/ PrintStats(c) \/ Sleep(c)

(* A signal that sets a flag of c ends the pause c is in. *)
Wakes(c) == Goto(c, IF At(c, "pause") THEN "test" ELSE pc[c])

-----------------------------------------------------------------------------
(* The parent's handlers.  Neither restarts the call it interrupts: a      *)
(* waitpid returns without the child.                                      *)

Interrupted == main' = IF main = "waitpid" THEN "reaped" ELSE main

Unanswered == ready # NoChild /\ ~Allowed(ready)

Usr1Handler ==
    /\ main # "gone" /\ pending # NoChild
    /\ ready' = pending
    /\ pending' = NoChild
    /\ lost' = IF Unanswered /\ ~(main = "grant" /\ pid = ready)
               THEN lost \cup {ready} ELSE lost
    /\ Interrupted
    /\ UNCHANGED <<childVars, granted, sigint, pid, after, table>>

(* Ctrl+C, which the children ignore. *)
SigintHandler ==
    /\ main # "gone" /\ (~sigint \/ main = "waitpid")
    /\ sigint' = TRUE
    /\ Interrupted
    /\ UNCHANGED <<childVars, granted, lost, pending, ready, pid, after, table>>

-----------------------------------------------------------------------------
(* The parent's main loop. *)

UnchangedByParent == UNCHANGED <<childVars, granted, lost, pending, sigint>>

(* The loop head; ready_to_print_pid is read ... *)
Top ==
    /\ main = "top"
    /\ \/ sigint /\ main' = "delete" /\ after' = "exit" /\ UNCHANGED pid
       \/ ~sigint /\ ready # NoChild /\ main' = "grant" /\ pid' = ready /\ UNCHANGED after
       \/ ~sigint /\ ready = NoChild /\ main' = "select" /\ UNCHANGED <<pid, after>>
    /\ UNCHANGED <<ready, table>> /\ UnchangedByParent

(* Mutant: the child that is sent SIGUSR2 is the one created first. *)
GrantFirst ==
    /\ main = "grant"
    /\ LET first == IF table = <<>> THEN pid ELSE table[1]
       IN  /\ granted' = [granted EXCEPT ![first] = @ + 1]
           /\ canPrint' = [canPrint EXCEPT ![first] = TRUE]
           /\ Wakes(first)
    /\ main' = "clear"
    /\ UNCHANGED <<cycles, terminate, printed, lost, pending, ready, sigint, pid,
                   after, table>>

(* ... the child in it is sent SIGUSR2, if it still exists ... *)
Grant ==
    /\ main = "grant"
    /\ granted' = [granted EXCEPT ![pid] = @ + 1]
    /\ IF pc[pid] = "dead" THEN UNCHANGED <<pc, canPrint, lost>>
       ELSE /\ canPrint' = [canPrint EXCEPT ![pid] = TRUE]
            /\ Wakes(pid)
            /\ lost' = IF At(pid, "drowsy") THEN lost \cup {pid} ELSE lost
    /\ main' = "clear"
    /\ UNCHANGED <<cycles, terminate, printed, pending, ready, sigint, pid, after, table>>

(* ... and it is cleared, whatever it holds by now. *)
Clear ==
    /\ main = "clear"
    /\ ready' = NoChild
    /\ lost' = IF Unanswered THEN lost \cup {ready} ELSE lost
    /\ pid' = NoChild
    /\ main' = "select"
    /\ UNCHANGED <<childVars, granted, pending, sigint, after, table>>

(* select times out, is interrupted, or finds "l" or an unknown key. *)
NoCommand ==
    /\ main = "select"
    /\ main' = "top"
    /\ UNCHANGED <<ready, pid, after, table>> /\ UnchangedByParent

(* "+" *)
CreateChild(c) ==
    /\ main = "select" /\ pc[c] = "unborn" /\ Len(table) < MaxChildren
    /\ Goto(c, "forked")
    /\ table' = Append(table, c)
    /\ main' = "top"
    /\ UNCHANGED <<cycles, canPrint, terminate, printed, granted, lost, pending, ready,
                   sigint, pid, after>>

(* "-", "k" and "q" *)
DeleteCommand ==
    /\ main = "select"
    /\ main' = "delete"
    /\ after' \in {"top", "all", "exit"}
    /\ UNCHANGED <<ready, pid, table>> /\ UnchangedByParent

Leave == IF after = "exit" THEN "gone" ELSE "top"

(* Mutants of DeleteLast: the first child gets the SIGTERM; none does. *)
DeleteLastMisled ==
    /\ main = "delete" /\ table # <<>>
    /\ table' = SubSeq(table, 1, Len(table) - 1)
    /\ pid' = table[1]
    /\ terminate' = [terminate EXCEPT ![table[1]] = TRUE]
    /\ Wakes(table[1])
    /\ main' = "waitpid"
    /\ UNCHANGED <<cycles, canPrint, printed, granted, lost, pending, ready, sigint, after>>

DeleteLastQuietly ==
    /\ main = "delete" /\ table # <<>>
    /\ table' = SubSeq(table, 1, Len(table) - 1)
    /\ pid' = table[Len(table)]
    /\ main' = "waitpid"
    /\ UNCHANGED <<childVars, granted, lost, pending, ready, sigint, after>>

(* delete_last_child as far as waitpid.  A child without its handler yet   *)
(* dies of the SIGTERM.                                                    *)
DeleteLast ==
    /\ main = "delete"
    /\ IF table = <<>>
         THEN /\ main' = Leave /\ after' = "top"
              /\ UNCHANGED <<pc, terminate, pid, table>>
         ELSE LET last == table[Len(table)] IN
              /\ table' = SubSeq(table, 1, Len(table) - 1)
              /\ pid' = last
              /\ terminate' = [terminate EXCEPT ![last] = TRUE]
              /\ Goto(last, CASE At(last, "forked") -> "dead"
                              [] At(last, "pause")  -> "test"
                              [] OTHER              -> pc[last])
              /\ main' = "waitpid"
              /\ UNCHANGED after
    /\ UNCHANGED <<cycles, canPrint, printed, granted, lost, pending, ready, sigint>>

Reap ==
    /\ main = "waitpid" /\ pc[pid] = "dead"
    /\ main' = "reaped"
    /\ UNCHANGED <<ready, pid, after, table>> /\ UnchangedByParent

(* The end of delete_last_child; kill_all_children goes on. *)
Deleted ==
    /\ main = "reaped"
    /\ pid' = NoChild
    /\ main' = IF after = "top" THEN "top" ELSE "delete"
    /\ UNCHANGED <<ready, after, table>> /\ UnchangedByParent

UserStep == \/ NoCommand \/ DeleteCommand \/ SigintHandler
            \/ \E c \in Child : CreateChild(c)

ParentStep == Top \/ Grant \/ Clear \/ DeleteLast \/ Reap \/ Deleted

(* The parent has exited; its last children may go on without it. *)
Gone == main = "gone" /\ UNCHANGED vars

Next == \/ UserStep \/ ParentStep \/ Usr1Handler \/ Gone
        \/ \E c \in Child : ChildStep(c)

(* Every process that can run is run and its signals are delivered; select *)
(* waits a tenth of a second for the user.                                 *)
Fairness == /\ WF_vars(ParentStep) /\ WF_vars(NoCommand) /\ WF_vars(Usr1Handler)
            /\ \A c \in Child : WF_vars(ChildStep(c))

Spec == Init /\ [][Next]_vars /\ Fairness

-----------------------------------------------------------------------------
(* Properties. *)

(* Type correctness of every variable. *)
TypeOK ==
    /\ pc \in [Child -> Places]
    /\ {cycles, printed, granted} \subseteq [Child -> 0..MaxCycles]
    /\ {canPrint, terminate} \subseteq [Child -> BOOLEAN] /\ lost \subseteq Child
    /\ {pending, ready, pid} \subseteq Child \cup {NoChild}
    /\ sigint \in BOOLEAN
    /\ main \in {"top", "grant", "clear", "select", "delete", "waitpid", "reaped", "gone"}
    /\ after \in {"top", "all", "exit"}
    /\ table \in Seq(Child)

(* A permission is for one report: a child never prints more often than it *)
(* was allowed to, nor is it ever allowed to more often than it has asked, *)
(* although flags, SIGUSR1 and SIGUSR2 can all be lost or come late.       *)
OnePrintPerPermission ==
    \A c \in Child : printed[c] <= granted[c] /\ granted[c] <= cycles[c]

(* A child outside the table, and still running, has been told to end:     *)
(* also when waitpid was interrupted and its entry dropped all the same.   *)
DroppedOnlyWhenTold ==
    \A c \in Child : pc[c] \notin {"unborn", "dead"} =>
      terminate[c] \/ \E i \in DOMAIN table : table[i] = c

(* The parent is stuck in waitpid only for a child whose SIGTERM came      *)
(* between its test of terminate_child and its pause.                      *)
MissedTerm(c) == c \in Child /\ pc[c] = "pause" /\ terminate[c]

StuckOnlyByMissedTerm ==
    main = "waitpid" ~> (main # "waitpid" \/ MissedTerm(pid))

Waiting(c) == pc[c] \in {"reset", "test", "drowsy", "pause"}

(* A child that has asked is allowed to print or told to end, unless the   *)
(* parent is stuck, or the request or the permission was lost; which       *)
(* happens only when another request is pending or replaces it, when it    *)
(* comes while the parent answers an earlier one, or when the answer comes *)
(* before can_print is cleared or just before pause.                       *)
EveryRequestAnswered ==
    \A c \in Child :
      Waiting(c) ~> \/ ~Waiting(c) \/ terminate[c] \/ c \in lost
                    \/ main = "gone" \/ (main = "waitpid" /\ MissedTerm(pid))
=============================================================================
