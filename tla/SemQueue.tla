------------------------------ MODULE SemQueue ------------------------------
(***************************************************************************)
(* LAB_4: producer and consumer processes around one message ring in       *)
(* System V shared memory, coordinated by the semaphores EMPTY, FULL and   *)
(* MUTEX, and the parent that forks, stops and reaps them.                 *)
(*                                                                         *)
(* The module follows what a SIGTERM does to sem_wait: a process that      *)
(* sleeps in semop is thrown out of it WITHOUT the token, and sem_wait     *)
(* returns all the same (ipc_utils.c:97); a process that is anywhere else  *)
(* only finds its own keep_running cleared the next time it looks.         *)
(***************************************************************************)
EXTENDS MessageRing, FiniteSets

CONSTANTS
    Prod, Cons,     \* the child processes the parent may fork
    NoProc,         \* no process
    QueueSize,      \* QUEUE_SIZE
    MaxAdded,       \* bound: no message is created once added_count is here
    MaxSignals      \* bound: signals sent from outside the program

ASSUME SemAssumption == /\ Prod \cap Cons = {}
                        /\ NoProc \notin Prod \cup Cons
                        /\ IsFiniteSet(Prod \cup Cons)
                        /\ QueueSize \in Nat \ {0}
                        /\ MaxAdded \in Nat
                        /\ MaxSignals \in Nat

Procs == Prod \cup Cons
Tokens == {"empty", "full", "mutex"}

VARIABLES
    q,          \* the SharedQueue in shared memory
    sem,        \* the values of the three semaphores
    running,    \* keep_running of each child
    pc,         \* where each child is
    msg,        \* its local message
    seen,       \* the ring as it was when the child began its push or pop
    holds,      \* history: the tokens a child has taken and not given back
    barged,     \* history: some child has entered without the mutex
    parentRuns, \* keep_running of the parent
    main,       \* where the parent is
    victim,     \* the child kill_last_* waits for
    prods, cons,\* the PID tables
    signals     \* history: how many signals came from outside

childVars == <<q, sem, msg, seen, holds, barged>>
tableVars == <<prods, cons, victim>>
vars == <<childVars, tableVars, running, pc, parentRuns, main, signals>>

(* A child is about to call semop in "want...", asleep in it in "asleep...". *)
Asleep == {"asleepSlot", "asleepMutex"}
Places == {"unborn", "loop", "wantSlot", "check", "wantMutex", "inside",
           "unlock", "announce", "sleep", "dead"} \cup Asleep

(* The token a child takes first, and the one it gives in exchange. *)
Takes(t) == IF t \in Prod THEN "empty" ELSE "full"
Gives(t) == IF t \in Prod THEN "full" ELSE "empty"

Inside == {t \in Procs : pc[t] = "inside"}

Init == /\ q = NewRing(QueueSize)
        /\ sem = [empty |-> QueueSize, full |-> 0, mutex |-> 1]
        /\ running = [t \in Procs |-> TRUE]
        /\ pc = [t \in Procs |-> "unborn"]
        /\ msg = [t \in Procs |-> Garbage]
        /\ seen = [t \in Procs |-> NewRing(QueueSize)]
        /\ holds = [t \in Procs |-> {}]
        /\ barged = FALSE
        /\ parentRuns = TRUE
        /\ main = "loop"
        /\ victim = NoProc
        /\ prods = <<>> /\ cons = <<>>
        /\ signals = 0

-----------------------------------------------------------------------------
(* The children. *)

Goto(t, place) == pc' = [pc EXCEPT ![t] = place]

UnchangedOutside == UNCHANGED <<running, parentRuns, main, tableVars, signals>>

(* Mutant: keep_running is not looked at. *)
LoopForever(t) ==
    /\ pc[t] = "loop"
    /\ \/ /\ t \in Prod /\ q.added < MaxAdded
          /\ \E m \in Msg : msg' = [msg EXCEPT ![t] = m]
       \/ t \in Cons /\ UNCHANGED msg
    /\ Goto(t, "wantSlot")
    /\ UNCHANGED <<q, sem, seen, holds, barged>> /\ UnchangedOutside

(* while (keep_running), and create_random_message of a producer. *)
Loop(t) ==
    /\ pc[t] = "loop"
    /\ \/ ~running[t] /\ Goto(t, "dead") /\ UNCHANGED msg
       \/ /\ running[t] /\ t \in Prod /\ q.added < MaxAdded
          /\ \E m \in Msg : msg' = [msg EXCEPT ![t] = m]
          /\ Goto(t, "wantSlot")
       \/ running[t] /\ t \in Cons /\ Goto(t, "wantSlot") /\ UNCHANGED msg
    /\ UNCHANGED <<q, sem, seen, holds, barged>> /\ UnchangedOutside

(* Mutant: semop does not wait. *)
TakeAnyway(t, token, from, to) ==
    /\ pc[t] = from
    /\ sem' = [sem EXCEPT ![token] = @ - 1]
    /\ holds' = [holds EXCEPT ![t] = @ \cup {token}]
    /\ Goto(t, to)

(* semop(-1) takes the token if it is there, ... *)
Take(t, token, from, to) ==
    /\ pc[t] = from
    /\ sem[token] > 0
    /\ sem' = [sem EXCEPT ![token] = @ - 1]
    /\ holds' = [holds EXCEPT ![t] = @ \cup {token}]
    /\ Goto(t, to)

(* ... and goes to sleep if it is not.  (External: the kernel's semop.) *)
FallAsleep(t, token, from, to) ==
    /\ pc[t] = from
    /\ sem[token] = 0
    /\ Goto(t, to)
    /\ UNCHANGED childVars /\ UnchangedOutside

Sleepers(token) ==
    {t \in Procs : \/ pc[t] = "asleepSlot" /\ Takes(t) = token
                   \/ pc[t] = "asleepMutex" /\ token = "mutex"}

(* semop(+1) hands the token to a sleeper, if there is one; t goes on to   *)
(* "to" and no longer answers for the token "spent".                       *)
Give(t, token, spent, to) ==
    LET released == [holds EXCEPT ![t] = @ \ {spent}]
    IN  \/ /\ Sleepers(token) = {}
           /\ sem' = [sem EXCEPT ![token] = @ + 1]
           /\ holds' = released
           /\ Goto(t, to)
           /\ UNCHANGED seen
        \/ \E u \in Sleepers(token) :
             /\ holds' = [released EXCEPT ![u] = @ \cup {token}]
             /\ pc' = [pc EXCEPT ![t] = to,
                                 ![u] = IF token = "mutex" THEN "inside" ELSE "check"]
             /\ seen' = IF token = "mutex" THEN [seen EXCEPT ![u] = q] ELSE seen
             /\ UNCHANGED sem

TakeSlot(t) ==
    /\ Take(t, Takes(t), "wantSlot", "check")
    /\ UNCHANGED <<q, msg, seen, barged>> /\ UnchangedOutside

(* Mutant: the mutex is not taken. *)
TakeNoMutex(t) ==
    /\ pc[t] = "wantMutex"
    /\ seen' = [seen EXCEPT ![t] = q]
    /\ Goto(t, "inside")
    /\ UNCHANGED <<q, sem, msg, holds, barged>> /\ UnchangedOutside

(* What push and pop read of the ring is what they find on entry. *)
TakeMutex(t) ==
    /\ Take(t, "mutex", "wantMutex", "inside")
    /\ seen' = [seen EXCEPT ![t] = q]
    /\ UNCHANGED <<q, msg, barged>> /\ UnchangedOutside

(* if (!keep_running) break: the token taken a moment ago is not returned. *)
Check(t) ==
    /\ pc[t] = "check"
    /\ Goto(t, IF running[t] THEN "wantMutex" ELSE "dead")
    /\ UNCHANGED childVars /\ UnchangedOutside

(* queue_push and queue_pop compute the fields they write from what they   *)
(* have read, and store them into the ring as it is by then.               *)
Push(t) ==
    /\ t \in Prod /\ pc[t] = "inside"
    /\ LET new == RingPush(seen[t], msg[t])
       IN  q' = [q EXCEPT !.buffer[seen[t].tail] = msg[t], !.tail = new.tail,
                          !.added = new.added, !.load = new.load]
    /\ Goto(t, "unlock")
    /\ UNCHANGED <<sem, msg, seen, holds, barged>> /\ UnchangedOutside

(* Mutant: head is not moved. *)
PopKeepsHead(t) ==
    /\ t \in Cons /\ pc[t] = "inside"
    /\ LET new == RingPop(seen[t])
       IN  q' = [q EXCEPT !.extracted = new.extracted, !.load = new.load]
    /\ msg' = [msg EXCEPT ![t] = RingFront(seen[t])]
    /\ Goto(t, "unlock")
    /\ UNCHANGED <<sem, seen, holds, barged>> /\ UnchangedOutside

Pop(t) ==
    /\ t \in Cons /\ pc[t] = "inside"
    /\ LET new == RingPop(seen[t])
       IN  q' = [q EXCEPT !.head = new.head, !.extracted = new.extracted,
                          !.load = new.load]
    /\ msg' = [msg EXCEPT ![t] = RingFront(seen[t])]
    /\ Goto(t, "unlock")
    /\ UNCHANGED <<sem, seen, holds, barged>> /\ UnchangedOutside

(* The two V operations; the first one is done whether or not the child    *)
(* ever got the mutex.                                                     *)
Unlock(t) ==
    /\ pc[t] = "unlock"
    /\ Give(t, "mutex", "mutex", "announce")
    /\ UNCHANGED <<q, msg, barged>> /\ UnchangedOutside

(* Mutant: the wrong semaphore is signalled. *)
AnnounceWrong(t) ==
    /\ pc[t] = "announce"
    /\ Give(t, Takes(t), Takes(t), "sleep")
    /\ UNCHANGED <<q, msg, barged>> /\ UnchangedOutside

Announce(t) ==
    /\ pc[t] = "announce"
    /\ Give(t, Gives(t), Takes(t), "sleep")
    /\ UNCHANGED <<q, msg, barged>> /\ UnchangedOutside

Sleep(t) ==
    /\ pc[t] = "sleep"
    /\ Goto(t, "loop")
    /\ UNCHANGED childVars /\ UnchangedOutside

ChildStep(t) ==
    \/ Loop(t) \/ TakeSlot(t) \/ Check(t) \/ TakeMutex(t)
    \/ FallAsleep(t, Takes(t), "wantSlot", "asleepSlot")
    \/ FallAsleep(t, "mutex", "wantMutex", "asleepMutex")
    \/ Push(t) \/ Pop(t) \/ Unlock(t) \/ Announce(t) \/ Sleep(t)

-----------------------------------------------------------------------------
(* Signals. *)

Alive(t) == pc[t] \notin {"unborn", "dead"}

(* handle_sigterm in every child of S: keep_running is cleared, and a      *)
(* sleeping sem_wait returns at once, into the check after SEM_EMPTY or    *)
(* SEM_FULL, into the critical section after SEM_MUTEX.                    *)
Interrupted(S) ==
    /\ running' = [t \in Procs |-> running[t] /\ t \notin S]
    /\ pc' = [t \in Procs |->
                IF t \notin S THEN pc[t]
                ELSE CASE pc[t] = "asleepSlot" -> "check"
                       [] pc[t] = "asleepMutex" -> "inside"
                       [] OTHER -> pc[t]]
    /\ seen' = [t \in Procs |->
                  IF t \in S /\ pc[t] = "asleepMutex" THEN q ELSE seen[t]]
    /\ barged' = (barged \/ \E t \in S : pc[t] = "asleepMutex")
    /\ UNCHANGED <<q, sem, msg, holds>>

(* A SIGTERM or SIGINT to one child. *)
Signal(t) ==
    /\ Alive(t) /\ signals < MaxSignals
    /\ Interrupted({t})
    /\ signals' = signals + 1
    /\ UNCHANGED <<parentRuns, main, tableVars>>

(* Ctrl+C reaches the whole process group.  signal() has installed the     *)
(* parent's handler with SA_RESTART, so its scanf goes on waiting.         *)
CtrlC ==
    /\ main # "done" /\ signals < MaxSignals
    /\ Interrupted({t \in Procs : Alive(t)})
    /\ parentRuns' = FALSE
    /\ signals' = signals + 1
    /\ UNCHANGED <<main, tableVars>>

(* A SIGTERM to the parent alone: no child hears of it. *)
TermParent ==
    /\ main # "done" /\ signals < MaxSignals
    /\ parentRuns' = FALSE
    /\ signals' = signals + 1
    /\ UNCHANGED <<childVars, running, pc, main, tableVars>>

-----------------------------------------------------------------------------
(* The parent. *)

UnchangedByParent == UNCHANGED <<childVars, running, parentRuns, signals>>

CheckRunning ==
    /\ main = "loop"
    /\ main' = IF parentRuns THEN "command" ELSE "stopProducers"
    /\ UNCHANGED <<pc, tableVars>> /\ UnchangedByParent

(* "s" and whatever is no command. *)
OtherCommand ==
    /\ main = "command"
    /\ main' = "loop"
    /\ UNCHANGED <<pc, tableVars>> /\ UnchangedByParent

(* "p" and "c" below MAX_PROC: the child inherits the parent's flag. *)
Fork(t) ==
    /\ main = "command" /\ pc[t] = "unborn"
    /\ IF t \in Prod THEN prods' = Append(prods, t) /\ UNCHANGED cons
                     ELSE cons' = Append(cons, t) /\ UNCHANGED prods
    /\ running' = [running EXCEPT ![t] = parentRuns]
    /\ Goto(t, "loop")
    /\ main' = "loop"
    /\ UNCHANGED <<childVars, victim, parentRuns, signals>>

(* "kpl" and "kcl": SIGTERM, then waitpid. *)
KillLast(table) ==
    /\ main = "command" /\ table # <<>>
    /\ victim' = table[Len(table)]
    /\ IF Alive(victim') THEN Interrupted({victim'})
                         ELSE UNCHANGED <<childVars, running, pc>>
    /\ main' = "waitpid"
    /\ UNCHANGED <<prods, cons, parentRuns, signals>>

Reap ==
    /\ main = "waitpid" /\ pc[victim] = "dead"
    /\ IF victim \in Prod
         THEN prods' = SubSeq(prods, 1, Len(prods) - 1) /\ UNCHANGED cons
         ELSE cons' = SubSeq(cons, 1, Len(cons) - 1) /\ UNCHANGED prods
    /\ victim' = NoProc
    /\ main' = "loop"
    /\ UNCHANGED pc /\ UnchangedByParent

Quit ==
    /\ main = "command"
    /\ main' = "stopProducers"
    /\ UNCHANGED <<pc, tableVars>> /\ UnchangedByParent

InTable(table) == {t \in Procs : \E i \in DOMAIN table : table[i] = t}

(* SIGTERM to every producer, then to every consumer. *)
Stop(from, table, to) ==
    /\ main = from
    /\ Interrupted({t \in InTable(table) : Alive(t)})
    /\ main' = to
    /\ UNCHANGED <<tableVars, parentRuns, signals>>

(* Mutant: the parent only waits for its children. *)
AwaitChild(t) ==
    /\ main = "kill" /\ t \in InTable(prods) \cup InTable(cons) /\ pc[t] = "dead"
    /\ prods' = IF t \in Prod THEN Tail(prods) ELSE prods
    /\ cons' = IF t \in Cons THEN Tail(cons) ELSE cons
    /\ IF t \in Prod THEN t = Head(prods) ELSE prods = <<>> /\ t = Head(cons)
    /\ UNCHANGED <<pc, victim, main>> /\ UnchangedByParent

(* A second later every child still in a table, dead or not, is sent       *)
(* SIGKILL and reaped: kill(pid, 0) succeeds for a zombie too.             *)
ForceKill(t) ==
    /\ main = "kill" /\ t \in InTable(prods) \cup InTable(cons)
    /\ Goto(t, "dead")
    /\ prods' = IF t \in Prod THEN Tail(prods) ELSE prods
    /\ cons' = IF t \in Cons THEN Tail(cons) ELSE cons
    /\ IF t \in Prod THEN t = Head(prods) ELSE prods = <<>> /\ t = Head(cons)
    /\ UNCHANGED <<victim, main>> /\ UnchangedByParent

(* The shared memory and the semaphores are removed. *)
Destroy ==
    /\ main = "kill" /\ prods = <<>> /\ cons = <<>>
    /\ main' = "done"
    /\ UNCHANGED <<pc, tableVars>> /\ UnchangedByParent

Command == \/ OtherCommand \/ Quit \/ KillLast(prods) \/ KillLast(cons)
           \/ \E t \in Procs : Fork(t)

ParentStep == \/ CheckRunning \/ Reap \/ Destroy
              \/ Stop("stopProducers", prods, "stopConsumers")
              \/ Stop("stopConsumers", cons, "kill")
              \/ \E t \in Procs : ForceKill(t)

Exited == main = "done" /\ UNCHANGED vars

Next == \/ \E t \in Procs : ChildStep(t) \/ Signal(t)
        \/ CtrlC \/ TermParent \/ Command \/ ParentStep \/ Exited

(* Every process that can run is run; nobody has to type a command. *)
Fairness == /\ WF_vars(ParentStep)
            /\ \A t \in Procs : WF_vars(ChildStep(t))

Spec == Init /\ [][Next]_vars /\ Fairness

-----------------------------------------------------------------------------
(* Properties. *)

(* Type correctness of every variable. *)
TypeOK ==
    /\ q \in RingType(QueueSize)
    /\ sem \in [Tokens -> Nat]
    /\ running \in [Procs -> BOOLEAN]
    /\ pc \in [Procs -> Places]
    /\ msg \in [Procs -> Msg \cup {Garbage}]
    /\ seen \in [Procs -> RingType(QueueSize)]
    /\ holds \in [Procs -> SUBSET Tokens]
    /\ {barged, parentRuns} \subseteq BOOLEAN
    /\ main \in {"loop", "command", "waitpid", "stopProducers", "stopConsumers",
                 "kill", "done"}
    /\ victim \in Procs \cup {NoProc}
    /\ prods \in Seq(Prod) /\ cons \in Seq(Cons)
    /\ signals \in 0..MaxSignals

(* "Critical section" (producer.c:23, consumer.c:19): at most one process  *)
(* manipulates the queue at a time.                                        *)
MutualExclusion == \A t, u \in Inside : t = u

(* The only way two processes meet inside is a SIGTERM that wakes one from *)
(* its sleep on SEM_MUTEX.                                                 *)
ExclusiveUnlessBarged == ~barged => MutualExclusion

Holders(token) == Cardinality({t \in Procs : token \in holds[t]})

(* EMPTY and FULL never invent a slot: every slot is free, filled or in    *)
(* the hands of one process, and a process that dies with one takes it     *)
(* away for good.                                                          *)
SlotsConserved ==
    sem.empty + sem.full + Holders("empty") + Holders("full") = QueueSize

(* current_load is what the semaphores say: a message is in the ring for   *)
(* every FULL token, and for every token on its way in or out.             *)
LoadMatchesTokens ==
    ~barged /\ main \notin {"kill", "done"} =>
      q.load = sem.full + Holders("full")
               + Cardinality({t \in Prod : pc[t] \in {"unlock", "announce"}})
               - Cardinality({t \in Cons : pc[t] \in {"unlock", "announce"}})

(* Every slot and every message is accounted for by a token, with          *)
(* processes that give up, or die, at any place on the way.                *)
SlotsAccounted == SlotsConserved /\ LoadMatchesTokens

(* Push and pop do no check of their own: the semaphores alone keep the    *)
(* ring from overflow, underflow and torn updates.                         *)
RingCoherent == ~barged => RingOK(q)

(* kpl and kcl come back, unless the SIGTERM found its child outside of    *)
(* semop and the child has gone to sleep in semop after it.                *)
MissedTerm(t) == t \in Procs /\ ~running[t] /\ pc[t] \in Asleep

StuckOnlyByMissedTerm ==
    main = "waitpid" ~> (main # "waitpid" \/ MissedTerm(victim))

(* Once the parent leaves its command loop the program ends, whatever      *)
(* state the children are stuck in: SIGKILL needs no cooperation.          *)
ShutdownTerminates == main = "stopProducers" ~> main = "done"
=============================================================================
