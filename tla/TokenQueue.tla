----------------------------- MODULE TokenQueue -----------------------------
(***************************************************************************)
(* LAB_5.1: the message ring between threads, with a counting semaphore    *)
(* for its free slots (empty) and one for its messages (full), under a     *)
(* main thread that adds, cancels and joins threads, resizes the ring and  *)
(* shuts the program down.                                                 *)
(*                                                                         *)
(* queue_push tests for a full ring, queue_pop tests nothing: that there   *)
(* is a message is what the token says.  The module follows the tokens     *)
(* through everything that makes or destroys them: threads that have taken *)
(* one and not yet given one back, cancelled threads that a signal kills   *)
(* with one, queue_resize, which counts the slots anew after it has        *)
(* released the mutex, and the posts of the shutdown, which stand for      *)
(* nothing.                                                                *)
(*                                                                         *)
(* What a producer made is chosen when it is pushed; what a consumer gets  *)
(* it only prints.                                                         *)
(***************************************************************************)
EXTENDS MessageRing, FiniteSets

CONSTANTS
    Prod, Cons,     \* the producer and consumer threads main may create
    NoThread,       \* the owner of a free mutex
    InitSize,       \* INITIAL_QUEUE_SIZE
    MaxSize,        \* the largest size queue_resize accepts (100)
    MaxThreads,     \* MAX_THREADS
    MaxAdded,       \* bound: no message is made once added_count is here
    MaxSignals,     \* bound: how many signals are delivered
    Resizes         \* whether the user gives "+" and "-"

ASSUME TokenAssumption ==
    /\ Prod \cap Cons = {}
    /\ NoThread \notin Prod \cup Cons /\ IsFiniteSet(Prod \cup Cons)
    /\ MaxSize \in Nat \ {0} /\ InitSize \in 1..MaxSize
    /\ {MaxThreads, MaxAdded, MaxSignals} \subseteq Nat
    /\ Resizes \in BOOLEAN

VARIABLES
    q,          \* the data fields of the SharedQueue
    sem,        \* the values of its semaphores
    mutex,      \* the owner of q->mutex
    run,        \* keep_running
    pc,         \* where each worker is
    cancelled,  \* the workers with a cancellation pending
    signals,    \* how many signals have been delivered
    main,       \* where the main thread is
    newSize,    \* the argument of the queue_resize under way, 0 if none is
    counted,    \* the value of the sem_init under way, 0 if none is
    victim,     \* the thread kill_last_* joins
    prods, cons,\* the used part of the tables producers and consumers
    damaged,    \* history: a resize has left tail or a semaphore wrong
    lost        \* history: the tokens that died in signal_handler with a thread

tableVars == <<victim, prods, cons>>
mainVars == <<main, newSize, counted, tableVars>>
vars == <<q, sem, mutex, run, pc, cancelled, signals, mainVars, damaged, lost>>

Workers == Prod \cup Cons

(* In "want" and "asleep" a worker is in sem_timedwait, in "check" it has   *)
(* the token; in "report" it prints, with the mutex, the message it pushed  *)
(* or popped; in "refund" and "announce" it is about to post.               *)
WorkerPlaces == {"unborn", "loop", "want", "asleep", "check", "lock", "report",
                 "refund", "announce", "sleep", "dead"}

(* In "init..." main is about to count for a sem_init, in "store..." it     *)
(* has counted.                                                            *)
MainPlaces == {"loop", "command", "resize", "initEmpty", "storeEmpty", "initFull",
               "storeFull", "join", "post", "cancel", "joinall", "destroy", "done",
               "aborted"}

(* The token a worker takes, and the one it gives in exchange. *)
Takes(t) == IF t \in Prod THEN "empty" ELSE "full"
Gives(t) == IF t \in Prod THEN "full" ELSE "empty"

(* Whether t has taken this token and not yet pushed or popped, or pushed   *)
(* or popped and not yet posted it; a thread that died with the mutex      *)
(* never will.                                                             *)
Owes(token, t) ==
    \/ Takes(t) = token /\ pc[t] \in {"check", "lock", "refund"}
    \/ Gives(t) = token /\ (pc[t] \in {"report", "announce"} \/ mutex = t)

Init == /\ q = NewRing(InitSize)
        /\ sem = [empty |-> InitSize, full |-> 0]
        /\ mutex = NoThread
        /\ run = TRUE
        /\ pc = [t \in Workers |-> "unborn"]
        /\ cancelled = {}
        /\ signals = 0
        /\ main = "loop"
        /\ newSize = 0 /\ counted = 0
        /\ victim = NoThread
        /\ prods = <<>> /\ cons = <<>>
        /\ damaged = FALSE
        /\ lost = [empty |-> 0, full |-> 0]

-----------------------------------------------------------------------------
(* run_producer with queue_push, run_consumer with queue_pop. *)

Goto(t, place) == pc' = [pc EXCEPT ![t] = place]

Post(token, n) == sem' = [sem EXCEPT ![token] = @ + n]

UnchangedByWorker == UNCHANGED <<run, cancelled, signals, mainVars, damaged, lost>>

Loop(t) ==
    /\ pc[t] = "loop"
    /\ \/ ~run /\ Goto(t, "dead")
       \/ run /\ (t \in Prod => q.added < MaxAdded) /\ Goto(t, "want")
    /\ UNCHANGED <<q, sem, mutex>> /\ UnchangedByWorker

(* sem_timedwait.  External: a sleeper takes the token in the moment it    *)
(* wakes; that it is woken at all after the semaphore has been initialised *)
(* under it is not certain, that the second passes is.                     *)
TakeToken(t) ==
    /\ pc[t] \in {"want", "asleep"} /\ sem[Takes(t)] > 0
    /\ Post(Takes(t), -1)
    /\ Goto(t, "check")
    /\ UNCHANGED <<q, mutex>> /\ UnchangedByWorker

FallAsleep(t) ==
    /\ pc[t] = "want" /\ sem[Takes(t)] = 0
    /\ Goto(t, "asleep")
    /\ UNCHANGED <<q, sem, mutex>> /\ UnchangedByWorker

Timeout(t) ==
    /\ pc[t] = "asleep"
    /\ Goto(t, IF run THEN "loop" ELSE "dead")
    /\ UNCHANGED <<q, sem, mutex>> /\ UnchangedByWorker

(* Mutant: keep_running is not looked at again. *)
CheckNothing(t) ==
    /\ pc[t] = "check"
    /\ Goto(t, "lock") /\ UNCHANGED sem
    /\ UNCHANGED <<q, mutex>> /\ UnchangedByWorker

(* Told to stop in the meantime, the worker puts the token back. *)
Check(t) ==
    /\ pc[t] = "check"
    /\ \/ run /\ Goto(t, "lock") /\ UNCHANGED sem
       \/ ~run /\ Goto(t, "dead") /\ Post(Takes(t), 1)
    /\ UNCHANGED <<q, mutex>> /\ UnchangedByWorker

(* The remainder of C, which has the sign of a. *)
Rem(a, b) == IF a >= 0 THEN a % b ELSE -((-a) % b)

(* queue_push with the mutex as far as its printf.  A tail outside the     *)
(* block (Resize) makes the write corrupt the heap: the program goes on    *)
(* without the message, or malloc aborts it.                               *)
Push(t) ==
    /\ t \in Prod /\ pc[t] = "lock" /\ mutex = NoThread
    /\ \/ /\ q.load >= q.size
          /\ Goto(t, "refund")
          /\ UNCHANGED <<q, mutex, main>>
       \/ /\ q.load < q.size
          /\ \E m \in Msg :
               q' = [RingPush(q, m) EXCEPT !.tail = Rem(q.tail + 1, q.size)]
          /\ mutex' = t
          /\ Goto(t, "report")
          /\ UNCHANGED main
       \/ /\ q.load < q.size /\ q.tail \notin DOMAIN q.buffer
          /\ main' = "aborted"
          /\ pc' = [w \in Workers |-> IF pc[w] = "unborn" THEN "unborn" ELSE "dead"]
          /\ UNCHANGED <<q, mutex>>
    /\ UNCHANGED <<sem, run, cancelled, signals, newSize, counted, tableVars,
                   damaged, lost>>

(* queue_pop with the mutex as far as its printf. *)
Pop(t) ==
    /\ t \in Cons /\ pc[t] = "lock" /\ mutex = NoThread
    /\ q' = RingPop(q)
    /\ mutex' = t
    /\ Goto(t, "report")
    /\ UNCHANGED sem /\ UnchangedByWorker

Report(t) ==
    /\ pc[t] = "report"
    /\ mutex' = NoThread
    /\ Goto(t, "announce")
    /\ UNCHANGED <<q, sem>> /\ UnchangedByWorker

(* Mutant: the token itself is given back. *)
AnnounceWrong(t) ==
    /\ pc[t] = "announce"
    /\ Post(Takes(t), 1)
    /\ Goto(t, "sleep")
    /\ UNCHANGED <<q, mutex>> /\ UnchangedByWorker

Announce(t) ==
    /\ pc[t] = "announce"
    /\ Post(Gives(t), 1)
    /\ Goto(t, "sleep")
    /\ UNCHANGED <<q, mutex>> /\ UnchangedByWorker

(* The ring was full in spite of the token. *)
Refund(t) ==
    /\ pc[t] = "refund"
    /\ Post("empty", 1)
    /\ Goto(t, "sleep")
    /\ UNCHANGED <<q, mutex>> /\ UnchangedByWorker

Sleep(t) ==
    /\ pc[t] = "sleep"
    /\ Goto(t, "loop")
    /\ UNCHANGED <<q, sem, mutex>> /\ UnchangedByWorker

(* A pending cancellation acts in sem_timedwait, sleep and printf; in the  *)
(* printf of push and pop it takes the mutex and the token along.          *)
ActOnCancel(t) ==
    /\ t \in cancelled /\ pc[t] \in {"want", "asleep", "report", "sleep"}
    /\ Goto(t, "dead")
    /\ UNCHANGED <<q, sem, mutex>> /\ UnchangedByWorker

WorkerStep(t) == \/ Loop(t) \/ TakeToken(t) \/ FallAsleep(t) \/ Timeout(t)
                 \/ Check(t) \/ Push(t) \/ Pop(t) \/ Report(t) \/ Announce(t)
                 \/ Refund(t) \/ Sleep(t) \/ ActOnCancel(t)

-----------------------------------------------------------------------------
(* The two posts of each round of signal_handler and cleanup_all; nobody   *)
(* who takes one of these tokens finds keep_running set.                   *)
PostToAll == sem' = [s \in DOMAIN sem |-> sem[s] + 2 * MaxThreads]

(* signal_handler, on whatever thread: it takes no lock. *)
Signal ==
    /\ signals < MaxSignals /\ main \notin {"done", "aborted"}
    /\ signals' = signals + 1
    /\ run' = FALSE
    /\ PostToAll
    /\ UNCHANGED <<q, mutex, pc, cancelled, mainVars, damaged, lost>>

(* Before all that it prints: a thread with a cancellation pending dies in *)
(* the printf, the program is not told to stop, and the token the thread   *)
(* had is gone.                                                            *)
SignalLost(t) ==
    /\ signals < MaxSignals
    /\ t \in cancelled /\ pc[t] \notin {"unborn", "dead"}
    /\ Goto(t, "dead")
    /\ lost' = [k \in DOMAIN lost |->
                  IF Owes(k, t) /\ mutex # t THEN lost[k] + 1 ELSE lost[k]]
    /\ signals' = signals + 1
    /\ UNCHANGED <<q, sem, mutex, run, cancelled, mainVars, damaged>>

-----------------------------------------------------------------------------
(* The main thread. *)

MainGoes(from, to) == main = from /\ main' = to

UnchangedByMain == UNCHANGED <<run, signals>>
UnchangedQueue == UNCHANGED <<q, sem, mutex, counted, damaged, lost>>

(* Mutant: only "q" leaves the command loop. *)
LoopForever ==
    /\ MainGoes("loop", "command")
    /\ UNCHANGED <<pc, cancelled, newSize, tableVars>>
    /\ UnchangedQueue /\ UnchangedByMain

CheckRunning ==
    /\ main = "loop"
    /\ IF run THEN main' = "command" /\ UNCHANGED run
              ELSE main' = "post" /\ run' = FALSE
    /\ UNCHANGED <<pc, cancelled, signals, newSize, tableVars>> /\ UnchangedQueue

(* No command within a second, "s", or what is no command. *)
NoCommand ==
    /\ MainGoes("command", "loop")
    /\ UNCHANGED <<pc, cancelled, newSize, tableVars>>
    /\ UnchangedQueue /\ UnchangedByMain

AddThread(t) ==
    /\ MainGoes("command", "loop") /\ pc[t] = "unborn"
    /\ \/ t \in Prod /\ Len(prods) < MaxThreads
          /\ prods' = Append(prods, t) /\ UNCHANGED cons
       \/ t \in Cons /\ Len(cons) < MaxThreads
          /\ cons' = Append(cons, t) /\ UNCHANGED prods
    /\ Goto(t, "loop")
    /\ UNCHANGED <<cancelled, newSize, victim>> /\ UnchangedQueue /\ UnchangedByMain

(* Mutant: the size is not tested. *)
ResizeCommandUnchecked(n) ==
    /\ MainGoes("command", "resize") /\ Resizes
    /\ newSize' = n
    /\ UNCHANGED <<pc, cancelled, tableVars>> /\ UnchangedQueue /\ UnchangedByMain

ResizeCommand(n) ==
    /\ MainGoes("command", "resize") /\ Resizes
    /\ n \in 1..MaxSize
    /\ newSize' = n
    /\ UNCHANGED <<pc, cancelled, tableVars>> /\ UnchangedQueue /\ UnchangedByMain

(* queue_resize under the mutex; a size below the load is refused, and     *)
(* malloc may fail.  When the new size is the load, tail ends behind the   *)
(* last slot.                                                              *)
Resize ==
    /\ main = "resize" /\ mutex = NoThread
    /\ \/ main' = "loop" /\ newSize' = 0 /\ UNCHANGED <<q, damaged>>
       \/ /\ newSize >= q.load
          /\ q' = RingResize(q, newSize)
          /\ damaged' = (damaged \/ newSize = q.load)
          /\ main' = "initEmpty"
          /\ UNCHANGED newSize
    /\ UNCHANGED <<sem, mutex, pc, cancelled, counted, tableVars, lost>>
    /\ UnchangedByMain

(* ... and without it: both semaphores are counted anew.  sem_destroy does *)
(* nothing in this C library; sem_init refuses a negative value.  It       *)
(* stores what was true when main read the load, and recovers what was     *)
(* lost; it is wrong if the load has changed since, or a thread has a      *)
(* token in its hands.                                                     *)
SemInit(token, right) ==
    /\ sem' = IF counted >= 0 THEN [sem EXCEPT ![token] = counted] ELSE sem
    /\ counted' = 0
    /\ lost' = [lost EXCEPT ![token] = 0]
    /\ damaged' = (damaged \/ counted # right \/ \E t \in Workers : Owes(token, t))
    /\ UNCHANGED <<q, mutex, pc, cancelled, tableVars>> /\ UnchangedByMain

InitEmpty ==
    /\ MainGoes("initEmpty", "storeEmpty")
    /\ counted' = newSize - q.load
    /\ UNCHANGED <<q, sem, mutex, damaged, lost, pc, cancelled, newSize, tableVars>>
    /\ UnchangedByMain

StoreEmpty ==
    /\ MainGoes("storeEmpty", "initFull")
    /\ SemInit("empty", newSize - q.load)
    /\ UNCHANGED newSize

InitFull ==
    /\ MainGoes("initFull", "storeFull")
    /\ counted' = q.load
    /\ UNCHANGED <<q, sem, mutex, damaged, lost, pc, cancelled, newSize, tableVars>>
    /\ UnchangedByMain

StoreFull ==
    /\ MainGoes("storeFull", "loop")
    /\ SemInit("full", q.load)
    /\ newSize' = 0

(* kpl and kcl: the last thread is cancelled, joined, and dropped. *)
KillCommand(table) ==
    /\ MainGoes("command", "join") /\ table # <<>>
    /\ victim' = table[Len(table)]
    /\ cancelled' = cancelled \cup {table[Len(table)]}
    /\ UNCHANGED <<pc, newSize, prods, cons>> /\ UnchangedQueue /\ UnchangedByMain

JoinVictim ==
    /\ MainGoes("join", "loop") /\ pc[victim] = "dead"
    /\ IF victim \in Prod
         THEN prods' = SubSeq(prods, 1, Len(prods) - 1) /\ UNCHANGED cons
         ELSE cons' = SubSeq(cons, 1, Len(cons) - 1) /\ UNCHANGED prods
    /\ victim' = NoThread
    /\ UNCHANGED <<pc, cancelled, newSize>> /\ UnchangedQueue /\ UnchangedByMain

(* "q", and the first statement of cleanup_all. *)
Quit ==
    /\ MainGoes("command", "post")
    /\ run' = FALSE
    /\ UNCHANGED <<pc, cancelled, signals, newSize, tableVars>> /\ UnchangedQueue

PostAll ==
    /\ MainGoes("post", "cancel")
    /\ PostToAll
    /\ UNCHANGED <<q, mutex, damaged, lost, pc, cancelled, newSize, counted>>
    /\ UNCHANGED tableVars /\ UnchangedByMain

InTables == {t \in Workers : \/ \E i \in DOMAIN prods : prods[i] = t
                             \/ \E i \in DOMAIN cons : cons[i] = t}

CancelAll ==
    /\ MainGoes("cancel", "joinall")
    /\ cancelled' = cancelled \cup InTables
    /\ UNCHANGED <<pc, newSize, tableVars>> /\ UnchangedQueue /\ UnchangedByMain

JoinAll ==
    /\ MainGoes("joinall", "destroy")
    /\ \A t \in InTables : pc[t] = "dead"
    /\ prods' = <<>> /\ cons' = <<>>
    /\ UNCHANGED <<pc, cancelled, newSize, victim>>
    /\ UnchangedQueue /\ UnchangedByMain

(* queue_destroy, whose lock waits for the mutex like any other, and the   *)
(* end of main: a signal in between posts to semaphores nobody uses.       *)
Destroy ==
    /\ MainGoes("destroy", "done") /\ mutex = NoThread
    /\ q' = RingFree(q)
    /\ UNCHANGED <<sem, mutex, damaged, lost, pc, cancelled, newSize, counted>>
    /\ UNCHANGED tableVars /\ UnchangedByMain

UserStep == \/ NoCommand \/ Quit \/ KillCommand(prods) \/ KillCommand(cons)
            \/ \E t \in Workers : AddThread(t)
            \/ \E n \in {q.size - 1, q.size + 1} : ResizeCommand(n)

MainStep == \/ CheckRunning \/ Resize \/ InitEmpty \/ StoreEmpty \/ InitFull
            \/ StoreFull \/ JoinVictim \/ PostAll \/ CancelAll \/ JoinAll \/ Destroy

Exited == main \in {"done", "aborted"} /\ UNCHANGED vars

Next == \/ UserStep \/ MainStep \/ Signal \/ Exited
        \/ \E t \in Workers : WorkerStep(t) \/ SignalLost(t)

(* Every thread that can run is run; the user need not give any command.   *)
Fairness == /\ WF_vars(MainStep) /\ WF_vars(NoCommand)
            /\ \A t \in Workers : WF_vars(WorkerStep(t))

Spec == Init /\ [][Next]_vars /\ Fairness

-----------------------------------------------------------------------------
(* Properties. *)

(* Type correctness of every variable.  The load is an integer: nothing in *)
(* queue_pop keeps it from falling below zero, nor tail after it.          *)
TypeOK ==
    /\ q \in [buffer : Buffers(MaxSize), head : Nat, tail : Int, added : Nat,
              extracted : Nat, load : Int, size : 0..MaxSize]
    /\ sem \in [{"empty", "full"} -> Nat]
    /\ mutex \in Workers \cup {NoThread}
    /\ {run, damaged} \subseteq BOOLEAN
    /\ pc \in [Workers -> WorkerPlaces]
    /\ cancelled \subseteq Workers
    /\ signals \in 0..MaxSignals
    /\ main \in MainPlaces
    /\ newSize \in 0..MaxSize /\ counted \in Int
    /\ victim \in Workers \cup {NoThread}
    /\ prods \in Seq(Prod) /\ cons \in Seq(Cons)
    /\ lost \in [{"empty", "full"} -> Nat]

Owed(token) == Cardinality({t \in Workers : Owes(token, t)})

(* The semaphores count what they stand for: there is a full token for     *)
(* every message and an empty one for every free slot, in the semaphore,   *)
(* in the hands of one thread, or gone with a thread that a signal has     *)
(* killed on its way.  Neither kpl and kcl nor a resize that found no      *)
(* token on its way changes that; until queue_resize has come to sem_init, *)
(* empty still counts the slots of the old ring.                           *)
TokensMatch ==
    run /\ ~damaged =>
      /\ q.load = sem.full + Owed("full") + lost.full
      /\ main \notin {"initEmpty", "storeEmpty"} =>
           q.size - q.load = sem.empty + Owed("empty") + lost.empty

(* queue_pop tests nothing, and still no thread pops from an empty ring or *)
(* pushes past the block, not even with one of the tokens the shutdown     *)
(* posts, which stand for no message and no slot.                          *)
RingCoherent == ~damaged /\ main # "done" => RingOK(q)

(* A program that has been told to stop ends, unless a thread cancelled in *)
(* the printf of queue_push or queue_pop keeps the mutex for ever.         *)
Orphaned == mutex \in Workers /\ pc[mutex] = "dead"

StopTerminates == ~run ~> (main \in {"done", "aborted"} \/ Orphaned)
=============================================================================
