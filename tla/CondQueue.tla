----------------------------- MODULE CondQueue -----------------------------
(***************************************************************************)
(* LAB_5.2: producer and consumer threads around one message ring, guarded *)
(* by a mutex with the condition variables not_full and not_empty, under a *)
(* main thread that reads commands, resizes the ring, cancels threads and  *)
(* shuts the program down, and under a handler for SIGINT and SIGTERM that *)
(* any thread may be made to run.                                          *)
(*                                                                         *)
(* A step ends where another thread may get in: at a call that blocks, at  *)
(* the release of the mutex, at a point where a cancellation acts, at a    *)
(* read of keep_running.  The sections under global_mutex are one read or  *)
(* one write of keep_running and hold no other lock: they are one step.    *)
(***************************************************************************)
EXTENDS MessageRing, FiniteSets

CONSTANTS
    Prod, Cons,     \* the producer and consumer threads main may create
    Main,           \* the main thread
    NoThread,       \* the owner of a free mutex
    InitSize,       \* INITIAL_QUEUE_SIZE
    MaxSize,        \* the largest size queue_resize accepts (100)
    MaxThreads,     \* MAX_THREADS
    MaxAdded,       \* bound: no message is created once added_count is here
    MaxSignals,     \* bound: how many signals are delivered
    KillCommands,   \* whether the user gives kpl and kcl
    PrintfCancels,  \* whether a cancellation may act inside printf
    ExactShrink     \* whether a resize may find the load equal to its size

ASSUME CondAssumption ==
    /\ Prod \cap Cons = {}
    /\ Main \notin Prod \cup Cons
    /\ NoThread \notin Prod \cup Cons \cup {Main}
    /\ IsFiniteSet(Prod \cup Cons)
    /\ MaxSize \in Nat \ {0}
    /\ InitSize \in 1..MaxSize
    /\ MaxThreads \in Nat
    /\ MaxAdded \in Nat
    /\ MaxSignals \in Nat
    /\ {KillCommands, PrintfCancels, ExactShrink} \subseteq BOOLEAN

VARIABLES
    q,          \* the data fields of the SharedQueue
    mutex,      \* the owner of q->mutex
    run,        \* keep_running
    pc,         \* where each worker thread is
    msg,        \* the message each worker made or popped last
    cancelled,  \* the workers with a cancellation pending
    handler,    \* where each thread is in signal_handler
    signals,    \* how many signals have been delivered
    main,       \* where the main thread is
    newSize,    \* the argument of the queue_resize under way, 0 if none is
    victim,     \* the thread kill_last_* joins
    prods, cons \* the used part of the tables producers and consumers

vars == <<q, mutex, run, pc, msg, cancelled, handler, signals, main, newSize,
          victim, prods, cons>>

workerVars == <<pc, msg, cancelled, prods, cons>>
mainVars   == <<main, newSize, victim>>

Workers == Prod \cup Cons
Threads == Workers \cup {Main}

(***************************************************************************)
(* A worker holds q->mutex in "test", "block" and "report".  It sleeps on  *)
(* its condition variable in "waiting": not_full for a producer, not_empty *)
(* for a consumer.  "woken" and "timedout" are the two ways out of there,  *)
(* "unwinding" the third, by cancellation; all three want the mutex back.  *)
(***************************************************************************)
WorkerPlaces == {"unborn", "loop", "lock", "test", "block", "waiting", "woken",
                 "timedout", "unwinding", "report", "sleep", "dead"}

(* In "exiting" main has come back from queue_destroy: the mutex and the   *)
(* condition variables are destroyed, the handler is still installed.      *)
MainPlaces == {"loop", "command", "resize", "status", "join", "broadcast",
               "cancel", "joinall", "destroy", "exiting", "done", "aborted"}

(* The critical sections of the main thread: at these places it waits for  *)
(* the mutex, or has it.                                                   *)
MainSections == {"resize", "status", "broadcast", "destroy"}

Holding == {"test", "block", "report"}

WaitingOn(S) == {t \in S : pc[t] = "waiting"}

(* The thread is not frozen under a signal handler of its own. *)
Executes(t) == handler[t] = "none"

Init == /\ q = NewRing(InitSize)
        /\ mutex = NoThread
        /\ run = TRUE
        /\ pc = [t \in Workers |-> "unborn"]
        /\ msg = [t \in Workers |-> Garbage]
        /\ cancelled = {}
        /\ handler = [t \in Threads |-> "none"]
        /\ signals = 0
        /\ main = "loop"
        /\ newSize = 0
        /\ victim = NoThread
        /\ prods = <<>>
        /\ cons = <<>>

-----------------------------------------------------------------------------
(* The workers: run_producer with queue_push, run_consumer with queue_pop. *)

At(t, place) == t \in Workers /\ pc[t] = place /\ Executes(t)

Goto(t, place) == pc' = [pc EXCEPT ![t] = place]

UnchangedOutside == UNCHANGED <<run, cancelled, handler, signals, mainVars,
                                prods, cons>>

(* pthread_cond_broadcast on both condition variables, by a thread that    *)
(* stays where it is.                                                      *)
WakeAll == pc' = [t \in Workers |-> IF pc[t] = "waiting" THEN "woken" ELSE pc[t]]

(* The loop head: a producer that goes on makes its next message. *)
Loop(t) ==
    /\ At(t, "loop")
    /\ \/ ~run /\ Goto(t, "dead") /\ UNCHANGED msg
       \/ /\ run /\ t \in Prod /\ q.added < MaxAdded
          /\ \E m \in Msg : msg' = [msg EXCEPT ![t] = m]
          /\ Goto(t, "lock")
       \/ run /\ t \in Cons /\ Goto(t, "lock") /\ UNCHANGED msg
    /\ UNCHANGED <<q, mutex>> /\ UnchangedOutside

Lock(t) ==
    /\ pc[t] \in {"lock", "woken"} /\ At(t, pc[t])
    /\ mutex = NoThread
    /\ mutex' = t
    /\ Goto(t, "test")
    /\ UNCHANGED <<q, msg>> /\ UnchangedOutside

(* queue_push once it has the mutex.  With tail beyond the block the write *)
(* lands outside the heap block: the process survives, or malloc finds its *)
(* own data destroyed and aborts.                                          *)
PushTest(t) ==
    /\ t \in Prod /\ At(t, "test")
    /\ \/ /\ q.load >= q.size /\ run
          /\ Goto(t, "block")
          /\ UNCHANGED <<q, mutex, msg>> /\ UnchangedOutside
       \/ /\ ~run
          /\ mutex' = NoThread /\ Goto(t, "sleep")
          /\ UNCHANGED <<q, msg>> /\ UnchangedOutside
       \/ /\ q.load < q.size /\ run
          /\ q' = RingPush(q, msg[t]) /\ Goto(t, "report")
          /\ UNCHANGED <<mutex, msg>> /\ UnchangedOutside
       \/ /\ q.load < q.size /\ run /\ q.tail >= q.size
          /\ pc' = [w \in Workers |-> IF pc[w] = "unborn" THEN "unborn" ELSE "dead"]
          /\ main' = "aborted"
          /\ UNCHANGED <<q, mutex, run, msg, cancelled, handler, signals,
                         newSize, victim, prods, cons>>

(* Mutant: the message is copied but stays in the ring. *)
PopTestCopies(t) ==
    /\ t \in Cons /\ At(t, "test") /\ q.load # 0
    /\ msg' = [msg EXCEPT ![t] = RingFront(q)] /\ Goto(t, "report")
    /\ UNCHANGED <<q, mutex>> /\ UnchangedOutside

(* queue_pop once it has the mutex; a consumer that is told to stop and    *)
(* finds nothing leaves run_consumer with the empty message.               *)
PopTest(t) ==
    /\ t \in Cons /\ At(t, "test")
    /\ \/ /\ q.load = 0 /\ run
          /\ Goto(t, "block")
          /\ UNCHANGED <<q, mutex, msg>>
       \/ /\ q.load = 0 /\ ~run
          /\ mutex' = NoThread /\ Goto(t, "dead")
          /\ UNCHANGED <<q, msg>>
       \/ /\ q.load # 0
          /\ msg' = [msg EXCEPT ![t] = RingFront(q)]
          /\ q' = RingPop(q) /\ Goto(t, "report")
          /\ UNCHANGED mutex
    /\ UnchangedOutside

(* pthread_cond_timedwait gives the mutex up and sleeps in one step. *)
Block(t) ==
    /\ At(t, "block")
    /\ mutex' = NoThread
    /\ Goto(t, "waiting")
    /\ UNCHANGED <<q, msg>> /\ UnchangedOutside

(* The second of pthread_cond_timedwait has passed. *)
Timeout(t) ==
    /\ At(t, "waiting")
    /\ Goto(t, "timedout")
    /\ UNCHANGED <<q, mutex, msg>> /\ UnchangedOutside

(* Mutant: the wait returns without the mutex. *)
ReturnTimedOutUnlocked(t) ==
    /\ At(t, "timedout") /\ run
    /\ Goto(t, "test")
    /\ UNCHANGED <<q, mutex, msg>> /\ UnchangedOutside

(* pthread_cond_timedwait returns ETIMEDOUT, with the mutex: the wait is   *)
(* given up if the program stops, and the condition tested again if not.   *)
ReturnTimedOut(t) ==
    /\ At(t, "timedout") /\ mutex = NoThread
    /\ IF run THEN mutex' = t /\ Goto(t, "test")
              ELSE /\ Goto(t, IF t \in Prod THEN "sleep" ELSE "dead")
                   /\ UNCHANGED mutex
    /\ UNCHANGED <<q, msg>> /\ UnchangedOutside

(* Mutant: no pthread_cond_signal. *)
ReportSilently(t) ==
    /\ At(t, "report")
    /\ Goto(t, "sleep")
    /\ mutex' = NoThread
    /\ UNCHANGED <<q, msg>> /\ UnchangedOutside

(* The printf of a successful push or pop is over: one thread of the other *)
(* kind is woken, if one waits, and the mutex released.                    *)
Report(t) ==
    /\ At(t, "report")
    /\ LET others == WaitingOn(IF t \in Prod THEN Cons ELSE Prod)
       IN  IF others = {} THEN Goto(t, "sleep")
           ELSE \E w \in others :
                  pc' = [pc EXCEPT ![t] = "sleep", ![w] = "woken"]
    /\ mutex' = NoThread
    /\ UNCHANGED <<q, msg>> /\ UnchangedOutside

Sleep(t) ==
    /\ At(t, "sleep")
    /\ Goto(t, "loop")
    /\ UNCHANGED <<q, mutex, msg>> /\ UnchangedOutside

(* A pending cancellation acts where the thread sleeps, waits on its       *)
(* condition variable, or prints.  No cleanup handler is installed: a      *)
(* thread that dies while it prints keeps the mutex.                       *)
ActOnCancel(t) ==
    /\ t \in cancelled
    /\ \/ At(t, "sleep") /\ Goto(t, "dead")
       \/ At(t, "waiting") /\ Goto(t, "unwinding")
       \/ PrintfCancels /\ At(t, "report") /\ Goto(t, "dead")
    /\ UNCHANGED <<q, mutex, msg>> /\ UnchangedOutside

(* A thread cancelled in pthread_cond_timedwait takes the mutex back       *)
(* before it unwinds, and dies with it.                                    *)
Unwind(t) ==
    /\ At(t, "unwinding") /\ mutex = NoThread
    /\ mutex' = t
    /\ Goto(t, "dead")
    /\ UNCHANGED <<q, msg>> /\ UnchangedOutside

WorkerStep(t) == \/ Loop(t) \/ Lock(t) \/ PushTest(t) \/ PopTest(t)
                 \/ Block(t) \/ Timeout(t) \/ ReturnTimedOut(t) \/ Report(t)
                 \/ Sleep(t) \/ ActOnCancel(t) \/ Unwind(t)

-----------------------------------------------------------------------------
(* The signal handler.  The signal flips keep_running before it wants the  *)
(* mutex; the code it interrupted goes on after the handler returns.       *)

Alive(t) == IF t = Main THEN main \notin {"done", "aborted"}
            ELSE pc[t] \notin {"unborn", "dead"}

Signal(t) ==
    /\ signals < MaxSignals
    /\ Alive(t) /\ Executes(t)
    /\ signals' = signals + 1
    /\ run' = FALSE
    /\ handler' = [handler EXCEPT ![t] = "lock"]
    /\ UNCHANGED <<q, mutex, workerVars, mainVars>>

HandlerLock(t) ==
    /\ Alive(t) /\ handler[t] = "lock" /\ mutex = NoThread
    /\ mutex' = t
    /\ handler' = [handler EXCEPT ![t] = "wake"]
    /\ UNCHANGED <<q, run, signals, workerVars, mainVars>>

HandlerWake(t) ==
    /\ Alive(t) /\ handler[t] = "wake"
    /\ WakeAll
    /\ mutex' = NoThread
    /\ handler' = [handler EXCEPT ![t] = "none"]
    /\ UNCHANGED <<q, run, signals, msg, cancelled, prods, cons, mainVars>>

(* global_queue still points to the queue when its mutex is destroyed.     *)
(* Undefined: the lock works once more (HandlerLock), or is refused, and   *)
(* so is what follows it.                                                  *)
HandlerRefused(t) ==
    /\ Alive(t) /\ handler[t] = "lock" /\ main = "exiting"
    /\ handler' = [handler EXCEPT ![t] = "none"]
    /\ UNCHANGED <<q, mutex, run, signals, workerVars, mainVars>>

HandlerStep(t) == HandlerLock(t) \/ HandlerWake(t) \/ HandlerRefused(t)

(* The first thing the handler does is to print: a thread with a           *)
(* cancellation pending dies there, before keep_running is changed, with   *)
(* the mutex if it has it.  In pthread_cond_timedwait it unwinds first, as *)
(* long as the wait itself is not over.                                    *)
SignalLost(t) ==
    /\ PrintfCancels /\ signals < MaxSignals
    /\ t \in cancelled /\ Alive(t) /\ Executes(t)
    /\ \/ pc[t] \notin {"waiting", "unwinding"} /\ Goto(t, "dead")
       \/ pc[t] \in {"waiting", "woken", "timedout"} /\ Goto(t, "unwinding")
    /\ signals' = signals + 1
    /\ UNCHANGED <<q, mutex, run, msg, cancelled, handler, mainVars, prods, cons>>

-----------------------------------------------------------------------------
(* The main thread. *)

MainAt(place) == main = place /\ Executes(Main)

(* The loop head, and the command read within the next second or not. *)
CheckRunning ==
    /\ MainAt("loop")
    /\ main' = IF run THEN "command" ELSE "broadcast"
    /\ UNCHANGED <<q, mutex, run, workerVars, handler, signals, newSize, victim>>

NoCommand ==
    /\ MainAt("command")
    /\ main' = "loop"
    /\ UNCHANGED <<q, mutex, run, workerVars, handler, signals, newSize, victim>>

AddProducer(t) ==
    /\ MainAt("command") /\ t \in Prod /\ pc[t] = "unborn"
    /\ Len(prods) < MaxThreads
    /\ prods' = Append(prods, t)
    /\ Goto(t, "loop")
    /\ main' = "loop"
    /\ UNCHANGED <<q, mutex, run, msg, cancelled, cons, handler, signals,
                   newSize, victim>>

AddConsumer(t) ==
    /\ MainAt("command") /\ t \in Cons /\ pc[t] = "unborn"
    /\ Len(cons) < MaxThreads
    /\ cons' = Append(cons, t)
    /\ Goto(t, "loop")
    /\ main' = "loop"
    /\ UNCHANGED <<q, mutex, run, msg, cancelled, prods, handler, signals,
                   newSize, victim>>

(* Mutant: the size is not checked. *)
ResizeCommandUnchecked(n) ==
    /\ MainAt("command")
    /\ newSize' = n
    /\ main' = "resize"
    /\ UNCHANGED <<q, mutex, run, workerVars, handler, signals, victim>>

(* "+" and "-": the size main passes is checked before the lock, ... *)
ResizeCommand(n) ==
    /\ MainAt("command")
    /\ n \in 1..MaxSize
    /\ newSize' = n
    /\ main' = "resize"
    /\ UNCHANGED <<q, mutex, run, workerVars, handler, signals, victim>>

StatusCommand ==
    /\ MainAt("command")
    /\ main' = "status"
    /\ UNCHANGED <<q, mutex, run, workerVars, handler, signals, newSize, victim>>

MainLock ==
    /\ main \in MainSections /\ Executes(Main)
    /\ mutex = NoThread
    /\ mutex' = Main
    /\ UNCHANGED <<q, run, workerVars, handler, signals, mainVars>>

(* Mutant: the load is not checked. *)
ResizeAnyLoad ==
    /\ MainAt("resize") /\ mutex = Main
    /\ q' = RingResize(q, newSize) /\ WakeAll
    /\ mutex' = NoThread
    /\ newSize' = 0
    /\ main' = "loop"
    /\ UNCHANGED <<run, msg, cancelled, prods, cons, handler, signals, victim>>

(* ... and the load under it; malloc may also fail. *)
Resize ==
    /\ MainAt("resize") /\ mutex = Main
    /\ \/ UNCHANGED <<q, pc>>
       \/ /\ newSize > q.load \/ (ExactShrink /\ newSize = q.load)
          /\ q' = RingResize(q, newSize) /\ WakeAll
    /\ mutex' = NoThread
    /\ newSize' = 0
    /\ main' = "loop"
    /\ UNCHANGED <<run, msg, cancelled, prods, cons, handler, signals, victim>>

Status ==
    /\ MainAt("status") /\ mutex = Main
    /\ mutex' = NoThread
    /\ main' = "loop"
    /\ UNCHANGED <<q, run, workerVars, handler, signals, newSize, victim>>

(* kpl and kcl: the last thread of the table is cancelled, joined and its  *)
(* entry dropped.  In the command loop every entry of a table is active.   *)
KillCommand(table) ==
    /\ MainAt("command") /\ KillCommands
    /\ table # <<>>
    /\ victim' = table[Len(table)]
    /\ cancelled' = cancelled \cup {table[Len(table)]}
    /\ main' = "join"
    /\ UNCHANGED <<q, mutex, run, pc, msg, prods, cons, handler, signals, newSize>>

JoinVictim ==
    /\ MainAt("join") /\ pc[victim] = "dead"
    /\ IF victim \in Prod
         THEN prods' = SubSeq(prods, 1, Len(prods) - 1) /\ UNCHANGED cons
         ELSE cons' = SubSeq(cons, 1, Len(cons) - 1) /\ UNCHANGED prods
    /\ victim' = NoThread
    /\ main' = "loop"
    /\ UNCHANGED <<q, mutex, run, pc, msg, cancelled, handler, signals, newSize>>

(* "q", and then cleanup_all. *)
Quit ==
    /\ MainAt("command")
    /\ run' = FALSE
    /\ main' = "broadcast"
    /\ UNCHANGED <<q, mutex, workerVars, handler, signals, newSize, victim>>

(* Mutants: the broadcast does not take the mutex; it does not release it. *)
BroadcastUnlocked ==
    /\ MainAt("broadcast")
    /\ WakeAll
    /\ main' = "cancel"
    /\ UNCHANGED <<q, mutex, run, msg, cancelled, prods, cons, handler, signals,
                   newSize, victim>>

BroadcastLocked ==
    /\ MainAt("broadcast") /\ mutex = Main
    /\ WakeAll
    /\ main' = "cancel"
    /\ UNCHANGED <<q, mutex, run, msg, cancelled, prods, cons, handler, signals,
                   newSize, victim>>

Broadcast ==
    /\ MainAt("broadcast") /\ mutex = Main
    /\ WakeAll
    /\ mutex' = NoThread
    /\ main' = "cancel"
    /\ UNCHANGED <<q, run, msg, cancelled, prods, cons, handler, signals,
                   newSize, victim>>

InTables == {t \in Workers : \/ \E i \in DOMAIN prods : prods[i] = t
                             \/ \E i \in DOMAIN cons : cons[i] = t}

CancelAll ==
    /\ MainAt("cancel")
    /\ cancelled' = cancelled \cup InTables
    /\ main' = "joinall"
    /\ UNCHANGED <<q, mutex, run, pc, msg, prods, cons, handler, signals,
                   newSize, victim>>

(* Mutant: the threads are cancelled but not joined. *)
JoinAllAtOnce ==
    /\ MainAt("joinall")
    /\ prods' = <<>> /\ cons' = <<>>
    /\ main' = "destroy"
    /\ UNCHANGED <<q, mutex, run, pc, msg, cancelled, handler, signals, newSize,
                   victim>>

JoinAll ==
    /\ MainAt("joinall")
    /\ \A t \in InTables : pc[t] = "dead"
    /\ prods' = <<>> /\ cons' = <<>>
    /\ main' = "destroy"
    /\ UNCHANGED <<q, mutex, run, pc, msg, cancelled, handler, signals, newSize,
                   victim>>

Destroy ==
    /\ MainAt("destroy") /\ mutex = Main
    /\ q' = RingFree(q)
    /\ mutex' = NoThread
    /\ main' = "exiting"
    /\ UNCHANGED <<run, workerVars, handler, signals, newSize, victim>>

Exit ==
    /\ MainAt("exiting")
    /\ main' = "done"
    /\ UNCHANGED <<q, mutex, run, workerVars, handler, signals, newSize, victim>>

(* What the user decides, and what main does once asked. *)
UserStep == \/ NoCommand \/ StatusCommand \/ Quit
            \/ \E t \in Prod : AddProducer(t)
            \/ \E t \in Cons : AddConsumer(t)
            \/ \E n \in {q.size - 1, q.size + 1} : ResizeCommand(n)
            \/ KillCommand(prods) \/ KillCommand(cons)

MainStep == \/ CheckRunning \/ MainLock \/ Resize \/ Status \/ JoinVictim
            \/ Broadcast \/ CancelAll \/ JoinAll \/ Destroy \/ Exit

(* The process has exited, or aborted. *)
Exited == main \in {"done", "aborted"} /\ UNCHANGED vars

Next == \/ UserStep \/ MainStep \/ Exited
        \/ \E t \in Workers : WorkerStep(t) \/ SignalLost(t)
        \/ \E t \in Threads : Signal(t) \/ HandlerStep(t)

Spec == Init /\ [][Next]_vars

(* The scheduler runs every thread that can run.  read_command gives up    *)
(* after a second, so a main thread that gets no command returns to its    *)
(* loop head; that a user ever types "q" is not assumed.                   *)
Fairness == /\ WF_vars(MainStep) /\ WF_vars(NoCommand)
            /\ \A t \in Workers : WF_vars(WorkerStep(t))
            /\ \A t \in Threads : WF_vars(HandlerStep(t))

FairSpec == Spec /\ Fairness

-----------------------------------------------------------------------------
(* Properties. *)

Distinct(s) == \A i, j \in DOMAIN s : s[i] = s[j] => i = j

(* Type correctness of every variable. *)
TypeOK ==
    /\ q \in RingType(MaxSize)
    /\ mutex \in Threads \cup {NoThread}
    /\ run \in BOOLEAN
    /\ pc \in [Workers -> WorkerPlaces]
    /\ msg \in [Workers -> Msg \cup {Garbage}]
    /\ cancelled \subseteq Workers
    /\ handler \in [Threads -> {"none", "lock", "wake"}]
    /\ signals \in Nat
    /\ main \in MainPlaces
    /\ newSize \in 0..MaxSize
    /\ victim \in Workers \cup {NoThread}
    /\ prods \in Seq(Prod)
    /\ cons \in Seq(Cons)

(* Mutual exclusion on q->mutex: whoever is inside a critical section of   *)
(* queue_push, queue_pop or signal_handler is the one owner.               *)
OnlyOwnerInside ==
    /\ \A t \in Workers : pc[t] \in Holding => mutex = t
    /\ \A t \in Threads : handler[t] = "wake" /\ Alive(t) => mutex = t

(* A mutex that outlives its owner: the owner was cancelled (or the        *)
(* process aborted).  No ordinary way out of queue_push or queue_pop       *)
(* leaves q->mutex locked.                                                 *)
OrphanedMutex == mutex \in Workers /\ pc[mutex] = "dead"

OrphanOnlyByCancel ==
    OrphanedMutex /\ main # "aborted" => mutex \in cancelled

(* queue_push, queue_pop and queue_resize keep the ring coherent, as long  *)
(* as no resize has left the tail beyond the block.                        *)
RingCoherent == ~ExactShrink /\ q.size > 0 => RingOK(q)

(* The wakeups suffice: no consumer sleeps on not_empty while there are    *)
(* more messages than threads already on their way to take or announce     *)
(* one, and no producer sleeps on not_full while there are more free slots *)
(* than threads on their way to fill or announce one.  A signal ends the   *)
(* run, or kills a cancelled thread that may have been on its way; then    *)
(* the sleepers are left to their timeouts.                                *)
OnTheirWay(S) == Cardinality({t \in S : pc[t] \in {"woken", "timedout", "test"}})
Announcing(S) == Cardinality({t \in S : pc[t] = "report"})

NoLostWakeup ==
    run /\ signals = 0 /\ ~OrphanedMutex =>
      /\ WaitingOn(Cons) # {} =>
           q.load <= OnTheirWay(Cons) + Announcing(Prod)
      /\ WaitingOn(Prod) # {} =>
           q.size - q.load <= OnTheirWay(Prod) + Announcing(Cons)

(* cleanup_all's broadcast misses nobody: from then on no thread sleeps on *)
(* a condition variable, although keep_running is changed without q->mutex *)
(* and a thread may have tested it just before.                            *)
NobodyWaitsAfterBroadcast ==
    main \in {"cancel", "joinall", "destroy", "exiting", "done"} =>
      \A t \in Workers : pc[t] # "waiting"

(* The ring is freed and the mutex destroyed when no worker is left; only  *)
(* a handler on main may still come to the mutex.                          *)
NoUseAfterDestroy ==
    main \in {"destroy", "exiting", "done"} =>
      \A t \in Workers : pc[t] \in {"unborn", "dead"}

(* What the queue promises its users, with the ring as the channel and the *)
(* popped messages as what the consumers get.                              *)
Fifo == INSTANCE BoundedFifo WITH
          chan <- Contents(q), cap <- q.size,
          offer <- [p \in Prod |-> msg[p]], got <- [c \in Cons |-> msg[c]],
          Nothing <- Garbage, InitCap <- InitSize, MaxCap <- MaxSize

FifoRefinement == Fifo!FifoSpec

(* A program that has been told to stop, by "q" or by a signal, gets       *)
(* through its cleanup and ends, unless a thread died with the mutex, or a *)
(* handler waits for the mutex that the very thread it interrupted holds.  *)
HandlerOnOwner == \E t \in Threads : handler[t] = "lock" /\ mutex = t

StopTerminates ==
    ~run ~> (main \in {"done", "aborted"} \/ OrphanedMutex \/ HandlerOnOwner)
=============================================================================
