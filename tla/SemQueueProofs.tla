--------------------------- MODULE SemQueueProofs ---------------------------
(***************************************************************************)
(* Proofs about SemQueue, for any finite number of children, any size of   *)
(* the ring and any number of signals.                                     *)
(*                                                                         *)
(* The slots: which children have taken their slot is known from where     *)
(* they are, except for those that are about to give up or have died       *)
(* (HoldInv); hence no V operation gives back what was not taken.  The     *)
(* mutex: as long as no SIGTERM has thrown a child out of its wait for     *)
(* SEM_MUTEX, whoever is between P and V has the only token (LockInv).     *)
(* The ring: every token of FULL stands for a message that is really       *)
(* there, and every token of EMPTY for a free slot, be the token in the    *)
(* semaphore or in the hands of a child (RingInv).  These are inequalities *)
(* because SIGKILL makes tokens, messages and free slots disappear.        *)
(***************************************************************************)
EXTENDS SemQueue, MessageRingProofs, FiniteSetTheorems, SequenceTheorems

(* A ring of the right size; nothing is said about its load. *)
Shape(r) == /\ r \in RingType(QueueSize)
            /\ r.size = QueueSize
            /\ r.buffer \in [0..QueueSize-1 -> Msg \cup {Garbage}]
            /\ r.head \in 0..QueueSize-1 /\ r.tail \in 0..QueueSize-1

TypeInv == TypeOK /\ Shape(q) /\ \A t \in Procs : Shape(seen[t])

NoSlot == {"unborn", "loop", "wantSlot", "asleepSlot", "sleep"}
HasSlot == {"wantMutex", "asleepMutex", "inside", "unlock", "announce"}

HoldInv ==
    \A t \in Procs :
      /\ holds[t] \subseteq {Takes(t), "mutex"}
      /\ pc[t] \in NoSlot => Takes(t) \notin holds[t]
      /\ pc[t] \in HasSlot => Takes(t) \in holds[t]
      /\ pc[t] = "check" /\ running[t] => Takes(t) \in holds[t]

InSection(t) == pc[t] \in {"inside", "unlock"}

LockInv ==
    ~barged =>
      /\ sem["mutex"] \in {0, 1}
      /\ \A t, u \in Procs : InSection(t) /\ InSection(u) => t = u
      /\ \A t \in Procs : InSection(t) => sem["mutex"] = 0

(* The children that have a token in their hands which a message (or a     *)
(* free slot) in the ring stands behind: taken and not yet used, or made   *)
(* and not yet given.                                                      *)
Owes(token, t) ==
    \/ /\ Takes(t) = token /\ token \in holds[t]
       /\ pc[t] \in {"check", "wantMutex", "asleepMutex", "inside"}
    \/ Gives(t) = token /\ pc[t] \in {"unlock", "announce"}

Owing(token) == {t \in Procs : Owes(token, t)}

MsgInv ==
    \A t \in Prod :
      pc[t] \in {"wantSlot", "asleepSlot", "check", "wantMutex", "asleepMutex",
                 "inside"} => msg[t] \in Msg

CountInv == /\ q.load >= sem["full"] + Cardinality(Owing("full"))
            /\ QueueSize - q.load >= sem["empty"] + Cardinality(Owing("empty"))

RingInv == /\ MsgInv
           /\ ~barged => /\ CountInv
                         /\ RingOK(q)
                         /\ \A t \in Inside : seen[t] = q

-----------------------------------------------------------------------------
(* Tokens and children. *)

(* Takes and Gives are two different tokens of a child, neither of them    *)
(* the mutex, and no token is given by the children that take it.          *)
LEMMA TakesGives ==
    ASSUME NEW t \in Procs
    PROVE  /\ Takes(t) \in {"empty", "full"} /\ Gives(t) \in {"empty", "full"}
           /\ Takes(t) # Gives(t)
           /\ Takes(t) # "mutex" /\ Gives(t) # "mutex"
BY DEF Takes, Gives

(* What a step may do to the children: nothing, one step of one child,     *)
(* SIGTERM to some, a birth or a kill.                                     *)
Idle == UNCHANGED <<childVars, running, pc>>

Born(t) == /\ pc[t] = "unborn" /\ Goto(t, "loop")
           /\ running' = [running EXCEPT ![t] = parentRuns]
           /\ UNCHANGED childVars

Killed(t) == Goto(t, "dead") /\ UNCHANGED <<childVars, running>>

Move == \/ Idle
        \/ \E t \in Procs : ChildStep(t) \/ Born(t) \/ Killed(t)
        \/ \E S \in SUBSET Procs : Interrupted(S)

(* A move that kills nobody. *)
Gentle == \/ Idle
          \/ \E t \in Procs : ChildStep(t) \/ Born(t)
          \/ \E S \in SUBSET Procs : Interrupted(S)

(* Every step is such a move, or the parent's SIGKILL. *)
LEMMA StepKinds ==
    ASSUME TypeInv, [Next]_vars PROVE Gentle \/ \E t \in Procs : ForceKill(t)
<1>1. CASE UNCHANGED vars
  BY <1>1 DEF vars, childVars, Gentle, Idle
<1>2. CASE \E t \in Procs : ChildStep(t)
  BY <1>2 DEF Gentle
<1>3. ASSUME NEW t \in Procs, Signal(t) PROVE Gentle
  BY <1>3 DEF Signal, Gentle
<1>4. CASE CtrlC
  BY <1>4 DEF CtrlC, Gentle
<1>8. CASE TermParent
  BY <1>8 DEF TermParent, Gentle, Idle
<1>5. CASE Command
  <2>1. CASE OtherCommand \/ Quit
    BY <2>1 DEF OtherCommand, Quit, UnchangedByParent, Gentle, Idle
  <2>2. ASSUME NEW t \in Procs, Fork(t) PROVE Gentle
    BY <2>2 DEF Fork, Gentle, Born
  <2>3. ASSUME NEW table \in Seq(Procs), KillLast(table) PROVE Gentle
    <3>1. victim' \in Procs
      BY <2>3 DEF KillLast
    <3>2. CASE Interrupted({victim'})
      BY <3>1, <3>2 DEF Gentle
    <3>3. CASE UNCHANGED <<childVars, running, pc>>
      BY <3>3 DEF Gentle, Idle
    <3> QED
      BY <2>3, <3>2, <3>3 DEF KillLast
  <2>4. prods \in Seq(Procs) /\ cons \in Seq(Procs)
    BY DEF TypeInv, TypeOK, Procs
  <2> QED
    BY <1>5, <2>1, <2>2, <2>3, <2>4 DEF Command
<1>6. CASE ParentStep
  <2>1. CASE CheckRunning \/ Reap \/ Destroy
    BY <2>1 DEF CheckRunning, Reap, Destroy, UnchangedByParent, Gentle, Idle
  <2>2. ASSUME NEW from, NEW table, NEW to, Stop(from, table, to) PROVE Gentle
    <3>1. Interrupted({t \in InTable(table) : Alive(t)})
      BY <2>2 DEF Stop
    <3>2. {t \in InTable(table) : Alive(t)} \in SUBSET Procs
      BY DEF InTable
    <3> QED
      BY <3>1, <3>2 DEF Gentle
  <2> QED
    BY <1>6, <2>1, <2>2 DEF ParentStep
<1>7. CASE Exited
  BY <1>7 DEF Exited, vars, childVars, Gentle, Idle
<1> QED
  BY <1>1, <1>2, <1>3, <1>4, <1>5, <1>6, <1>7, <1>8 DEF Next

(* Every step is a move of the children. *)
LEMMA EveryStepMoves ==
    ASSUME TypeInv, [Next]_vars PROVE Move
<1>1. CASE Gentle
  BY <1>1 DEF Gentle, Move
<1>2. CASE \E t \in Procs : ForceKill(t)
  BY <1>2 DEF ForceKill, UnchangedByParent, Move, Killed
<1> QED
  BY <1>1, <1>2, StepKinds

(* Until the parent kills, nobody is killed; and then it only ends. *)
LEMMA GentleUntilKilling ==
    ASSUME TypeInv, [Next]_vars, main' \notin {"kill", "done"}
    PROVE  Gentle /\ main \notin {"kill", "done"}
<1>1. ASSUME NEW t \in Procs, ForceKill(t) PROVE FALSE
  BY <1>1 DEF ForceKill
<1>2. ASSUME main \in {"kill", "done"} PROVE FALSE
  <2>1. CASE UNCHANGED main
    BY <1>2, <2>1
  <2>2. CASE Destroy
    BY <2>2 DEF Destroy
  <2>3. UNCHANGED main \/ Destroy
    BY <1>2 DEF Next, vars, ChildStep, Loop, TakeSlot, Check, TakeMutex, FallAsleep, Push, Pop,
                Unlock, Announce, Sleep, UnchangedOutside, Signal, CtrlC, TermParent, Command,
                OtherCommand, Quit, KillLast, Fork, ParentStep, CheckRunning, Reap, Stop,
                ForceKill, Exited
  <2> QED
    BY <2>1, <2>2, <2>3
<1> QED
  BY <1>1, <1>2, StepKinds

-----------------------------------------------------------------------------
(* Type correctness. *)

RingTypes == /\ q \in RingType(QueueSize) /\ Shape(q)
             /\ seen \in [Procs -> RingType(QueueSize)]
             /\ \A t \in Procs : Shape(seen[t])
             /\ msg \in [Procs -> Msg \cup {Garbage}]

ProcTypes == /\ sem \in [Tokens -> Nat]
             /\ running \in [Procs -> BOOLEAN]
             /\ pc \in [Procs -> Places]
             /\ holds \in [Procs -> SUBSET Tokens]
             /\ barged \in BOOLEAN

MainTypes == /\ parentRuns \in BOOLEAN
             /\ main \in {"loop", "command", "waitpid", "stopProducers",
                           "stopConsumers", "kill", "done"}
             /\ victim \in Procs \cup {NoProc}
             /\ prods \in Seq(Prod) /\ cons \in Seq(Cons)
             /\ signals \in 0..MaxSignals

(* TypeInv is the conjunction of the three. *)
LEMMA TypeParts == TypeInv <=> RingTypes /\ ProcTypes /\ MainTypes
BY DEF TypeInv, TypeOK, RingTypes, ProcTypes, MainTypes

(* An empty ring of n slots has the right shape. *)
LEMMA NewRingShape == Shape(NewRing(QueueSize))
<1>1. QueueSize \in Nat \ {0}
  BY SemAssumption
<1>2. NewRing(QueueSize).buffer \in [0..QueueSize-1 -> Msg \cup {Garbage}]
  BY DEF NewRing
<1>3. NewRing(QueueSize).buffer \in Buffers(QueueSize)
  BY <1>1, <1>2 DEF Buffers
<1> QED
  BY <1>1, <1>2, <1>3 DEF Shape, RingType, NewRing

(* The initial state is type correct. *)
LEMMA InitTypes == Init => TypeInv
<1> SUFFICES ASSUME Init PROVE TypeInv
  OBVIOUS
<1>1. RingTypes
  BY NewRingShape DEF Init, RingTypes, Shape
<1>2. ProcTypes
  <2>1. sem \in [Tokens -> Nat]
    BY SemAssumption DEF Init, Tokens
  <2>2. "unborn" \in Places
    BY DEF Places
  <2> QED
    BY <2>1, <2>2 DEF Init, ProcTypes
<1>3. MainTypes
  BY SemAssumption DEF Init, MainTypes
<1> QED
  BY <1>1, <1>2, <1>3, TypeParts

(* The next place in the ring. *)
LEMMA NextPlace ==
    ASSUME NEW i \in 0..QueueSize-1
    PROVE  (i + 1) % QueueSize \in 0..QueueSize-1
BY SemAssumption

(* What push stores, from whatever ring it has seen. *)
LEMMA PushTypes ==
    ASSUME RingTypes, NEW t \in Procs, Push(t) PROVE RingTypes'
<1> DEFINE r == seen[t]
<1>1. Shape(q) /\ Shape(r) /\ msg[t] \in Msg \cup {Garbage}
  BY DEF RingTypes
<1>2. UNCHANGED <<seen, msg>>
  BY DEF Push
<1>3. /\ r.head \in Nat /\ r.tail \in Nat /\ r.added \in Nat /\ r.load \in Int
      /\ r.size = QueueSize /\ r.tail \in 0..QueueSize-1 /\ r = Fields(r)
  BY <1>1, RingFields DEF Shape
<1>4. (r.tail + 1) % QueueSize \in 0..QueueSize-1
  BY <1>3, NextPlace
<1>5. /\ q.extracted \in Nat /\ q.head \in 0..QueueSize-1 /\ q.size = QueueSize
      /\ q.buffer \in [0..QueueSize-1 -> Msg \cup {Garbage}] /\ q = Fields(q)
  BY <1>1, RingFields DEF Shape
<1> DEFINE new == RingPush(r, msg[t])
           b == [q.buffer EXCEPT ![r.tail] = msg[t]]
           t1 == new.tail
           a1 == new.added
           l1 == new.load
<1>6. q' = [q EXCEPT !.buffer = b, !.tail = t1, !.added = a1, !.load = l1]
  BY DEF Push
<1>7. t1 = (r.tail + 1) % QueueSize /\ a1 = r.added + 1 /\ l1 = r.load + 1
  BY <1>3, PushFields
<1>8. b \in [0..QueueSize-1 -> Msg \cup {Garbage}]
  BY <1>1, <1>5
<1> HIDE DEF b, t1, a1, l1, r
<1>9. /\ q'.head = q.head /\ q'.size = q.size /\ q'.extracted = q.extracted
      /\ q'.tail = t1 /\ q'.added = a1 /\ q'.load = l1
      /\ q'.buffer = b /\ q' = Fields(q')
  <2>1. q = Fields(q)
    BY <1>5
  <2>2. q' = [buffer |-> b, head |-> q.head, tail |-> t1, added |-> a1,
              extracted |-> q.extracted, load |-> l1, size |-> q.size]
    BY <1>6, <2>1, Zenon DEF Fields
  <2> QED
    BY <2>2, RecordFields
<1>10. QueueSize \in Nat /\ QueueSize \in 0..QueueSize
  BY SemAssumption
<1>11. q' \in RingType(QueueSize)
  <2>1. q'.buffer \in Buffers(QueueSize)
    BY <1>8, <1>9, <1>10, IsBuffer
  <2>2. q'.head \in Nat /\ q'.tail \in Nat
    BY <1>4, <1>5, <1>7, <1>9, <1>10
  <2>3. a1 \in Nat /\ l1 \in Int
    BY <1>3, <1>7
  <2>4. q'.size \in 0..QueueSize /\ q'.extracted \in Nat
    BY <1>5, <1>9, <1>10
  <2>5. q'.added \in Nat /\ q'.load \in Int
    BY <2>3, <1>9
  <2> QED
    BY <2>1, <2>2, <2>4, <2>5, <1>9, IsRing
<1>12. Shape(q')
  BY <1>4, <1>5, <1>7, <1>8, <1>9, <1>11 DEF Shape
<1> QED
  BY <1>2, <1>11, <1>12 DEF RingTypes

(* What pop stores, from whatever ring it has seen. *)
LEMMA PopTypes ==
    ASSUME RingTypes, NEW t \in Procs, Pop(t) PROVE RingTypes'
<1> DEFINE r == seen[t]
<1>1. Shape(q) /\ Shape(r)
  BY DEF RingTypes
<1>2. msg' = [msg EXCEPT ![t] = r.buffer[r.head]] /\ UNCHANGED seen
  BY DEF Pop, RingFront
<1>3. /\ r.extracted \in Nat /\ r.load \in Int /\ r.size = QueueSize
      /\ r.head \in 0..QueueSize-1 /\ r = Fields(r)
      /\ r.buffer \in [0..QueueSize-1 -> Msg \cup {Garbage}]
  BY <1>1, RingFields DEF Shape
<1>4. (r.head + 1) % QueueSize \in 0..QueueSize-1
  BY <1>3, NextPlace
<1>5. /\ q.added \in Nat /\ q.tail \in 0..QueueSize-1 /\ q.size = QueueSize
      /\ q.buffer \in [0..QueueSize-1 -> Msg \cup {Garbage}] /\ q = Fields(q)
  BY <1>1, RingFields DEF Shape
<1> DEFINE new == RingPop(r)
           h1 == new.head
           e1 == new.extracted
           l1 == new.load
<1>6. q' = [q EXCEPT !.head = h1, !.extracted = e1, !.load = l1]
  BY DEF Pop
<1>7. h1 = (r.head + 1) % QueueSize /\ e1 = r.extracted + 1 /\ l1 = r.load - 1
  BY <1>3, PopFields
<1>8. r.buffer[r.head] \in Msg \cup {Garbage}
  BY <1>3
<1> HIDE DEF h1, e1, l1, r
<1>9. /\ q'.buffer = q.buffer /\ q'.size = q.size /\ q'.tail = q.tail /\ q'.added = q.added
      /\ q'.head = h1 /\ q'.extracted = e1 /\ q'.load = l1 /\ q' = Fields(q')
  <2>1. q = Fields(q)
    BY <1>5
  <2>2. q' = [buffer |-> q.buffer, head |-> h1, tail |-> q.tail, added |-> q.added,
              extracted |-> e1, load |-> l1, size |-> q.size]
    BY <1>6, <2>1, Zenon DEF Fields
  <2> QED
    BY <2>2, RecordFields
<1>10. QueueSize \in Nat /\ QueueSize \in 0..QueueSize
  BY SemAssumption
<1>11. q' \in RingType(QueueSize)
  <2>1. q'.buffer \in Buffers(QueueSize)
    BY <1>5, <1>9, <1>10, IsBuffer
  <2>2. q'.head \in Nat /\ q'.tail \in Nat
    BY <1>4, <1>5, <1>7, <1>9, <1>10
  <2>3. e1 \in Nat /\ l1 \in Int
    BY <1>3, <1>7
  <2>4. q'.size \in 0..QueueSize /\ q'.added \in Nat
    BY <1>5, <1>9, <1>10
  <2>5. q'.extracted \in Nat /\ q'.load \in Int
    BY <2>3, <1>9
  <2> QED
    BY <2>1, <2>2, <2>4, <2>5, <1>9, IsRing
<1>12. Shape(q')
  BY <1>4, <1>5, <1>7, <1>9, <1>11 DEF Shape
<1>13. msg' \in [Procs -> Msg \cup {Garbage}]
  BY <1>2, <1>8 DEF RingTypes
<1> QED
  BY <1>2, <1>11, <1>12, <1>13 DEF RingTypes

(* What a child or a signal may do to the ring, to what the children have  *)
(* seen of it, and to their messages, apart from push and pop.             *)
LEMMA OtherRingTypes ==
    ASSUME RingTypes, UNCHANGED q,
           \/ UNCHANGED seen
           \/ \E u \in Procs : seen' = [seen EXCEPT ![u] = q]
           \/ \E S \in SUBSET Procs :
                seen' = [t \in Procs |-> IF t \in S THEN q ELSE seen[t]],
           UNCHANGED msg
             \/ \E t \in Procs, m \in Msg : msg' = [msg EXCEPT ![t] = m]
    PROVE  RingTypes'
<1>1. q \in RingType(QueueSize) /\ Shape(q)
  BY DEF RingTypes
<1>2. \A t \in Procs : seen'[t] = q \/ seen'[t] = seen[t]
  BY DEF RingTypes
<1>3. seen' \in [Procs -> RingType(QueueSize)]
  BY <1>1 DEF RingTypes
<1>4. \A t \in Procs : Shape(seen'[t])
  BY <1>1, <1>2 DEF RingTypes
<1>5. msg' \in [Procs -> Msg \cup {Garbage}]
  BY DEF RingTypes
<1>6. Shape(q')
  BY <1>1
<1> QED
  BY <1>1, <1>3, <1>4, <1>5, <1>6 DEF RingTypes

(* The ring, and what was seen of it, keep their shape. *)
LEMMA MoveRingTypes == ASSUME RingTypes, Move PROVE RingTypes'
<1>1. CASE Idle
  BY <1>1, OtherRingTypes DEF Idle, childVars
<1>2. ASSUME NEW t \in Procs, Born(t) \/ Killed(t) PROVE RingTypes'
  BY <1>2, OtherRingTypes DEF Born, Killed, childVars
<1>3. ASSUME NEW S \in SUBSET Procs, Interrupted(S) PROVE RingTypes'
  <2> DEFINE R == {t \in S : pc[t] = "asleepMutex"}
  <2>1. R \in SUBSET Procs
    OBVIOUS
  <2>2. seen' = [t \in Procs |-> IF t \in R THEN q ELSE seen[t]]
    BY <1>3 DEF Interrupted
  <2>3. UNCHANGED <<q, msg>>
    BY <1>3 DEF Interrupted
  <2> QED
    BY <2>1, <2>2, <2>3, OtherRingTypes
<1>4. ASSUME NEW t \in Procs, ChildStep(t) PROVE RingTypes'
  <2>1. CASE Loop(t)
    BY <2>1, OtherRingTypes DEF Loop
  <2>2. CASE TakeSlot(t) \/ Check(t) \/ Sleep(t)
    BY <2>2, OtherRingTypes DEF TakeSlot, Check, Sleep, childVars
  <2>3. CASE TakeMutex(t)
    BY <2>3, OtherRingTypes DEF TakeMutex
  <2>4. CASE \/ FallAsleep(t, Takes(t), "wantSlot", "asleepSlot")
             \/ FallAsleep(t, "mutex", "wantMutex", "asleepMutex")
    BY <2>4, OtherRingTypes DEF FallAsleep, childVars
  <2>5. CASE Push(t)
    BY <2>5, PushTypes
  <2>6. CASE Pop(t)
    BY <2>6, PopTypes
  <2>7. ASSUME NEW token, NEW spent, NEW to, Give(t, token, spent, to),
               UNCHANGED <<q, msg>>
        PROVE  RingTypes'
    <3>1. \/ UNCHANGED seen
          \/ \E u \in Procs : seen' = [seen EXCEPT ![u] = q]
      BY <2>7 DEF Give, Sleepers
    <3> QED
      BY <2>7, <3>1, OtherRingTypes
  <2>8. CASE Unlock(t) \/ Announce(t)
    BY <2>7, <2>8 DEF Unlock, Announce
  <2> QED
    BY <1>4, <2>1, <2>2, <2>3, <2>4, <2>5, <2>6, <2>8 DEF ChildStep
<1> QED
  BY <1>1, <1>2, <1>3, <1>4 DEF Move

(* Semaphores, places and tokens in hands keep their types. *)
LEMMA MoveProcTypes ==
    ASSUME ProcTypes, parentRuns \in BOOLEAN, Move PROVE ProcTypes'
<1>0. Places = {"unborn", "loop", "wantSlot", "check", "wantMutex", "inside",
                "unlock", "announce", "sleep", "dead", "asleepSlot", "asleepMutex"}
  BY DEF Places, Asleep
<1>1. CASE Idle
  BY <1>1 DEF Idle, childVars, ProcTypes
<1>2. ASSUME NEW t \in Procs, Born(t) \/ Killed(t) PROVE ProcTypes'
  BY <1>0, <1>2 DEF Born, Killed, Goto, childVars, ProcTypes
<1>3. ASSUME NEW S \in SUBSET Procs, Interrupted(S) PROVE ProcTypes'
  <2>1. running' \in [Procs -> BOOLEAN]
    BY <1>3, Zenon DEF Interrupted, ProcTypes
  <2>2. pc' \in [Procs -> Places]
    BY <1>0, <1>3 DEF Interrupted, ProcTypes
  <2>3. barged' \in BOOLEAN
    BY <1>3, Zenon DEF Interrupted, ProcTypes
  <2> QED
    BY <1>3, <2>1, <2>2, <2>3 DEF Interrupted, ProcTypes
<1>4. ASSUME NEW t \in Procs, ChildStep(t) PROVE ProcTypes'
  <2>0. Takes(t) \in Tokens /\ Gives(t) \in Tokens /\ "mutex" \in Tokens
    BY DEF Takes, Gives, Tokens
  <2>1. CASE Loop(t) \/ Check(t) \/ Push(t) \/ Pop(t) \/ Sleep(t)
    BY <1>0, <2>1
       DEF Loop, Check, Push, Pop, Sleep, Goto, UnchangedOutside, childVars, ProcTypes
  <2>2. CASE TakeSlot(t) \/ TakeMutex(t)
    <3>1. PICK token \in Tokens, from \in Places, to \in Places :
               Take(t, token, from, to)
      BY <1>0, <2>0, <2>2 DEF TakeSlot, TakeMutex
    <3>2. UNCHANGED <<running, barged>>
      BY <2>2 DEF TakeSlot, TakeMutex, UnchangedOutside
    <3>3. sem' \in [Tokens -> Nat]
      BY <3>1 DEF Take, ProcTypes
    <3>4. pc' \in [Procs -> Places] /\ holds' \in [Procs -> SUBSET Tokens]
      BY <3>1 DEF Take, Goto, ProcTypes
    <3> QED
      BY <3>2, <3>3, <3>4 DEF ProcTypes
  <2>3. CASE \/ FallAsleep(t, Takes(t), "wantSlot", "asleepSlot")
             \/ FallAsleep(t, "mutex", "wantMutex", "asleepMutex")
    BY <1>0, <2>3 DEF FallAsleep, Goto, UnchangedOutside, childVars, ProcTypes
  <2>4. CASE Unlock(t) \/ Announce(t)
    <3>1. PICK token \in Tokens, spent \in Tokens, to \in Places :
               Give(t, token, spent, to)
      BY <1>0, <2>0, <2>4 DEF Unlock, Announce
    <3>2. UNCHANGED <<running, barged>>
      BY <2>4 DEF Unlock, Announce, UnchangedOutside
    <3>3. sem' \in [Tokens -> Nat]
      BY <3>1 DEF Give, ProcTypes
    <3>4. pc' \in [Procs -> Places]
      BY <1>0, <3>1 DEF Give, Goto, Sleepers, ProcTypes
    <3>5. holds' \in [Procs -> SUBSET Tokens]
      BY <3>1 DEF Give, Sleepers, ProcTypes
    <3> QED
      BY <3>2, <3>3, <3>4, <3>5 DEF ProcTypes
  <2> QED
    BY <1>4, <2>1, <2>2, <2>3, <2>4 DEF ChildStep
<1> QED
  BY <1>1, <1>2, <1>3, <1>4 DEF Move

(* A table without its last or its first entry is a table. *)
LEMMA ShorterTable ==
    ASSUME NEW P, NEW table \in Seq(P)
    PROVE  /\ SubSeq(table, 1, Len(table) - 1) \in Seq(P)
           /\ table # <<>> => /\ Tail(table) \in Seq(P)
                              /\ table[Len(table)] \in P
<1>1. SubSeq(table, 1, Len(table) - 1) \in Seq(P)
  BY SubSeqProperties
<1>2. ASSUME table # <<>> PROVE Tail(table) \in Seq(P) /\ table[Len(table)] \in P
  BY <1>2
<1> QED
  BY <1>1, <1>2

(* The parent's variables keep their types. *)
LEMMA NextMainTypes == ASSUME TypeInv, [Next]_vars PROVE MainTypes'
<1>0. MainTypes
  BY TypeParts
<1>1. CASE UNCHANGED vars
  BY <1>0, <1>1 DEF vars, tableVars, MainTypes
<1>2. ASSUME NEW t \in Procs, ChildStep(t) PROVE MainTypes'
  <2>1. UNCHANGED <<parentRuns, main, tableVars, signals>>
    BY <1>2
       DEF ChildStep, Loop, TakeSlot, Check, TakeMutex, FallAsleep, Push, Pop, Unlock,
           Announce, Sleep, UnchangedOutside
  <2> QED
    BY <1>0, <2>1 DEF MainTypes, tableVars
<1>3. ASSUME NEW t \in Procs, Signal(t) PROVE MainTypes'
  BY <1>0, <1>3, SemAssumption DEF Signal, MainTypes, tableVars
<1>4. CASE CtrlC
  <2>1. signals' \in 0..MaxSignals
    BY <1>0, <1>4, SemAssumption DEF CtrlC, MainTypes
  <2>2. parentRuns' = FALSE /\ UNCHANGED <<main, tableVars>>
    BY <1>4 DEF CtrlC
  <2> QED
    BY <1>0, <2>1, <2>2 DEF MainTypes, tableVars
<1>8. CASE TermParent
  <2>1. signals' \in 0..MaxSignals
    BY <1>0, <1>8, SemAssumption DEF TermParent, MainTypes
  <2>2. parentRuns' = FALSE /\ UNCHANGED <<main, tableVars>>
    BY <1>8 DEF TermParent
  <2> QED
    BY <1>0, <2>1, <2>2 DEF MainTypes, tableVars
<1>5. CASE Command
  <2>1. CASE OtherCommand \/ Quit
    BY <1>0, <2>1 DEF OtherCommand, Quit, UnchangedByParent, MainTypes, tableVars
  <2>2. ASSUME NEW t \in Procs, Fork(t) PROVE MainTypes'
    <3>1. prods' \in Seq(Prod) /\ cons' \in Seq(Cons)
      <4>1. CASE t \in Prod
        BY <1>0, <2>2, <4>1 DEF Fork, MainTypes
      <4>2. CASE t \notin Prod
        BY <1>0, <2>2, <4>2 DEF Fork, MainTypes, Procs
      <4> QED
        BY <4>1, <4>2
    <3> QED
      BY <1>0, <2>2, <3>1 DEF Fork, MainTypes
  <2>3. ASSUME NEW table \in Seq(Procs), KillLast(table) PROVE MainTypes'
    <3>1. victim' \in Procs
      BY <2>3, ShorterTable DEF KillLast
    <3> QED
      BY <1>0, <2>3, <3>1 DEF KillLast, MainTypes
  <2>4. prods \in Seq(Procs) /\ cons \in Seq(Procs)
    BY <1>0 DEF MainTypes, Procs
  <2> QED
    BY <1>5, <2>1, <2>2, <2>3, <2>4 DEF Command
<1>6. CASE ParentStep
  <2>1. CASE CheckRunning \/ Destroy
    BY <1>0, <2>1 DEF CheckRunning, Destroy, UnchangedByParent, MainTypes, tableVars
  <2>2. CASE Reap
    <3>1. prods' \in Seq(Prod) /\ cons' \in Seq(Cons)
      BY <1>0, <2>2, ShorterTable DEF Reap, MainTypes
    <3> QED
      BY <1>0, <2>2, <3>1 DEF Reap, UnchangedByParent, MainTypes
  <2>3. CASE \/ Stop("stopProducers", prods, "stopConsumers")
             \/ Stop("stopConsumers", cons, "kill")
    BY <1>0, <2>3 DEF Stop, MainTypes, tableVars
  <2>4. ASSUME NEW t \in Procs, ForceKill(t) PROVE MainTypes'
    <3>1. t \in Prod => prods # <<>>
      <4>1. ASSUME t \in Prod, prods = <<>> PROVE FALSE
        <5>1. t \in InTable(cons)
          BY <2>4, <4>1 DEF ForceKill, InTable
        <5>2. t \in Cons
          BY <1>0, <5>1 DEF InTable, MainTypes
        <5> QED
          BY <4>1, <5>2, SemAssumption
      <4> QED
        BY <4>1
    <3>2. t \in Cons => cons # <<>>
      <4>1. ASSUME t \in Cons, cons = <<>> PROVE FALSE
        <5>1. t \in InTable(prods)
          BY <2>4, <4>1 DEF ForceKill, InTable
        <5>2. t \in Prod
          BY <1>0, <5>1 DEF InTable, MainTypes
        <5> QED
          BY <4>1, <5>2, SemAssumption
      <4> QED
        BY <4>1
    <3>3. prods' \in Seq(Prod) /\ cons' \in Seq(Cons)
      BY <1>0, <2>4, <3>1, <3>2, ShorterTable DEF ForceKill, MainTypes
    <3> QED
      BY <1>0, <2>4, <3>3 DEF ForceKill, UnchangedByParent, MainTypes
  <2> QED
    BY <1>6, <2>1, <2>2, <2>3, <2>4 DEF ParentStep
<1>7. CASE Exited
  BY <1>0, <1>7 DEF Exited, vars, tableVars, MainTypes
<1> QED
  BY <1>1, <1>2, <1>3, <1>4, <1>5, <1>6, <1>7, <1>8 DEF Next

(* One step keeps all types. *)
LEMMA StepTypes == ASSUME TypeInv, [Next]_vars PROVE TypeInv'
<1>1. RingTypes /\ ProcTypes /\ MainTypes
  BY TypeParts
<1>2. Move
  BY EveryStepMoves
<1>3. RingTypes'
  BY <1>1, <1>2, MoveRingTypes
<1>4. ProcTypes'
  BY <1>1, <1>2, MoveProcTypes DEF MainTypes
<1>5. MainTypes'
  BY NextMainTypes
<1> QED
  BY <1>3, <1>4, <1>5 DEF TypeInv, TypeOK, RingTypes, ProcTypes, MainTypes

(* Type correctness: the indices of the ring stay inside its block, and no *)
(* semaphore falls below zero, whatever the signals do.                    *)
THEOREM TypeCorrect == Spec => []TypeOK
<1>1. TypeInv /\ [Next]_vars => TypeInv'
  BY StepTypes
<1>2. TypeInv => TypeOK
  BY DEF TypeInv
<1> QED
  BY InitTypes, <1>1, <1>2, PTL DEF Spec

-----------------------------------------------------------------------------
(* Who has the slots. *)

(* The initial state satisfies HoldInv. *)
LEMMA InitHold == Init => HoldInv
BY TakesGives DEF Init, HoldInv, HasSlot

(* A step of a child or a signal leaves it known who has a slot. *)
LEMMA StepHold == ASSUME ProcTypes, HoldInv, Move PROVE HoldInv'
<1> USE DEF NoSlot, HasSlot
<1>1. CASE Idle
  BY <1>1 DEF Idle, childVars, HoldInv
<1>2. ASSUME NEW t \in Procs, Born(t) \/ Killed(t) PROVE HoldInv'
  BY <1>2 DEF Born, Killed, Goto, childVars, HoldInv, ProcTypes
<1>3. ASSUME NEW S \in SUBSET Procs, Interrupted(S) PROVE HoldInv'
  <2>1. UNCHANGED holds
    BY <1>3 DEF Interrupted
  <2>2. ASSUME NEW u \in Procs
        PROVE  /\ running'[u] => running[u]
               /\ pc'[u] \in NoSlot => pc[u] \in NoSlot
               /\ pc'[u] \in HasSlot => pc[u] \in HasSlot
               /\ pc'[u] = "check" /\ running'[u] => pc[u] = "check"
    BY <1>3 DEF Interrupted
  <2> QED
    BY <2>1, <2>2 DEF HoldInv
<1>4. ASSUME NEW t \in Procs, ChildStep(t) PROVE HoldInv'
  <2>0. Takes(t) # Gives(t) /\ Takes(t) # "mutex" /\ Gives(t) # "mutex"
    BY TakesGives
  <2>1. CASE Loop(t) \/ Check(t) \/ Push(t) \/ Pop(t) \/ Sleep(t)
    BY <2>1
       DEF Loop, Check, Push, Pop, Sleep, Goto, UnchangedOutside, childVars, ProcTypes,
           HoldInv
  <2>2. CASE TakeSlot(t) \/ TakeMutex(t)
    BY <2>0, <2>2
       DEF TakeSlot, TakeMutex, Take, Goto, UnchangedOutside, ProcTypes, HoldInv
  <2>3. CASE \/ FallAsleep(t, Takes(t), "wantSlot", "asleepSlot")
             \/ FallAsleep(t, "mutex", "wantMutex", "asleepMutex")
    BY <2>3 DEF FallAsleep, Goto, UnchangedOutside, childVars, ProcTypes, HoldInv
  <2>4. CASE Unlock(t)
    BY <2>0, <2>4, TakesGives
       DEF Unlock, Give, Sleepers, Goto, UnchangedOutside, ProcTypes, HoldInv
  <2>5. CASE Announce(t)
    BY <2>0, <2>5, TakesGives
       DEF Announce, Give, Sleepers, Goto, UnchangedOutside, ProcTypes, HoldInv
  <2> QED
    BY <1>4, <2>1, <2>2, <2>3, <2>4, <2>5 DEF ChildStep
<1> QED
  BY <1>1, <1>2, <1>3, <1>4 DEF Move

-----------------------------------------------------------------------------
(* The mutex. *)

(* The initial state satisfies LockInv. *)
LEMMA InitLock == Init => LockInv
BY DEF Init, LockInv, InSection

(* Only a signal on a sleeper lets a second child into the section. *)
LEMMA StepLock == ASSUME ProcTypes, LockInv, Move PROVE LockInv'
<1> USE DEF InSection
<1>0. CASE barged
  <2>1. barged'
    BY <1>0
       DEF Move, Idle, Born, Killed, Interrupted, ChildStep, Loop, TakeSlot, Check,
           TakeMutex, FallAsleep, Push, Pop, Unlock, Announce, Sleep, childVars
  <2> QED
    BY <2>1 DEF LockInv
<1> SUFFICES ASSUME ~barged PROVE LockInv'
  BY <1>0
<1>1. CASE Idle
  BY <1>1 DEF Idle, childVars, LockInv
<1>2. ASSUME NEW t \in Procs, Born(t) \/ Killed(t) PROVE LockInv'
  BY <1>2 DEF Born, Killed, Goto, childVars, LockInv, ProcTypes
<1>3. ASSUME NEW S \in SUBSET Procs, Interrupted(S) PROVE LockInv'
  <2> SUFFICES ASSUME ~barged' PROVE LockInv'
    BY DEF LockInv
  <2>1. \A u \in S : pc[u] # "asleepMutex"
    BY <1>3 DEF Interrupted
  <2>2. UNCHANGED sem
    BY <1>3 DEF Interrupted
  <2>3. \A u \in Procs : InSection(u)' <=> InSection(u)
    BY <1>3, <2>1 DEF Interrupted
  <2> QED
    BY <2>2, <2>3 DEF LockInv
<1>4. ASSUME NEW t \in Procs, ChildStep(t) PROVE LockInv'
  <2>0. Takes(t) # "mutex" /\ Gives(t) # "mutex"
    BY TakesGives
  <2>1. CASE Loop(t) \/ Check(t) \/ Push(t) \/ Pop(t) \/ Sleep(t)
    BY <2>1
       DEF Loop, Check, Push, Pop, Sleep, Goto, UnchangedOutside, childVars, ProcTypes,
           LockInv
  <2>2. CASE TakeSlot(t)
    BY <2>0, <2>2
       DEF TakeSlot, Take, Goto, UnchangedOutside, ProcTypes, LockInv
  <2>3. CASE TakeMutex(t)
    <3>1. \A u \in Procs : ~InSection(u)
      BY <2>3 DEF TakeMutex, Take, LockInv
    <3>2. sem'["mutex"] = 0
      BY <2>3 DEF TakeMutex, Take, ProcTypes, Tokens, LockInv
    <3> QED
      BY <2>3, <3>1, <3>2 DEF TakeMutex, Take, Goto, ProcTypes, LockInv
  <2>4. CASE \/ FallAsleep(t, Takes(t), "wantSlot", "asleepSlot")
             \/ FallAsleep(t, "mutex", "wantMutex", "asleepMutex")
    BY <2>4 DEF FallAsleep, Goto, UnchangedOutside, childVars, ProcTypes, LockInv
  <2>5. CASE Unlock(t)
    BY <2>5
       DEF Unlock, Give, Sleepers, Goto, UnchangedOutside, ProcTypes, LockInv, Tokens
  <2>6. CASE Announce(t)
    BY <2>0, <2>6
       DEF Announce, Give, Sleepers, Goto, UnchangedOutside, ProcTypes, LockInv, Tokens
  <2> QED
    BY <1>4, <2>1, <2>2, <2>3, <2>4, <2>5, <2>6 DEF ChildStep
<1> QED
  BY <1>1, <1>2, <1>3, <1>4 DEF Move

(* Mutual exclusion holds until a SIGTERM wakes a child that sleeps on     *)
(* SEM_MUTEX, for any number of children and any kills.                    *)
THEOREM MutexUntilBarged == Spec => []ExclusiveUnlessBarged
<1>1. Init => TypeInv /\ LockInv
  BY InitTypes, InitLock
<1>2. TypeInv /\ LockInv /\ [Next]_vars => TypeInv' /\ LockInv'
  BY StepTypes, StepLock, EveryStepMoves, TypeParts
<1>3. LockInv => ExclusiveUnlessBarged
  BY DEF LockInv, InSection, ExclusiveUnlessBarged, MutualExclusion, Inside
<1> QED
  BY <1>1, <1>2, <1>3, PTL DEF Spec

-----------------------------------------------------------------------------
(* Counting children. *)

(* How the size of a set of children changes with one child. *)
LEMMA CountChildren ==
    ASSUME NEW S \in SUBSET Procs
    PROVE  /\ Cardinality(S) \in Nat
           /\ \A T \in SUBSET S : Cardinality(T) <= Cardinality(S)
           /\ \A t \in Procs \ S : Cardinality(S \cup {t}) = Cardinality(S) + 1
           /\ \A t \in S : Cardinality(S \ {t}) = Cardinality(S) - 1
<1>1. IsFiniteSet(S)
  BY SemAssumption, FS_Subset DEF Procs
<1> QED
  BY <1>1, FS_CardinalityType, FS_Subset, FS_AddElement, FS_RemoveElement

(* What the semaphores do: token is given to the semaphore or to a sleeper *)
(* u, which is another child.                                              *)
LEMMA GiveToOne ==
    ASSUME ProcTypes, NEW t \in Procs, pc[t] \in {"unlock", "announce"},
           NEW token \in Tokens, NEW spent, NEW to, Give(t, token, spent, to)
    PROVE  \/ /\ sem' = [sem EXCEPT ![token] = @ + 1]
              /\ holds' = [holds EXCEPT ![t] = @ \ {spent}]
              /\ Goto(t, to)
           \/ \E u \in Procs \ {t} :
                /\ token = "mutex" => pc[u] = "asleepMutex"
                /\ token # "mutex" => pc[u] = "asleepSlot" /\ Takes(u) = token
                /\ UNCHANGED sem
                /\ holds' = [holds EXCEPT ![t] = @ \ {spent}, ![u] = @ \cup {token}]
                /\ pc' = [pc EXCEPT ![t] = to,
                          ![u] = IF token = "mutex" THEN "inside" ELSE "check"]
<1>1. CASE Sleepers(token) = {}
  BY <1>1 DEF Give
<1>2. ASSUME NEW u \in Sleepers(token),
             holds' = [[holds EXCEPT ![t] = @ \ {spent}] EXCEPT ![u] = @ \cup {token}],
             pc' = [pc EXCEPT ![t] = to,
                              ![u] = IF token = "mutex" THEN "inside" ELSE "check"],
             UNCHANGED sem
      PROVE  \E v \in Procs \ {t} :
                /\ token = "mutex" => pc[v] = "asleepMutex"
                /\ token # "mutex" => pc[v] = "asleepSlot" /\ Takes(v) = token
                /\ UNCHANGED sem
                /\ holds' = [holds EXCEPT ![t] = @ \ {spent}, ![v] = @ \cup {token}]
                /\ pc' = [pc EXCEPT ![t] = to,
                          ![v] = IF token = "mutex" THEN "inside" ELSE "check"]
  <2>1. u \in Procs \ {t} /\ pc[u] \in {"asleepSlot", "asleepMutex"}
    BY <1>2 DEF Sleepers
  <2>2. /\ token = "mutex" => pc[u] = "asleepMutex"
        /\ token # "mutex" => pc[u] = "asleepSlot" /\ Takes(u) = token
    BY <1>2, TakesGives DEF Sleepers
  <2> QED
    BY <1>2, <2>1, <2>2
<1> QED
  BY <1>1, <1>2 DEF Give

-----------------------------------------------------------------------------
(* The slots. *)

HoldersOf(token) == {t \in Procs : token \in holds[t]}

Slots(token) == sem[token] + Cardinality(HoldersOf(token))

(* SlotsConserved in terms of Slots, which are natural numbers. *)
LEMMA SlotsSum ==
    ASSUME ProcTypes
    PROVE  /\ Slots("empty") \in Nat /\ Slots("full") \in Nat
           /\ SlotsConserved <=> Slots("empty") + Slots("full") = QueueSize
<1>1. sem["empty"] \in Nat /\ sem["full"] \in Nat
  BY DEF ProcTypes, Tokens
<1>2. Holders("empty") \in Nat /\ Holders("full") \in Nat
  BY CountChildren DEF Holders
<1>3. /\ Slots("empty") = sem["empty"] + Holders("empty")
      /\ Slots("full") = sem["full"] + Holders("full")
  BY DEF Slots, HoldersOf, Holders
<1> QED
  BY <1>1, <1>2, <1>3 DEF SlotsConserved

(* The same after a step. *)
LEMMA SlotsSumNext ==
    ASSUME ProcTypes'
    PROVE  SlotsConserved' <=> Slots("empty")' + Slots("full")' = QueueSize
<1>1. sem'["empty"] \in Nat /\ sem'["full"] \in Nat
  BY DEF ProcTypes, Tokens
<1>2. Holders("empty")' \in Nat /\ Holders("full")' \in Nat
  BY CountChildren DEF Holders
<1>3. /\ Slots("empty")' = sem'["empty"] + Holders("empty")'
      /\ Slots("full")' = sem'["full"] + Holders("full")'
  BY DEF Slots, HoldersOf, Holders
<1> QED
  BY <1>1, <1>2, <1>3 DEF SlotsConserved

(* A child that takes its slot keeps the number of slots. *)
LEMMA TakeSlotSlots ==
    ASSUME ProcTypes, HoldInv, NEW t \in Procs, TakeSlot(t), NEW k \in {"empty", "full"}
    PROVE  Slots(k)' = Slots(k)
<1>1. /\ sem' = [sem EXCEPT ![Takes(t)] = @ - 1]
      /\ holds' = [holds EXCEPT ![t] = @ \cup {Takes(t)}]
      /\ Takes(t) \notin holds[t]
  BY DEF TakeSlot, Take, HoldInv, NoSlot
<1>2. k \in Tokens /\ sem[k] \in Nat
  BY DEF Tokens, ProcTypes
<1>3. HoldersOf(k) \in SUBSET Procs
  BY DEF HoldersOf
<1>4. CASE k = Takes(t)
  <2>1. t \in Procs \ HoldersOf(k)
    BY <1>1, <1>4 DEF HoldersOf
  <2>2. HoldersOf(k)' = HoldersOf(k) \cup {t}
    BY <1>1, <1>4 DEF HoldersOf, ProcTypes
  <2>3. sem'[k] = sem[k] - 1
    BY <1>1, <1>2, <1>4 DEF ProcTypes
  <2>4. Cardinality(HoldersOf(k) \cup {t}) = Cardinality(HoldersOf(k)) + 1
        /\ Cardinality(HoldersOf(k)) \in Nat
    BY <1>3, <2>1, CountChildren
  <2> QED
    BY <1>2, <2>2, <2>3, <2>4 DEF Slots
<1>5. CASE k # Takes(t)
  <2>1. HoldersOf(k)' = HoldersOf(k) /\ sem'[k] = sem[k]
    BY <1>1, <1>2, <1>5 DEF HoldersOf, ProcTypes
  <2> QED
    BY <2>1 DEF Slots
<1> QED
  BY <1>4, <1>5

(* A V operation on SEM_EMPTY or SEM_FULL turns a slot of one kind into    *)
(* one of the other.                                                       *)
LEMMA AnnounceSlots ==
    ASSUME ProcTypes, HoldInv, NEW t \in Procs, Announce(t)
    PROVE  /\ Slots(Takes(t))' = Slots(Takes(t)) - 1
           /\ Slots(Gives(t))' = Slots(Gives(t)) + 1
<1> DEFINE a == Takes(t)
           b == Gives(t)
<1>0. /\ a \in Tokens /\ b \in Tokens /\ a # b /\ b # "mutex"
      /\ sem[a] \in Nat /\ sem[b] \in Nat
  BY TakesGives DEF Tokens, ProcTypes
<1>1. /\ HoldersOf(a) \in SUBSET Procs /\ HoldersOf(b) \in SUBSET Procs
      /\ t \in HoldersOf(a)
  BY DEF HoldersOf, HoldInv, HasSlot, Announce
<1>2. /\ Cardinality(HoldersOf(a) \ {t}) = Cardinality(HoldersOf(a)) - 1
      /\ Cardinality(HoldersOf(a)) \in Nat /\ Cardinality(HoldersOf(b)) \in Nat
  BY <1>1, CountChildren
<1>3. CASE /\ sem' = [sem EXCEPT ![b] = @ + 1]
           /\ holds' = [holds EXCEPT ![t] = @ \ {a}]
  <2>1. HoldersOf(a)' = HoldersOf(a) \ {t} /\ HoldersOf(b)' = HoldersOf(b)
    BY <1>0, <1>3 DEF HoldersOf, ProcTypes
  <2>2. sem'[a] = sem[a] /\ sem'[b] = sem[b] + 1
    BY <1>0, <1>3 DEF ProcTypes
  <2> QED
    BY <1>0, <1>2, <2>1, <2>2 DEF Slots
<1>4. ASSUME NEW u \in Procs \ {t}, pc[u] = "asleepSlot", Takes(u) = b, UNCHANGED sem,
             holds' = [holds EXCEPT ![t] = @ \ {a}, ![u] = @ \cup {b}]
      PROVE  /\ Slots(a)' = Slots(a) - 1
             /\ Slots(b)' = Slots(b) + 1
  <2>1. u \in Procs \ HoldersOf(b)
    BY <1>4 DEF HoldersOf, HoldInv, NoSlot
  <2>2. HoldersOf(a)' = HoldersOf(a) \ {t}
    BY <1>0, <1>4 DEF HoldersOf, ProcTypes
  <2>3. HoldersOf(b)' = HoldersOf(b) \cup {u}
    BY <1>0, <1>4 DEF HoldersOf, ProcTypes
  <2>4. Cardinality(HoldersOf(b) \cup {u}) = Cardinality(HoldersOf(b)) + 1
    BY <1>1, <2>1, CountChildren
  <2> QED
    BY <1>0, <1>2, <1>4, <2>2, <2>3, <2>4 DEF Slots
<1>5. Give(t, b, a, "sleep") /\ pc[t] \in {"unlock", "announce"}
  BY DEF Announce
<1>6. CASE \E u \in Procs \ {t} :
             /\ pc[u] = "asleepSlot" /\ Takes(u) = b
             /\ UNCHANGED sem
             /\ holds' = [holds EXCEPT ![t] = @ \ {a}, ![u] = @ \cup {b}]
  BY <1>4, <1>6
<1>7. \/ /\ sem' = [sem EXCEPT ![b] = @ + 1]
         /\ holds' = [holds EXCEPT ![t] = @ \ {a}]
      \/ \E u \in Procs \ {t} :
             /\ pc[u] = "asleepSlot" /\ Takes(u) = b
             /\ UNCHANGED sem
             /\ holds' = [holds EXCEPT ![t] = @ \ {a}, ![u] = @ \cup {b}]
  <2>1. \/ /\ sem' = [sem EXCEPT ![b] = @ + 1]
           /\ holds' = [holds EXCEPT ![t] = @ \ {a}]
           /\ Goto(t, "sleep")
        \/ \E u \in Procs \ {t} :
             /\ b = "mutex" => pc[u] = "asleepMutex"
             /\ b # "mutex" => pc[u] = "asleepSlot" /\ Takes(u) = b
             /\ UNCHANGED sem
             /\ holds' = [holds EXCEPT ![t] = @ \ {a}, ![u] = @ \cup {b}]
             /\ pc' = [pc EXCEPT ![t] = "sleep",
                       ![u] = IF b = "mutex" THEN "inside" ELSE "check"]
    <3> HIDE DEF a, b
    <3> QED
      BY <1>0, <1>5, GiveToOne, SMT
  <2> QED
    BY <1>0, <2>1, Zenon
<1> QED
  BY <1>3, <1>6, <1>7

(* No step but the V operation on SEM_EMPTY or SEM_FULL changes the number *)
(* of slots of a kind.                                                     *)
LEMMA SlotsKept ==
    ASSUME ProcTypes, HoldInv, Move, \A t \in Procs : ~Announce(t),
           NEW k \in {"empty", "full"}
    PROVE  Slots(k)' = Slots(k)
<1>0. k \in Tokens /\ k # "mutex"
  BY DEF Tokens
<1>1. ASSUME sem'[k] = sem[k], \A u \in Procs : k \in holds'[u] <=> k \in holds[u]
      PROVE  Slots(k)' = Slots(k)
  <2>1. HoldersOf(k)' = HoldersOf(k)
    BY <1>1 DEF HoldersOf
  <2> QED
    BY <1>1, <2>1 DEF Slots
<1>2. CASE UNCHANGED <<sem, holds>>
  BY <1>1, <1>2
<1>3. ASSUME NEW t \in Procs, ChildStep(t) PROVE Slots(k)' = Slots(k)
  <2>1. CASE \/ Loop(t) \/ Check(t) \/ Push(t) \/ Pop(t) \/ Sleep(t)
             \/ FallAsleep(t, Takes(t), "wantSlot", "asleepSlot")
             \/ FallAsleep(t, "mutex", "wantMutex", "asleepMutex")
    BY <1>2, <2>1 DEF Loop, Check, Push, Pop, Sleep, FallAsleep, childVars
  <2>2. CASE TakeSlot(t)
    BY <2>2, TakeSlotSlots
  <2>3. CASE TakeMutex(t)
    <3>1. /\ sem' = [sem EXCEPT !["mutex"] = @ - 1]
          /\ holds' = [holds EXCEPT ![t] = @ \cup {"mutex"}]
      BY <2>3 DEF TakeMutex, Take
    <3> QED
      BY <1>0, <1>1, <3>1 DEF ProcTypes
  <2>4. CASE Unlock(t)
    <3>1. Give(t, "mutex", "mutex", "announce") /\ pc[t] \in {"unlock", "announce"}
      BY <2>4 DEF Unlock
    <3>2. "mutex" \in Tokens
      BY DEF Tokens
    <3>3. CASE /\ sem' = [sem EXCEPT !["mutex"] = @ + 1]
               /\ holds' = [holds EXCEPT ![t] = @ \ {"mutex"}]
      BY <1>0, <1>1, <3>3 DEF ProcTypes
    <3>4. ASSUME NEW u \in Procs \ {t}, UNCHANGED sem,
                 holds' = [holds EXCEPT ![t] = @ \ {"mutex"}, ![u] = @ \cup {"mutex"}]
          PROVE  Slots(k)' = Slots(k)
      BY <1>0, <1>1, <3>4 DEF ProcTypes
    <3> QED
      BY <3>1, <3>2, <3>3, <3>4, GiveToOne
  <2> QED
    BY <1>3, <2>1, <2>2, <2>3, <2>4 DEF ChildStep
<1> QED
  BY <1>2, <1>3 DEF Move, Idle, Born, Killed, Interrupted, childVars

(* No step of any child, signal or kill changes the sum of the slots. *)
LEMMA StepSlots ==
    ASSUME ProcTypes, ProcTypes', HoldInv, SlotsConserved, Move PROVE SlotsConserved'
<1>1. /\ Slots("empty") + Slots("full") = QueueSize
      /\ Slots("empty") \in Nat /\ Slots("full") \in Nat
  BY SlotsSum
<1>2. SlotsConserved' <=> Slots("empty")' + Slots("full")' = QueueSize
  BY SlotsSumNext
<1>3. CASE \A t \in Procs : ~Announce(t)
  <2>1. Slots("empty")' = Slots("empty") /\ Slots("full")' = Slots("full")
    BY <1>3, SlotsKept
  <2> QED
    BY <1>1, <1>2, <2>1
<1>4. ASSUME NEW t \in Procs, Announce(t) PROVE SlotsConserved'
  <2>1. /\ Slots(Takes(t))' = Slots(Takes(t)) - 1
        /\ Slots(Gives(t))' = Slots(Gives(t)) + 1
    BY <1>4, AnnounceSlots
  <2>2. \/ Takes(t) = "empty" /\ Gives(t) = "full"
        \/ Takes(t) = "full" /\ Gives(t) = "empty"
    BY DEF Takes, Gives
  <2> QED
    BY <1>1, <1>2, <2>1, <2>2
<1> QED
  BY <1>3, <1>4

(* At the start all slots are free. *)
LEMMA InitSlots == Init => SlotsConserved
<1> SUFFICES ASSUME Init PROVE SlotsConserved
  OBVIOUS
<1>1. /\ sem.empty = QueueSize /\ sem.full = 0
      /\ \A t \in Procs : holds[t] = {}
  BY DEF Init
<1>2. \A token : {t \in Procs : token \in holds[t]} = {}
  BY <1>1
<1>3. Holders("empty") = 0 /\ Holders("full") = 0
  BY <1>2, FS_EmptySet DEF Holders
<1> QED
  BY <1>1, <1>3, SemAssumption DEF SlotsConserved

(* EMPTY and FULL never invent or forget a slot: it is free, filled, or in *)
(* the hands of one child, dead or alive, however many children there are  *)
(* and wherever SIGTERM and SIGKILL find them.                             *)
THEOREM SlotsStay == Spec => []SlotsConserved
<1>1. Init => TypeInv /\ HoldInv /\ SlotsConserved
  BY InitTypes, InitHold, InitSlots
<1>2. TypeInv /\ HoldInv /\ SlotsConserved /\ [Next]_vars
        => TypeInv' /\ HoldInv' /\ SlotsConserved'
  <2> SUFFICES ASSUME TypeInv, HoldInv, SlotsConserved, [Next]_vars
               PROVE  TypeInv' /\ HoldInv' /\ SlotsConserved'
    OBVIOUS
  <2>1. TypeInv' /\ Move /\ ProcTypes
    BY StepTypes, EveryStepMoves, TypeParts
  <2>2. ProcTypes'
    BY <2>1 DEF TypeInv, TypeOK, ProcTypes
  <2> QED
    BY <2>1, <2>2, StepHold, StepSlots
<1> QED
  BY <1>1, <1>2, PTL DEF Spec

-----------------------------------------------------------------------------
(* The ring. *)

Total(token) == sem[token] + Cardinality(Owing(token))

(* The totals are natural numbers, and count every child that owes.        *)
LEMMA TotalNat ==
    ASSUME ProcTypes, NEW k \in {"empty", "full"}
    PROVE  /\ sem[k] \in Nat /\ Cardinality(Owing(k)) \in Nat /\ Total(k) \in Nat
           /\ Owing(k) \in SUBSET Procs
           /\ \A t \in Owing(k) : Total(k) > 0
<1>1. sem[k] \in Nat
  BY DEF ProcTypes, Tokens
<1>2. Owing(k) \in SUBSET Procs
  BY DEF Owing
<1>3. /\ Cardinality(Owing(k)) \in Nat
      /\ \A t \in Owing(k) : Cardinality(Owing(k)) - 1 = Cardinality(Owing(k) \ {t})
  BY <1>2, CountChildren
<1>4. ASSUME NEW t \in Owing(k) PROVE Cardinality(Owing(k)) > 0
  <2>1. Cardinality(Owing(k) \ {t}) \in Nat
    BY <1>2, CountChildren
  <2> QED
    BY <1>3, <2>1
<1> QED
  BY <1>1, <1>2, <1>3, <1>4 DEF Total

(* The same after a step. *)
LEMMA TotalNatNext ==
    ASSUME ProcTypes', NEW k \in {"empty", "full"}
    PROVE  sem'[k] \in Nat /\ Cardinality(Owing(k)') \in Nat /\ Total(k)' \in Nat
<1>1. sem'[k] \in Nat
  BY DEF ProcTypes, Tokens
<1>2. Owing(k)' \in SUBSET Procs
  BY DEF Owing
<1>3. Cardinality(Owing(k)') \in Nat
  BY <1>2, CountChildren
<1> QED
  BY <1>1, <1>3 DEF Total

(* Where no token is given or taken, the total can only fall. *)
LEMMA NothingGiven ==
    ASSUME ProcTypes, NEW k \in {"empty", "full"}, sem'[k] = sem[k],
           \A u \in Procs : Owes(k, u)' => Owes(k, u)
    PROVE  Total(k)' <= Total(k)
<1>1. Owing(k)' \in SUBSET Owing(k)
  BY DEF Owing
<1>2. Owing(k) \in SUBSET Procs /\ sem[k] \in Nat /\ Cardinality(Owing(k)) \in Nat
  BY TotalNat
<1>3. /\ Cardinality(Owing(k)') <= Cardinality(Owing(k))
      /\ Cardinality(Owing(k)') \in Nat
  <2>1. Owing(k)' \in SUBSET Procs
    BY <1>1, <1>2
  <2> QED
    BY <1>1, <1>2, <2>1, CountChildren
<1> QED
  BY <1>2, <1>3 DEF Total

(* A child that takes its slot owes it from now on. *)
LEMMA TakeSlotTotal ==
    ASSUME ProcTypes, HoldInv, NEW t \in Procs, TakeSlot(t), NEW k \in {"empty", "full"}
    PROVE  Total(k)' <= Total(k)
<1>1. /\ sem' = [sem EXCEPT ![Takes(t)] = @ - 1]
      /\ holds' = [holds EXCEPT ![t] = @ \cup {Takes(t)}]
      /\ pc[t] = "wantSlot" /\ pc' = [pc EXCEPT ![t] = "check"]
  BY DEF TakeSlot, Take, Goto
<1>2. /\ k \in Tokens /\ sem[k] \in Nat /\ Owing(k) \in SUBSET Procs
      /\ Cardinality(Owing(k)) \in Nat
  BY TotalNat DEF Tokens
<1>3. \A u \in Procs \ {t} : Owes(k, u)' <=> Owes(k, u)
  BY <1>1 DEF Owes, ProcTypes
<1>4. CASE k = Takes(t)
  <2>1. t \in Procs \ Owing(k)
    BY <1>1 DEF Owing, Owes
  <2>2. Owing(k)' \in SUBSET (Owing(k) \cup {t})
    BY <1>3 DEF Owing
  <2>3. sem'[k] = sem[k] - 1
    BY <1>1, <1>2, <1>4 DEF ProcTypes
  <2>4. Cardinality(Owing(k) \cup {t}) = Cardinality(Owing(k)) + 1
    BY <1>2, <2>1, CountChildren
  <2>5. /\ Cardinality(Owing(k)') <= Cardinality(Owing(k) \cup {t})
        /\ Cardinality(Owing(k)') \in Nat
    <3>1. Owing(k) \cup {t} \in SUBSET Procs /\ Owing(k)' \in SUBSET Procs
      BY <1>2, <2>2
    <3> QED
      BY <2>2, <3>1, CountChildren
  <2> QED
    BY <1>2, <2>3, <2>4, <2>5 DEF Total
<1>5. CASE k # Takes(t)
  <2>1. sem'[k] = sem[k]
    BY <1>1, <1>2, <1>5 DEF ProcTypes
  <2>2. ~Owes(k, t)'
    BY <1>1, <1>5 DEF Owes, ProcTypes
  <2> QED
    BY <1>3, <2>1, <2>2, NothingGiven
<1> QED
  BY <1>4, <1>5

(* A V operation gives what the child owed, to the semaphore or a sleeper. *)
LEMMA AnnounceTotal ==
    ASSUME ProcTypes, HoldInv, NEW t \in Procs, Announce(t), NEW k \in {"empty", "full"}
    PROVE  Total(k)' <= Total(k)
<1> DEFINE a == Takes(t)
           b == Gives(t)
<1>0. a # b /\ a \in Tokens /\ b \in Tokens /\ b # "mutex" /\ k \in Tokens
  BY TakesGives DEF Tokens
<1>1. /\ sem[k] \in Nat /\ Owing(k) \in SUBSET Procs
      /\ Cardinality(Owing(k)) \in Nat
  BY TotalNat
<1>2. Give(t, b, a, "sleep") /\ pc[t] = "announce"
  BY DEF Announce
<1>3. b = k => t \in Owing(k)
  BY <1>2 DEF Owing, Owes
<1>4. CASE /\ sem' = [sem EXCEPT ![b] = @ + 1]
           /\ holds' = [holds EXCEPT ![t] = @ \ {a}]
           /\ Goto(t, "sleep")
  <2>1. \A u \in Procs : Owes(k, u)' => Owes(k, u) /\ u # t
    BY <1>4 DEF Owes, Goto, ProcTypes
  <2>2. CASE b = k
    <3>1. Owing(k)' \in SUBSET (Owing(k) \ {t})
      BY <2>1 DEF Owing
    <3>2. Cardinality(Owing(k) \ {t}) = Cardinality(Owing(k)) - 1
      BY <1>1, <1>3, <2>2, CountChildren
    <3>3. /\ Cardinality(Owing(k)') <= Cardinality(Owing(k) \ {t})
          /\ Cardinality(Owing(k)') \in Nat
      <4>1. Owing(k) \ {t} \in SUBSET Procs /\ Owing(k)' \in SUBSET Procs
        BY <1>1, <3>1
      <4> QED
        BY <3>1, <4>1, CountChildren
    <3>4. sem'[k] = sem[k] + 1
      BY <1>0, <1>4, <2>2 DEF ProcTypes
    <3> QED
      BY <1>1, <3>2, <3>3, <3>4 DEF Total
  <2>3. CASE b # k
    <3>1. sem'[k] = sem[k]
      BY <1>0, <1>4, <2>3 DEF ProcTypes
    <3> QED
      BY <2>1, <3>1, NothingGiven
  <2> QED
    BY <2>2, <2>3
<1>5. ASSUME NEW u \in Procs \ {t}, pc[u] = "asleepSlot", Takes(u) = b, UNCHANGED sem,
             holds' = [holds EXCEPT ![t] = @ \ {a}, ![u] = @ \cup {b}],
             pc' = [pc EXCEPT ![t] = "sleep", ![u] = "check"]
      PROVE  Total(k)' <= Total(k)
  <2>1. \A v \in Procs \ {u} : Owes(k, v)' => Owes(k, v) /\ v # t
    BY <1>5 DEF Owes, ProcTypes
  <2>2. CASE b = k
    <3>1. u \in Procs \ Owing(k)
      BY <1>5 DEF Owing, Owes
    <3>2. Owing(k)' \in SUBSET ((Owing(k) \ {t}) \cup {u})
      BY <2>1 DEF Owing
    <3>3. Cardinality(Owing(k) \ {t}) = Cardinality(Owing(k)) - 1
      BY <1>1, <1>3, <2>2, CountChildren
    <3>4. Owing(k) \ {t} \in SUBSET Procs /\ u \in Procs \ (Owing(k) \ {t})
      BY <1>1, <3>1
    <3>5. Cardinality((Owing(k) \ {t}) \cup {u}) = Cardinality(Owing(k) \ {t}) + 1
      BY <3>4, CountChildren
    <3>6. /\ Cardinality(Owing(k)') <= Cardinality((Owing(k) \ {t}) \cup {u})
          /\ Cardinality(Owing(k)') \in Nat
      <4>1. (Owing(k) \ {t}) \cup {u} \in SUBSET Procs /\ Owing(k)' \in SUBSET Procs
        BY <3>2, <3>4
      <4> QED
        BY <3>2, <4>1, CountChildren
    <3> QED
      BY <1>1, <1>5, <3>3, <3>5, <3>6 DEF Total
  <2>3. CASE b # k
    <3>1. ~Owes(k, u)'
      BY <1>5, <2>3 DEF Owes, ProcTypes
    <3> QED
      BY <1>5, <2>1, <3>1, NothingGiven
  <2> QED
    BY <2>2, <2>3
<1>6. \/ /\ sem' = [sem EXCEPT ![b] = @ + 1]
         /\ holds' = [holds EXCEPT ![t] = @ \ {a}]
         /\ Goto(t, "sleep")
      \/ \E u \in Procs \ {t} :
           /\ b = "mutex" => pc[u] = "asleepMutex"
           /\ b # "mutex" => pc[u] = "asleepSlot" /\ Takes(u) = b
           /\ UNCHANGED sem
           /\ holds' = [holds EXCEPT ![t] = @ \ {a}, ![u] = @ \cup {b}]
           /\ pc' = [pc EXCEPT ![t] = "sleep",
                     ![u] = IF b = "mutex" THEN "inside" ELSE "check"]
  <2> HIDE DEF a, b
  <2> QED
    BY <1>0, <1>2, GiveToOne, SMT
<1>7. CASE \E u \in Procs \ {t} :
             /\ pc[u] = "asleepSlot" /\ Takes(u) = b
             /\ UNCHANGED sem
             /\ holds' = [holds EXCEPT ![t] = @ \ {a}, ![u] = @ \cup {b}]
             /\ pc' = [pc EXCEPT ![t] = "sleep", ![u] = "check"]
  BY <1>5, <1>7
<1> HIDE DEF a, b
<1> QED
  BY <1>0, <1>4, <1>6, <1>7

(* Push and pop use up what the child has taken and make it owe the other. *)
LEMMA WorkTotal ==
    ASSUME ProcTypes, HoldInv, NEW t \in Procs, Push(t) \/ Pop(t)
    PROVE  /\ Total(Takes(t))' <= Total(Takes(t)) - 1
           /\ Total(Gives(t))' <= Total(Gives(t)) + 1
           /\ t \in Owing(Takes(t))
<1> DEFINE a == Takes(t)
           b == Gives(t)
<1>0. a # b /\ a \in {"empty", "full"} /\ b \in {"empty", "full"}
  BY TakesGives
<1>1. /\ UNCHANGED <<sem, holds>>
      /\ pc[t] = "inside" /\ pc' = [pc EXCEPT ![t] = "unlock"]
      /\ a \in holds[t]
  BY DEF Push, Pop, Goto, HoldInv, HasSlot
<1>2. /\ sem[a] \in Nat /\ Owing(a) \in SUBSET Procs /\ Cardinality(Owing(a)) \in Nat
      /\ sem[b] \in Nat /\ Owing(b) \in SUBSET Procs /\ Cardinality(Owing(b)) \in Nat
  BY <1>0, TotalNat
<1>3. \A u \in Procs \ {t} : /\ Owes(a, u)' <=> Owes(a, u)
                             /\ Owes(b, u)' <=> Owes(b, u)
  BY <1>1 DEF Owes, ProcTypes
<1>4. t \in Owing(a) /\ t \notin Owing(b)
  BY <1>0, <1>1 DEF Owing, Owes
<1>5. ~Owes(a, t)'
  BY <1>0, <1>1 DEF Owes, ProcTypes
<1>6. Owing(a)' \in SUBSET (Owing(a) \ {t}) /\ Owing(b)' \in SUBSET (Owing(b) \cup {t})
  BY <1>3, <1>5 DEF Owing
<1>7. /\ Cardinality(Owing(a) \ {t}) = Cardinality(Owing(a)) - 1
      /\ Cardinality(Owing(b) \cup {t}) = Cardinality(Owing(b)) + 1
  BY <1>2, <1>4, CountChildren
<1>8. /\ Cardinality(Owing(a)') <= Cardinality(Owing(a) \ {t})
      /\ Cardinality(Owing(b)') <= Cardinality(Owing(b) \cup {t})
      /\ Cardinality(Owing(a)') \in Nat /\ Cardinality(Owing(b)') \in Nat
  <2>1. /\ Owing(a) \ {t} \in SUBSET Procs /\ Owing(b) \cup {t} \in SUBSET Procs
        /\ Owing(a)' \in SUBSET Procs /\ Owing(b)' \in SUBSET Procs
    BY <1>2, <1>6
  <2> QED
    BY <1>6, <2>1, CountChildren
<1>9. sem'[a] = sem[a] /\ sem'[b] = sem[b]
  BY <1>1
<1>10. Total(a)' = sem'[a] + Cardinality(Owing(a)') /\ Total(b)' = sem'[b] + Cardinality(Owing(b)')
  BY DEF Total
<1> QED
  BY <1>2, <1>4, <1>7, <1>8, <1>9, <1>10 DEF Total

(* Every other step, as long as nobody barges in, gives no token for       *)
(* nothing.                                                                *)
LEMMA StepTotals ==
    ASSUME ProcTypes, HoldInv, Move, ~barged',
           \A t \in Procs : ~Push(t) /\ ~Pop(t),
           NEW k \in {"empty", "full"}
    PROVE  Total(k)' <= Total(k)
<1>0. ASSUME sem'[k] = sem[k], \A u \in Procs : Owes(k, u)' => Owes(k, u)
      PROVE  Total(k)' <= Total(k)
  BY <1>0, NothingGiven
<1>1. CASE Idle
  BY <1>0, <1>1 DEF Idle, childVars, Owes
<1>2. ASSUME NEW t \in Procs, Born(t) \/ Killed(t) PROVE Total(k)' <= Total(k)
  <2>1. UNCHANGED <<sem, holds>> /\ pc' \in {[pc EXCEPT ![t] = "loop"], [pc EXCEPT ![t] = "dead"]}
    BY <1>2 DEF Born, Killed, Goto, childVars
  <2> QED
    BY <1>0, <2>1 DEF Owes, ProcTypes
<1>3. ASSUME NEW S \in SUBSET Procs, Interrupted(S) PROVE Total(k)' <= Total(k)
  <2>1. UNCHANGED <<sem, holds>> /\ \A u \in S : pc[u] # "asleepMutex"
    BY <1>3 DEF Interrupted
  <2>2. \A u \in Procs : pc'[u] = pc[u] \/ (pc[u] = "asleepSlot" /\ pc'[u] = "check")
    BY <1>3, <2>1 DEF Interrupted
  <2>3. \A u \in Procs : pc[u] = "asleepSlot" => Takes(u) \notin holds[u]
    BY DEF HoldInv, NoSlot
  <2>4. ASSUME NEW u \in Procs, Owes(k, u)' PROVE Owes(k, u)
    BY <2>1, <2>2, <2>3, <2>4 DEF Owes
  <2> QED
    BY <1>0, <2>1, <2>4
<1>4. ASSUME NEW t \in Procs, ChildStep(t) PROVE Total(k)' <= Total(k)
  <2>0. k \in Tokens /\ k # "mutex"
    BY DEF Tokens
  <2>1. CASE Loop(t)
    <3>1. /\ UNCHANGED <<sem, holds>>
          /\ pc' \in {[pc EXCEPT ![t] = "dead"], [pc EXCEPT ![t] = "wantSlot"]}
      BY <2>1 DEF Loop, Goto
    <3> QED
      BY <1>0, <3>1 DEF Owes, ProcTypes
  <2>2. CASE Check(t) \/ Sleep(t)
    <3>1. /\ UNCHANGED <<sem, holds>>
          /\ \/ /\ pc[t] = "check"
                /\ pc' \in {[pc EXCEPT ![t] = "wantMutex"], [pc EXCEPT ![t] = "dead"]}
             \/ pc' = [pc EXCEPT ![t] = "loop"]
      BY <2>2 DEF Check, Sleep, Goto, childVars
    <3> QED
      BY <1>0, <3>1 DEF Owes, ProcTypes
  <2>3. CASE TakeMutex(t)
    <3>1. /\ pc[t] = "wantMutex" /\ pc' = [pc EXCEPT ![t] = "inside"]
          /\ sem' = [sem EXCEPT !["mutex"] = @ - 1]
          /\ holds' = [holds EXCEPT ![t] = @ \cup {"mutex"}]
      BY <2>3 DEF TakeMutex, Take, Goto
    <3>2. sem'[k] = sem[k]
      BY <2>0, <3>1 DEF ProcTypes
    <3> QED
      BY <1>0, <2>0, <3>1, <3>2 DEF Owes, ProcTypes
  <2>4. CASE \/ FallAsleep(t, Takes(t), "wantSlot", "asleepSlot")
             \/ FallAsleep(t, "mutex", "wantMutex", "asleepMutex")
    <3>1. /\ UNCHANGED <<sem, holds>>
          /\ \/ pc[t] = "wantMutex" /\ pc' = [pc EXCEPT ![t] = "asleepMutex"]
             \/ pc' = [pc EXCEPT ![t] = "asleepSlot"]
      BY <2>4 DEF FallAsleep, Goto, childVars
    <3> QED
      BY <1>0, <3>1 DEF Owes, ProcTypes
  <2>5. CASE Unlock(t)
    <3>1. Give(t, "mutex", "mutex", "announce") /\ pc[t] \in {"unlock", "announce"}
          /\ "mutex" \in Tokens
      BY <2>5 DEF Unlock, Tokens
    <3>2. pc[t] = "unlock"
      BY <2>5 DEF Unlock
    <3>3. CASE /\ sem' = [sem EXCEPT !["mutex"] = @ + 1]
               /\ holds' = [holds EXCEPT ![t] = @ \ {"mutex"}]
               /\ Goto(t, "announce")
      <4>1. sem'[k] = sem[k]
        BY <2>0, <3>3 DEF ProcTypes
      <4> QED
        BY <1>0, <2>0, <3>2, <3>3, <4>1 DEF Owes, Goto, ProcTypes
    <3>4. ASSUME NEW u \in Procs \ {t}, pc[u] = "asleepMutex", UNCHANGED sem,
                 holds' = [holds EXCEPT ![t] = @ \ {"mutex"}, ![u] = @ \cup {"mutex"}],
                 pc' = [pc EXCEPT ![t] = "announce", ![u] = "inside"]
          PROVE  Total(k)' <= Total(k)
      BY <1>0, <2>0, <3>2, <3>4 DEF Owes, ProcTypes
    <3> QED
      BY <3>1, <3>3, <3>4, GiveToOne
  <2> QED
    BY <1>4, <2>1, <2>2, <2>3, <2>4, <2>5, TakeSlotTotal, AnnounceTotal DEF ChildStep
<1> QED
  BY <1>1, <1>2, <1>3, <1>4 DEF Move

(* A producer that wants a slot has its message. *)
LEMMA StepMsg == ASSUME RingTypes, ProcTypes, MsgInv, Move PROVE MsgInv'
<1>0. Prod \cap Cons = {} /\ Prod \subseteq Procs
  BY SemAssumption DEF Procs
<1>1. CASE Idle
  BY <1>1 DEF Idle, childVars, MsgInv
<1>2. ASSUME NEW t \in Procs, Born(t) \/ Killed(t) PROVE MsgInv'
  BY <1>0, <1>2 DEF Born, Killed, Goto, childVars, MsgInv, ProcTypes
<1>3. ASSUME NEW S \in SUBSET Procs, Interrupted(S) PROVE MsgInv'
  <2>1. UNCHANGED msg
    BY <1>3 DEF Interrupted
  <2>2. \A u \in Procs : \/ pc'[u] = pc[u]
                         \/ pc[u] \in {"asleepSlot", "asleepMutex"}
    BY <1>3 DEF Interrupted
  <2> QED
    BY <1>0, <2>1, <2>2 DEF MsgInv
<1>4. ASSUME NEW t \in Procs, ChildStep(t) PROVE MsgInv'
  <2>1. CASE Loop(t)
    <3>1. CASE ~running[t] \/ t \in Cons
      BY <1>0, <2>1, <3>1 DEF Loop, Goto, MsgInv, ProcTypes
    <3>2. CASE t \in Prod /\ \E m \in Msg : msg' = [msg EXCEPT ![t] = m]
      BY <1>0, <2>1, <3>2 DEF Loop, Goto, MsgInv, ProcTypes, RingTypes
    <3> QED
      BY <2>1, <3>1, <3>2 DEF Loop
  <2>2. CASE Check(t) \/ Sleep(t)
    BY <1>0, <2>2 DEF Check, Sleep, Goto, childVars, MsgInv, ProcTypes
  <2>3. CASE TakeSlot(t) \/ TakeMutex(t)
    <3>1. UNCHANGED msg /\ pc[t] \in {"wantSlot", "wantMutex"}
          /\ pc' \in {[pc EXCEPT ![t] = "check"], [pc EXCEPT ![t] = "inside"]}
      BY <2>3 DEF TakeSlot, TakeMutex, Take, Goto
    <3> QED
      BY <1>0, <3>1 DEF MsgInv, ProcTypes
  <2>4. CASE \/ FallAsleep(t, Takes(t), "wantSlot", "asleepSlot")
             \/ FallAsleep(t, "mutex", "wantMutex", "asleepMutex")
    BY <1>0, <2>4 DEF FallAsleep, Goto, childVars, MsgInv, ProcTypes
  <2>5. CASE Push(t)
    BY <1>0, <2>5 DEF Push, Goto, MsgInv, ProcTypes
  <2>6. CASE Pop(t)
    BY <1>0, <2>6 DEF Pop, Goto, MsgInv, ProcTypes, RingTypes
  <2>7. CASE Unlock(t) \/ Announce(t)
    <3>1. PICK token \in Tokens, spent \in Tokens, to \in {"announce", "sleep"} :
               Give(t, token, spent, to)
      <4>1. Takes(t) \in Tokens /\ Gives(t) \in Tokens /\ "mutex" \in Tokens
        BY DEF Takes, Gives, Tokens
      <4> QED
        BY <2>7, <4>1 DEF Unlock, Announce
    <3>2. UNCHANGED msg
      BY <2>7 DEF Unlock, Announce
    <3>3. \/ pc' = [pc EXCEPT ![t] = to]
          \/ \E u \in Procs : /\ pc[u] \in {"asleepSlot", "asleepMutex"}
                              /\ \E place : pc' = [pc EXCEPT ![t] = to, ![u] = place]
      BY <3>1 DEF Give, Goto, Sleepers
    <3> QED
      BY <1>0, <3>2, <3>3 DEF MsgInv, ProcTypes
  <2> QED
    BY <1>4, <2>1, <2>2, <2>3, <2>4, <2>5, <2>6, <2>7 DEF ChildStep
<1> QED
  BY <1>1, <1>2, <1>3, <1>4 DEF Move

(* Who is inside has seen the ring as it is, unless somebody changes it.   *)
LEMMA StepSeen ==
    ASSUME RingTypes, ProcTypes, Move, ~barged', \A t \in Procs : ~Push(t) /\ ~Pop(t),
           \A t \in Inside : seen[t] = q
    PROVE  UNCHANGED q /\ \A t \in Inside' : seen'[t] = q'
<1>0. ASSUME UNCHANGED q, \A u \in Inside' : u \in Inside, UNCHANGED seen
      PROVE  UNCHANGED q /\ \A t \in Inside' : seen'[t] = q'
  BY <1>0
<1>1. CASE Idle
  BY <1>0, <1>1 DEF Idle, childVars, Inside
<1>2. ASSUME NEW t \in Procs, Born(t) \/ Killed(t)
      PROVE  UNCHANGED q /\ \A u \in Inside' : seen'[u] = q'
  BY <1>0, <1>2 DEF Born, Killed, Goto, childVars, Inside, ProcTypes
<1>3. ASSUME NEW S \in SUBSET Procs, Interrupted(S)
      PROVE  UNCHANGED q /\ \A u \in Inside' : seen'[u] = q'
  <2>1. UNCHANGED q /\ \A u \in S : pc[u] # "asleepMutex"
    BY <1>3 DEF Interrupted
  <2>2. \A u \in Inside' : u \in Inside /\ seen'[u] = seen[u]
    BY <1>3, <2>1 DEF Interrupted, Inside
  <2> QED
    BY <2>1, <2>2
<1>4. ASSUME NEW t \in Procs, ChildStep(t)
      PROVE  UNCHANGED q /\ \A u \in Inside' : seen'[u] = q'
  <2>1. CASE \/ Loop(t) \/ TakeSlot(t) \/ Check(t) \/ Sleep(t)
             \/ FallAsleep(t, Takes(t), "wantSlot", "asleepSlot")
             \/ FallAsleep(t, "mutex", "wantMutex", "asleepMutex")
    <3>1. UNCHANGED <<q, seen>> /\ \E place : place # "inside" /\ Goto(t, place)
      BY <2>1 DEF Loop, TakeSlot, Take, Check, Sleep, FallAsleep, childVars, Goto
    <3> QED
      BY <1>0, <3>1 DEF Goto, Inside, ProcTypes
  <2>2. CASE TakeMutex(t)
    BY <2>2 DEF TakeMutex, Take, Goto, Inside, ProcTypes, RingTypes
  <2>3. CASE Unlock(t) \/ Announce(t)
    <3>1. PICK token \in Tokens, spent \in Tokens, to \in {"announce", "sleep"} :
               Give(t, token, spent, to)
      <4>1. Takes(t) \in Tokens /\ Gives(t) \in Tokens /\ "mutex" \in Tokens
        BY DEF Takes, Gives, Tokens
      <4> QED
        BY <2>3, <4>1 DEF Unlock, Announce
    <3>2. UNCHANGED q
      BY <2>3 DEF Unlock, Announce
    <3>3. \/ pc' = [pc EXCEPT ![t] = to] /\ UNCHANGED seen
          \/ \E u \in Procs :
               \/ /\ pc' = [pc EXCEPT ![t] = to, ![u] = "inside"]
                  /\ seen' = [seen EXCEPT ![u] = q]
               \/ pc' = [pc EXCEPT ![t] = to, ![u] = "check"] /\ UNCHANGED seen
      BY <3>1 DEF Give, Goto, Sleepers
    <3> QED
      BY <3>2, <3>3 DEF Inside, ProcTypes, RingTypes
  <2> QED
    BY <1>4, <2>1, <2>2, <2>3 DEF ChildStep
<1> QED
  BY <1>1, <1>2, <1>3, <1>4 DEF Move

(* With the ring as it is before his eyes, a producer does a proper push, ... *)
LEMMA PushIsPush ==
    ASSUME RingTypes, NEW t \in Procs, Push(t), seen[t] = q
    PROVE  q' = RingPush(q, msg[t])
<1>1. Shape(q)
  BY DEF RingTypes
<1>2. [q.buffer EXCEPT ![q.tail] = msg[t]]
        = [i \in DOMAIN q.buffer |-> IF i = q.tail THEN msg[t] ELSE q.buffer[i]]
  BY <1>1 DEF Shape
<1> QED
  BY <1>1, <1>2 DEF Push, RingPush, Shape, RingType

(* ... and a consumer a proper pop. *)
LEMMA PopIsPop ==
    ASSUME RingTypes, NEW t \in Procs, Pop(t), seen[t] = q
    PROVE  q' = RingPop(q)
BY DEF Pop, RingPop, RingTypes, Shape, RingType

(* The semaphores alone keep the ring coherent. *)
LEMMA StepRing ==
    ASSUME RingTypes, ProcTypes, ProcTypes', HoldInv, LockInv, RingInv, Move
    PROVE  RingInv'
<1>1. MsgInv'
  BY StepMsg DEF RingInv
<1> SUFFICES ASSUME ~barged'
             PROVE  CountInv' /\ RingOK(q)' /\ \A t \in Inside' : seen'[t] = q'
  BY <1>1 DEF RingInv
<1>2. ~barged
  BY DEF Move, Idle, Born, Killed, Interrupted, ChildStep, Loop, TakeSlot, Check,
         TakeMutex, FallAsleep, Push, Pop, Unlock, Announce, Sleep, childVars
<1>3. CountInv /\ RingOK(q) /\ (\A t \in Inside : seen[t] = q) /\ MsgInv
  BY <1>2 DEF RingInv
<1>4. /\ q.load \in Int /\ q.size = QueueSize /\ QueueSize \in Nat
      /\ q \in RingType(QueueSize)
      /\ Total("full") \in Nat /\ Total("empty") \in Nat
      /\ q.load >= Total("full") /\ QueueSize - q.load >= Total("empty")
  BY <1>3, SemAssumption, TotalNat DEF CountInv, Total, RingTypes, Shape, RingType
<1>5. CASE \A t \in Procs : ~Push(t) /\ ~Pop(t)
  <2>1. UNCHANGED q /\ \A t \in Inside' : seen'[t] = q'
    BY <1>3, <1>5, StepSeen
  <2>2. Total("full")' <= Total("full") /\ Total("empty")' <= Total("empty")
    BY <1>5, StepTotals
  <2>3. CountInv'
    BY <1>4, <2>1, <2>2, TotalNatNext DEF CountInv, Total
  <2> QED
    BY <1>3, <2>1, <2>3
<1>6. ASSUME NEW t \in Procs, Push(t) \/ Pop(t)
      PROVE  CountInv' /\ RingOK(q)' /\ \A u \in Inside' : seen'[u] = q'
  <2>1. Inside' = {}
    <3>1. \A u \in Procs : pc[u] = "inside" => u = t
      BY <1>2, <1>6 DEF LockInv, InSection, Push, Pop
    <3> QED
      BY <1>6, <3>1 DEF Push, Pop, Goto, Inside, ProcTypes
  <2>2. seen[t] = q
    BY <1>3, <1>6 DEF Inside, Push, Pop
  <2>3. /\ Total(Takes(t))' <= Total(Takes(t)) - 1
        /\ Total(Gives(t))' <= Total(Gives(t)) + 1
        /\ Total(Takes(t)) > 0
    BY <1>6, WorkTotal, TotalNat, TakesGives
  <2>4. CASE Push(t)
    <3>1. Takes(t) = "empty" /\ Gives(t) = "full" /\ t \in Prod
      BY <2>4 DEF Push, Takes, Gives
    <3>2. msg[t] \in Msg
      BY <1>3, <2>4, <3>1 DEF MsgInv, Push
    <3>3. q.load < q.size
      BY <1>4, <2>3, <3>1
    <3>4. q' = RingPush(q, msg[t])
      BY <2>2, <2>4, PushIsPush
    <3>5. RingOK(q')
      BY <1>3, <1>4, <3>2, <3>3, <3>4, PushKeepsRing
    <3>6. q'.load = q.load + 1
      BY <1>4, <3>4 DEF RingPush, RingType
    <3>7. CountInv'
      BY <1>4, <2>3, <3>1, <3>6, TotalNatNext DEF CountInv, Total
    <3> QED
      BY <2>1, <3>5, <3>7
  <2>5. CASE Pop(t)
    <3>1. Takes(t) = "full" /\ Gives(t) = "empty"
      BY <2>5, SemAssumption DEF Pop, Takes, Gives
    <3>2. q.load > 0
      BY <1>4, <2>3, <3>1
    <3>3. q' = RingPop(q)
      BY <2>2, <2>5, PopIsPop
    <3>4. RingOK(q')
      BY <1>3, <1>4, <3>2, <3>3, PopKeepsRing
    <3>5. q'.load = q.load - 1
      BY <1>4, <3>3 DEF RingPop, RingType
    <3>6. CountInv'
      BY <1>4, <2>3, <3>1, <3>5, TotalNatNext DEF CountInv, Total
    <3> QED
      BY <2>1, <3>4, <3>6
  <2> QED
    BY <1>6, <2>4, <2>5
<1> QED
  BY <1>5, <1>6

(* The initial ring is coherent, and nobody owes anything. *)
LEMMA InitRing == Init => RingInv
<1> SUFFICES ASSUME Init PROVE RingInv
  OBVIOUS
<1>0. QueueSize \in Nat \ {0}
  BY SemAssumption
<1>1. MsgInv
  BY SemAssumption DEF Init, MsgInv, Procs
<1>2. Inside = {} /\ Owing("full") = {} /\ Owing("empty") = {}
  BY DEF Init, Inside, Owing, Owes
<1>3. /\ q.load = 0 /\ q.size = QueueSize /\ q.head = 0 /\ q.tail = 0
      /\ q.added = 0 /\ q.extracted = 0
      /\ q.buffer \in [0..QueueSize-1 -> Msg \cup {Garbage}]
      /\ sem.empty = QueueSize /\ sem.full = 0
  BY DEF Init, NewRing
<1>4. CountInv
  <2>1. Cardinality(Owing("full")) = 0 /\ Cardinality(Owing("empty")) = 0
    BY <1>2, FS_EmptySet
  <2>2. q.load = 0 /\ sem["empty"] = QueueSize /\ sem["full"] = 0
    BY <1>3
  <2> QED
    BY <1>0, <2>1, <2>2 DEF CountInv
<1>5. Slot(q, q.load) = 0
  BY <1>0, <1>3 DEF Slot
<1>6. RingOK(q)
  BY <1>0, <1>3, <1>5 DEF RingOK
<1> QED
  BY <1>1, <1>2, <1>4, <1>6 DEF RingInv

(* queue_push and queue_pop of LAB_4 check nothing, and still the ring     *)
(* never overflows, underflows or tears, for any number of children and    *)
(* wherever they give up or are killed, until a SIGTERM throws one of them *)
(* out of its wait for SEM_MUTEX.                                          *)
THEOREM RingStaysCoherent == Spec => []RingCoherent
<1> DEFINE Inv == TypeInv /\ HoldInv /\ LockInv /\ RingInv
<1>1. Init => Inv
  BY InitTypes, InitHold, InitLock, InitRing
<1>2. Inv /\ [Next]_vars => Inv'
  <2> SUFFICES ASSUME TypeInv, HoldInv, LockInv, RingInv, [Next]_vars PROVE Inv'
    OBVIOUS
  <2>1. TypeInv' /\ Move /\ RingTypes /\ ProcTypes
    BY StepTypes, EveryStepMoves, TypeParts
  <2>2. ProcTypes'
    BY <2>1 DEF TypeInv, TypeOK, ProcTypes
  <2> QED
    BY <2>1, <2>2, StepHold, StepLock, StepRing
<1>3. Inv => RingCoherent
  BY DEF RingInv, RingCoherent
<1> HIDE DEF Inv
<1> QED
  BY <1>1, <1>2, <1>3, PTL DEF Spec

-----------------------------------------------------------------------------
(* The load. *)

Stored == {t \in Prod : pc[t] \in {"unlock", "announce"}}
Removed == {t \in Cons : pc[t] \in {"unlock", "announce"}}

(* LoadMatchesTokens without a subtraction. *)
LoadInv == ~barged => q.load + Cardinality(Removed) = Slots("full") + Cardinality(Stored)

(* The children counted are children. *)
LEMMA WorkersCounted ==
    /\ Stored \in SUBSET Procs /\ Removed \in SUBSET Procs
    /\ Cardinality(Stored) \in Nat /\ Cardinality(Removed) \in Nat
<1>1. Stored \in SUBSET Procs /\ Removed \in SUBSET Procs
  BY DEF Stored, Removed, Procs
<1> QED
  BY <1>1, CountChildren

(* The same after a step. *)
LEMMA WorkersCountedNext ==
    Cardinality(Stored') \in Nat /\ Cardinality(Removed') \in Nat
<1>1. Stored' \in SUBSET Procs /\ Removed' \in SUBSET Procs
  BY DEF Stored, Removed, Procs
<1> QED
  BY <1>1, CountChildren

(* A child comes to the V operations by a push or a pop alone, and leaves  *)
(* them with the second V operation, unless it is killed.                  *)
LEMMA WorkersStay ==
    ASSUME ProcTypes, Gentle, \A t \in Procs : ~Push(t) /\ ~Pop(t) /\ ~Announce(t)
    PROVE  Stored' = Stored /\ Removed' = Removed
<1> DEFINE W == {"unlock", "announce"}
<1>0. ASSUME \A u \in Procs : pc'[u] \in W <=> pc[u] \in W
      PROVE  Stored' = Stored /\ Removed' = Removed
  BY <1>0 DEF Stored, Removed, Procs
<1>1. CASE Idle
  BY <1>0, <1>1 DEF Idle
<1>2. ASSUME NEW t \in Procs, NEW p \in Places, pc' = [pc EXCEPT ![t] = p],
             p \in W <=> pc[t] \in W
      PROVE  Stored' = Stored /\ Removed' = Removed
  BY <1>0, <1>2 DEF ProcTypes
<1>3. ASSUME NEW t \in Procs, Born(t) PROVE Stored' = Stored /\ Removed' = Removed
  BY <1>2, <1>3 DEF Born, Goto, Places
<1>4. ASSUME NEW S \in SUBSET Procs, Interrupted(S)
      PROVE  Stored' = Stored /\ Removed' = Removed
  BY <1>0, <1>4 DEF Interrupted
<1>5. ASSUME NEW t \in Procs, ChildStep(t) PROVE Stored' = Stored /\ Removed' = Removed
  <2>1. CASE Unlock(t)
    <3>1. Give(t, "mutex", "mutex", "announce") /\ pc[t] = "unlock" /\ "mutex" \in Tokens
      BY <2>1 DEF Unlock, Tokens
    <3>2. CASE Goto(t, "announce")
      BY <1>2, <3>1, <3>2 DEF Goto, Places
    <3>3. ASSUME NEW u \in Procs \ {t}, pc[u] = "asleepMutex",
                 pc' = [pc EXCEPT ![t] = "announce", ![u] = "inside"]
          PROVE  Stored' = Stored /\ Removed' = Removed
      BY <1>0, <3>1, <3>3 DEF ProcTypes
    <3> QED
      BY <3>1, <3>2, <3>3, GiveToOne
  <2>2. CASE ~Unlock(t)
    <3>1. /\ pc[t] \notin W
          /\ \E p \in Places \ W : pc' = [pc EXCEPT ![t] = p]
      BY <1>5, <2>2 DEF ChildStep, Loop, TakeSlot, Check, TakeMutex, Take, FallAsleep, Sleep,
                        Goto, Places, Asleep
    <3> QED
      BY <1>2, <3>1
  <2> QED
    BY <2>1, <2>2
<1> QED
  BY <1>1, <1>3, <1>4, <1>5 DEF Gentle

(* A push adds to what its producer is about to announce, a pop takes away *)
(* what its consumer is about to announce.                                 *)
LEMMA WorkLoad ==
    ASSUME RingTypes, ProcTypes, NEW t \in Procs, Push(t) \/ Pop(t), seen[t] = q, LoadInv, ~barged
    PROVE  LoadInv'
<1>1. /\ Stored \in SUBSET Procs /\ Removed \in SUBSET Procs
      /\ Cardinality(Stored) \in Nat /\ Cardinality(Removed) \in Nat
  BY WorkersCounted
<1>2. UNCHANGED <<sem, holds>> /\ pc[t] = "inside" /\ pc' = [pc EXCEPT ![t] = "unlock"]
  BY DEF Push, Pop, Goto
<1>3. Slots("full")' = Slots("full")
  BY <1>2 DEF Slots, HoldersOf
<1>4. /\ q.load \in Int /\ Slots("full") \in Nat
      /\ q.load + Cardinality(Removed) = Slots("full") + Cardinality(Stored)
  BY SlotsSum DEF RingTypes, RingType, LoadInv
<1>5. t \in Procs \ Stored /\ t \in Procs \ Removed
  BY <1>2 DEF Stored, Removed
<1>6. CASE Push(t)
  <2>1. Stored' = Stored \cup {t} /\ Removed' = Removed
    BY <1>2, <1>6, SemAssumption DEF Push, Stored, Removed, ProcTypes, Procs
  <2>2. q' = RingPush(q, msg[t])
    BY <1>6, PushIsPush
  <2>3. q'.load = q.load + 1
    BY <2>2 DEF RingPush, RingTypes, RingType
  <2>4. Cardinality(Stored \cup {t}) = Cardinality(Stored) + 1
    BY <1>1, <1>5, CountChildren
  <2> QED
    BY <1>1, <1>3, <1>4, <2>1, <2>3, <2>4 DEF LoadInv
<1>7. CASE Pop(t)
  <2>1. Removed' = Removed \cup {t} /\ Stored' = Stored
    BY <1>2, <1>7, SemAssumption DEF Pop, Stored, Removed, ProcTypes, Procs
  <2>2. q' = RingPop(q)
    BY <1>7, PopIsPop
  <2>3. q'.load = q.load - 1
    BY <2>2 DEF RingPop, RingTypes, RingType
  <2>4. Cardinality(Removed \cup {t}) = Cardinality(Removed) + 1
    BY <1>1, <1>5, CountChildren
  <2> QED
    BY <1>1, <1>3, <1>4, <2>1, <2>3, <2>4 DEF LoadInv
<1> QED
  BY <1>6, <1>7

(* The second V operation gives the announced slot away. *)
LEMMA AnnounceLoad ==
    ASSUME ProcTypes, HoldInv, NEW t \in Procs, Announce(t), q.load \in Int, LoadInv, ~barged
    PROVE  LoadInv'
<1>1. /\ Stored \in SUBSET Procs /\ Removed \in SUBSET Procs
      /\ Cardinality(Stored) \in Nat /\ Cardinality(Removed) \in Nat
  BY WorkersCounted
<1>2. /\ Slots("full") \in Nat /\ UNCHANGED q
      /\ q.load + Cardinality(Removed) = Slots("full") + Cardinality(Stored)
  BY SlotsSum DEF LoadInv, Announce
<1>3. /\ Slots(Takes(t))' = Slots(Takes(t)) - 1
      /\ Slots(Gives(t))' = Slots(Gives(t)) + 1
  BY AnnounceSlots
<1>4. Stored' = Stored \ {t} /\ Removed' = Removed \ {t}
  <2>1. Give(t, Gives(t), Takes(t), "sleep") /\ pc[t] \in {"unlock", "announce"}
        /\ Gives(t) \in Tokens /\ Gives(t) # "mutex"
    BY TakesGives DEF Announce, Tokens
  <2>2. ASSUME \A u \in Procs : pc'[u] \in {"unlock", "announce"} <=>
                                  pc[u] \in {"unlock", "announce"} /\ u # t
        PROVE  Stored' = Stored \ {t} /\ Removed' = Removed \ {t}
    BY <2>2 DEF Stored, Removed, Procs
  <2>3. CASE Goto(t, "sleep")
    BY <2>2, <2>3 DEF Goto, ProcTypes
  <2>4. ASSUME NEW u \in Procs \ {t}, pc[u] = "asleepSlot",
               pc' = [pc EXCEPT ![t] = "sleep", ![u] = "check"]
        PROVE  Stored' = Stored \ {t} /\ Removed' = Removed \ {t}
    BY <2>2, <2>4 DEF ProcTypes
  <2> QED
    BY <2>1, <2>3, <2>4, GiveToOne
<1>5. CASE t \in Prod
  <2>1. Gives(t) = "full" /\ t \in Stored /\ t \notin Removed
    BY <1>5, SemAssumption DEF Gives, Stored, Removed, Announce
  <2>2. Cardinality(Stored \ {t}) = Cardinality(Stored) - 1 /\ Removed \ {t} = Removed
    BY <1>1, <2>1, CountChildren
  <2>3. Slots("full")' = Slots("full") + 1
    BY <1>3, <2>1
  <2>4. Cardinality(Stored') = Cardinality(Stored) - 1 /\ Removed' = Removed
    BY <1>4, <2>2
  <2> QED
    BY <1>1, <1>2, <2>3, <2>4 DEF LoadInv
<1>6. CASE t \in Cons
  <2>1. Takes(t) = "full" /\ t \in Removed /\ t \notin Stored
    BY <1>6, SemAssumption DEF Takes, Stored, Removed, Announce
  <2>2. Cardinality(Removed \ {t}) = Cardinality(Removed) - 1 /\ Stored \ {t} = Stored
    BY <1>1, <2>1, CountChildren
  <2>3. Slots("full")' = Slots("full") - 1
    BY <1>3, <2>1
  <2>4. Cardinality(Removed') = Cardinality(Removed) - 1 /\ Stored' = Stored
    BY <1>4, <2>2
  <2> QED
    BY <1>1, <1>2, <2>3, <2>4 DEF LoadInv
<1> QED
  BY <1>5, <1>6 DEF Procs

(* As long as nobody is killed, the load is accounted for. *)
LEMMA StepLoad ==
    ASSUME RingTypes, ProcTypes, HoldInv, RingInv, LoadInv, Gentle
    PROVE  LoadInv'
<1> SUFFICES ASSUME ~barged' PROVE LoadInv'
  BY DEF LoadInv
<1>1. ~barged
  BY DEF Gentle, Idle, Born, Interrupted, ChildStep, Loop, TakeSlot, Check,
         TakeMutex, FallAsleep, Push, Pop, Unlock, Announce, Sleep, childVars
<1>2. ASSUME NEW t \in Procs, Push(t) \/ Pop(t) PROVE LoadInv'
  <2>1. seen[t] = q
    BY <1>1, <1>2 DEF RingInv, Inside, Push, Pop
  <2> QED
    BY <1>1, <1>2, <2>1, WorkLoad
<1>3. ASSUME NEW t \in Procs, Announce(t) PROVE LoadInv'
  BY <1>1, <1>3, AnnounceLoad DEF RingTypes, RingType
<1>4. CASE \A t \in Procs : ~Push(t) /\ ~Pop(t) /\ ~Announce(t)
  <2>1. Move
    BY DEF Gentle, Move
  <2>2. UNCHANGED q
    BY <1>1, <1>4, <2>1, StepSeen DEF RingInv
  <2>3. Slots("full")' = Slots("full")
    BY <1>4, <2>1, SlotsKept
  <2>4. Stored' = Stored /\ Removed' = Removed
    BY <1>4, WorkersStay
  <2> QED
    BY <1>1, <2>2, <2>3, <2>4 DEF LoadInv
<1> QED
  BY <1>2, <1>3, <1>4

(* Every slot and every message is accounted for: the semaphores and what  *)
(* the children have in their hands make up all slots for good, and the    *)
(* current_load of the ring until a child barges in or is killed, with     *)
(* children that give up, or exit with a token, at any place on the way.   *)
THEOREM EverySlotAccounted == Spec => []SlotsAccounted
<1> DEFINE Inv == /\ TypeInv /\ HoldInv /\ LockInv /\ RingInv
                  /\ main \notin {"kill", "done"} => LoadInv
<1>1. Init => Inv
  <2> SUFFICES ASSUME Init PROVE LoadInv
    BY InitTypes, InitHold, InitLock, InitRing
  <2>1. Stored = {} /\ Removed = {} /\ HoldersOf("full") = {}
    BY DEF Init, Stored, Removed, HoldersOf, Procs
  <2>2. q.load = 0 /\ sem["full"] = 0
    BY DEF Init, NewRing
  <2> QED
    BY <2>1, <2>2, FS_EmptySet DEF LoadInv, Slots
<1>2. Inv /\ [Next]_vars => Inv'
  <2> SUFFICES ASSUME TypeInv, HoldInv, LockInv, RingInv,
                      main \notin {"kill", "done"} => LoadInv, [Next]_vars
               PROVE  Inv'
    OBVIOUS
  <2>1. TypeInv' /\ Move /\ RingTypes /\ ProcTypes
    BY StepTypes, EveryStepMoves, TypeParts
  <2>2. ProcTypes'
    BY <2>1 DEF TypeInv, TypeOK, ProcTypes
  <2>3. main' \notin {"kill", "done"} => LoadInv'
    BY <2>1, GentleUntilKilling, StepLoad
  <2> QED
    BY <2>1, <2>2, <2>3, StepHold, StepLock, StepRing
<1>3. Inv /\ SlotsConserved => SlotsAccounted
  <2> SUFFICES ASSUME TypeInv, main \notin {"kill", "done"} => LoadInv, ~barged,
                      main \notin {"kill", "done"}
               PROVE  q.load = sem.full + Holders("full") + Cardinality(Stored)
                               - Cardinality(Removed)
    BY DEF SlotsAccounted, LoadMatchesTokens, Stored, Removed
  <2>1. q.load + Cardinality(Removed) = sem.full + Holders("full") + Cardinality(Stored)
    BY DEF LoadInv, Slots, Holders, HoldersOf
  <2>2. q.load \in Int /\ sem.full \in Nat
    BY DEF TypeInv, TypeOK, RingType, Tokens
  <2>3. Holders("full") \in Nat
    BY CountChildren DEF Holders
  <2> QED
    BY <2>1, <2>2, <2>3, WorkersCounted
<1> HIDE DEF Inv
<1> QED
  BY <1>1, <1>2, <1>3, SlotsStay, PTL DEF Spec
=============================================================================
