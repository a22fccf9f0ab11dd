------------------------- MODULE TokenQueueProofs -------------------------
(***************************************************************************)
(* Proofs about TokenQueue, for any number of threads, any sizes of the    *)
(* ring, and any number of signals, kills and resizes.                     *)
(***************************************************************************)
EXTENDS TokenQueue, MessageRingProofs, FiniteSetTheorems, SequenceTheorems

-----------------------------------------------------------------------------
(* The threads. *)

ProcTypes ==
    /\ mutex \in Workers \cup {NoThread}
    /\ {run, damaged} \subseteq BOOLEAN
    /\ pc \in [Workers -> WorkerPlaces]
    /\ cancelled \subseteq Workers
    /\ signals \in 0..MaxSignals
    /\ main \in MainPlaces
    /\ newSize \in 0..MaxSize
    /\ victim \in Workers \cup {NoThread}
    /\ prods \in Seq(Prod) /\ cons \in Seq(Cons)
    /\ lost \in [{"empty", "full"} -> Nat]

(* What is known of the constants. *)
LEMMA Constants ==
    /\ NoThread \notin Workers /\ IsFiniteSet(Workers)
    /\ \A t \in Workers : (t \in Cons) = (t \notin Prod)
    /\ Prod \subseteq Workers /\ Cons \subseteq Workers
    /\ MaxSize \in Nat \ {0} /\ InitSize \in 1..MaxSize
    /\ MaxThreads \in Nat /\ MaxAdded \in Nat /\ MaxSignals \in Nat
BY TokenAssumption DEF Workers

LEMMA ProcInit == Init => ProcTypes
<1> SUFFICES ASSUME Init PROVE ProcTypes
  OBVIOUS
<1>1. prods \in Seq(Prod) /\ cons \in Seq(Cons)
  BY EmptySeq DEF Init
<1>2. signals \in 0..MaxSignals /\ newSize \in 0..MaxSize
  BY Constants DEF Init
<1>3. pc \in [Workers -> WorkerPlaces]
  BY DEF Init, WorkerPlaces
<1>4. {run, damaged} \subseteq BOOLEAN
  BY DEF Init
<1>5. lost \in [{"empty", "full"} -> Nat]
  BY DEF Init
<1> QED
  BY <1>1, <1>2, <1>3, <1>4, <1>5 DEF Init, ProcTypes, MainPlaces

(* A worker's step. *)
LEMMA ProcWorker ==
    ASSUME ProcTypes, NEW t \in Workers, WorkerStep(t) PROVE ProcTypes'
<1> USE Constants
<1>1. ASSUME UnchangedByWorker, mutex' \in Workers \cup {NoThread},
             NEW p \in WorkerPlaces, Goto(t, p)
      PROVE  ProcTypes'
  BY <1>1 DEF ProcTypes, UnchangedByWorker, mainVars, tableVars, Goto
<1>2. CASE Loop(t) \/ TakeToken(t) \/ FallAsleep(t) \/ Timeout(t)
  BY <1>1, <1>2 DEF Loop, TakeToken, FallAsleep, Timeout, ProcTypes, WorkerPlaces
<1>3. CASE Check(t) \/ Pop(t) \/ Report(t) \/ Announce(t)
  BY <1>1, <1>3 DEF Check, Pop, Report, Announce, ProcTypes, WorkerPlaces
<1>4. CASE Refund(t) \/ Sleep(t) \/ ActOnCancel(t)
  BY <1>1, <1>4 DEF Refund, Sleep, ActOnCancel, ProcTypes, WorkerPlaces
<1>5. CASE Push(t)
  <2>1. /\ mutex' \in {mutex, t} /\ main' \in {main, "aborted"}
        /\ UNCHANGED <<run, cancelled, signals, newSize, tableVars, damaged, lost>>
    BY <1>5 DEF Push
  <2>2. pc' \in [Workers -> WorkerPlaces]
    BY <1>5 DEF Push, Goto, ProcTypes, WorkerPlaces
  <2> QED
    BY <2>1, <2>2 DEF ProcTypes, tableVars, MainPlaces
<1> QED
  BY <1>2, <1>3, <1>4, <1>5 DEF WorkerStep

(* A step of the user, the main thread or a signal. *)
LEMMA ProcOther ==
    ASSUME ProcTypes, UserStep \/ MainStep \/ Signal \/ Exited \/ UNCHANGED vars
    PROVE  ProcTypes'
<1> USE Constants
<1>1. CASE NoCommand \/ Quit
  BY <1>1 DEF NoCommand, Quit, MainGoes, ProcTypes, tableVars, UnchangedQueue, UnchangedByMain,
              MainPlaces
<1>2. ASSUME NEW table \in {prods, cons}, KillCommand(table) PROVE ProcTypes'
  <2>1. table[Len(table)] \in Workers
    BY <1>2 DEF KillCommand, ProcTypes
  <2> QED
    BY <1>2, <2>1 DEF KillCommand, MainGoes, ProcTypes, UnchangedQueue, UnchangedByMain, MainPlaces
<1>3. ASSUME NEW t \in Workers, AddThread(t) PROVE ProcTypes'
  <2>1. pc' \in [Workers -> WorkerPlaces]
    BY <1>3 DEF AddThread, Goto, ProcTypes, WorkerPlaces
  <2>2. prods' \in Seq(Prod) /\ cons' \in Seq(Cons)
    <3>1. CASE t \in Prod /\ prods' = Append(prods, t) /\ UNCHANGED cons
      BY <3>1, AppendProperties DEF ProcTypes
    <3>2. CASE t \in Cons /\ cons' = Append(cons, t) /\ UNCHANGED prods
      BY <3>2, AppendProperties DEF ProcTypes
    <3> QED
      BY <1>3, <3>1, <3>2 DEF AddThread
  <2> QED
    BY <1>3, <2>1, <2>2 DEF AddThread, MainGoes, ProcTypes, UnchangedQueue, UnchangedByMain, MainPlaces
<1>4. ASSUME NEW n, ResizeCommand(n) PROVE ProcTypes'
  <2>1. n \in 0..MaxSize
    BY <1>4 DEF ResizeCommand
  <2> QED
    BY <1>4, <2>1 DEF ResizeCommand, MainGoes, ProcTypes, tableVars, UnchangedQueue, UnchangedByMain,
                      MainPlaces
<1>5. CASE CheckRunning
  BY <1>5 DEF CheckRunning, ProcTypes, tableVars, UnchangedQueue, MainPlaces
<1>6. CASE Resize
  <2>1. damaged' \in BOOLEAN
    BY <1>6 DEF Resize, ProcTypes
  <2>2. newSize' \in {0, newSize} /\ main' \in {"loop", "initEmpty"}
    BY <1>6 DEF Resize
  <2> QED
    BY <1>6, <2>1, <2>2 DEF Resize, ProcTypes, tableVars, UnchangedByMain, MainPlaces
<1>7. CASE InitEmpty \/ InitFull
  BY <1>7 DEF InitEmpty, InitFull, MainGoes, ProcTypes, tableVars, UnchangedByMain, MainPlaces
<1>13. CASE StoreEmpty \/ StoreFull
  <2>1. PICK k \in {"empty", "full"} : \E right : SemInit(k, right)
    BY <1>13 DEF StoreEmpty, StoreFull
  <2>2. damaged' \in BOOLEAN /\ lost' \in [{"empty", "full"} -> Nat]
    BY <2>1 DEF SemInit, ProcTypes
  <2>3. newSize' \in {0, newSize} /\ main' \in {"loop", "initFull"}
    BY <1>13 DEF StoreEmpty, StoreFull, MainGoes
  <2> QED
    BY <2>1, <2>2, <2>3 DEF SemInit, ProcTypes, tableVars, UnchangedByMain, MainPlaces
<1>8. CASE JoinVictim
  <2>1. SubSeq(prods, 1, Len(prods) - 1) \in Seq(Prod)
    BY DEF ProcTypes
  <2>2. SubSeq(cons, 1, Len(cons) - 1) \in Seq(Cons)
    BY DEF ProcTypes
  <2>3. prods' \in Seq(Prod) /\ cons' \in Seq(Cons)
    BY <1>8, <2>1, <2>2 DEF JoinVictim, ProcTypes
  <2> QED
    BY <1>8, <2>3 DEF JoinVictim, MainGoes, ProcTypes, UnchangedQueue, UnchangedByMain, MainPlaces
<1>9. CASE PostAll \/ CancelAll \/ Destroy
  BY <1>9 DEF PostAll, CancelAll, Destroy, InTables, MainGoes, ProcTypes, tableVars, UnchangedQueue,
              UnchangedByMain, MainPlaces
<1>10. CASE JoinAll
  <2>1. <<>> \in Seq(Prod) /\ <<>> \in Seq(Cons)
    BY EmptySeq
  <2> QED
    BY <1>10, <2>1 DEF JoinAll, MainGoes, ProcTypes, UnchangedQueue, UnchangedByMain, MainPlaces
<1>11. CASE Signal
  <2>1. signals' \in 0..MaxSignals
    BY <1>11 DEF Signal, ProcTypes
  <2>2. run' = FALSE
    BY <1>11 DEF Signal
  <2> QED
    BY <1>11, <2>1, <2>2 DEF Signal, ProcTypes, mainVars, tableVars
<1>12. CASE Exited \/ UNCHANGED vars
  BY <1>12 DEF Exited, vars, ProcTypes, mainVars, tableVars
<1> QED
  BY <1>1, <1>2, <1>3, <1>4, <1>5, <1>6, <1>7, <1>8, <1>9, <1>10, <1>11, <1>12,
     <1>13 DEF UserStep, MainStep

(* A signal that kills a cancelled thread.                                 *)
LEMMA ProcLost ==
    ASSUME ProcTypes, NEW t \in Workers, SignalLost(t) PROVE ProcTypes'
<1>1. signals' \in 0..MaxSignals /\ "dead" \in WorkerPlaces
  BY Constants DEF SignalLost, ProcTypes, WorkerPlaces
<1>2. lost' \in [{"empty", "full"} -> Nat]
  BY DEF SignalLost, ProcTypes
<1>3. pc' \in [Workers -> WorkerPlaces]
  BY <1>1 DEF SignalLost, Goto, ProcTypes
<1> QED
  BY <1>1, <1>2, <1>3 DEF SignalLost, ProcTypes, mainVars, tableVars

LEMMA ProcStep == ASSUME ProcTypes, [Next]_vars PROVE ProcTypes'
BY ProcWorker, ProcOther, ProcLost DEF Next

(* Who owns the mutex is in printf, or has been cancelled there.           *)
MutexInv == \A t \in Workers : /\ mutex = t => pc[t] \in {"report", "dead"}
                               /\ pc[t] = "report" => mutex = t
                               /\ pc[t] = "refund" => t \in Prod

Ended(t) == pc[t] \in {"unborn", "dead"}

(* The shutdown finds everybody: who runs is in a table.                   *)
EndInv ==
    /\ \A t \in Workers : ~Ended(t) => t \in InTables
    /\ main = "join" => \/ prods # <<>> /\ victim = prods[Len(prods)]
                        \/ cons # <<>> /\ victim = cons[Len(cons)]
    /\ main \in {"post", "cancel", "joinall", "destroy", "done"} => ~run
    /\ main \in {"destroy", "done", "aborted"} => \A t \in Workers : Ended(t)

PlacesInv == MutexInv /\ EndInv

LEMMA PlacesInit == Init => PlacesInv
BY Constants DEF Init, PlacesInv, MutexInv, EndInv, Ended

(* A worker takes the mutex free, and lets it go on its way out.           *)
LEMMA PlacesWorker ==
    ASSUME ProcTypes, PlacesInv, NEW t \in Workers, WorkerStep(t) PROVE PlacesInv'
<1>0. NoThread # t /\ pc[t] \notin {"unborn", "dead"} /\ (mutex = t => pc[t] = "report")
  BY Constants DEF PlacesInv, MutexInv, WorkerStep, Loop, TakeToken, FallAsleep, Timeout, Check,
                   Push, Pop, Report, Announce, Refund, Sleep, ActOnCancel
<1>1. ASSUME NEW p \in WorkerPlaces, Goto(t, p), UNCHANGED main, run' = run,
             UNCHANGED <<victim, prods, cons>>, p = "refund" => t \in Prod,
             \/ mutex' = mutex /\ p # "report" /\ (mutex = t => p = "dead")
             \/ mutex' = t /\ mutex = NoThread /\ p = "report"
             \/ mutex' = NoThread /\ mutex = t /\ p # "report"
      PROVE  PlacesInv'
  <2>1. \A u \in Workers : pc'[u] = IF u = t THEN p ELSE pc[u]
    BY <1>1 DEF Goto, ProcTypes
  <2>2. MutexInv'
    BY <1>0, <1>1, <2>1, Constants DEF PlacesInv, MutexInv
  <2>3. InTables' = InTables
    BY <1>1 DEF InTables
  <2>4. main \notin {"destroy", "done", "aborted"}
    BY <1>0 DEF PlacesInv, EndInv, Ended
  <2>5. EndInv'
    BY <1>0, <1>1, <2>1, <2>3, <2>4 DEF PlacesInv, EndInv, Ended
  <2> QED
    BY <2>2, <2>5 DEF PlacesInv
<1>2. UnchangedByWorker => UNCHANGED main /\ run' = run /\ UNCHANGED <<victim, prods, cons>>
  BY DEF UnchangedByWorker, mainVars, tableVars
<1>3. CASE Loop(t) \/ TakeToken(t) \/ FallAsleep(t) \/ Timeout(t)
  BY <1>0, <1>1, <1>2, <1>3 DEF Loop, TakeToken, FallAsleep, Timeout, WorkerPlaces
<1>4. CASE Check(t) \/ Pop(t) \/ Report(t) \/ Announce(t)
  BY <1>0, <1>1, <1>2, <1>4 DEF Check, Pop, Report, Announce, WorkerPlaces, PlacesInv, MutexInv
<1>5. CASE Refund(t) \/ Sleep(t) \/ ActOnCancel(t)
  BY <1>0, <1>1, <1>2, <1>5 DEF Refund, Sleep, ActOnCancel, WorkerPlaces
<1>6. CASE Push(t)
  <2>1. t \in Prod /\ mutex = NoThread /\ run' = run /\ UNCHANGED <<victim, prods, cons>>
    BY <1>6 DEF Push, tableVars
  <2>2. CASE Goto(t, "refund") /\ UNCHANGED <<mutex, main>>
    BY <1>0, <1>1, <2>1, <2>2 DEF WorkerPlaces
  <2>3. CASE Goto(t, "report") /\ mutex' = t /\ UNCHANGED main
    BY <1>0, <1>1, <2>1, <2>3 DEF WorkerPlaces
  <2>4. CASE /\ main' = "aborted" /\ UNCHANGED mutex
             /\ pc' = [w \in Workers |-> IF pc[w] = "unborn" THEN "unborn" ELSE "dead"]
    BY <2>1, <2>4, Constants DEF PlacesInv, MutexInv, EndInv, Ended
  <2> QED
    BY <1>6, <2>2, <2>3, <2>4 DEF Push
<1> QED
  BY <1>3, <1>4, <1>5, <1>6 DEF WorkerStep

(* Main joins whom it has cancelled before it drops him from his table.    *)
LEMMA VictimDropped ==
    ASSUME ProcTypes, PlacesInv, JoinVictim PROVE PlacesInv'
<1>1. /\ main = "join" /\ main' = "loop" /\ pc[victim] = "dead"
      /\ UNCHANGED <<mutex, run, pc>>
  BY DEF JoinVictim, MainGoes, UnchangedQueue, UnchangedByMain
<1>2. ASSUME NEW t \in Workers, ~Ended(t) PROVE t \in InTables'
  <2>1. t # victim /\ t \in InTables
    BY <1>1, <1>2 DEF PlacesInv, EndInv, Ended
  <2>2. \A s \in {prods, cons} : Len(s) \in Nat /\ DOMAIN s = 1..Len(s)
    BY DEF ProcTypes
  <2>3. CASE prods # <<>> /\ victim = prods[Len(prods)]
    <3>1. Len(prods) > 0
      BY <2>3, EmptySeq DEF ProcTypes
    <3>2. victim \in Prod
      BY <2>3, <3>1 DEF ProcTypes
    <3>3. prods' = SubSeq(prods, 1, Len(prods) - 1) /\ cons' = cons
      BY <3>2 DEF JoinVictim
    <3>4. \A i \in 1..Len(prods)-1 : i \in DOMAIN prods' /\ prods'[i] = prods[i]
      BY <3>1, <3>3, <2>2 DEF ProcTypes
    <3>5. ASSUME NEW i \in DOMAIN prods, prods[i] = t PROVE i \in DOMAIN prods' /\ prods'[i] = t
      <4>1. i \in 1..Len(prods) /\ i # Len(prods)
        BY <2>1, <2>2, <2>3, <3>5
      <4> QED
        BY <2>2, <3>4, <3>5, <4>1
    <3> QED
      BY <2>1, <3>3, <3>5 DEF InTables
  <2>4. CASE cons # <<>> /\ victim = cons[Len(cons)]
    <3>1. Len(cons) > 0
      BY <2>4, EmptySeq DEF ProcTypes
    <3>2. victim \in Cons /\ victim \notin Prod
      BY <2>4, <3>1, Constants DEF ProcTypes
    <3>3. cons' = SubSeq(cons, 1, Len(cons) - 1) /\ prods' = prods
      BY <3>2 DEF JoinVictim
    <3>4. \A i \in 1..Len(cons)-1 : i \in DOMAIN cons' /\ cons'[i] = cons[i]
      BY <3>1, <3>3, <2>2 DEF ProcTypes
    <3>5. ASSUME NEW i \in DOMAIN cons, cons[i] = t PROVE i \in DOMAIN cons' /\ cons'[i] = t
      <4>1. i \in 1..Len(cons) /\ i # Len(cons)
        BY <2>1, <2>2, <2>4, <3>5
      <4> QED
        BY <2>2, <3>4, <3>5, <4>1
    <3> QED
      BY <2>1, <3>3, <3>5 DEF InTables
  <2> QED
    BY <1>1, <2>3, <2>4 DEF PlacesInv, EndInv
<1> QED
  BY <1>1, <1>2 DEF PlacesInv, MutexInv, EndInv, Ended

(* A step of the user, the main thread or a signal.                        *)
LEMMA PlacesOther ==
    ASSUME ProcTypes, PlacesInv, UserStep \/ MainStep \/ Signal \/ Exited \/ UNCHANGED vars
    PROVE  PlacesInv'
<1>1. ASSUME UNCHANGED <<mutex, pc, prods, cons>>, main' # "join" \/ UNCHANGED <<main, victim>>,
             main' \in {"post", "cancel", "joinall", "destroy", "done"} => ~run',
             main' \in {"destroy", "done", "aborted"} => \A t \in Workers : Ended(t)
      PROVE  PlacesInv'
  BY <1>1 DEF PlacesInv, MutexInv, EndInv, Ended, InTables
<1>2. CASE NoCommand \/ Quit
  BY <1>1, <1>2 DEF NoCommand, Quit, MainGoes, tableVars, UnchangedQueue, UnchangedByMain
<1>3. ASSUME NEW n, ResizeCommand(n) PROVE PlacesInv'
  BY <1>1, <1>3 DEF ResizeCommand, MainGoes, tableVars, UnchangedQueue, UnchangedByMain
<1>4. CASE CheckRunning
  BY <1>1, <1>4 DEF CheckRunning, tableVars, UnchangedQueue
<1>5. CASE Resize \/ InitEmpty \/ StoreEmpty \/ InitFull \/ StoreFull
  BY <1>1, <1>5 DEF Resize, InitEmpty, StoreEmpty, InitFull, StoreFull, SemInit, MainGoes,
                    tableVars, UnchangedByMain
<1>6. CASE PostAll \/ CancelAll \/ Destroy
  BY <1>1, <1>6 DEF PostAll, CancelAll, Destroy, MainGoes, tableVars, UnchangedQueue,
                    UnchangedByMain, PlacesInv, EndInv
<1>7. CASE Signal
  BY <1>1, <1>7 DEF Signal, mainVars, tableVars, PlacesInv, EndInv
<1>8. CASE Exited \/ UNCHANGED vars
  BY <1>1, <1>8 DEF Exited, vars, mainVars, tableVars, PlacesInv, EndInv
<1>9. ASSUME NEW table \in {prods, cons}, KillCommand(table) PROVE PlacesInv'
  BY <1>9 DEF KillCommand, MainGoes, UnchangedQueue, UnchangedByMain, PlacesInv, MutexInv, EndInv,
              Ended, InTables
<1>10. ASSUME NEW t \in Workers, AddThread(t) PROVE PlacesInv'
  <2>1. /\ \A u \in Workers : pc'[u] = IF u = t THEN "loop" ELSE pc[u]
        /\ main' = "loop" /\ pc[t] = "unborn" /\ UNCHANGED mutex
    BY <1>10 DEF AddThread, Goto, MainGoes, UnchangedQueue, ProcTypes
  <2>2. /\ \A i \in DOMAIN prods : i \in DOMAIN prods' /\ prods'[i] = prods[i]
        /\ \A i \in DOMAIN cons : i \in DOMAIN cons' /\ cons'[i] = cons[i]
        /\ t \in InTables'
    <3>0. prods \in Seq(Prod) /\ cons \in Seq(Cons)
      BY DEF ProcTypes
    <3>1. CASE t \in Prod /\ prods' = Append(prods, t) /\ UNCHANGED cons
      BY <3>0, <3>1, AppendProperties DEF InTables
    <3>2. CASE t \in Cons /\ cons' = Append(cons, t) /\ UNCHANGED prods
      BY <3>0, <3>2, AppendProperties DEF InTables
    <3> QED
      BY <1>10, <3>1, <3>2 DEF AddThread
  <2>3. InTables \subseteq InTables'
    BY <2>2 DEF InTables
  <2> QED
    BY <2>1, <2>2, <2>3 DEF PlacesInv, MutexInv, EndInv, Ended
<1>11. CASE JoinVictim
  BY <1>11, VictimDropped
<1>12. CASE JoinAll
  <2>1. /\ main = "joinall" /\ main' = "destroy" /\ UNCHANGED <<mutex, run, pc>>
        /\ \A t \in InTables : pc[t] = "dead"
    BY <1>12 DEF JoinAll, MainGoes, UnchangedQueue, UnchangedByMain
  <2>2. \A t \in Workers : Ended(t)
    BY <2>1 DEF PlacesInv, EndInv, Ended
  <2> QED
    BY <2>1, <2>2 DEF PlacesInv, MutexInv, EndInv, Ended
<1> QED
  BY <1>2, <1>3, <1>4, <1>5, <1>6, <1>7, <1>8, <1>9, <1>10, <1>11, <1>12 DEF UserStep, MainStep

(* A signal that kills a cancelled thread leaves the mutex where it is.    *)
LEMMA PlacesLost ==
    ASSUME ProcTypes, PlacesInv, NEW t \in Workers, SignalLost(t) PROVE PlacesInv'
<1>1. /\ \A u \in Workers : pc'[u] = IF u = t THEN "dead" ELSE pc[u]
      /\ pc[t] \notin {"unborn", "dead"}
      /\ UNCHANGED <<mutex, run, main, victim, prods, cons>>
  BY DEF SignalLost, Goto, ProcTypes, mainVars, tableVars
<1>2. InTables' = InTables
  BY <1>1 DEF InTables
<1> QED
  BY <1>1, <1>2 DEF PlacesInv, MutexInv, EndInv, Ended

LEMMA PlacesStep == ASSUME ProcTypes, PlacesInv, [Next]_vars PROVE PlacesInv'
BY PlacesWorker, PlacesOther, PlacesLost DEF Next

-----------------------------------------------------------------------------
(* The ring and the semaphores. *)

(* The data fields; tail and load may be anything.                         *)
TokenRing == [buffer : Buffers(MaxSize), head : Nat, tail : Int, added : Nat,
              extracted : Nat, load : Int, size : 0..MaxSize]

Typed(r) == r \in TokenRing /\ r.buffer \in [0..r.size-1 -> Msg \cup {Garbage}]

RingTypes ==
    /\ Typed(q)
    /\ sem \in [{"empty", "full"} -> Nat]
    /\ main # "done" => q.size > 0 /\ q.load <= q.size
    /\ main \in {"initEmpty", "storeEmpty", "initFull", "storeFull"} => newSize = q.size
    /\ main = "resize" => newSize > 0
    /\ counted \in Int
    /\ main = "storeEmpty" => counted >= 0

(* What a typed ring is, and what makes one.                               *)
LEMMA TypedFields ==
    ASSUME NEW r, Typed(r)
    PROVE  /\ r.head \in Nat /\ r.tail \in Int /\ r.added \in Nat /\ r.extracted \in Nat
           /\ r.load \in Int /\ r.size \in 0..MaxSize /\ r.size \in Nat /\ r = Fields(r)
           /\ r.buffer \in [0..r.size-1 -> Msg \cup {Garbage}]
BY Constants DEF Typed, TokenRing, Fields

LEMMA IsTyped ==
    ASSUME NEW r, r = Fields(r), r.head \in Nat, r.tail \in Int, r.added \in Nat,
           r.extracted \in Nat, r.load \in Int, r.size \in 0..MaxSize,
           r.buffer \in [0..r.size-1 -> Msg \cup {Garbage}]
    PROVE  Typed(r)
<1>1. r.buffer \in Buffers(MaxSize)
  BY Constants, IsBuffer
<1> QED
  BY <1>1 DEF Typed, TokenRing, Fields

(* The remainder of a number is a slot; that of C is an integer, and that  *)
(* of a number is the usual one.                                           *)
LEMMA ModRange == ASSUME NEW a \in Nat, NEW n \in Nat, n > 0 PROVE a % n \in 0..n-1
OBVIOUS

LEMMA Remainder ==
    ASSUME NEW a \in Int, NEW b \in Nat, b > 0
    PROVE  Rem(a, b) \in Int /\ (a >= 0 => Rem(a, b) = a % b)
BY DEF Rem

(* queue_push leaves a typed ring, and that of MessageRing if tail is one. *)
Pushed(r, m) == [RingPush(r, m) EXCEPT !.tail = Rem(r.tail + 1, r.size)]

LEMMA PushTyped ==
    ASSUME NEW r, Typed(r), r.size > 0, NEW m \in Msg
    PROVE  /\ Typed(Pushed(r, m)) /\ Pushed(r, m).size = r.size
           /\ Pushed(r, m).load = r.load + 1
           /\ r.tail >= 0 => Pushed(r, m) = RingPush(r, m)
<1> DEFINE s == Pushed(r, m)
           p == RingPush(r, m)
           new == Rem(r.tail + 1, r.size)
           pb == p.buffer
           ph == p.head
           pa == p.added
           pe == p.extracted
           pl == p.load
           ps == p.size
<1>1. /\ r.head \in Nat /\ r.tail \in Int /\ r.added \in Nat /\ r.extracted \in Nat
      /\ r.load \in Int /\ r.size \in 0..MaxSize /\ r.size \in Nat /\ r = Fields(r)
      /\ r.buffer \in [0..r.size-1 -> Msg \cup {Garbage}]
  BY TypedFields
<1>2. /\ p.buffer = [i \in DOMAIN r.buffer |-> IF i = r.tail THEN m ELSE r.buffer[i]]
      /\ p.head = r.head /\ p.tail = (r.tail + 1) % r.size /\ p.added = r.added + 1
      /\ p.extracted = r.extracted /\ p.load = r.load + 1 /\ p.size = r.size
      /\ p = Fields(p)
  <2>1. r = Fields(r)
    BY <1>1
  <2> QED
    BY <2>1, PushFields
<1>3. new \in Int /\ (r.tail >= 0 => new = (r.tail + 1) % r.size)
  <2>1. r.tail + 1 \in Int /\ (r.tail >= 0 => r.tail + 1 >= 0)
    BY <1>1
  <2> QED
    BY <1>1, <2>1, Remainder
<1>4. s = [p EXCEPT !.tail = new]
  BY DEF Pushed
<1> HIDE DEF s, p, new
<1>5. s = [buffer |-> pb, head |-> ph, tail |-> new, added |-> pa,
           extracted |-> pe, load |-> pl, size |-> ps]
  BY <1>2, <1>4, Zenon DEF Fields
<1> HIDE DEF pb, ph, pa, pe, pl, ps
<1>6. /\ s.buffer = p.buffer /\ s.head = p.head /\ s.tail = new /\ s.added = p.added
      /\ s.extracted = p.extracted /\ s.load = p.load /\ s.size = p.size /\ s = Fields(s)
  <2>1. /\ s.buffer = pb /\ s.head = ph /\ s.tail = new /\ s.added = pa
        /\ s.extracted = pe /\ s.load = pl /\ s.size = ps /\ s = Fields(s)
    BY <1>5, RecordFields
  <2> QED
    BY <2>1 DEF pb, ph, pa, pe, pl, ps
<1>7. p.buffer \in [0..r.size-1 -> Msg \cup {Garbage}]
  BY <1>1, <1>2
<1>8. Typed(s)
  <2>1. /\ s = Fields(s) /\ s.head \in Nat /\ s.tail \in Int /\ s.added \in Nat
        /\ s.extracted \in Nat /\ s.load \in Int
    BY <1>1, <1>2, <1>3, <1>6
  <2>2. s.size \in 0..MaxSize /\ s.buffer \in [0..s.size-1 -> Msg \cup {Garbage}]
    BY <1>1, <1>2, <1>6, <1>7
  <2> QED
    BY <2>1, <2>2, IsTyped
<1>9. ASSUME r.tail >= 0 PROVE s = p
  BY <1>2, <1>3, <1>6, <1>9 DEF Fields
<1> QED
  BY <1>2, <1>6, <1>8, <1>9 DEF s, p

(* So does queue_pop, and as it tests nothing the load may fall below 0.   *)
LEMMA PopTyped ==
    ASSUME NEW r, Typed(r), r.size > 0
    PROVE  Typed(RingPop(r)) /\ RingPop(r).size = r.size /\ RingPop(r).load = r.load - 1
<1> DEFINE s == RingPop(r)
<1>1. /\ r.head \in Nat /\ r.tail \in Int /\ r.added \in Nat /\ r.extracted \in Nat
      /\ r.load \in Int /\ r.size \in 0..MaxSize /\ r.size \in Nat /\ r = Fields(r)
      /\ r.buffer \in [0..r.size-1 -> Msg \cup {Garbage}]
  BY TypedFields
<1>2. /\ s.buffer = r.buffer /\ s.head = (r.head + 1) % r.size /\ s.tail = r.tail
      /\ s.added = r.added /\ s.extracted = r.extracted + 1 /\ s.load = r.load - 1
      /\ s.size = r.size /\ s = Fields(s)
  BY <1>1, PopFields
<1> HIDE DEF s
<1>3. (r.head + 1) % r.size \in Nat
  <2>1. r.head + 1 \in Nat
    BY <1>1
  <2>2. (r.head + 1) % r.size \in 0..r.size-1
    BY <1>1, <2>1, ModRange
  <2> QED
    BY <1>1, <2>2
<1>4. r.extracted + 1 \in Nat /\ r.load - 1 \in Int
  BY <1>1
<1>5. Typed(s)
  BY <1>1, <1>2, <1>3, <1>4, IsTyped
<1> QED
  BY <1>2, <1>5 DEF s

(* So does queue_resize, even with a tail behind the new block.            *)
LEMMA ResizeTyped ==
    ASSUME NEW r, Typed(r), r.size > 0, NEW n \in 1..MaxSize
    PROVE  /\ Typed(RingResize(r, n))
           /\ RingResize(r, n).size = n /\ RingResize(r, n).load = r.load
<1> DEFINE s == RingResize(r, n)
<1>1. /\ r.head \in Nat /\ r.tail \in Int /\ r.added \in Nat /\ r.extracted \in Nat
      /\ r.load \in Int /\ r.size \in 0..MaxSize /\ r.size \in Nat /\ r = Fields(r)
      /\ r.buffer \in [0..r.size-1 -> Msg \cup {Garbage}]
  BY TypedFields
<1>2. /\ s.buffer = [i \in 0..n-1 |-> IF i < r.load THEN r.buffer[Slot(r, i)] ELSE Garbage]
      /\ s.head = 0 /\ s.tail = r.load /\ s.added = r.added /\ s.extracted = r.extracted
      /\ s.load = r.load /\ s.size = n /\ s = Fields(s)
  <2>1. r = Fields(r)
    BY <1>1
  <2> QED
    BY <2>1, ResizeFields
<1> HIDE DEF s
<1>3. ASSUME NEW i \in 0..n-1 PROVE r.buffer[Slot(r, i)] \in Msg \cup {Garbage}
  <2>1. r.head + i \in Nat
    BY <1>1
  <2>2. (r.head + i) % r.size \in 0..r.size-1
    BY <1>1, <2>1, ModRange
  <2>3. \A j \in 0..r.size-1 : r.buffer[j] \in Msg \cup {Garbage}
    BY <1>1
  <2> QED
    BY <2>2, <2>3 DEF Slot
<1>4. s.buffer \in [0..n-1 -> Msg \cup {Garbage}]
  BY <1>2, <1>3
<1>5. n \in 0..MaxSize
  BY Constants
<1>6. Typed(s)
  <2>1. /\ s = Fields(s) /\ s.head \in Nat /\ s.tail \in Int /\ s.added \in Nat
        /\ s.extracted \in Nat /\ s.load \in Int
    BY <1>1, <1>2
  <2>2. s.size \in 0..MaxSize /\ s.buffer \in [0..s.size-1 -> Msg \cup {Garbage}]
    BY <1>2, <1>4, <1>5
  <2> QED
    BY <2>1, <2>2, IsTyped
<1> QED
  BY <1>2, <1>6 DEF s

LEMMA RingInit == Init => RingTypes
<1> SUFFICES ASSUME Init PROVE RingTypes
  OBVIOUS
<1>1. /\ q.buffer = [i \in 0..InitSize-1 |-> Garbage] /\ q.head = 0 /\ q.tail = 0
      /\ q.added = 0 /\ q.extracted = 0 /\ q.load = 0 /\ q.size = InitSize /\ q = Fields(q)
  BY DEF Init, NewRing, Fields
<1>2. InitSize \in 0..MaxSize /\ InitSize > 0 /\ InitSize \in Nat
  BY Constants
<1>3. Typed(q)
  BY <1>1, <1>2, IsTyped
<1>4. sem \in [{"empty", "full"} -> Nat] /\ main = "loop" /\ counted = 0
  BY <1>2 DEF Init
<1> QED
  BY <1>1, <1>2, <1>3, <1>4 DEF RingTypes

(* A worker's step.                                                        *)
LEMMA RingWorker ==
    ASSUME ProcTypes, PlacesInv, RingTypes, NEW t \in Workers, WorkerStep(t) PROVE RingTypes'
<1>1. /\ main # "done" /\ Typed(q) /\ q.size > 0 /\ q.load <= q.size
      /\ sem \in [{"empty", "full"} -> Nat] /\ q.load \in Int /\ q.size \in Nat
  <2>1. pc[t] \notin {"unborn", "dead"}
    BY DEF WorkerStep, Loop, TakeToken, FallAsleep, Timeout, Check, Push, Pop, Report, Announce,
           Refund, Sleep, ActOnCancel
  <2>2. main # "done"
    BY <2>1 DEF PlacesInv, EndInv, Ended
  <2> QED
    BY <2>2, TypedFields DEF RingTypes
<1>2. ASSUME UNCHANGED <<q, main, newSize, counted>>, sem' \in [{"empty", "full"} -> Nat]
      PROVE  RingTypes'
  BY <1>2 DEF RingTypes, Typed
<1>3. UnchangedByWorker => UNCHANGED <<main, newSize, counted>>
  BY DEF UnchangedByWorker, mainVars
<1>4. Takes(t) \in {"empty", "full"} /\ Gives(t) \in {"empty", "full"}
  BY DEF Takes, Gives
<1>5. ASSUME NEW k \in {"empty", "full"}, NEW n \in Int, sem[k] + n \in Nat, Post(k, n)
      PROVE  sem' \in [{"empty", "full"} -> Nat]
  BY <1>1, <1>5 DEF Post
<1>6. CASE Loop(t) \/ FallAsleep(t) \/ Timeout(t) \/ Report(t) \/ Sleep(t) \/ ActOnCancel(t)
  BY <1>1, <1>2, <1>3, <1>6 DEF Loop, FallAsleep, Timeout, Report, Sleep, ActOnCancel
<1>7. CASE TakeToken(t)
  <2>1. sem[Takes(t)] + (-1) \in Nat
    BY <1>1, <1>4, <1>7 DEF TakeToken
  <2>2. sem' \in [{"empty", "full"} -> Nat]
    BY <1>4, <1>5, <1>7, <2>1 DEF TakeToken
  <2> QED
    BY <1>2, <1>3, <1>7, <2>2 DEF TakeToken
<1>8. CASE Check(t) \/ Announce(t) \/ Refund(t)
  <2>1. \A k \in {"empty", "full"} : sem[k] + 1 \in Nat
    BY <1>1
  <2>2. sem' \in [{"empty", "full"} -> Nat]
    BY <1>1, <1>4, <1>5, <1>8, <2>1 DEF Check, Announce, Refund
  <2> QED
    BY <1>2, <1>3, <1>8, <2>2 DEF Check, Announce, Refund
<1>9. CASE Pop(t)
  <2>1. Typed(q') /\ q'.size = q.size /\ q'.load = q.load - 1
    BY <1>1, <1>9, PopTyped DEF Pop
  <2> QED
    BY <1>1, <1>3, <1>9, <2>1 DEF Pop, RingTypes
<1>10. CASE Push(t)
  <2>1. UNCHANGED <<sem, newSize, counted>> /\ main' \in {main, "aborted"}
    BY <1>10 DEF Push
  <2>2. CASE UNCHANGED q
    BY <1>1, <2>1, <2>2 DEF RingTypes, Typed
  <2>3. ASSUME q.load < q.size, NEW m \in Msg,
               q' = Pushed(q, m)
        PROVE  RingTypes'
    <3>1. Typed(q') /\ q'.size = q.size /\ q'.load = q.load + 1
      BY <1>1, <2>3, PushTyped
    <3> QED
      BY <1>1, <2>1, <2>3, <3>1 DEF RingTypes
  <2> QED
    BY <1>10, <2>2, <2>3 DEF Push, Pushed
<1> QED
  BY <1>6, <1>7, <1>8, <1>9, <1>10 DEF WorkerStep

(* A step of the user, the main thread or a signal.                        *)
LEMMA RingOther ==
    ASSUME ProcTypes, PlacesInv, RingTypes,
           UserStep \/ MainStep \/ Signal \/ Exited \/ UNCHANGED vars
    PROVE  RingTypes'
<1>1. /\ Typed(q) /\ q.load \in Int /\ q.size \in Nat /\ newSize \in Nat
      /\ sem \in [{"empty", "full"} -> Nat] /\ counted \in Int
  BY TypedFields DEF RingTypes, ProcTypes
<1>2. ASSUME UNCHANGED q, sem' \in [{"empty", "full"} -> Nat], counted' \in Int,
             main \notin {"done"},
             main' \notin {"resize", "initEmpty", "storeEmpty", "initFull", "storeFull", "done"}
      PROVE  RingTypes'
  BY <1>2 DEF RingTypes, Typed
<1>3. CASE NoCommand \/ Quit \/ CheckRunning \/ JoinVictim
  BY <1>1, <1>2, <1>3 DEF NoCommand, Quit, CheckRunning, JoinVictim, MainGoes, UnchangedQueue
<1>4. ASSUME NEW table, KillCommand(table) PROVE RingTypes'
  BY <1>1, <1>2, <1>4 DEF KillCommand, MainGoes, UnchangedQueue
<1>5. ASSUME NEW t \in Workers, AddThread(t) PROVE RingTypes'
  BY <1>1, <1>2, <1>5 DEF AddThread, MainGoes, UnchangedQueue
<1>6. CASE CancelAll \/ JoinAll
  BY <1>1, <1>2, <1>6 DEF CancelAll, JoinAll, MainGoes, UnchangedQueue
<1>7. ASSUME NEW n, ResizeCommand(n) PROVE RingTypes'
  BY <1>1, <1>7 DEF ResizeCommand, MainGoes, UnchangedQueue, RingTypes, Typed
<1>8. PostToAll => sem' \in [{"empty", "full"} -> Nat]
  <2>1. 2 * MaxThreads \in Nat
    BY Constants
  <2>2. \A k \in {"empty", "full"} : sem[k] + 2 * MaxThreads \in Nat
    BY <1>1, <2>1
  <2> QED
    BY <1>1, <2>2 DEF PostToAll
<1>9. CASE PostAll
  BY <1>1, <1>2, <1>8, <1>9 DEF PostAll, MainGoes
<1>10. CASE Signal
  BY <1>8, <1>10 DEF Signal, mainVars, RingTypes, Typed
<1>11. CASE Exited \/ UNCHANGED vars
  BY <1>11 DEF Exited, vars, mainVars, RingTypes, Typed
<1>12. CASE Resize
  <2>1. main = "resize" /\ q.size > 0 /\ UNCHANGED <<sem, counted>> /\ newSize \in 1..MaxSize
    BY <1>12 DEF Resize, RingTypes, ProcTypes
  <2>2. CASE main' = "loop" /\ UNCHANGED q
    BY <1>1, <1>2, <2>1, <2>2
  <2>3. CASE main' = "initEmpty" /\ q' = RingResize(q, newSize) /\ UNCHANGED newSize /\ newSize >= q.load
    <3>1. Typed(q') /\ q'.size = newSize /\ q'.load = q.load
      BY <1>1, <2>1, <2>3, ResizeTyped
    <3> QED
      BY <1>1, <2>1, <2>3, <3>1 DEF RingTypes
  <2> QED
    BY <1>12, <2>2, <2>3 DEF Resize
<1>13. CASE InitEmpty \/ InitFull
  <2>1. /\ main \in {"initEmpty", "initFull"} /\ main' \in {"storeEmpty", "storeFull"}
        /\ main' = "storeEmpty" => counted' = newSize - q.load
        /\ counted' \in {newSize - q.load, q.load}
        /\ UNCHANGED <<q, sem, newSize>>
    BY <1>13 DEF InitEmpty, InitFull, MainGoes
  <2> QED
    BY <1>1, <2>1 DEF RingTypes, Typed
<1>14. CASE StoreEmpty \/ StoreFull
  <2>1. /\ main \in {"storeEmpty", "storeFull"} /\ main' \in {"initFull", "loop"}
        /\ main' = "initFull" => UNCHANGED newSize
        /\ UNCHANGED q /\ counted' = 0
    BY <1>14 DEF StoreEmpty, StoreFull, SemInit, MainGoes
  <2>2. sem' \in [{"empty", "full"} -> Nat]
    BY <1>1, <1>14 DEF StoreEmpty, StoreFull, SemInit
  <2> QED
    BY <2>1, <2>2 DEF RingTypes, Typed
<1>15. CASE Destroy
  <2>1. q' = RingFree(q) /\ UNCHANGED <<sem, counted>> /\ main' = "done"
    BY <1>15 DEF Destroy, MainGoes
  <2>2. /\ q'.buffer = <<>> /\ q'.head = 0 /\ q'.tail = 0 /\ q'.added = q.added
        /\ q'.extracted = q.extracted /\ q'.load = 0 /\ q'.size = 0 /\ q' = Fields(q')
    BY <2>1 DEF RingFree, Fields
  <2>3. q.added \in Nat /\ q.extracted \in Nat /\ 0 \in 0..MaxSize
    BY <1>1, TypedFields, Constants
  <2>4. <<>> \in [0..0-1 -> Msg \cup {Garbage}]
    OBVIOUS
  <2>5. Typed(q')
    <3>1. q'.size \in 0..MaxSize /\ q'.buffer \in [0..q'.size-1 -> Msg \cup {Garbage}]
      BY <2>2, <2>3, <2>4
    <3>2. q'.tail \in Int /\ q'.load \in Int /\ q'.head \in Nat
      BY <2>2
    <3> QED
      BY <2>2, <2>3, <3>1, <3>2, IsTyped
  <2> QED
    BY <1>1, <2>1, <2>5 DEF RingTypes
<1> QED
  BY <1>3, <1>4, <1>5, <1>6, <1>7, <1>9, <1>10, <1>11, <1>12, <1>13, <1>14, <1>15
     DEF UserStep, MainStep

LEMMA RingStep == ASSUME ProcTypes, PlacesInv, RingTypes, [Next]_vars PROVE RingTypes'
<1>1. ASSUME NEW t \in Workers, SignalLost(t) PROVE RingTypes'
  BY <1>1 DEF SignalLost, mainVars, RingTypes, Typed
<1> QED
  BY <1>1, RingWorker, RingOther DEF Next

-----------------------------------------------------------------------------
(* The tokens. *)

Debtors(k) == {t \in Workers : Owes(k, t)}

(* The consumers about to pop; nobody joins them once run is cleared.      *)
Ready == {t \in Cons : pc[t] = "lock"}

(* Whoever pops finds a message; that is what TokensMatch does not say     *)
(* once the program has been told to stop.                                 *)
TokensInv ==
    ~damaged => /\ main # "done" => RingOK(q) /\ Cardinality(Ready) <= q.load
                /\ TokensMatch

LEMMA WorkerSets ==
    ASSUME NEW A \in SUBSET Workers
    PROVE  /\ Cardinality(A) \in Nat
           /\ \A B \in SUBSET A : Cardinality(B) \in Nat /\ Cardinality(B) <= Cardinality(A)
           /\ \A t \in Workers \ A : Cardinality(A \cup {t}) = Cardinality(A) + 1
           /\ \A t \in A : Cardinality(A \ {t}) = Cardinality(A) - 1
<1>1. IsFiniteSet(A)
  BY Constants, FS_Subset
<1> QED
  BY <1>1, FS_CardinalityType, FS_Subset, FS_AddElement, FS_RemoveElement

Bit(b) == IF b THEN 1 ELSE 0

(* How a set of workers grows or shrinks when one of them alone changes.   *)
LEMMA OneChanges ==
    ASSUME NEW A \in SUBSET Workers, NEW B \in SUBSET Workers, NEW t \in Workers,
           \A u \in Workers \ {t} : u \in A <=> u \in B
    PROVE  Cardinality(B) + Bit(t \in A) = Cardinality(A) + Bit(t \in B)
<1>1. CASE t \in A <=> t \in B
  <2>1. A = B
    BY <1>1
  <2> QED
    BY <2>1
<1>2. CASE t \in A /\ t \notin B
  <2>1. B = A \ {t}
    BY <1>2
  <2>2. Cardinality(B) = Cardinality(A) - 1 /\ Cardinality(A) \in Nat
    BY <1>2, <2>1, WorkerSets
  <2> QED
    BY <1>2, <2>2 DEF Bit
<1>3. CASE t \notin A /\ t \in B
  <2>1. B = A \cup {t}
    BY <1>3
  <2>2. Cardinality(B) = Cardinality(A) + 1 /\ Cardinality(A) \in Nat
    BY <1>3, <2>1, WorkerSets
  <2> QED
    BY <1>3, <2>2 DEF Bit
<1> QED
  BY <1>1, <1>2, <1>3

(* What a worker's step does to the tokens owed.                           *)
LEMMA OwedChanges ==
    ASSUME NEW k \in {"empty", "full"}, NEW t \in Workers,
           \A u \in Workers \ {t} : pc'[u] = pc[u] /\ (mutex' = u <=> mutex = u)
    PROVE  /\ Owed(k) \in Nat /\ Owed(k)' \in Nat
           /\ Owed(k)' + Bit(Owes(k, t)) = Owed(k) + Bit(Owes(k, t)')
<1>1. Debtors(k) \in SUBSET Workers /\ Debtors(k)' \in SUBSET Workers
  BY DEF Debtors
<1>2. \A u \in Workers \ {t} : Owes(k, u) <=> Owes(k, u)'
  BY DEF Owes
<1>3. \A u \in Workers \ {t} : u \in Debtors(k) <=> u \in Debtors(k)'
  BY <1>2 DEF Debtors
<1>4. Cardinality(Debtors(k)') + Bit(t \in Debtors(k)) = Cardinality(Debtors(k)) + Bit(t \in Debtors(k)')
  BY <1>1, <1>3, OneChanges
<1>5. (t \in Debtors(k) <=> Owes(k, t)) /\ (t \in Debtors(k)' <=> Owes(k, t)')
  BY DEF Debtors
<1>6. Bit(t \in Debtors(k)) = Bit(Owes(k, t)) /\ Bit(t \in Debtors(k)') = Bit(Owes(k, t)')
  BY <1>5 DEF Bit
<1>7. Cardinality(Debtors(k)) \in Nat /\ Cardinality(Debtors(k)') \in Nat
  BY <1>1, WorkerSets
<1>8. Owed(k) = Cardinality(Debtors(k)) /\ Owed(k)' = Cardinality(Debtors(k)')
  BY DEF Owed, Debtors
<1> QED
  BY <1>4, <1>6, <1>7, <1>8

(* The consumers about to pop owe a full token.                            *)
LEMMA ReadyOwe ==
    /\ Ready \in SUBSET Debtors("full") /\ Cardinality(Ready) \in Nat
    /\ Cardinality(Ready) <= Owed("full")
    /\ Owed("full") = Cardinality(Debtors("full")) /\ Debtors("full") \in SUBSET Workers
<1>1. Ready \in SUBSET Debtors("full") /\ Debtors("full") \in SUBSET Workers
  BY Constants DEF Ready, Debtors, Owes, Takes
<1> QED
  BY <1>1, WorkerSets DEF Owed, Debtors

(* The same set after a step.                                              *)
LEMMA ReadyChanges ==
    ASSUME NEW t \in Workers, \A u \in Workers \ {t} : pc'[u] = pc[u]
    PROVE  /\ Cardinality(Ready) \in Nat /\ Cardinality(Ready') \in Nat
           /\ Cardinality(Ready') + Bit(t \in Ready) = Cardinality(Ready) + Bit(t \in Ready')
<1>1. Ready \in SUBSET Workers /\ Ready' \in SUBSET Workers
  BY Constants DEF Ready
<1>2. \A u \in Workers \ {t} : u \in Ready <=> u \in Ready'
  BY DEF Ready
<1> QED
  BY <1>1, <1>2, OneChanges, WorkerSets

(* A typed ring with its indices in order is one of MessageRing.           *)
LEMMA CoherentRing ==
    ASSUME NEW r, Typed(r), RingOK(r)
    PROVE  /\ r \in RingType(MaxSize) /\ r.tail \in DOMAIN r.buffer /\ r.tail >= 0
           /\ r.load \in Nat /\ r.size \in Nat /\ r.load <= r.size
<1>1. /\ r.head \in 0..r.size-1 /\ r.load \in 0..r.size /\ r.size \in Nat /\ r.size > 0
      /\ r.tail = (r.head + r.load) % r.size /\ r.buffer \in [0..r.size-1 -> Msg \cup {Garbage}]
  BY TypedFields DEF RingOK, Slot
<1>2. r.tail \in 0..r.size-1
  <2>1. r.head + r.load \in Nat
    BY <1>1
  <2> QED
    BY <1>1, <2>1, ModRange
<1>3. /\ r.added \in Nat /\ r.extracted \in Nat /\ r.size \in 0..MaxSize
      /\ r.head \in Nat /\ r.load \in Int /\ r = Fields(r)
  BY TypedFields
<1>4. r.buffer \in Buffers(MaxSize)
  BY DEF Typed, TokenRing
<1>5. r.tail \in Nat
  BY <1>1, <1>2
<1>6. r \in RingType(MaxSize)
  BY <1>3, <1>4, <1>5, IsRing
<1> QED
  BY <1>1, <1>2, <1>6

(* What TokensMatch needs of a worker's step: what it does to the load, it *)
(* does to what it owes and to the semaphores.                             *)
Balanced(t) ==
    /\ q'.load - q.load = (sem'.full - sem.full) + (Bit(Owes("full", t)') - Bit(Owes("full", t)))
    /\ q.load - q'.load = (sem'.empty - sem.empty) + (Bit(Owes("empty", t)') - Bit(Owes("empty", t)))
    /\ ~run => Bit(t \in Ready') - Bit(t \in Ready) <= q'.load - q.load

LEMMA BalancedStep ==
    ASSUME ProcTypes, RingTypes, RingTypes', TokensInv, ~damaged, main # "done",
           NEW t \in Workers, NEW p, Goto(t, p),
           \A u \in Workers \ {t} : mutex' = u <=> mutex = u,
           UNCHANGED <<main, run, damaged, lost>>, q'.size = q.size, RingOK(q'), Balanced(t)
    PROVE  TokensInv'
<1>1. \A u \in Workers \ {t} : pc'[u] = pc[u]
  BY DEF Goto, ProcTypes
<1>2. /\ Owed("full") \in Nat /\ Owed("full")' \in Nat
      /\ Owed("full")' + Bit(Owes("full", t)) = Owed("full") + Bit(Owes("full", t)')
  BY <1>1, OwedChanges
<1>3. /\ Owed("empty") \in Nat /\ Owed("empty")' \in Nat
      /\ Owed("empty")' + Bit(Owes("empty", t)) = Owed("empty") + Bit(Owes("empty", t)')
  BY <1>1, OwedChanges
<1>4. /\ Cardinality(Ready) \in Nat /\ Cardinality(Ready') \in Nat
      /\ Cardinality(Ready') + Bit(t \in Ready) = Cardinality(Ready) + Bit(t \in Ready')
  BY <1>1, ReadyChanges
<1>5. Cardinality(Ready') <= Owed("full")'
  <2>1. Ready' \in SUBSET Debtors("full")' /\ Debtors("full")' \in SUBSET Workers
    BY Constants DEF Ready, Debtors, Owes, Takes
  <2> QED
    BY <2>1, WorkerSets DEF Owed, Debtors
<1>7. /\ q.load \in Int /\ q'.load \in Int /\ q.size \in Nat
      /\ sem.full \in Nat /\ sem'.full \in Nat /\ sem.empty \in Nat /\ sem'.empty \in Nat
      /\ lost.full \in Nat /\ lost.empty \in Nat /\ lost' = lost
  BY TypedFields DEF RingTypes, ProcTypes
<1>6. /\ q'.load - q.load = (sem'.full - sem.full) + (Bit(Owes("full", t)') - Bit(Owes("full", t)))
      /\ q.load - q'.load = (sem'.empty - sem.empty) + (Bit(Owes("empty", t)') - Bit(Owes("empty", t)))
  BY DEF Balanced
<1>8. /\ Bit(Owes("full", t)) \in Int /\ Bit(Owes("full", t)') \in Int
      /\ Bit(Owes("empty", t)) \in Int /\ Bit(Owes("empty", t)') \in Int
      /\ Bit(t \in Ready) \in Int /\ Bit(t \in Ready') \in Int
  BY DEF Bit
<1>9. TokensMatch'
  <2> DEFINE recounting == main \in {"initEmpty", "storeEmpty"}
  <2> SUFFICES ASSUME run
               PROVE  /\ q'.load = sem'.full + Owed("full")' + lost.full
                      /\ ~recounting => q.size - q'.load = sem'.empty + Owed("empty")' + lost.empty
    BY DEF TokensMatch
  <2>1. q.load = sem.full + Owed("full") + lost.full
    BY DEF TokensInv, TokensMatch
  <2>2. ~recounting => q.size - q.load = sem.empty + Owed("empty") + lost.empty
    BY DEF TokensInv, TokensMatch
  <2> HIDE DEF recounting
  <2>3. q'.load = sem'.full + Owed("full")' + lost.full
    <3> DEFINE k == q'.load
               g == sem'.full
               o == Owed("full")
               w == Owed("full")'
               b == Bit(Owes("full", t))
               c == Bit(Owes("full", t)')
               l == lost.full
    <3>1. /\ q.load \in Int /\ k \in Int /\ sem.full \in Int /\ g \in Int /\ o \in Int
          /\ w \in Int /\ b \in Int /\ c \in Int /\ l \in Int
      BY <1>2, <1>7, <1>8
    <3>2. q.load = sem.full + o + l
      BY <2>1
    <3>3. w + b = o + c
      BY <1>2
    <3>4. k - q.load = (g - sem.full) + (c - b)
      BY <1>6
    <3> HIDE DEF k, g, o, w, b, c, l
    <3>5. k = g + w + l
      BY <3>1, <3>2, <3>3, <3>4
    <3> QED
      BY <3>5 DEF k, g, o, w, b, c, l
  <2>4. ASSUME ~recounting PROVE q.size - q'.load = sem'.empty + Owed("empty")' + lost.empty
    <3> DEFINE k == q'.load
               g == sem'.empty
               o == Owed("empty")
               w == Owed("empty")'
               b == Bit(Owes("empty", t))
               c == Bit(Owes("empty", t)')
               l == lost.empty
    <3>1. /\ q.size \in Int /\ q.load \in Int /\ k \in Int /\ sem.empty \in Int /\ g \in Int
          /\ o \in Int /\ w \in Int /\ b \in Int /\ c \in Int /\ l \in Int
      BY <1>3, <1>7, <1>8
    <3>2. q.size - q.load = sem.empty + o + l
      BY <2>2, <2>4
    <3>3. w + b = o + c
      BY <1>3
    <3>4. q.load - k = (g - sem.empty) + (c - b)
      BY <1>6
    <3> HIDE DEF k, g, o, w, b, c, l
    <3>5. q.size - k = (sem.empty + o + l) + ((g - sem.empty) + (c - b))
      BY <3>1, <3>2, <3>4
    <3>6. w = o + c - b
      BY <3>1, <3>3
    <3>7. q.size - k = g + w + l
      BY <3>1, <3>5, <3>6
    <3> QED
      BY <3>7 DEF k, g, o, w, b, c, l
  <2> QED
    BY <2>3, <2>4 DEF recounting
<1>10. Cardinality(Ready') <= q'.load
  <2>1. CASE run
    BY <1>2, <1>5, <1>7, <1>4, <1>9, <2>1 DEF TokensMatch
  <2>2. CASE ~run
    BY <1>4, <1>7, <1>8, <2>2 DEF Balanced, TokensInv
  <2> QED
    BY <2>1, <2>2
<1> QED
  BY <1>9, <1>10 DEF TokensInv

(* What the acting worker owes is told by its place.                       *)
LEMMA PlaceOwes ==
    ASSUME PlacesInv, NEW t \in Workers, ~Ended(t)
    PROVE  /\ Owes(Takes(t), t) <=> pc[t] \in {"check", "lock", "refund"}
           /\ Owes(Gives(t), t) <=> pc[t] \in {"report", "announce"}
           /\ t \in Ready <=> t \in Cons /\ pc[t] = "lock"
           /\ Takes(t) # Gives(t) /\ {Takes(t), Gives(t)} = {"empty", "full"}
BY DEF PlacesInv, MutexInv, Ended, Owes, Takes, Gives, Ready

LEMMA PlaceOwesNext ==
    ASSUME ProcTypes, NEW t \in Workers, NEW p \in WorkerPlaces, Goto(t, p)
    PROVE  /\ Owes(Takes(t), t)' <=> p \in {"check", "lock", "refund"}
           /\ Owes(Gives(t), t)' <=> p \in {"report", "announce"} \/ mutex' = t
           /\ t \in Ready' <=> t \in Cons /\ p = "lock"
BY DEF ProcTypes, Goto, Owes, Takes, Gives, Ready

(* A worker's step that leaves the load: what it gives to a semaphore, it  *)
(* no longer owes.                                                         *)
LEMMA WorkerBalanced ==
    ASSUME ProcTypes, PlacesInv, RingTypes, RingTypes', UNCHANGED q,
           NEW t \in Workers, ~Ended(t), NEW p \in WorkerPlaces, Goto(t, p),
           NEW took \in Int, NEW gave \in Int,
           sem'[Takes(t)] = sem[Takes(t)] + took, sem'[Gives(t)] = sem[Gives(t)] + gave,
           0 = took + Bit(p \in {"check", "lock", "refund"}) - Bit(pc[t] \in {"check", "lock", "refund"}),
           0 = gave + Bit(p \in {"report", "announce"} \/ mutex' = t) - Bit(pc[t] \in {"report", "announce"}),
           ~run => p # "lock"
    PROVE  Balanced(t)
<1>1. /\ Bit(Owes(Takes(t), t)) = Bit(pc[t] \in {"check", "lock", "refund"})
      /\ Bit(Owes(Gives(t), t)) = Bit(pc[t] \in {"report", "announce"})
      /\ Bit(Owes(Takes(t), t)') = Bit(p \in {"check", "lock", "refund"})
      /\ Bit(Owes(Gives(t), t)') = Bit(p \in {"report", "announce"} \/ mutex' = t)
  BY PlaceOwes, PlaceOwesNext DEF Bit
<1>2. /\ q.load \in Int /\ sem[Takes(t)] \in Int /\ sem[Gives(t)] \in Int /\ q' = q
  BY TypedFields DEF RingTypes, Takes, Gives
<1>3. q'.load - q.load = 0 /\ q.load - q'.load = 0
  BY <1>2
<1>4. ASSUME NEW r, NEW s \in Int, NEW n \in Int, NEW a \in {0, 1}, NEW b \in {0, 1},
             r = s + n, 0 = n + b - a
      PROVE  0 = (r - s) + (b - a)
  BY <1>4
<1>5. /\ 0 = (sem'[Takes(t)] - sem[Takes(t)]) + (Bit(Owes(Takes(t), t)') - Bit(Owes(Takes(t), t)))
      /\ 0 = (sem'[Gives(t)] - sem[Gives(t)]) + (Bit(Owes(Gives(t), t)') - Bit(Owes(Gives(t), t)))
  <2>1. \A k : Bit(Owes(k, t)) \in {0, 1} /\ Bit(Owes(k, t)') \in {0, 1}
    BY DEF Bit
  <2>2. /\ 0 = took + Bit(Owes(Takes(t), t)') - Bit(Owes(Takes(t), t))
        /\ 0 = gave + Bit(Owes(Gives(t), t)') - Bit(Owes(Gives(t), t))
    BY <1>1
  <2> QED
    BY <1>2, <1>4, <2>1, <2>2
<1>6. ~run => Bit(t \in Ready') - Bit(t \in Ready) <= 0
  <2>1. ~run => Bit(t \in Ready') = 0
    BY PlaceOwesNext DEF Bit
  <2>2. Bit(t \in Ready) \in {0, 1}
    BY DEF Bit
  <2> QED
    BY <2>1, <2>2
<1>7. CASE t \in Prod
  <2>1. Takes(t) = "empty" /\ Gives(t) = "full"
    BY <1>7 DEF Takes, Gives
  <2> QED
    BY <1>3, <1>5, <1>6, <2>1, Zenon DEF Balanced
<1>8. CASE t \notin Prod
  <2>1. Takes(t) = "full" /\ Gives(t) = "empty"
    BY <1>8 DEF Takes, Gives
  <2> QED
    BY <1>3, <1>5, <1>6, <2>1, Zenon DEF Balanced
<1> QED
  BY <1>7, <1>8

(* The steps of a worker that leave the ring and the semaphores alone, and *)
(* those that post one token.                                              *)
LEMMA TokensPosted ==
    ASSUME ProcTypes, PlacesInv, RingTypes, RingTypes', TokensInv, ~damaged, NEW t \in Workers,
           UNCHANGED q, UnchangedByWorker, Loop(t) \/ TakeToken(t) \/ FallAsleep(t) \/ Timeout(t)
             \/ Check(t) \/ Report(t) \/ Announce(t) \/ Refund(t) \/ Sleep(t) \/ ActOnCancel(t)
    PROVE  TokensInv'
<1>1. ~Ended(t)
  BY DEF Ended, Loop, TakeToken, FallAsleep, Timeout, Check, Report, Announce, Refund, Sleep,
         ActOnCancel
<1>2. main # "done"
  BY <1>1 DEF PlacesInv, EndInv
<1>3. /\ UNCHANGED <<main, run, damaged, lost>> /\ q'.size = q.size /\ RingOK(q')
      /\ q'.load = q.load + 0
  BY <1>2, TypedFields DEF UnchangedByWorker, mainVars, TokensInv, RingTypes
<1>4. ASSUME NEW p \in WorkerPlaces, Goto(t, p),
             \/ mutex' = mutex /\ (mutex = t => p = "dead")
             \/ mutex = t /\ mutex' = NoThread,
             NEW took \in Int, NEW gave \in Int,
             sem'[Takes(t)] = sem[Takes(t)] + took, sem'[Gives(t)] = sem[Gives(t)] + gave,
             0 = took + Bit(p \in {"check", "lock", "refund"}) - Bit(pc[t] \in {"check", "lock", "refund"}),
             0 = gave + Bit(p \in {"report", "announce"} \/ mutex' = t) - Bit(pc[t] \in {"report", "announce"}),
             ~run => p # "lock"
      PROVE  TokensInv'
  <2>2. Balanced(t)
    BY <1>1, <1>3, <1>4, WorkerBalanced
  <2>3. \A u \in Workers \ {t} : mutex' = u <=> mutex = u
    BY <1>4, Constants
  <2> QED
    BY <1>2, <1>3, <1>4, <2>2, <2>3, BalancedStep
<1>5. /\ Takes(t) # Gives(t) /\ Takes(t) \in DOMAIN sem /\ Gives(t) \in DOMAIN sem
      /\ sem[Takes(t)] \in Int /\ sem[Gives(t)] \in Int
  BY DEF Takes, Gives, RingTypes
<1>6. UNCHANGED sem => sem'[Takes(t)] = sem[Takes(t)] + 0 /\ sem'[Gives(t)] = sem[Gives(t)] + 0
  BY <1>5
<1>7. ASSUME NEW n \in Int, Post(Takes(t), n)
      PROVE  sem'[Takes(t)] = sem[Takes(t)] + n /\ sem'[Gives(t)] = sem[Gives(t)] + 0
  BY <1>5, <1>7 DEF Post, RingTypes
<1>8. mutex = t => pc[t] = "report"
  BY <1>1 DEF PlacesInv, MutexInv, Ended
<1>9. CASE Loop(t) \/ FallAsleep(t) \/ Timeout(t) \/ Sleep(t)
  <2>1. PICK p \in {"dead", "want", "asleep", "loop"} : Goto(t, p)
    BY <1>9 DEF Loop, FallAsleep, Timeout, Sleep
  <2>2. /\ UNCHANGED <<sem, mutex>> /\ pc[t] \in {"loop", "want", "asleep", "sleep"}
    BY <1>9 DEF Loop, FallAsleep, Timeout, Sleep
  <2>3. mutex' # t /\ mutex # t
    BY <1>8, <2>2
  <2>4. /\ Bit(p \in {"check", "lock", "refund"}) = 0 /\ Bit(pc[t] \in {"check", "lock", "refund"}) = 0
        /\ Bit(p \in {"report", "announce"} \/ mutex' = t) = 0
        /\ Bit(pc[t] \in {"report", "announce"}) = 0 /\ p \in WorkerPlaces /\ p # "lock"
    BY <2>1, <2>2, <2>3 DEF Bit, WorkerPlaces
  <2> QED
    BY <1>4, <1>6, <2>1, <2>2, <2>3, <2>4
<1>10. CASE TakeToken(t)
  <2>1. /\ Goto(t, "check") /\ UNCHANGED mutex /\ pc[t] \in {"want", "asleep"} /\ Post(Takes(t), -1)
    BY <1>10 DEF TakeToken
  <2>2. mutex' # t /\ mutex # t
    BY <1>8, <2>1
  <2>3. /\ Bit("check" \in {"check", "lock", "refund"}) = 1 /\ Bit(pc[t] \in {"check", "lock", "refund"}) = 0
        /\ Bit("check" \in {"report", "announce"} \/ mutex' = t) = 0
        /\ Bit(pc[t] \in {"report", "announce"}) = 0 /\ "check" \in WorkerPlaces
    BY <2>1, <2>2 DEF Bit, WorkerPlaces
  <2>4. -1 \in Int /\ sem'[Takes(t)] = sem[Takes(t)] + -1 /\ sem'[Gives(t)] = sem[Gives(t)] + 0
    BY <1>7, <2>1
  <2>5. /\ 0 = -1 + Bit("check" \in {"check", "lock", "refund"}) - Bit(pc[t] \in {"check", "lock", "refund"})
        /\ 0 = 0 + Bit("check" \in {"report", "announce"} \/ mutex' = t) - Bit(pc[t] \in {"report", "announce"})
    BY <2>3
  <2> QED
    BY <1>4, <2>1, <2>2, <2>3, <2>4, <2>5
<1>11. CASE Check(t)
  <2>1. pc[t] = "check" /\ UNCHANGED mutex /\ mutex' # t /\ mutex # t
    BY <1>8, <1>11 DEF Check
  <2>2. /\ Bit(pc[t] \in {"check", "lock", "refund"}) = 1 /\ Bit(pc[t] \in {"report", "announce"}) = 0
        /\ Bit("lock" \in {"check", "lock", "refund"}) = 1
        /\ Bit("lock" \in {"report", "announce"} \/ mutex' = t) = 0
        /\ Bit("dead" \in {"check", "lock", "refund"}) = 0
        /\ Bit("dead" \in {"report", "announce"} \/ mutex' = t) = 0
        /\ "lock" \in WorkerPlaces /\ "dead" \in WorkerPlaces
    BY <2>1 DEF Bit, WorkerPlaces
  <2>3. CASE run /\ Goto(t, "lock") /\ UNCHANGED sem
    BY <1>4, <1>6, <2>1, <2>2, <2>3
  <2>4. CASE ~run /\ Goto(t, "dead") /\ Post(Takes(t), 1)
    BY <1>4, <1>7, <2>1, <2>2, <2>4
  <2> QED
    BY <1>11, <2>3, <2>4 DEF Check
<1>12. CASE Report(t)
  <2>1. Goto(t, "announce") /\ pc[t] = "report" /\ mutex' = NoThread /\ mutex = t /\ mutex' # t /\ UNCHANGED sem
    BY <1>12, Constants DEF Report, PlacesInv, MutexInv
  <2>2. /\ Bit(pc[t] \in {"check", "lock", "refund"}) = 0 /\ Bit(pc[t] \in {"report", "announce"}) = 1
        /\ Bit("announce" \in {"check", "lock", "refund"}) = 0
        /\ Bit("announce" \in {"report", "announce"} \/ mutex' = t) = 1
        /\ "announce" \in WorkerPlaces
    BY <2>1 DEF Bit, WorkerPlaces
  <2> QED
    BY <1>4, <1>6, <2>1, <2>2
<1>13. CASE Announce(t)
  <2>1. Goto(t, "sleep") /\ pc[t] = "announce" /\ mutex' = mutex /\ mutex' # t /\ Post(Gives(t), 1)
    BY <1>8, <1>13 DEF Announce
  <2>2. sem'[Takes(t)] = sem[Takes(t)] + 0 /\ sem'[Gives(t)] = sem[Gives(t)] + 1
    BY <1>5, <2>1 DEF Post, RingTypes
  <2>3. /\ Bit(pc[t] \in {"check", "lock", "refund"}) = 0 /\ Bit(pc[t] \in {"report", "announce"}) = 1
        /\ Bit("sleep" \in {"check", "lock", "refund"}) = 0
        /\ Bit("sleep" \in {"report", "announce"} \/ mutex' = t) = 0
        /\ "sleep" \in WorkerPlaces
    BY <2>1 DEF Bit, WorkerPlaces
  <2> QED
    BY <1>4, <2>1, <2>2, <2>3
<1>14. CASE Refund(t)
  <2>1. Goto(t, "sleep") /\ pc[t] = "refund" /\ mutex' = mutex /\ mutex' # t /\ Post(Takes(t), 1)
    BY <1>8, <1>14 DEF Refund, PlacesInv, MutexInv, Takes
  <2>3. /\ Bit(pc[t] \in {"check", "lock", "refund"}) = 1 /\ Bit(pc[t] \in {"report", "announce"}) = 0
        /\ Bit("sleep" \in {"check", "lock", "refund"}) = 0
        /\ Bit("sleep" \in {"report", "announce"} \/ mutex' = t) = 0
        /\ "sleep" \in WorkerPlaces
    BY <2>1 DEF Bit, WorkerPlaces
  <2> QED
    BY <1>4, <1>7, <2>1, <2>3
<1>15. CASE ActOnCancel(t)
  <2>1. /\ Goto(t, "dead") /\ pc[t] \in {"want", "asleep", "report", "sleep"} /\ mutex' = mutex
        /\ UNCHANGED sem /\ (mutex = t <=> pc[t] = "report")
    BY <1>8, <1>15 DEF ActOnCancel, PlacesInv, MutexInv
  <2>2. /\ Bit(pc[t] \in {"check", "lock", "refund"}) = 0
        /\ Bit(pc[t] \in {"report", "announce"}) = Bit("dead" \in {"report", "announce"} \/ mutex' = t)
        /\ Bit("dead" \in {"check", "lock", "refund"}) = 0
        /\ Bit("dead" \in {"report", "announce"} \/ mutex' = t) \in {0, 1}
        /\ "dead" \in WorkerPlaces
    BY <2>1 DEF Bit, WorkerPlaces
  <2>3. 0 = 0 + Bit("dead" \in {"report", "announce"} \/ mutex' = t) - Bit(pc[t] \in {"report", "announce"})
    BY <2>2
  <2> QED
    BY <1>4, <1>6, <2>1, <2>2, <2>3
<1> QED
  BY <1>9, <1>10, <1>11, <1>12, <1>13, <1>14, <1>15

(* queue_push finds a slot of the block, queue_pop a message.              *)
LEMMA TokensPush ==
    ASSUME ProcTypes, PlacesInv, RingTypes, RingTypes', TokensInv, ~damaged, NEW t \in Workers,
           Push(t)
    PROVE  TokensInv'
<1>1. ~Ended(t) /\ t \in Prod /\ pc[t] = "lock" /\ mutex = NoThread /\ mutex # t
  BY Constants DEF Ended, Push
<1>2. main # "done" /\ Typed(q) /\ RingOK(q)
  BY <1>1 DEF PlacesInv, EndInv, RingTypes, TokensInv
<1>3. /\ q \in RingType(MaxSize) /\ q.tail \in DOMAIN q.buffer /\ q.tail >= 0 /\ q.load \in Nat
      /\ q.size > 0
  BY <1>2, CoherentRing DEF RingOK
<1>4. UNCHANGED <<sem, run, damaged, lost>> /\ t \notin Cons /\ Takes(t) = "empty" /\ Gives(t) = "full"
  BY <1>1, Constants DEF Push, Takes, Gives
<1>5. Bit(Owes("empty", t)) = 1 /\ Bit(Owes("full", t)) = 0 /\ Bit(t \in Ready) = 0
  BY <1>1, <1>4, PlaceOwes DEF Bit
<1>6. CASE Goto(t, "refund") /\ UNCHANGED <<q, mutex, main>>
  <2>1. "refund" \in WorkerPlaces
    BY DEF WorkerPlaces
  <2>2. Bit(Owes("empty", t)') = 1 /\ Bit(Owes("full", t)') = 0 /\ Bit(t \in Ready') = 0
    BY <1>1, <1>4, <1>6, <2>1, PlaceOwesNext DEF Bit
  <2>3. Balanced(t)
    BY <1>3, <1>4, <1>5, <1>6, <2>2 DEF Balanced, RingTypes
  <2> QED
    BY <1>2, <1>4, <1>6, <2>3, BalancedStep
<1>7. ASSUME q.load < q.size, NEW m \in Msg, q' = Pushed(q, m), mutex' = t, Goto(t, "report"),
             UNCHANGED main
      PROVE  TokensInv'
  <2>1. q' = RingPush(q, m) /\ q'.size = q.size /\ q'.load = q.load + 1
    BY <1>2, <1>3, <1>7, PushTyped
  <2>2. RingOK(q')
    BY <1>2, <1>3, <1>7, <2>1, PushKeepsRing, Constants
  <2>3. "report" \in WorkerPlaces
    BY DEF WorkerPlaces
  <2>4. Bit(Owes("empty", t)') = 0 /\ Bit(Owes("full", t)') = 1 /\ Bit(t \in Ready') = 0
    BY <1>1, <1>4, <1>7, <2>3, PlaceOwesNext DEF Bit
  <2>5. Balanced(t)
    BY <1>3, <1>4, <1>5, <2>1, <2>4 DEF Balanced, RingTypes
  <2>6. \A u \in Workers \ {t} : mutex' = u <=> mutex = u
    BY <1>1, <1>7, Constants
  <2> QED
    BY <1>2, <1>4, <1>7, <2>1, <2>2, <2>5, <2>6, BalancedStep
<1> QED
  BY <1>3, <1>6, <1>7 DEF Push, Pushed

LEMMA TokensPop ==
    ASSUME ProcTypes, PlacesInv, RingTypes, RingTypes', TokensInv, ~damaged, NEW t \in Workers,
           Pop(t)
    PROVE  TokensInv'
<1>1. ~Ended(t) /\ t \in Cons /\ t \notin Prod /\ pc[t] = "lock" /\ mutex = NoThread /\ mutex # t
  BY Constants DEF Ended, Pop
<1>2. /\ main # "done" /\ Typed(q) /\ RingOK(q) /\ Cardinality(Ready) <= q.load
  BY <1>1 DEF PlacesInv, EndInv, RingTypes, TokensInv
<1>3. q \in RingType(MaxSize) /\ q.load \in Nat /\ q.size > 0
  BY <1>2, CoherentRing DEF RingOK
<1>4. q.load > 0
  <2>1. Ready \in SUBSET Workers /\ {t} \in SUBSET Ready
    BY <1>1, Constants DEF Ready
  <2>2. Cardinality({t}) = 1
    BY FS_Singleton
  <2>3. Cardinality(Ready) >= 1
    BY <2>1, <2>2, WorkerSets
  <2> QED
    BY <1>2, <1>3, <2>1, <2>3, WorkerSets
<1>5. /\ UNCHANGED <<sem, run, damaged, lost, main>> /\ mutex' = t /\ Goto(t, "report") /\ q' = RingPop(q)
      /\ Takes(t) = "full" /\ Gives(t) = "empty"
  BY <1>1 DEF Pop, UnchangedByWorker, mainVars, Takes, Gives
<1>6. q'.size = q.size /\ q'.load = q.load - 1 /\ RingOK(q')
  BY <1>2, <1>3, <1>4, <1>5, PopTyped, PopKeepsRing, Constants
<1>7. Bit(Owes("full", t)) = 1 /\ Bit(Owes("empty", t)) = 0 /\ Bit(t \in Ready) = 1
  BY <1>1, <1>5, PlaceOwes DEF Bit
<1>8. Bit(Owes("full", t)') = 0 /\ Bit(Owes("empty", t)') = 1 /\ Bit(t \in Ready') = 0
  <2>1. "report" \in WorkerPlaces
    BY DEF WorkerPlaces
  <2> QED
    BY <1>1, <1>5, <2>1, PlaceOwesNext DEF Bit
<1>9. Balanced(t)
  BY <1>3, <1>5, <1>6, <1>7, <1>8 DEF Balanced, RingTypes
<1>10. \A u \in Workers \ {t} : mutex' = u <=> mutex = u
  BY <1>1, <1>5, Constants
<1> QED
  BY <1>2, <1>5, <1>6, <1>9, <1>10, BalancedStep

LEMMA TokensWorker ==
    ASSUME ProcTypes, PlacesInv, RingTypes, RingTypes', TokensInv, NEW t \in Workers, WorkerStep(t)
    PROVE  TokensInv'
<1>1. UNCHANGED damaged
  BY DEF WorkerStep, Loop, TakeToken, FallAsleep, Timeout, Check, Push, Pop, Report, Announce,
         Refund, Sleep, ActOnCancel, UnchangedByWorker
<1>2. CASE damaged
  BY <1>1, <1>2 DEF TokensInv
<1>3. CASE ~damaged /\ (Loop(t) \/ TakeToken(t) \/ FallAsleep(t) \/ Timeout(t) \/ Check(t)
                         \/ Report(t) \/ Announce(t) \/ Refund(t) \/ Sleep(t) \/ ActOnCancel(t))
  <2>1. UNCHANGED q /\ UnchangedByWorker
    BY <1>3 DEF Loop, TakeToken, FallAsleep, Timeout, Check, Report, Announce, Refund, Sleep,
                ActOnCancel
  <2> QED
    BY <1>3, <2>1, TokensPosted
<1> QED
  BY <1>1, <1>2, <1>3, TokensPush, TokensPop DEF WorkerStep, ProcTypes

(* A thread that dies in signal_handler leaves its token in lost, unless   *)
(* it has the mutex, and so it owes the token for ever.                    *)
LEMMA TokensLost ==
    ASSUME ProcTypes, PlacesInv, RingTypes, TokensInv, NEW t \in Workers, SignalLost(t)
    PROVE  TokensInv'
<1> SUFFICES ASSUME ~damaged PROVE TokensInv'
  BY DEF SignalLost, TokensInv
<1>1. /\ Goto(t, "dead") /\ ~Ended(t) /\ "dead" \in WorkerPlaces
      /\ UNCHANGED <<q, sem, mutex, run, main, damaged>>
      /\ \A k \in {"empty", "full"} :
           lost'[k] = IF Owes(k, t) /\ mutex # t THEN lost[k] + 1 ELSE lost[k]
      /\ mutex = t => pc[t] = "report"
  BY DEF SignalLost, Ended, mainVars, ProcTypes, WorkerPlaces, PlacesInv, MutexInv
<1>2. \A u \in Workers \ {t} : pc'[u] = pc[u] /\ (mutex' = u <=> mutex = u)
  BY <1>1 DEF Goto, ProcTypes
<1>3. ASSUME NEW k \in {"empty", "full"}
      PROVE  /\ Owed(k)' + lost'[k] = Owed(k) + lost[k]
             /\ Owed(k)' \in Nat /\ Owed(k) \in Nat /\ lost[k] \in Nat /\ lost'[k] \in Nat
  <2>1. /\ Owed(k) \in Nat /\ Owed(k)' \in Nat /\ lost[k] \in Nat
        /\ Owed(k)' + Bit(Owes(k, t)) = Owed(k) + Bit(Owes(k, t)')
    BY <1>2, OwedChanges DEF ProcTypes
  <2>2. Owes(k, t)' <=> k = Gives(t) /\ mutex = t
    BY <1>1, PlaceOwes, PlaceOwesNext
  <2>3. mutex = t => (Owes(k, t) <=> k = Gives(t))
    BY <1>1, PlaceOwes
  <2> QED
    BY <1>1, <2>1, <2>2, <2>3 DEF Bit
<1>4. TokensMatch'
  <2>1. /\ Owed("full")' + lost'.full = Owed("full") + lost.full
        /\ Owed("full")' \in Nat /\ Owed("full") \in Nat /\ lost.full \in Nat /\ lost'.full \in Nat
    BY <1>3
  <2>2. /\ Owed("empty")' + lost'.empty = Owed("empty") + lost.empty
        /\ Owed("empty")' \in Nat /\ Owed("empty") \in Nat /\ lost.empty \in Nat /\ lost'.empty \in Nat
    BY <1>3
  <2>3. sem.full \in Nat /\ sem.empty \in Nat
    BY DEF RingTypes
  <2>4. sem.full + Owed("full")' + lost'.full = sem.full + Owed("full") + lost.full
    BY <2>1, <2>3
  <2>5. sem.empty + Owed("empty")' + lost'.empty = sem.empty + Owed("empty") + lost.empty
    BY <2>2, <2>3
  <2>6. TokensMatch
    BY DEF TokensInv
  <2> QED
    BY <1>1, <2>4, <2>5, <2>6 DEF TokensMatch
<1>5. Ready' \in SUBSET Ready /\ Ready \in SUBSET Workers
  BY <1>1, <1>2, Constants DEF Ready, Goto, ProcTypes
<1>6. Cardinality(Ready') <= Cardinality(Ready) /\ Cardinality(Ready') \in Nat
      /\ Cardinality(Ready) \in Nat /\ q.load \in Int
  BY <1>5, WorkerSets, TypedFields DEF RingTypes
<1> QED
  BY <1>1, <1>4, <1>6 DEF TokensInv

LEMMA TokensInit == Init => TokensInv
<1> SUFFICES ASSUME Init PROVE TokensInv
  OBVIOUS
<1>1. /\ q.buffer = [i \in 0..InitSize-1 |-> Garbage] /\ q.head = 0 /\ q.tail = 0
      /\ q.added = 0 /\ q.extracted = 0 /\ q.load = 0 /\ q.size = InitSize
      /\ sem.empty = InitSize /\ sem.full = 0 /\ main = "loop"
      /\ lost.empty = 0 /\ lost.full = 0
  BY DEF Init, NewRing
<1>2. InitSize \in Nat /\ InitSize > 0
  BY Constants
<1>3. RingOK(q)
  <2>1. Slot(q, 0) = 0
    BY <1>1, <1>2, WrapZero DEF Slot
  <2> QED
    BY <1>1, <1>2, <2>1 DEF RingOK
<1>4. Debtors("full") = {} /\ Debtors("empty") = {} /\ Ready = {}
  BY Constants DEF Init, Debtors, Owes, Ready, Workers
<1>5. Cardinality({}) = 0
  BY FS_EmptySet
<1>6. Owed("full") = 0 /\ Owed("empty") = 0 /\ Cardinality(Ready) = 0
  BY <1>4, <1>5 DEF Owed, Debtors
<1>7. TokensMatch
  BY <1>1, <1>2, <1>6 DEF TokensMatch
<1> QED
  BY <1>1, <1>3, <1>6, <1>7 DEF TokensInv

(* queue_resize loses no token if it finds none in the hands of a thread,  *)
(* and the load does not change under it.                                  *)
LEMMA TokensResize ==
    ASSUME ProcTypes, PlacesInv, RingTypes, RingTypes', TokensInv, ~damaged',
           Resize \/ InitEmpty \/ StoreEmpty \/ InitFull \/ StoreFull
    PROVE  TokensInv'
<1>0. ~damaged
  <2>1. damaged \in BOOLEAN
    BY DEF ProcTypes
  <2>2. damaged' = damaged \/ \E b \in BOOLEAN : damaged' = (damaged \/ b)
    BY DEF Resize, InitEmpty, StoreEmpty, InitFull, StoreFull, SemInit
  <2> QED
    BY <2>1, <2>2
<1>1. /\ UNCHANGED <<pc, mutex, run>> /\ ~damaged
      /\ main \in {"resize", "initEmpty", "storeEmpty", "initFull", "storeFull"}
      /\ main' # "done"
  BY <1>0 DEF Resize, InitEmpty, StoreEmpty, InitFull, StoreFull, SemInit, MainGoes,
              UnchangedByMain
<1>2. Owed("full")' = Owed("full") /\ Owed("empty")' = Owed("empty") /\ Ready' = Ready
  BY <1>1 DEF Owed, Owes, Ready
<1>3. /\ Typed(q) /\ RingOK(q) /\ Cardinality(Ready) <= q.load /\ TokensMatch
      /\ q.load \in Nat /\ q.size \in Nat /\ q \in RingType(MaxSize)
      /\ sem \in [{"empty", "full"} -> Nat] /\ newSize \in Nat
      /\ lost \in [{"empty", "full"} -> Nat] /\ counted \in Int
  BY <1>1, CoherentRing DEF TokensInv, RingTypes, ProcTypes
<1>4. ASSUME NEW k \in {"empty", "full"}, \A t \in Workers : ~Owes(k, t) PROVE Owed(k) = 0
  <2>1. {t \in Workers : Owes(k, t)} = {}
    BY <1>4
  <2> QED
    BY <2>1, FS_EmptySet DEF Owed
<1>5. CASE Resize
  <2>1. CASE main' = "loop" /\ UNCHANGED q
    <3>1. main = "resize" /\ UNCHANGED <<sem, lost>>
      BY <1>5 DEF Resize
    <3>2. TokensMatch'
      BY <1>1, <1>2, <1>3, <2>1, <3>1 DEF TokensMatch
    <3> QED
      BY <1>2, <1>3, <2>1, <3>2 DEF TokensInv
  <2>2. CASE main' = "initEmpty" /\ newSize >= q.load /\ q' = RingResize(q, newSize)
             /\ damaged' = (damaged \/ newSize = q.load)
    <3>1. newSize > q.load /\ newSize \in 1..MaxSize /\ UNCHANGED <<sem, lost>>
      <4>1. newSize # q.load
        BY <1>0, <2>2
      <4> QED
        BY <1>3, <1>5, <2>2, <4>1 DEF Resize, ProcTypes
    <3>2. RingOK(q')
      BY <1>3, <2>2, <3>1, ResizeKeepsRing, Constants
    <3>3. q'.load = q.load
      BY <1>3, <2>2, <3>1, ResizeTyped DEF RingOK
    <3>4. TokensMatch'
      BY <1>1, <1>2, <1>3, <2>2, <3>1, <3>3 DEF TokensMatch
    <3> QED
      BY <1>2, <1>3, <3>2, <3>3, <3>4 DEF TokensInv
  <2> QED
    BY <1>5, <2>1, <2>2 DEF Resize
<1>6. CASE InitEmpty \/ InitFull
  <2>1. /\ UNCHANGED <<q, sem, lost>>
        /\ \/ main = "initEmpty" /\ main' = "storeEmpty"
           \/ main = "initFull" /\ main' = "storeFull"
    BY <1>6 DEF InitEmpty, InitFull, MainGoes
  <2>2. TokensMatch'
    BY <1>1, <1>2, <1>3, <2>1 DEF TokensMatch
  <2> QED
    BY <1>2, <1>3, <2>1, <2>2 DEF TokensInv
<1>7. CASE StoreEmpty
  <2>1. /\ UNCHANGED q /\ main = "storeEmpty" /\ main' = "initFull"
        /\ counted = newSize - q.load /\ newSize = q.size
        /\ \A t \in Workers : ~Owes("empty", t)
    BY <1>7 DEF StoreEmpty, SemInit, MainGoes, RingTypes
  <2>2. counted >= 0
    BY <2>1 DEF RingTypes
  <2>3. /\ sem'.full = sem.full /\ sem'.empty = q.size - q.load
        /\ lost'.full = lost.full /\ lost'.empty = 0
    BY <1>3, <1>7, <2>1, <2>2 DEF StoreEmpty, SemInit
  <2>4. Owed("empty") = 0
    BY <1>4, <2>1
  <2>5. TokensMatch'
    BY <1>1, <1>2, <1>3, <2>1, <2>3, <2>4 DEF TokensMatch
  <2> QED
    BY <1>2, <1>3, <2>1, <2>5 DEF TokensInv
<1>8. CASE StoreFull
  <2>1. /\ UNCHANGED q /\ main = "storeFull" /\ main' = "loop"
        /\ counted = q.load /\ \A t \in Workers : ~Owes("full", t)
    BY <1>8 DEF StoreFull, SemInit, MainGoes
  <2>2. /\ sem'.empty = sem.empty /\ sem'.full = q.load
        /\ lost'.empty = lost.empty /\ lost'.full = 0
    BY <1>3, <1>8, <2>1 DEF StoreFull, SemInit
  <2>3. Owed("full") = 0
    BY <1>4, <2>1
  <2>4. TokensMatch'
    BY <1>1, <1>2, <1>3, <2>1, <2>2, <2>3 DEF TokensMatch
  <2> QED
    BY <1>2, <1>3, <2>1, <2>4 DEF TokensInv
<1> QED
  BY <1>5, <1>6, <1>7, <1>8

(* The other steps of the user and the main thread, and a signal: from the *)
(* moment the posts stand for nothing, run is cleared.                     *)
LEMMA TokensOther ==
    ASSUME ProcTypes, PlacesInv, PlacesInv', RingTypes, RingTypes', TokensInv,
           UserStep \/ MainStep \/ Signal \/ Exited \/ UNCHANGED vars
    PROVE  TokensInv'
<1> SUFFICES ASSUME ~damaged' PROVE TokensInv'
  BY DEF TokensInv
<1>1. ASSUME UNCHANGED <<q, damaged>>, main' # "done" => main # "done",
             \A u \in Workers : /\ (mutex' = u <=> mutex = u)
                                /\ \/ pc'[u] = pc[u]
                                   \/ mutex # u /\ pc[u] = "unborn" /\ pc'[u] = "loop",
             run' => /\ run /\ UNCHANGED <<sem, lost>>
                     /\ main \in {"initEmpty", "storeEmpty"} => UNCHANGED main
      PROVE  TokensInv'
  <2>1. Ready' = Ready /\ \A k, u : u \in Workers => (Owes(k, u)' <=> Owes(k, u))
    BY <1>1, Constants DEF Ready, Owes
  <2>2. \A k : {u \in Workers : Owes(k, u)'} = {u \in Workers : Owes(k, u)}
    BY <2>1
  <2>3. Owed("full")' = Owed("full") /\ Owed("empty")' = Owed("empty")
    BY <2>2 DEF Owed
  <2>4. TokensMatch'
    BY <1>1, <2>3 DEF TokensInv, TokensMatch
  <2> QED
    BY <1>1, <2>1, <2>4 DEF TokensInv
<1>2. CASE NoCommand \/ JoinVictim \/ CancelAll \/ JoinAll \/ Quit
  BY <1>1, <1>2 DEF NoCommand, JoinVictim, CancelAll, JoinAll, Quit, MainGoes, UnchangedQueue,
                    UnchangedByMain
<1>3. ASSUME NEW table, KillCommand(table) PROVE TokensInv'
  BY <1>1, <1>3 DEF KillCommand, MainGoes, UnchangedQueue, UnchangedByMain
<1>4. ASSUME NEW n, ResizeCommand(n) PROVE TokensInv'
  BY <1>1, <1>4 DEF ResizeCommand, MainGoes, UnchangedQueue, UnchangedByMain
<1>5. ASSUME NEW t \in Workers, AddThread(t) PROVE TokensInv'
  <2>1. /\ UNCHANGED <<q, damaged, sem, lost, mutex, run>> /\ main = "command" /\ main' = "loop"
        /\ pc[t] = "unborn" /\ mutex # t
    BY <1>5 DEF AddThread, MainGoes, UnchangedQueue, UnchangedByMain, PlacesInv, MutexInv
  <2>2. \A u \in Workers : pc'[u] = IF u = t THEN "loop" ELSE pc[u]
    BY <1>5 DEF AddThread, Goto, ProcTypes
  <2> QED
    BY <1>1, <2>1, <2>2
<1>6. CASE CheckRunning
  BY <1>1, <1>6 DEF CheckRunning, UnchangedQueue
<1>7. CASE PostAll
  BY <1>1, <1>7 DEF PostAll, MainGoes, UnchangedByMain, PlacesInv, EndInv
<1>8. CASE Signal
  BY <1>1, <1>8 DEF Signal, mainVars
<1>9. CASE Exited \/ UNCHANGED vars
  BY <1>1, <1>9 DEF Exited, vars, mainVars
<1>10. CASE Resize \/ InitEmpty \/ StoreEmpty \/ InitFull \/ StoreFull
  BY <1>10, TokensResize
<1>11. CASE Destroy
  <2>1. main' = "done" /\ ~run'
    BY <1>11 DEF Destroy, MainGoes, PlacesInv, EndInv
  <2> QED
    BY <2>1 DEF TokensInv, TokensMatch
<1> QED
  BY <1>2, <1>3, <1>4, <1>5, <1>6, <1>7, <1>8, <1>9, <1>10, <1>11 DEF UserStep, MainStep

-----------------------------------------------------------------------------
(* The theorems. *)

IInv == ProcTypes /\ PlacesInv /\ RingTypes /\ TokensInv

LEMMA InitInv == Init => IInv
BY ProcInit, PlacesInit, RingInit, TokensInit DEF IInv

LEMMA NextInv == IInv /\ [Next]_vars => IInv'
<1> SUFFICES ASSUME IInv, [Next]_vars PROVE IInv'
  OBVIOUS
<1>1. ProcTypes /\ PlacesInv /\ RingTypes /\ TokensInv
  BY DEF IInv
<1>2. ProcTypes' /\ PlacesInv' /\ RingTypes'
  BY <1>1, ProcStep, PlacesStep, RingStep
<1>3. TokensInv'
  BY <1>1, <1>2, TokensWorker, TokensOther, TokensLost DEF Next
<1> QED
  BY <1>2, <1>3 DEF IInv

THEOREM Invariance == Spec => []IInv
BY InitInv, NextInv, PTL DEF Spec

(* Every variable keeps its type: however often the user kills threads and *)
(* resizes the ring, the indices are numbers, the buffer has a slot for    *)
(* each of its sizes, and no semaphore falls below zero.                   *)
THEOREM TypeCorrect == Spec => []TypeOK
<1>1. IInv => TypeOK
  BY DEF IInv, ProcTypes, RingTypes, Typed, TokenRing, TypeOK
<1> QED
  BY <1>1, Invariance, PTL

(* sem_t empty and full count the free slots and the messages, but for the *)
(* tokens on their way and those a signal has killed with their thread,    *)
(* through every push, pop, kill and resize that found none on its way.    *)
THEOREM TokensCount == Spec => []TokensMatch
<1>1. IInv => TokensMatch
  BY DEF IInv, TokensInv, TokensMatch
<1> QED
  BY <1>1, Invariance, PTL

(* queue_pop tests nothing and is right not to: whoever comes to it finds  *)
(* a message, during the shutdown too.                                     *)
THEOREM NoPopFromEmpty == Spec => []RingCoherent
<1>1. IInv => RingCoherent
  BY DEF IInv, TokensInv, RingCoherent
<1> QED
  BY <1>1, Invariance, PTL
=============================================================================
