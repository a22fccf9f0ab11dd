-------------------------- MODULE CondQueueProofs --------------------------
(***************************************************************************)
(* Theorems about CondQueue, for every set of threads and every value of   *)
(* the bounds.                                                             *)
(***************************************************************************)
EXTENDS CondQueue, MessageRingProofs, FiniteSetTheorems

(* What keeps the indices of the ring in range whatever the resizes do:    *)
(* head is a slot and the load at most the size while there is a block.    *)
InRange(r) == /\ r.buffer \in [0..r.size-1 -> Msg \cup {Garbage}]
              /\ r.load \in 0..r.size
              /\ r.size > 0 => r.head \in 0..r.size-1

RingSafe == InRange(q) /\ (main = "resize" => newSize > 0)

TypeInv == TypeOK /\ RingSafe

(* A freed mutex and the threads' places are of the declared kinds. *)
LEMMA Kinds ==
  /\ Main \notin Workers /\ NoThread \notin Threads
  /\ Prod \cap Cons = {} /\ MaxSize \in Nat /\ InitSize \in 1..MaxSize
BY CondAssumption DEF Workers, Threads

(* The initial state is well typed and its ring in range. *)
LEMMA TypeInit == Init => TypeInv
<1> SUFFICES ASSUME Init PROVE TypeInv
  OBVIOUS
<1>1. /\ q.buffer \in [0..InitSize-1 -> Msg \cup {Garbage}] /\ q.load = 0 /\ q.head = 0
      /\ q.size = InitSize /\ q.tail = 0 /\ q.added = 0 /\ q.extracted = 0
  BY DEF Init, NewRing
<1>2. q \in RingType(MaxSize)
  <2>1. q.buffer \in Buffers(MaxSize)
    BY <1>1, Kinds DEF Buffers
  <2> QED BY <2>1, <1>1, Kinds DEF RingType, Init, NewRing
<1>3. RingSafe
  BY <1>1, Kinds DEF RingSafe, InRange, Init
<1> QED BY <1>2, <1>3, Kinds DEF TypeInv, TypeOK, Init, WorkerPlaces, MainPlaces, Threads

(* The ring operations keep the indices in range even when tail is not. *)
LEMMA PushInRange ==
  ASSUME NEW r \in RingType(MaxSize), InRange(r), r.load < r.size,
         NEW m \in Msg \cup {Garbage}
  PROVE  RingPush(r, m) \in RingType(MaxSize) /\ InRange(RingPush(r, m))
<1> DEFINE s == RingPush(r, m)
<1>1. /\ s.size = r.size /\ s.head = r.head /\ s.load = r.load + 1
      /\ s.tail = (r.tail + 1) % r.size /\ s.added = r.added + 1
      /\ s.buffer = [i \in DOMAIN r.buffer |-> IF i = r.tail THEN m ELSE r.buffer[i]]
  BY DEF RingPush, RingType
<1>2. /\ r.load \in 0..r.size-1 /\ r.size \in 1..MaxSize /\ r.tail + 1 \in Nat
      /\ r.head \in 0..r.size-1 /\ r.added + 1 \in Nat /\ r.load + 1 \in Int
  BY Kinds DEF InRange, RingType
<1>3. (r.tail + 1) % r.size \in Nat
  BY <1>2, SMT
<1>4. s.buffer \in [0..s.size-1 -> Msg \cup {Garbage}]
  BY <1>1 DEF InRange
<1>5. s.buffer \in Buffers(MaxSize)
  BY <1>4, <1>1, <1>2 DEF Buffers
<1>6. r.load + 1 \in 0..r.size
  BY <1>2
<1> QED BY <1>1, <1>2, <1>3, <1>4, <1>5, <1>6 DEF InRange, RingType, RingPush

(* A pop takes a message, or what a slot held before, and stays in range. *)
LEMMA PopInRange ==
  ASSUME NEW r \in RingType(MaxSize), InRange(r), r.load # 0
  PROVE  /\ RingPop(r) \in RingType(MaxSize) /\ InRange(RingPop(r))
         /\ RingFront(r) \in Msg \cup {Garbage}
<1> DEFINE s == RingPop(r)
<1>1. /\ s.size = r.size /\ s.buffer = r.buffer /\ s.load = r.load - 1
      /\ s.head = (r.head + 1) % r.size /\ s.extracted = r.extracted + 1
  BY DEF RingPop, RingType
<1>2. /\ r.load \in 1..r.size /\ r.size \in 1..MaxSize /\ r.extracted + 1 \in Nat
      /\ r.head \in 0..r.size-1 /\ r.load - 1 \in 0..r.size /\ r.load - 1 \in Int
  BY Kinds DEF InRange, RingType
<1>3. (r.head + 1) % r.size \in 0..r.size-1 /\ (r.head + 1) % r.size \in Nat
  BY <1>2, SMT
<1>4. RingFront(r) \in Msg \cup {Garbage}
  BY <1>2 DEF InRange, RingFront
<1> QED BY <1>1, <1>2, <1>3, <1>4 DEF InRange, RingType, RingPop

(* A resize keeps head a slot and the live slots typed at every new size. *)
LEMMA ResizeInRange ==
  ASSUME NEW r \in RingType(MaxSize), InRange(r), NEW n \in 1..MaxSize, n >= r.load
  PROVE  RingResize(r, n) \in RingType(MaxSize) /\ InRange(RingResize(r, n))
<1> DEFINE s == RingResize(r, n)
<1>1. /\ s.size = n /\ s.head = 0 /\ s.tail = r.load /\ s.load = r.load
      /\ s.buffer = [i \in 0..n-1 |-> IF i < r.load THEN r.buffer[Slot(r, i)]
                                                   ELSE Garbage]
  BY DEF RingResize, RingType
<1>2. r.load \in Nat /\ r.load \in 0..n /\ n \in 0..MaxSize /\ 0 \in 0..n-1
  BY Kinds DEF InRange, RingType
<1>3. ASSUME NEW i \in 0..n-1, i < r.load
      PROVE  r.buffer[Slot(r, i)] \in Msg \cup {Garbage}
  <2>1. i \in Nat /\ r.size \in Nat /\ r.size > 0 /\ r.head \in 0..r.size-1
    BY <1>3, Kinds DEF InRange, RingType
  <2>2. (r.head + i) % r.size \in 0..r.size-1
    BY <2>1, SMT
  <2> QED BY <2>2 DEF InRange, Slot
<1>4. s.buffer \in [0..n-1 -> Msg \cup {Garbage}]
  BY <1>1, <1>3
<1>5. s.buffer \in Buffers(MaxSize)
  BY <1>4, <1>2 DEF Buffers
<1> QED BY <1>1, <1>2, <1>4, <1>5 DEF InRange, RingType, RingResize

(* queue_destroy leaves a ring of the declared type. *)
LEMMA FreeInRange ==
  ASSUME NEW r \in RingType(MaxSize)
  PROVE  RingFree(r) \in RingType(MaxSize) /\ InRange(RingFree(r))
<1>1. <<>> \in [0..0-1 -> Msg \cup {Garbage}] /\ 0 \in 0..MaxSize
  BY Kinds
<1>2. <<>> \in Buffers(MaxSize)
  BY <1>1 DEF Buffers
<1> QED BY <1>1, <1>2 DEF InRange, RingType, RingFree

(* Every step keeps the types and the indices in range. *)
LEMMA TypeStep == TypeInv /\ [Next]_vars => TypeInv'
<1> SUFFICES ASSUME TypeInv, [Next]_vars PROVE TypeInv'
  OBVIOUS
<1> USE Kinds
<1>t. /\ q \in RingType(MaxSize) /\ InRange(q)
      /\ mutex \in Threads \cup {NoThread} /\ run \in BOOLEAN
      /\ pc \in [Workers -> WorkerPlaces]
      /\ msg \in [Workers -> Msg \cup {Garbage}]
      /\ cancelled \subseteq Workers
      /\ handler \in [Threads -> {"none", "lock", "wake"}]
      /\ signals \in Nat /\ main \in MainPlaces /\ newSize \in 0..MaxSize
      /\ victim \in Workers \cup {NoThread}
      /\ prods \in Seq(Prod) /\ cons \in Seq(Cons)
      /\ main = "resize" => newSize > 0
  BY DEF TypeInv, TypeOK, RingSafe
<1>w. Prod \subseteq Workers /\ Cons \subseteq Workers /\ Workers \subseteq Threads
      /\ Main \in Threads
  BY DEF Workers, Threads
<1>q. \A t \in Workers : msg[t] \in Msg \cup {Garbage}
  BY <1>t
<1> DEFINE Rest == /\ mutex' \in Threads \cup {NoThread} /\ run' \in BOOLEAN
                   /\ pc' \in [Workers -> WorkerPlaces]
                   /\ msg' \in [Workers -> Msg \cup {Garbage}]
                   /\ cancelled' \subseteq Workers
                   /\ handler' \in [Threads -> {"none", "lock", "wake"}]
                   /\ signals' \in Nat /\ main' \in MainPlaces /\ newSize' \in 0..MaxSize
                   /\ victim' \in Workers \cup {NoThread}
                   /\ prods' \in Seq(Prod) /\ cons' \in Seq(Cons)
                   /\ main' = "resize" => newSize' > 0
           Ring == q' \in RingType(MaxSize) /\ InRange(q')
<1>r. Rest /\ Ring => TypeInv'
  BY DEF TypeInv, TypeOK, RingSafe, InRange
<1>k. UNCHANGED q => Ring
  BY <1>t DEF InRange
<1>1. ASSUME NEW t \in Workers, Loop(t) PROVE TypeInv'
  <2>1. UNCHANGED q
    BY <1>1 DEF Loop
  <2>2. Ring
    BY <2>1, <1>k
  <2>3. msg' \in [Workers -> Msg \cup {Garbage}]
    BY <1>1, <1>t DEF Loop
  <2>4. pc' \in [Workers -> WorkerPlaces]
    BY <1>1, <1>t DEF Loop, Goto, WorkerPlaces
  <2>5. Rest
    BY <1>1, <1>t, <2>3, <2>4 DEF Loop, Rest, UnchangedOutside, mainVars, MainPlaces
  <2> QED BY <2>2, <2>5, <1>r
<1>2. ASSUME NEW t \in Workers, Lock(t) PROVE TypeInv'
  <2>1. Ring
    BY <1>2, <1>k DEF Lock
  <2>2. Rest
    BY <1>2, <1>t, <1>w
       DEF Lock, Rest, At, Goto, UnchangedOutside, mainVars, WorkerPlaces, MainPlaces
  <2> QED BY <2>1, <2>2, <1>r
<1>3. ASSUME NEW t \in Workers, Block(t) PROVE TypeInv'
  <2>1. Ring
    BY <1>3, <1>k DEF Block
  <2>2. Rest
    BY <1>3, <1>t, <1>w
       DEF Block, Rest, At, Goto, UnchangedOutside, mainVars, WorkerPlaces, MainPlaces
  <2> QED BY <2>1, <2>2, <1>r
<1>4. ASSUME NEW t \in Workers, Timeout(t) PROVE TypeInv'
  <2>1. Ring
    BY <1>4, <1>k DEF Timeout
  <2>2. Rest
    BY <1>4, <1>t, <1>w
       DEF Timeout, Rest, At, Goto, UnchangedOutside, mainVars, WorkerPlaces, MainPlaces
  <2> QED BY <2>1, <2>2, <1>r
<1>5. ASSUME NEW t \in Workers, ReturnTimedOut(t) PROVE TypeInv'
  <2>1. Ring
    BY <1>5, <1>k DEF ReturnTimedOut
  <2>2. Rest
    BY <1>5, <1>t, <1>w
       DEF ReturnTimedOut, Rest, At, Goto, UnchangedOutside, mainVars, WorkerPlaces, MainPlaces
  <2> QED BY <2>1, <2>2, <1>r
<1>6. ASSUME NEW t \in Workers, Report(t) PROVE TypeInv'
  <2>1. Ring
    BY <1>6, <1>k DEF Report
  <2>2. Rest
    BY <1>6, <1>t, <1>w
       DEF Report, Rest, At, Goto, UnchangedOutside, mainVars, WorkerPlaces, MainPlaces
  <2> QED BY <2>1, <2>2, <1>r
<1>7. ASSUME NEW t \in Workers, Sleep(t) PROVE TypeInv'
  <2>1. Ring
    BY <1>7, <1>k DEF Sleep
  <2>2. Rest
    BY <1>7, <1>t, <1>w
       DEF Sleep, Rest, At, Goto, UnchangedOutside, mainVars, WorkerPlaces, MainPlaces
  <2> QED BY <2>1, <2>2, <1>r
<1>8. ASSUME NEW t \in Workers, ActOnCancel(t) PROVE TypeInv'
  <2>1. Ring
    BY <1>8, <1>k DEF ActOnCancel
  <2>2. Rest
    BY <1>8, <1>t, <1>w
       DEF ActOnCancel, Rest, At, Goto, UnchangedOutside, mainVars, WorkerPlaces, MainPlaces
  <2> QED BY <2>1, <2>2, <1>r
<1>9. ASSUME NEW t \in Workers, Unwind(t) PROVE TypeInv'
  <2>1. Ring
    BY <1>9, <1>k DEF Unwind
  <2>2. Rest
    BY <1>9, <1>t, <1>w
       DEF Unwind, Rest, At, Goto, UnchangedOutside, mainVars, WorkerPlaces, MainPlaces
  <2> QED BY <2>1, <2>2, <1>r
<1>10. ASSUME NEW t \in Workers, PushTest(t) PROVE TypeInv'
  <2>1. Ring
    <3>1. CASE q' = q
      BY <3>1, <1>t
    <3>2. CASE q.load < q.size /\ q' = RingPush(q, msg[t])
      BY <3>2, <1>t, <1>q, PushInRange
    <3> QED BY <3>1, <3>2, <1>10 DEF PushTest
  <2>2. Rest
    BY <1>10, <1>t, <1>w
       DEF PushTest, Rest, At, Goto, UnchangedOutside, mainVars, WorkerPlaces, MainPlaces
  <2> QED BY <2>1, <2>2, <1>r
<1>11. ASSUME NEW t \in Workers, PopTest(t) PROVE TypeInv'
  <2>1. CASE q' = q /\ msg' = msg
    <3>1. Ring
      BY <2>1, <1>t
    <3>2. Rest
      BY <1>11, <2>1, <1>t, <1>w
         DEF PopTest, Rest, At, Goto, UnchangedOutside, mainVars, WorkerPlaces, MainPlaces
    <3> QED BY <3>1, <3>2, <1>r
  <2>2. CASE q.load # 0 /\ q' = RingPop(q) /\ msg' = [msg EXCEPT ![t] = RingFront(q)]
    <3>1. Ring /\ RingFront(q) \in Msg \cup {Garbage}
      BY <2>2, <1>t, PopInRange
    <3>2. Rest
      BY <1>11, <2>2, <3>1, <1>t, <1>w
         DEF PopTest, Rest, At, Goto, UnchangedOutside, mainVars, WorkerPlaces, MainPlaces
    <3> QED BY <3>1, <3>2, <1>r
  <2> QED BY <2>1, <2>2, <1>11 DEF PopTest
<1>12. ASSUME NEW t \in Threads, HandlerLock(t) PROVE TypeInv'
  <2>1. Ring
    BY <1>12, <1>k DEF HandlerLock
  <2>2. Rest
    BY <1>12, <1>t, <1>w
       DEF HandlerLock, Rest, mainVars, workerVars, WorkerPlaces, MainPlaces
  <2> QED BY <2>1, <2>2, <1>r
<1>13. ASSUME NEW t \in Threads, HandlerWake(t) PROVE TypeInv'
  <2>1. Ring
    BY <1>13, <1>k DEF HandlerWake
  <2>2. Rest
    BY <1>13, <1>t, <1>w
       DEF HandlerWake, Rest, WakeAll, mainVars, WorkerPlaces, MainPlaces
  <2> QED BY <2>1, <2>2, <1>r
<1>14. ASSUME JoinVictim PROVE TypeInv'
  <2>1. Ring
    BY <1>14, <1>k DEF JoinVictim
  <2>2. SubSeq(prods, 1, Len(prods) - 1) \in Seq(Prod)
    BY <1>t
  <2>3. SubSeq(cons, 1, Len(cons) - 1) \in Seq(Cons)
    BY <1>t
  <2>4. prods' \in Seq(Prod) /\ cons' \in Seq(Cons)
    BY <2>2, <2>3, <1>14, <1>t DEF JoinVictim
  <2>5. Rest
    BY <1>14, <1>t, <2>4 DEF JoinVictim, Rest, MainAt, MainPlaces
  <2> QED BY <2>1, <2>5, <1>r
<1>15. ASSUME NEW t \in Threads, Signal(t) PROVE TypeInv'
  <2>1. Ring
    BY <1>15, <1>k DEF Signal
  <2>2. signals' \in Nat
    BY <1>15, <1>t DEF Signal
  <2>3. handler' \in [Threads -> {"none", "lock", "wake"}]
    BY <1>15, <1>t DEF Signal
  <2>4. run' \in BOOLEAN
    BY <1>15 DEF Signal
  <2>5. Rest
    BY <1>15, <1>t, <2>2, <2>3, <2>4 DEF Signal, Rest, mainVars, workerVars
  <2> QED BY <2>1, <2>5, <1>r
<1>16. ASSUME NoCommand PROVE TypeInv'
  <2>1. Ring
    BY <1>16, <1>k DEF NoCommand
  <2>2. Rest
    BY <1>16, <1>t, <1>w DEF NoCommand, Rest, MainAt, workerVars, WorkerPlaces, MainPlaces
  <2> QED BY <2>1, <2>2, <1>r
<1>17. ASSUME StatusCommand PROVE TypeInv'
  <2>1. Ring
    BY <1>17, <1>k DEF StatusCommand
  <2>2. Rest
    BY <1>17, <1>t, <1>w
       DEF StatusCommand, Rest, MainAt, workerVars, WorkerPlaces, MainPlaces
  <2> QED BY <2>1, <2>2, <1>r
<1>18. ASSUME Quit PROVE TypeInv'
  <2>1. Ring
    BY <1>18, <1>k DEF Quit
  <2>2. Rest
    BY <1>18, <1>t, <1>w DEF Quit, Rest, MainAt, workerVars, WorkerPlaces, MainPlaces
  <2> QED BY <2>1, <2>2, <1>r
<1>19. ASSUME NEW t \in Prod, AddProducer(t) PROVE TypeInv'
  <2>1. Ring
    BY <1>19, <1>k DEF AddProducer
  <2>2. Rest
    BY <1>19, <1>t, <1>w DEF AddProducer, Rest, MainAt, Goto, WorkerPlaces, MainPlaces
  <2> QED BY <2>1, <2>2, <1>r
<1>20. ASSUME NEW t \in Cons, AddConsumer(t) PROVE TypeInv'
  <2>1. Ring
    BY <1>20, <1>k DEF AddConsumer
  <2>2. Rest
    BY <1>20, <1>t, <1>w DEF AddConsumer, Rest, MainAt, Goto, WorkerPlaces, MainPlaces
  <2> QED BY <2>1, <2>2, <1>r
<1>21. ASSUME NEW n \in {q.size - 1, q.size + 1}, ResizeCommand(n) PROVE TypeInv'
  <2>1. Ring
    BY <1>21, <1>k DEF ResizeCommand
  <2>2. Rest
    BY <1>21, <1>t, <1>w
       DEF ResizeCommand, Rest, MainAt, workerVars, WorkerPlaces, MainPlaces
  <2> QED BY <2>1, <2>2, <1>r
<1>22. ASSUME NEW table \in {prods, cons}, KillCommand(table) PROVE TypeInv'
  <2>1. Ring
    BY <1>22, <1>k DEF KillCommand
  <2>2. Rest
    BY <1>22, <1>t, <1>w DEF KillCommand, Rest, MainAt, WorkerPlaces, MainPlaces
  <2> QED BY <2>1, <2>2, <1>r
<1>23. ASSUME CheckRunning PROVE TypeInv'
  <2>1. Ring
    BY <1>23, <1>k DEF CheckRunning
  <2>2. Rest
    BY <1>23, <1>t, <1>w
       DEF CheckRunning, Rest, MainAt, workerVars, WorkerPlaces, MainPlaces
  <2> QED BY <2>1, <2>2, <1>r
<1>24. ASSUME MainLock PROVE TypeInv'
  <2>1. Ring
    BY <1>24, <1>k DEF MainLock
  <2>2. Rest
    BY <1>24, <1>t, <1>w
       DEF MainLock, Rest, mainVars, workerVars, WorkerPlaces, MainPlaces
  <2> QED BY <2>1, <2>2, <1>r
<1>25. ASSUME Status PROVE TypeInv'
  <2>1. Ring
    BY <1>25, <1>k DEF Status
  <2>2. Rest
    BY <1>25, <1>t, <1>w DEF Status, Rest, MainAt, workerVars, WorkerPlaces, MainPlaces
  <2> QED BY <2>1, <2>2, <1>r
<1>26. ASSUME Broadcast PROVE TypeInv'
  <2>1. Ring
    BY <1>26, <1>k DEF Broadcast
  <2>2. Rest
    BY <1>26, <1>t, <1>w DEF Broadcast, Rest, MainAt, WakeAll, WorkerPlaces, MainPlaces
  <2> QED BY <2>1, <2>2, <1>r
<1>27. ASSUME CancelAll PROVE TypeInv'
  <2>1. Ring
    BY <1>27, <1>k DEF CancelAll
  <2>2. Rest
    BY <1>27, <1>t, <1>w DEF CancelAll, Rest, MainAt, InTables, WorkerPlaces, MainPlaces
  <2> QED BY <2>1, <2>2, <1>r
<1>28. ASSUME JoinAll PROVE TypeInv'
  <2>1. Ring
    BY <1>28, <1>k DEF JoinAll
  <2>2. Rest
    BY <1>28, <1>t, <1>w DEF JoinAll, Rest, MainAt, InTables, WorkerPlaces, MainPlaces
  <2> QED BY <2>1, <2>2, <1>r
<1>29. ASSUME Resize PROVE TypeInv'
  <2>1. Ring
    <3>1. CASE q' = q
      BY <3>1, <1>t
    <3>2. CASE newSize >= q.load /\ q' = RingResize(q, newSize)
      BY <3>2, <1>29, <1>t, ResizeInRange DEF Resize, MainAt
    <3>3. newSize > q.load \/ newSize = q.load => newSize >= q.load
      BY <1>t DEF InRange, RingType
    <3> QED BY <3>1, <3>2, <3>3, <1>29 DEF Resize
  <2>2. Rest
    BY <1>29, <1>t, <1>w DEF Resize, Rest, MainAt, WakeAll, WorkerPlaces, MainPlaces
  <2> QED BY <2>1, <2>2, <1>r
<1>30. ASSUME Destroy PROVE TypeInv'
  <2>1. Ring
    BY <1>30, <1>t, FreeInRange DEF Destroy
  <2>2. Rest
    BY <1>30, <1>t, <1>w DEF Destroy, Rest, MainAt, workerVars, WorkerPlaces, MainPlaces
  <2> QED BY <2>1, <2>2, <1>r
<1>36. ASSUME NEW t \in Threads, HandlerRefused(t) PROVE TypeInv'
  <2>1. Ring
    BY <1>36, <1>k DEF HandlerRefused, mainVars
  <2>2. Rest
    BY <1>36, <1>t, <1>w
       DEF HandlerRefused, Rest, mainVars, workerVars, WorkerPlaces, MainPlaces
  <2> QED BY <2>1, <2>2, <1>r
<1>37. ASSUME NEW t \in Workers, SignalLost(t) PROVE TypeInv'
  <2>1. Ring
    BY <1>37, <1>k DEF SignalLost, mainVars
  <2>2. Rest
    BY <1>37, <1>t, <1>w
       DEF SignalLost, Rest, mainVars, Goto, WorkerPlaces, MainPlaces
  <2> QED BY <2>1, <2>2, <1>r
<1>38. ASSUME Exit PROVE TypeInv'
  <2>1. Ring
    BY <1>38, <1>k DEF Exit
  <2>2. Rest
    BY <1>38, <1>t, <1>w DEF Exit, Rest, MainAt, workerVars, WorkerPlaces, MainPlaces
  <2> QED BY <2>1, <2>2, <1>r
<1>31. ASSUME UNCHANGED vars PROVE TypeInv'
  BY <1>31 DEF TypeInv, TypeOK, RingSafe, InRange, vars
<1>32. ASSUME NEW t \in Workers, WorkerStep(t) PROVE TypeInv'
  BY <1>32, <1>1, <1>2, <1>3, <1>4, <1>5, <1>6, <1>7, <1>8, <1>9, <1>10, <1>11
     DEF WorkerStep
<1>33. ASSUME NEW t \in Threads, Signal(t) \/ HandlerStep(t) PROVE TypeInv'
  BY <1>33, <1>12, <1>13, <1>15, <1>36 DEF HandlerStep
<1>34. ASSUME UserStep PROVE TypeInv'
  BY <1>34, <1>16, <1>17, <1>18, <1>19, <1>20, <1>21, <1>22 DEF UserStep
<1>35. ASSUME MainStep PROVE TypeInv'
  BY <1>35, <1>14, <1>23, <1>24, <1>25, <1>26, <1>27, <1>28, <1>29, <1>30, <1>38
     DEF MainStep
<1> QED BY <1>32, <1>37, <1>33, <1>34, <1>35, <1>31 DEF Next, Exited

(* TypeOK holds in every reachable state. *)
THEOREM TypeCorrect == Spec => []TypeOK
<1>1. Spec => []TypeInv
  BY TypeInit, TypeStep, PTL DEF Spec
<1>2. TypeInv => TypeOK
  BY DEF TypeInv
<1> QED BY <1>1, <1>2, PTL

-----------------------------------------------------------------------------
(* Ownership of q->mutex.  The handler of a thread cannot be inside its    *)
(* critical section while the code it interrupted is inside another.       *)
OwnerInv == /\ OnlyOwnerInside
            /\ \A t \in Workers : pc[t] = "unborn" => handler[t] = "none"
            /\ \A t \in Workers :
                 handler[t] = "wake" /\ Alive(t) => pc[t] \notin Holding

(* Every step keeps the ownership invariant. *)
LEMMA OwnerStep == TypeOK /\ OwnerInv /\ [Next]_vars => OwnerInv'
<1> SUFFICES ASSUME TypeOK, OwnerInv, [Next]_vars PROVE OwnerInv'
  OBVIOUS
<1> USE Kinds
<1>t. /\ pc \in [Workers -> WorkerPlaces]
      /\ handler \in [Threads -> {"none", "lock", "wake"}]
  BY DEF TypeOK
<1>w. Prod \subseteq Workers /\ Cons \subseteq Workers /\ Workers \subseteq Threads
      /\ Main \in Threads /\ \A u \in Workers : u # Main /\ u # NoThread
  BY DEF Workers, Threads
<1>n. \A u \in Workers : pc[u] = "unborn" => handler[u] = "none"
  BY DEF OwnerInv
<1>o. /\ \A u \in Workers : pc[u] \in {"test", "block", "report"} => mutex = u
      /\ \A u \in Workers : /\ handler[u] = "wake" /\ pc[u] \notin {"unborn", "dead"}
                            => mutex = u /\ pc[u] \notin {"test", "block", "report"}
      /\ handler[Main] = "wake" /\ main \notin {"done", "aborted"} => mutex = Main
  BY <1>w DEF OwnerInv, OnlyOwnerInside, Alive, Holding
<1> DEFINE Goal == /\ \A u \in Workers : pc'[u] \in {"test", "block", "report"} => mutex' = u
                   /\ \A u \in Workers : /\ handler'[u] = "wake" /\ pc'[u] \notin {"unborn", "dead"}
                            => mutex' = u /\ pc'[u] \notin {"test", "block", "report"}
                   /\ handler'[Main] = "wake" /\ main' \notin {"done", "aborted"} => mutex' = Main
                   /\ \A u \in Workers : pc'[u] = "unborn" => handler'[u] = "none"
<1>g. Goal => OwnerInv'
  BY <1>w DEF OwnerInv, OnlyOwnerInside, Alive, Holding, Threads
<1>1. ASSUME NEW t \in Workers, Loop(t) PROVE OwnerInv'
  BY <1>1, <1>t, <1>w, <1>n, <1>o, <1>g
     DEF Loop, At, Goto, UnchangedOutside, mainVars, Executes
<1>2. ASSUME NEW t \in Workers, Lock(t) PROVE OwnerInv'
  BY <1>2, <1>t, <1>w, <1>n, <1>o, <1>g
     DEF Lock, At, Goto, UnchangedOutside, mainVars, Executes
<1>3. ASSUME NEW t \in Workers, PushTest(t) PROVE OwnerInv'
  BY <1>3, <1>t, <1>w, <1>n, <1>o, <1>g
     DEF PushTest, At, Goto, UnchangedOutside, mainVars, Executes
<1>4. ASSUME NEW t \in Workers, PopTest(t) PROVE OwnerInv'
  BY <1>4, <1>t, <1>w, <1>n, <1>o, <1>g
     DEF PopTest, At, Goto, UnchangedOutside, mainVars, Executes
<1>5. ASSUME NEW t \in Workers, Block(t) PROVE OwnerInv'
  BY <1>5, <1>t, <1>w, <1>n, <1>o, <1>g
     DEF Block, At, Goto, UnchangedOutside, mainVars, Executes
<1>6. ASSUME NEW t \in Workers, Timeout(t) PROVE OwnerInv'
  BY <1>6, <1>t, <1>w, <1>n, <1>o, <1>g
     DEF Timeout, At, Goto, UnchangedOutside, mainVars, Executes
<1>7. ASSUME NEW t \in Workers, ReturnTimedOut(t) PROVE OwnerInv'
  BY <1>7, <1>t, <1>w, <1>n, <1>o, <1>g
     DEF ReturnTimedOut, At, Goto, UnchangedOutside, mainVars, Executes
<1>8. ASSUME NEW t \in Workers, Report(t) PROVE OwnerInv'
  BY <1>8, <1>t, <1>w, <1>n, <1>o, <1>g
     DEF Report, At, Goto, UnchangedOutside, mainVars, WaitingOn, Executes
<1>9. ASSUME NEW t \in Workers, Sleep(t) PROVE OwnerInv'
  BY <1>9, <1>t, <1>w, <1>n, <1>o, <1>g
     DEF Sleep, At, Goto, UnchangedOutside, mainVars, Executes
<1>10. ASSUME NEW t \in Workers, ActOnCancel(t) PROVE OwnerInv'
  BY <1>10, <1>t, <1>w, <1>n, <1>o, <1>g
     DEF ActOnCancel, At, Goto, UnchangedOutside, mainVars, Executes
<1>11. ASSUME NEW t \in Workers, Unwind(t) PROVE OwnerInv'
  BY <1>11, <1>t, <1>w, <1>n, <1>o, <1>g
     DEF Unwind, At, Goto, UnchangedOutside, mainVars, Executes
<1>12. ASSUME NEW t \in Threads, Signal(t) PROVE OwnerInv'
  BY <1>12, <1>t, <1>w, <1>n, <1>o, <1>g
     DEF Signal, mainVars, workerVars, Executes, Alive
<1>13. ASSUME NEW t \in Threads, HandlerLock(t) PROVE OwnerInv'
  BY <1>13, <1>t, <1>w, <1>n, <1>o, <1>g
     DEF HandlerLock, mainVars, workerVars, Alive
<1>14. ASSUME NEW t \in Threads, HandlerWake(t) PROVE OwnerInv'
  <2>1. mutex = t /\ \A u \in Workers : u = t => pc[u] \notin {"test", "block", "report"}
    BY <1>14, <1>w, <1>o DEF HandlerWake, Alive, Threads
  <2>2. \A u \in Workers : /\ pc[u] \notin {"test", "block", "report"}
                           /\ pc'[u] = IF pc[u] = "waiting" THEN "woken" ELSE pc[u]
    BY <1>14, <2>1, <1>o DEF HandlerWake, WakeAll
  <2>3. \A u \in Threads : u # t => ~(handler[u] = "wake" /\ Alive(u))
    BY <2>1, <1>o, <1>w DEF Alive, Threads
  <2>4. /\ handler' = [handler EXCEPT ![t] = "none"] /\ main' = main
    BY <1>14 DEF HandlerWake, mainVars
  <2> QED BY <2>2, <2>3, <2>4, <1>t, <1>w, <1>n, <1>g DEF Alive
<1>15. ASSUME NoCommand PROVE OwnerInv'
  BY <1>15, <1>t, <1>w, <1>n, <1>o, <1>g
     DEF NoCommand, workerVars, MainAt, Executes
<1>16. ASSUME StatusCommand PROVE OwnerInv'
  BY <1>16, <1>t, <1>w, <1>n, <1>o, <1>g
     DEF StatusCommand, workerVars, MainAt, Executes
<1>17. ASSUME Quit PROVE OwnerInv'
  BY <1>17, <1>t, <1>w, <1>n, <1>o, <1>g
     DEF Quit, workerVars, MainAt, Executes
<1>18. ASSUME NEW t \in Prod, AddProducer(t) PROVE OwnerInv'
  BY <1>18, <1>t, <1>w, <1>n, <1>o, <1>g
     DEF AddProducer, Goto, MainAt, Executes
<1>19. ASSUME NEW t \in Cons, AddConsumer(t) PROVE OwnerInv'
  BY <1>19, <1>t, <1>w, <1>n, <1>o, <1>g
     DEF AddConsumer, Goto, MainAt, Executes
<1>20. ASSUME NEW n \in {q.size - 1, q.size + 1}, ResizeCommand(n) PROVE OwnerInv'
  BY <1>20, <1>t, <1>w, <1>n, <1>o, <1>g
     DEF ResizeCommand, workerVars, MainAt, Executes
<1>21. ASSUME NEW table \in {prods, cons}, KillCommand(table) PROVE OwnerInv'
  BY <1>21, <1>t, <1>w, <1>n, <1>o, <1>g
     DEF KillCommand, MainAt, Executes
<1>22. ASSUME CheckRunning PROVE OwnerInv'
  BY <1>22, <1>t, <1>w, <1>n, <1>o, <1>g
     DEF CheckRunning, workerVars, MainAt, Executes
<1>23. ASSUME MainLock PROVE OwnerInv'
  BY <1>23, <1>t, <1>w, <1>n, <1>o, <1>g
     DEF MainLock, mainVars, workerVars, Executes
<1>24. ASSUME Resize PROVE OwnerInv'
  BY <1>24, <1>t, <1>w, <1>n, <1>o, <1>g
     DEF Resize, MainAt, WakeAll, Executes
<1>25. ASSUME Status PROVE OwnerInv'
  BY <1>25, <1>t, <1>w, <1>n, <1>o, <1>g
     DEF Status, workerVars, MainAt, Executes
<1>26. ASSUME JoinVictim PROVE OwnerInv'
  BY <1>26, <1>t, <1>w, <1>n, <1>o, <1>g
     DEF JoinVictim, MainAt, Executes
<1>27. ASSUME Broadcast PROVE OwnerInv'
  BY <1>27, <1>t, <1>w, <1>n, <1>o, <1>g
     DEF Broadcast, MainAt, WakeAll, Executes
<1>28. ASSUME CancelAll PROVE OwnerInv'
  BY <1>28, <1>t, <1>w, <1>n, <1>o, <1>g
     DEF CancelAll, MainAt, Executes
<1>29. ASSUME JoinAll PROVE OwnerInv'
  BY <1>29, <1>t, <1>w, <1>n, <1>o, <1>g
     DEF JoinAll, MainAt, Executes
<1>30. ASSUME Destroy PROVE OwnerInv'
  BY <1>30, <1>t, <1>w, <1>n, <1>o, <1>g
     DEF Destroy, workerVars, MainAt, Executes
<1>36. ASSUME NEW t \in Threads, HandlerRefused(t) PROVE OwnerInv'
  BY <1>36, <1>t, <1>w, <1>n, <1>o, <1>g
     DEF HandlerRefused, mainVars, workerVars, Alive
<1>37. ASSUME NEW t \in Workers, SignalLost(t) PROVE OwnerInv'
  BY <1>37, <1>t, <1>w, <1>n, <1>o, <1>g
     DEF SignalLost, Goto, mainVars, Executes, Alive
<1>38. ASSUME Exit PROVE OwnerInv'
  BY <1>38, <1>t, <1>w, <1>n, <1>o, <1>g
     DEF Exit, workerVars, MainAt, Executes
<1>31. ASSUME UNCHANGED vars PROVE OwnerInv'
  BY <1>31 DEF OwnerInv, OnlyOwnerInside, Alive, Holding, vars
<1>32. ASSUME NEW t \in Workers, WorkerStep(t) PROVE OwnerInv'
  BY <1>32, <1>1, <1>2, <1>3, <1>4, <1>5, <1>6, <1>7, <1>8, <1>9, <1>10, <1>11
     DEF WorkerStep
<1>33. ASSUME NEW t \in Threads, Signal(t) \/ HandlerStep(t) PROVE OwnerInv'
  BY <1>33, <1>12, <1>13, <1>14, <1>36 DEF HandlerStep
<1>34. ASSUME UserStep PROVE OwnerInv'
  BY <1>34, <1>15, <1>16, <1>17, <1>18, <1>19, <1>20, <1>21 DEF UserStep
<1>35. ASSUME MainStep PROVE OwnerInv'
  BY <1>35, <1>22, <1>23, <1>24, <1>25, <1>26, <1>27, <1>28, <1>29, <1>30, <1>38
     DEF MainStep
<1> QED BY <1>32, <1>37, <1>33, <1>34, <1>35, <1>31 DEF Next, Exited

(* Mutual exclusion: for every number of threads, signals and kills, the   *)
(* thread inside a critical section of the queue owns q->mutex.            *)
THEOREM MutualExclusion == Spec => []OnlyOwnerInside
<1>1. Init => OwnerInv
  BY Kinds DEF Init, OwnerInv, OnlyOwnerInside, Alive, Holding, Threads
<1>2. TypeOK /\ OwnerInv /\ [Next]_vars => OwnerInv'
  BY OwnerStep
<1>3. OwnerInv => OnlyOwnerInside
  BY DEF OwnerInv
<1> QED BY <1>1, <1>2, <1>3, TypeCorrect, PTL DEF Spec

-----------------------------------------------------------------------------
(* What becomes of q->mutex: it is free, or its owner is in a critical     *)
(* section, or it died there by a cancellation or in the end of the        *)
(* process.                                                                *)
OrphanInv ==
    \A t \in Workers :
      /\ pc[t] = "unwinding" => t \in cancelled
      /\ mutex = t => \/ pc[t] \in Holding
                      \/ handler[t] = "wake" /\ pc[t] # "dead"
                      \/ pc[t] = "dead" /\ (main = "aborted" \/ t \in cancelled)

(* Every step keeps it. *)
LEMMA OrphanStep == TypeOK /\ OrphanInv /\ [Next]_vars => OrphanInv'
<1> SUFFICES ASSUME TypeOK, OrphanInv, [Next]_vars PROVE OrphanInv'
  OBVIOUS
<1> USE Kinds
<1>t. /\ pc \in [Workers -> WorkerPlaces]
      /\ handler \in [Threads -> {"none", "lock", "wake"}]
  BY DEF TypeOK
<1>w. Prod \subseteq Workers /\ Cons \subseteq Workers /\ Workers \subseteq Threads
      /\ Main \in Threads /\ \A u \in Workers : u # Main /\ u # NoThread
  BY DEF Workers, Threads
<1> DEFINE Goal == \A u \in Workers :
         /\ pc'[u] = "unwinding" => u \in cancelled'
         /\ mutex' = u => \/ pc'[u] \in {"test", "block", "report"}
                          \/ handler'[u] = "wake" /\ pc'[u] # "dead"
                          \/ pc'[u] = "dead" /\ (main' = "aborted" \/ u \in cancelled')
<1>o. \A u \in Workers :
         /\ pc[u] = "unwinding" => u \in cancelled
         /\ mutex = u => \/ pc[u] \in {"test", "block", "report"}
                         \/ handler[u] = "wake" /\ pc[u] # "dead"
                         \/ pc[u] = "dead" /\ (main = "aborted" \/ u \in cancelled)
  BY DEF OrphanInv, Holding
<1>g. Goal => OrphanInv'
  BY DEF OrphanInv, Holding
<1>1. ASSUME NEW t \in Workers, Loop(t) PROVE OrphanInv'
  BY <1>1, <1>t, <1>w, <1>o, <1>g
     DEF Loop, At, Goto, UnchangedOutside, mainVars, Executes
<1>2. ASSUME NEW t \in Workers, Lock(t) PROVE OrphanInv'
  BY <1>2, <1>t, <1>w, <1>o, <1>g
     DEF Lock, At, Goto, UnchangedOutside, mainVars, Executes
<1>3. ASSUME NEW t \in Workers, PushTest(t) PROVE OrphanInv'
  BY <1>3, <1>t, <1>w, <1>o, <1>g
     DEF PushTest, At, Goto, UnchangedOutside, mainVars, Executes
<1>4. ASSUME NEW t \in Workers, PopTest(t) PROVE OrphanInv'
  BY <1>4, <1>t, <1>w, <1>o, <1>g
     DEF PopTest, At, Goto, UnchangedOutside, mainVars, Executes
<1>5. ASSUME NEW t \in Workers, Block(t) PROVE OrphanInv'
  BY <1>5, <1>t, <1>w, <1>o, <1>g
     DEF Block, At, Goto, UnchangedOutside, mainVars, Executes
<1>6. ASSUME NEW t \in Workers, Timeout(t) PROVE OrphanInv'
  BY <1>6, <1>t, <1>w, <1>o, <1>g
     DEF Timeout, At, Goto, UnchangedOutside, mainVars, Executes
<1>7. ASSUME NEW t \in Workers, ReturnTimedOut(t) PROVE OrphanInv'
  BY <1>7, <1>t, <1>w, <1>o, <1>g
     DEF ReturnTimedOut, At, Goto, UnchangedOutside, mainVars, Executes
<1>8. ASSUME NEW t \in Workers, Report(t) PROVE OrphanInv'
  BY <1>8, <1>t, <1>w, <1>o, <1>g
     DEF Report, At, Goto, UnchangedOutside, mainVars, WaitingOn, Executes
<1>9. ASSUME NEW t \in Workers, Sleep(t) PROVE OrphanInv'
  BY <1>9, <1>t, <1>w, <1>o, <1>g
     DEF Sleep, At, Goto, UnchangedOutside, mainVars, Executes
<1>10. ASSUME NEW t \in Workers, ActOnCancel(t) PROVE OrphanInv'
  BY <1>10, <1>t, <1>w, <1>o, <1>g
     DEF ActOnCancel, At, Goto, UnchangedOutside, mainVars, Executes
<1>11. ASSUME NEW t \in Workers, Unwind(t) PROVE OrphanInv'
  BY <1>11, <1>t, <1>w, <1>o, <1>g
     DEF Unwind, At, Goto, UnchangedOutside, mainVars, Executes
<1>12. ASSUME NEW t \in Threads, Signal(t) PROVE OrphanInv'
  BY <1>12, <1>t, <1>w, <1>o, <1>g
     DEF Signal, mainVars, workerVars, Executes, Alive
<1>13. ASSUME NEW t \in Threads, HandlerLock(t) PROVE OrphanInv'
  BY <1>13, <1>t, <1>w, <1>o, <1>g
     DEF HandlerLock, mainVars, workerVars, Alive
<1>14. ASSUME NEW t \in Threads, HandlerWake(t) PROVE OrphanInv'
  <2>1. /\ mutex' = NoThread /\ cancelled' = cancelled
        /\ \A u \in Workers : pc'[u] = "unwinding" => pc[u] = "unwinding"
    BY <1>14 DEF HandlerWake, WakeAll
  <2> QED BY <2>1, <1>w, <1>o, <1>g
<1>15. ASSUME NoCommand PROVE OrphanInv'
  BY <1>15, <1>t, <1>w, <1>o, <1>g
     DEF NoCommand, workerVars, MainAt, Executes
<1>16. ASSUME StatusCommand PROVE OrphanInv'
  BY <1>16, <1>t, <1>w, <1>o, <1>g
     DEF StatusCommand, workerVars, MainAt, Executes
<1>17. ASSUME Quit PROVE OrphanInv'
  BY <1>17, <1>t, <1>w, <1>o, <1>g
     DEF Quit, workerVars, MainAt, Executes
<1>18. ASSUME NEW t \in Prod, AddProducer(t) PROVE OrphanInv'
  BY <1>18, <1>t, <1>w, <1>o, <1>g
     DEF AddProducer, Goto, MainAt, Executes
<1>19. ASSUME NEW t \in Cons, AddConsumer(t) PROVE OrphanInv'
  BY <1>19, <1>t, <1>w, <1>o, <1>g
     DEF AddConsumer, Goto, MainAt, Executes
<1>20. ASSUME NEW n \in {q.size - 1, q.size + 1}, ResizeCommand(n) PROVE OrphanInv'
  BY <1>20, <1>t, <1>w, <1>o, <1>g
     DEF ResizeCommand, workerVars, MainAt, Executes
<1>21. ASSUME NEW table \in {prods, cons}, KillCommand(table) PROVE OrphanInv'
  BY <1>21, <1>t, <1>w, <1>o, <1>g
     DEF KillCommand, MainAt, Executes
<1>22. ASSUME CheckRunning PROVE OrphanInv'
  BY <1>22, <1>t, <1>w, <1>o, <1>g
     DEF CheckRunning, workerVars, MainAt, Executes
<1>23. ASSUME MainLock PROVE OrphanInv'
  BY <1>23, <1>t, <1>w, <1>o, <1>g
     DEF MainLock, mainVars, workerVars, Executes
<1>24. ASSUME Resize PROVE OrphanInv'
  BY <1>24, <1>t, <1>w, <1>o, <1>g
     DEF Resize, MainAt, WakeAll, Executes
<1>25. ASSUME Status PROVE OrphanInv'
  BY <1>25, <1>t, <1>w, <1>o, <1>g
     DEF Status, workerVars, MainAt, Executes
<1>26. ASSUME JoinVictim PROVE OrphanInv'
  BY <1>26, <1>t, <1>w, <1>o, <1>g
     DEF JoinVictim, MainAt, Executes
<1>27. ASSUME Broadcast PROVE OrphanInv'
  BY <1>27, <1>t, <1>w, <1>o, <1>g
     DEF Broadcast, MainAt, WakeAll, Executes
<1>28. ASSUME CancelAll PROVE OrphanInv'
  BY <1>28, <1>t, <1>w, <1>o, <1>g
     DEF CancelAll, MainAt, Executes
<1>29. ASSUME JoinAll PROVE OrphanInv'
  BY <1>29, <1>t, <1>w, <1>o, <1>g
     DEF JoinAll, MainAt, Executes
<1>30. ASSUME Destroy PROVE OrphanInv'
  BY <1>30, <1>t, <1>w, <1>o, <1>g
     DEF Destroy, workerVars, MainAt, Executes
<1>36. ASSUME NEW t \in Threads, HandlerRefused(t) PROVE OrphanInv'
  BY <1>36, <1>t, <1>w, <1>o, <1>g
     DEF HandlerRefused, mainVars, workerVars, Alive
<1>37. ASSUME NEW t \in Workers, SignalLost(t) PROVE OrphanInv'
  BY <1>37, <1>t, <1>w, <1>o, <1>g
     DEF SignalLost, Goto, mainVars, Executes, Alive
<1>38. ASSUME Exit PROVE OrphanInv'
  BY <1>38, <1>t, <1>w, <1>o, <1>g
     DEF Exit, workerVars, MainAt, Executes
<1>31. ASSUME UNCHANGED vars PROVE OrphanInv'
  BY <1>31 DEF OrphanInv, Holding, vars
<1>32. ASSUME NEW t \in Workers, WorkerStep(t) PROVE OrphanInv'
  BY <1>32, <1>1, <1>2, <1>3, <1>4, <1>5, <1>6, <1>7, <1>8, <1>9, <1>10, <1>11
     DEF WorkerStep
<1>33. ASSUME NEW t \in Threads, Signal(t) \/ HandlerStep(t) PROVE OrphanInv'
  BY <1>33, <1>12, <1>13, <1>14, <1>36 DEF HandlerStep
<1>34. ASSUME UserStep PROVE OrphanInv'
  BY <1>34, <1>15, <1>16, <1>17, <1>18, <1>19, <1>20, <1>21 DEF UserStep
<1>35. ASSUME MainStep PROVE OrphanInv'
  BY <1>35, <1>22, <1>23, <1>24, <1>25, <1>26, <1>27, <1>28, <1>29, <1>30, <1>38
     DEF MainStep
<1> QED BY <1>32, <1>37, <1>33, <1>34, <1>35, <1>31 DEF Next, Exited

(* No ordinary way out of queue_push, queue_pop or the handler leaves      *)
(* q->mutex locked: who dies with it has been cancelled.                   *)
THEOREM OnlyCancelledOrphans == Spec => []OrphanOnlyByCancel
<1>1. Init => OrphanInv
  BY Kinds DEF Init, OrphanInv, Threads
<1>2. OrphanInv => OrphanOnlyByCancel
  BY Kinds DEF OrphanInv, OrphanOnlyByCancel, OrphanedMutex, Holding
<1> QED BY <1>1, <1>2, OrphanStep, TypeCorrect, PTL DEF Spec

-----------------------------------------------------------------------------
(* The broadcast of cleanup_all.  A thread between its test and its wait   *)
(* still holds the mutex, so the broadcast cannot pass it by; a thread     *)
(* that tests afterwards finds keep_running cleared.                       *)
BroadcastInv ==
    /\ main \in {"broadcast", "cancel", "joinall", "destroy", "exiting", "done"} => ~run
    /\ main \in {"cancel", "joinall", "destroy", "exiting", "done"} =>
         \A t \in Workers : pc[t] \notin {"block", "waiting"}

(* Every step keeps the broadcast invariant. *)
LEMMA BroadcastStep ==
  TypeOK /\ OnlyOwnerInside /\ BroadcastInv /\ [Next]_vars => BroadcastInv'
<1> SUFFICES ASSUME TypeOK, OnlyOwnerInside, BroadcastInv, [Next]_vars
             PROVE  BroadcastInv'
  OBVIOUS
<1> USE Kinds
<1>t. pc \in [Workers -> WorkerPlaces]
  BY DEF TypeOK
<1>w. Prod \subseteq Workers /\ Cons \subseteq Workers /\ Workers \subseteq Threads
      /\ Main \in Threads /\ \A u \in Workers : u # Main /\ u # NoThread
  BY DEF Workers, Threads
<1>b. /\ main \in {"broadcast", "cancel", "joinall", "destroy", "exiting", "done"} => ~run
      /\ main \in {"cancel", "joinall", "destroy", "exiting", "done"} =>
           \A u \in Workers : pc[u] # "block" /\ pc[u] # "waiting"
  BY DEF BroadcastInv
<1> DEFINE Goal == /\ main' \in {"broadcast", "cancel", "joinall", "destroy", "exiting", "done"} => ~run'
                   /\ main' \in {"cancel", "joinall", "destroy", "exiting", "done"} =>
                        \A u \in Workers : pc'[u] # "block" /\ pc'[u] # "waiting"
<1>g. Goal => BroadcastInv'
  BY DEF BroadcastInv
<1>1. ASSUME NEW t \in Workers, Loop(t) PROVE BroadcastInv'
  BY <1>1, <1>t, <1>w, <1>b, <1>g
     DEF Loop, At, Goto, UnchangedOutside, mainVars, Executes
<1>2. ASSUME NEW t \in Workers, Lock(t) PROVE BroadcastInv'
  BY <1>2, <1>t, <1>w, <1>b, <1>g
     DEF Lock, At, Goto, UnchangedOutside, mainVars, Executes
<1>3. ASSUME NEW t \in Workers, PushTest(t) PROVE BroadcastInv'
  BY <1>3, <1>t, <1>w, <1>b, <1>g
     DEF PushTest, At, Goto, UnchangedOutside, mainVars, Executes
<1>4. ASSUME NEW t \in Workers, PopTest(t) PROVE BroadcastInv'
  BY <1>4, <1>t, <1>w, <1>b, <1>g
     DEF PopTest, At, Goto, UnchangedOutside, mainVars, Executes
<1>5. ASSUME NEW t \in Workers, Block(t) PROVE BroadcastInv'
  BY <1>5, <1>t, <1>w, <1>b, <1>g
     DEF Block, At, Goto, UnchangedOutside, mainVars, Executes
<1>6. ASSUME NEW t \in Workers, Timeout(t) PROVE BroadcastInv'
  BY <1>6, <1>t, <1>w, <1>b, <1>g
     DEF Timeout, At, Goto, UnchangedOutside, mainVars, Executes
<1>7. ASSUME NEW t \in Workers, ReturnTimedOut(t) PROVE BroadcastInv'
  BY <1>7, <1>t, <1>w, <1>b, <1>g
     DEF ReturnTimedOut, At, Goto, UnchangedOutside, mainVars, Executes
<1>8. ASSUME NEW t \in Workers, Report(t) PROVE BroadcastInv'
  BY <1>8, <1>t, <1>w, <1>b, <1>g
     DEF Report, At, Goto, UnchangedOutside, mainVars, WaitingOn, Executes
<1>9. ASSUME NEW t \in Workers, Sleep(t) PROVE BroadcastInv'
  BY <1>9, <1>t, <1>w, <1>b, <1>g
     DEF Sleep, At, Goto, UnchangedOutside, mainVars, Executes
<1>10. ASSUME NEW t \in Workers, ActOnCancel(t) PROVE BroadcastInv'
  BY <1>10, <1>t, <1>w, <1>b, <1>g
     DEF ActOnCancel, At, Goto, UnchangedOutside, mainVars, Executes
<1>11. ASSUME NEW t \in Workers, Unwind(t) PROVE BroadcastInv'
  BY <1>11, <1>t, <1>w, <1>b, <1>g
     DEF Unwind, At, Goto, UnchangedOutside, mainVars, Executes
<1>12. ASSUME NEW t \in Threads, Signal(t) PROVE BroadcastInv'
  BY <1>12, <1>t, <1>w, <1>b, <1>g
     DEF Signal, mainVars, workerVars, Executes, Alive
<1>13. ASSUME NEW t \in Threads, HandlerLock(t) PROVE BroadcastInv'
  BY <1>13, <1>t, <1>w, <1>b, <1>g
     DEF HandlerLock, mainVars, workerVars, Alive
<1>14. ASSUME NEW t \in Threads, HandlerWake(t) PROVE BroadcastInv'
  BY <1>14, <1>t, <1>w, <1>b, <1>g
     DEF HandlerWake, mainVars, WakeAll, Alive
<1>15. ASSUME NoCommand PROVE BroadcastInv'
  BY <1>15, <1>t, <1>w, <1>b, <1>g
     DEF NoCommand, workerVars, MainAt, Executes
<1>16. ASSUME StatusCommand PROVE BroadcastInv'
  BY <1>16, <1>t, <1>w, <1>b, <1>g
     DEF StatusCommand, workerVars, MainAt, Executes
<1>17. ASSUME Quit PROVE BroadcastInv'
  BY <1>17, <1>t, <1>w, <1>b, <1>g
     DEF Quit, workerVars, MainAt, Executes
<1>18. ASSUME NEW t \in Prod, AddProducer(t) PROVE BroadcastInv'
  BY <1>18, <1>t, <1>w, <1>b, <1>g
     DEF AddProducer, Goto, MainAt, Executes
<1>19. ASSUME NEW t \in Cons, AddConsumer(t) PROVE BroadcastInv'
  BY <1>19, <1>t, <1>w, <1>b, <1>g
     DEF AddConsumer, Goto, MainAt, Executes
<1>20. ASSUME NEW n \in {q.size - 1, q.size + 1}, ResizeCommand(n) PROVE BroadcastInv'
  BY <1>20, <1>t, <1>w, <1>b, <1>g
     DEF ResizeCommand, workerVars, MainAt, Executes
<1>21. ASSUME NEW table \in {prods, cons}, KillCommand(table) PROVE BroadcastInv'
  BY <1>21, <1>t, <1>w, <1>b, <1>g
     DEF KillCommand, MainAt, Executes
<1>22. ASSUME CheckRunning PROVE BroadcastInv'
  BY <1>22, <1>t, <1>w, <1>b, <1>g
     DEF CheckRunning, workerVars, MainAt, Executes
<1>23. ASSUME MainLock PROVE BroadcastInv'
  BY <1>23, <1>t, <1>w, <1>b, <1>g
     DEF MainLock, mainVars, workerVars, Executes
<1>24. ASSUME Resize PROVE BroadcastInv'
  BY <1>24, <1>t, <1>w, <1>b, <1>g
     DEF Resize, MainAt, WakeAll, Executes
<1>25. ASSUME Status PROVE BroadcastInv'
  BY <1>25, <1>t, <1>w, <1>b, <1>g
     DEF Status, workerVars, MainAt, Executes
<1>26. ASSUME JoinVictim PROVE BroadcastInv'
  BY <1>26, <1>t, <1>w, <1>b, <1>g
     DEF JoinVictim, MainAt, Executes
<1>27. ASSUME Broadcast PROVE BroadcastInv'
  <2>1. mutex = Main /\ main = "broadcast"
    BY <1>27 DEF Broadcast, MainAt
  <2>2. \A u \in Workers : pc[u] # "block"
    BY <2>1, <1>w DEF OnlyOwnerInside, Holding
  <2>3. \A u \in Workers : pc'[u] = IF pc[u] = "waiting" THEN "woken" ELSE pc[u]
    BY <1>27 DEF Broadcast, WakeAll
  <2>4. run' = run
    BY <1>27 DEF Broadcast
  <2> QED BY <2>1, <2>2, <2>3, <2>4, <1>b, <1>g
<1>28. ASSUME CancelAll PROVE BroadcastInv'
  BY <1>28, <1>t, <1>w, <1>b, <1>g
     DEF CancelAll, MainAt, Executes
<1>29. ASSUME JoinAll PROVE BroadcastInv'
  BY <1>29, <1>t, <1>w, <1>b, <1>g
     DEF JoinAll, MainAt, Executes
<1>30. ASSUME Destroy PROVE BroadcastInv'
  BY <1>30, <1>t, <1>w, <1>b, <1>g
     DEF Destroy, workerVars, MainAt, Executes
<1>36. ASSUME NEW t \in Threads, HandlerRefused(t) PROVE BroadcastInv'
  BY <1>36, <1>t, <1>w, <1>b, <1>g
     DEF HandlerRefused, mainVars, workerVars, Alive
<1>37. ASSUME NEW t \in Workers, SignalLost(t) PROVE BroadcastInv'
  BY <1>37, <1>t, <1>w, <1>b, <1>g
     DEF SignalLost, Goto, mainVars, Executes, Alive
<1>38. ASSUME Exit PROVE BroadcastInv'
  BY <1>38, <1>t, <1>w, <1>b, <1>g
     DEF Exit, workerVars, MainAt, Executes
<1>31. ASSUME UNCHANGED vars PROVE BroadcastInv'
  BY <1>31 DEF BroadcastInv, vars
<1>32. ASSUME NEW t \in Workers, WorkerStep(t) PROVE BroadcastInv'
  BY <1>32, <1>1, <1>2, <1>3, <1>4, <1>5, <1>6, <1>7, <1>8, <1>9, <1>10, <1>11
     DEF WorkerStep
<1>33. ASSUME NEW t \in Threads, Signal(t) \/ HandlerStep(t) PROVE BroadcastInv'
  BY <1>33, <1>12, <1>13, <1>14, <1>36 DEF HandlerStep
<1>34. ASSUME UserStep PROVE BroadcastInv'
  BY <1>34, <1>15, <1>16, <1>17, <1>18, <1>19, <1>20, <1>21 DEF UserStep
<1>35. ASSUME MainStep PROVE BroadcastInv'
  BY <1>35, <1>22, <1>23, <1>24, <1>25, <1>26, <1>27, <1>28, <1>29, <1>30, <1>38
     DEF MainStep
<1> QED BY <1>32, <1>37, <1>33, <1>34, <1>35, <1>31 DEF Next, Exited

(* Once cleanup_all has broadcast, nobody sleeps on a condition variable. *)
THEOREM BroadcastReachesAll == Spec => []NobodyWaitsAfterBroadcast
<1>1. Init => BroadcastInv
  BY DEF Init, BroadcastInv
<1>2. BroadcastInv => NobodyWaitsAfterBroadcast
  BY DEF BroadcastInv, NobodyWaitsAfterBroadcast
<1> QED BY <1>1, <1>2, BroadcastStep, TypeCorrect, MutualExclusion, PTL DEF Spec

-----------------------------------------------------------------------------
(* The thread tables. *)
Dead(t) == pc[t] \in {"unborn", "dead"}

VictimIsLast ==
    \/ victim \in Prod /\ prods # <<>> /\ victim = prods[Len(prods)]
    \/ victim \in Cons /\ cons # <<>> /\ victim = cons[Len(cons)]

TablesInv ==
    /\ main # "aborted" => \A t \in Workers : ~Dead(t) => t \in InTables
    /\ main \in {"destroy", "exiting", "done"} => \A t \in Workers : Dead(t)
    /\ main = "join" => VictimIsLast

(* Dropping the last entry of a table leaves the others in it. *)
LEMMA DropLast ==
  ASSUME NEW S, NEW tab \in Seq(S), tab # <<>>, NEW i \in DOMAIN tab, i # Len(tab)
  PROVE  LET cut == SubSeq(tab, 1, Len(tab) - 1)
         IN  i \in DOMAIN cut /\ cut[i] = tab[i]
OBVIOUS

(* A new entry leaves the others in the table. *)
LEMMA KeepOnAppend ==
  ASSUME NEW S, NEW tab \in Seq(S), NEW t \in S
  PROVE  /\ \A i \in DOMAIN tab : i \in DOMAIN Append(tab, t) /\ Append(tab, t)[i] = tab[i]
         /\ Len(tab) + 1 \in DOMAIN Append(tab, t) /\ Append(tab, t)[Len(tab) + 1] = t
OBVIOUS

(* Every step keeps the thread tables complete. *)
LEMMA TablesStep == TypeOK /\ TablesInv /\ [Next]_vars => TablesInv'
<1> SUFFICES ASSUME TypeOK, TablesInv, [Next]_vars PROVE TablesInv'
  OBVIOUS
<1> USE Kinds
<1>t. /\ pc \in [Workers -> WorkerPlaces] /\ prods \in Seq(Prod) /\ cons \in Seq(Cons)
  BY DEF TypeOK
<1>w. Prod \subseteq Workers /\ Cons \subseteq Workers /\ Workers \subseteq Threads
      /\ Main \in Threads /\ \A u \in Workers : u # Main /\ u # NoThread
  BY DEF Workers, Threads
<1> DEFINE Goal == /\ main' # "aborted" => \A u \in Workers : pc'[u] \notin {"unborn", "dead"} => u \in InTables'
                   /\ main' \in {"destroy", "exiting", "done"} => \A u \in Workers : pc'[u] \in {"unborn", "dead"}
                   /\ main' = "join" => VictimIsLast'
<1>b. /\ main # "aborted" => \A u \in Workers : pc[u] \notin {"unborn", "dead"} => u \in InTables
      /\ main \in {"destroy", "exiting", "done"} => \A u \in Workers : pc[u] \in {"unborn", "dead"}
  BY DEF TablesInv, Dead
<1>v. main = "join" => VictimIsLast
  BY DEF TablesInv
<1>g. Goal => TablesInv'
  BY DEF TablesInv, Dead
<1>u. prods' = prods /\ cons' = cons => InTables' = InTables
  BY DEF InTables
<1>1. ASSUME NEW t \in Workers, Loop(t) PROVE TablesInv'
  BY <1>1, <1>t, <1>w, <1>b, <1>v, <1>u, <1>g
     DEF Loop, VictimIsLast, At, Goto, UnchangedOutside, mainVars, Executes
<1>2. ASSUME NEW t \in Workers, Lock(t) PROVE TablesInv'
  BY <1>2, <1>t, <1>w, <1>b, <1>v, <1>u, <1>g
     DEF Lock, VictimIsLast, At, Goto, UnchangedOutside, mainVars, Executes
<1>3. ASSUME NEW t \in Workers, PushTest(t) PROVE TablesInv'
  BY <1>3, <1>t, <1>w, <1>b, <1>v, <1>u, <1>g
     DEF PushTest, VictimIsLast, At, Goto, UnchangedOutside, mainVars, Executes
<1>4. ASSUME NEW t \in Workers, PopTest(t) PROVE TablesInv'
  BY <1>4, <1>t, <1>w, <1>b, <1>v, <1>u, <1>g
     DEF PopTest, VictimIsLast, At, Goto, UnchangedOutside, mainVars, Executes
<1>5. ASSUME NEW t \in Workers, Block(t) PROVE TablesInv'
  BY <1>5, <1>t, <1>w, <1>b, <1>v, <1>u, <1>g
     DEF Block, VictimIsLast, At, Goto, UnchangedOutside, mainVars, Executes
<1>6. ASSUME NEW t \in Workers, Timeout(t) PROVE TablesInv'
  BY <1>6, <1>t, <1>w, <1>b, <1>v, <1>u, <1>g
     DEF Timeout, VictimIsLast, At, Goto, UnchangedOutside, mainVars, Executes
<1>7. ASSUME NEW t \in Workers, ReturnTimedOut(t) PROVE TablesInv'
  BY <1>7, <1>t, <1>w, <1>b, <1>v, <1>u, <1>g
     DEF ReturnTimedOut, VictimIsLast, At, Goto, UnchangedOutside, mainVars, Executes
<1>8. ASSUME NEW t \in Workers, Report(t) PROVE TablesInv'
  BY <1>8, <1>t, <1>w, <1>b, <1>v, <1>u, <1>g
     DEF Report, VictimIsLast, At, Goto, UnchangedOutside, mainVars, WaitingOn, Executes
<1>9. ASSUME NEW t \in Workers, Sleep(t) PROVE TablesInv'
  BY <1>9, <1>t, <1>w, <1>b, <1>v, <1>u, <1>g
     DEF Sleep, VictimIsLast, At, Goto, UnchangedOutside, mainVars, Executes
<1>10. ASSUME NEW t \in Workers, ActOnCancel(t) PROVE TablesInv'
  BY <1>10, <1>t, <1>w, <1>b, <1>v, <1>u, <1>g
     DEF ActOnCancel, VictimIsLast, At, Goto, UnchangedOutside, mainVars, Executes
<1>11. ASSUME NEW t \in Workers, Unwind(t) PROVE TablesInv'
  BY <1>11, <1>t, <1>w, <1>b, <1>v, <1>u, <1>g
     DEF Unwind, VictimIsLast, At, Goto, UnchangedOutside, mainVars, Executes
<1>12. ASSUME NEW t \in Threads, Signal(t) PROVE TablesInv'
  BY <1>12, <1>t, <1>w, <1>b, <1>v, <1>u, <1>g
     DEF Signal, VictimIsLast, mainVars, workerVars, Executes, Alive
<1>13. ASSUME NEW t \in Threads, HandlerLock(t) PROVE TablesInv'
  BY <1>13, <1>t, <1>w, <1>b, <1>v, <1>u, <1>g
     DEF HandlerLock, VictimIsLast, mainVars, workerVars, Alive
<1>14. ASSUME NEW t \in Threads, HandlerWake(t) PROVE TablesInv'
  BY <1>14, <1>t, <1>w, <1>b, <1>v, <1>u, <1>g
     DEF HandlerWake, VictimIsLast, mainVars, WakeAll, Alive
<1>15. ASSUME NoCommand PROVE TablesInv'
  BY <1>15, <1>t, <1>w, <1>b, <1>v, <1>u, <1>g
     DEF NoCommand, VictimIsLast, workerVars, MainAt, Executes
<1>16. ASSUME StatusCommand PROVE TablesInv'
  BY <1>16, <1>t, <1>w, <1>b, <1>v, <1>u, <1>g
     DEF StatusCommand, VictimIsLast, workerVars, MainAt, Executes
<1>17. ASSUME Quit PROVE TablesInv'
  BY <1>17, <1>t, <1>w, <1>b, <1>v, <1>u, <1>g
     DEF Quit, VictimIsLast, workerVars, MainAt, Executes
<1>18. ASSUME NEW t \in Prod, AddProducer(t) PROVE TablesInv'
  <2>1. prods' = Append(prods, t) /\ cons' = cons /\ pc' = [pc EXCEPT ![t] = "loop"]
        /\ main = "command" /\ main' = "loop"
    BY <1>18 DEF AddProducer, MainAt, Goto
  <2>2. \A u \in InTables : u \in InTables'
    BY <2>1, <1>t, KeepOnAppend DEF InTables
  <2>3. t \in InTables'
    BY <2>1, <1>t, <1>w, KeepOnAppend DEF InTables
  <2> QED BY <2>1, <2>2, <2>3, <1>t, <1>w, <1>b, <1>g
<1>19. ASSUME NEW t \in Cons, AddConsumer(t) PROVE TablesInv'
  <2>1. cons' = Append(cons, t) /\ prods' = prods /\ pc' = [pc EXCEPT ![t] = "loop"]
        /\ main = "command" /\ main' = "loop"
    BY <1>19 DEF AddConsumer, MainAt, Goto
  <2>2. \A u \in InTables : u \in InTables'
    BY <2>1, <1>t, KeepOnAppend DEF InTables
  <2>3. t \in InTables'
    BY <2>1, <1>t, <1>w, KeepOnAppend DEF InTables
  <2> QED BY <2>1, <2>2, <2>3, <1>t, <1>w, <1>b, <1>g
<1>20. ASSUME NEW n \in {q.size - 1, q.size + 1}, ResizeCommand(n) PROVE TablesInv'
  BY <1>20, <1>t, <1>w, <1>b, <1>v, <1>u, <1>g
     DEF ResizeCommand, VictimIsLast, workerVars, MainAt, Executes
<1>21. ASSUME NEW table \in {prods, cons}, KillCommand(table) PROVE TablesInv'
  BY <1>21, <1>t, <1>w, <1>b, <1>v, <1>u, <1>g
     DEF KillCommand, VictimIsLast, MainAt, Executes
<1>22. ASSUME CheckRunning PROVE TablesInv'
  BY <1>22, <1>t, <1>w, <1>b, <1>v, <1>u, <1>g
     DEF CheckRunning, VictimIsLast, workerVars, MainAt, Executes
<1>23. ASSUME MainLock PROVE TablesInv'
  BY <1>23, <1>t, <1>w, <1>b, <1>v, <1>u, <1>g
     DEF MainLock, VictimIsLast, mainVars, workerVars, Executes
<1>24. ASSUME Resize PROVE TablesInv'
  BY <1>24, <1>t, <1>w, <1>b, <1>v, <1>u, <1>g
     DEF Resize, VictimIsLast, MainAt, WakeAll, Executes
<1>25. ASSUME Status PROVE TablesInv'
  BY <1>25, <1>t, <1>w, <1>b, <1>v, <1>u, <1>g
     DEF Status, VictimIsLast, workerVars, MainAt, Executes
<1>26. ASSUME JoinVictim PROVE TablesInv'
  <2>1. main = "join" /\ pc[victim] = "dead" /\ main' = "loop" /\ pc' = pc
    BY <1>26 DEF JoinVictim, MainAt
  <2>2. ASSUME NEW u \in InTables, u # victim PROVE u \in InTables'
    <3>1. CASE victim \in Prod
      <4>1. /\ prods # <<>> /\ victim = prods[Len(prods)]
            /\ prods' = SubSeq(prods, 1, Len(prods) - 1) /\ cons' = cons
        BY <3>1, <2>1, <1>v, <1>26 DEF JoinVictim, VictimIsLast
      <4> QED BY <4>1, <2>2, <1>t, DropLast DEF InTables
    <3>2. CASE victim \notin Prod
      <4>1. /\ cons # <<>> /\ victim = cons[Len(cons)]
            /\ cons' = SubSeq(cons, 1, Len(cons) - 1) /\ prods' = prods
        BY <3>2, <2>1, <1>v, <1>26 DEF JoinVictim, VictimIsLast
      <4> QED BY <4>1, <2>2, <1>t, DropLast DEF InTables
    <3> QED BY <3>1, <3>2
  <2> QED BY <2>1, <2>2, <1>b, <1>g
<1>27. ASSUME Broadcast PROVE TablesInv'
  BY <1>27, <1>t, <1>w, <1>b, <1>v, <1>u, <1>g
     DEF Broadcast, VictimIsLast, MainAt, WakeAll, Executes
<1>28. ASSUME CancelAll PROVE TablesInv'
  BY <1>28, <1>t, <1>w, <1>b, <1>v, <1>u, <1>g
     DEF CancelAll, VictimIsLast, MainAt, Executes
<1>29. ASSUME JoinAll PROVE TablesInv'
  <2>1. \A u \in Workers : pc[u] \in {"unborn", "dead"}
    BY <1>29, <1>b DEF JoinAll, MainAt
  <2>2. main' = "destroy" /\ pc' = pc
    BY <1>29 DEF JoinAll
  <2> QED BY <2>1, <2>2, <1>g
<1>30. ASSUME Destroy PROVE TablesInv'
  BY <1>30, <1>t, <1>w, <1>b, <1>v, <1>u, <1>g
     DEF Destroy, VictimIsLast, workerVars, MainAt, Executes
<1>36. ASSUME NEW t \in Threads, HandlerRefused(t) PROVE TablesInv'
  BY <1>36, <1>t, <1>w, <1>b, <1>v, <1>u, <1>g
     DEF HandlerRefused, VictimIsLast, mainVars, workerVars, Alive
<1>37. ASSUME NEW t \in Workers, SignalLost(t) PROVE TablesInv'
  BY <1>37, <1>t, <1>w, <1>b, <1>v, <1>u, <1>g
     DEF SignalLost, VictimIsLast, Goto, mainVars, Executes, Alive
<1>38. ASSUME Exit PROVE TablesInv'
  BY <1>38, <1>t, <1>w, <1>b, <1>v, <1>u, <1>g
     DEF Exit, VictimIsLast, workerVars, MainAt, Executes
<1>31. ASSUME UNCHANGED vars PROVE TablesInv'
  BY <1>31, <1>u DEF TablesInv, VictimIsLast, Dead, vars
<1>32. ASSUME NEW t \in Workers, WorkerStep(t) PROVE TablesInv'
  BY <1>32, <1>1, <1>2, <1>3, <1>4, <1>5, <1>6, <1>7, <1>8, <1>9, <1>10, <1>11
     DEF WorkerStep
<1>33. ASSUME NEW t \in Threads, Signal(t) \/ HandlerStep(t) PROVE TablesInv'
  BY <1>33, <1>12, <1>13, <1>14, <1>36 DEF HandlerStep
<1>34. ASSUME UserStep PROVE TablesInv'
  BY <1>34, <1>15, <1>16, <1>17, <1>18, <1>19, <1>20, <1>21 DEF UserStep
<1>35. ASSUME MainStep PROVE TablesInv'
  BY <1>35, <1>22, <1>23, <1>24, <1>25, <1>26, <1>27, <1>28, <1>29, <1>30, <1>38
     DEF MainStep
<1> QED BY <1>32, <1>37, <1>33, <1>34, <1>35, <1>31 DEF Next, Exited

(* queue_destroy runs when no worker is left: join_all_threads has found   *)
(* every thread that was ever created and not joined before.               *)
THEOREM DestroyedAlone == Spec => []NoUseAfterDestroy
<1>1. Init => TablesInv
  BY DEF Init, TablesInv, Dead
<1>2. TablesInv => NoUseAfterDestroy
  BY DEF TablesInv, NoUseAfterDestroy, Dead
<1> QED BY <1>1, <1>2, TablesStep, TypeCorrect, PTL DEF Spec

-----------------------------------------------------------------------------
(* The wakeups.  A thread that has decided to wait keeps the mutex until   *)
(* it waits, and so the queue stays as it has found it.                    *)
Coming(S) == {t \in S : pc[t] \in {"woken", "timedout", "test"}}
Reporting(S) == {t \in S : pc[t] = "report"}

Decided == \A t \in Workers : pc[t] = "block" => IF t \in Prod THEN q.load >= q.size
                                                              ELSE q.load = 0

(* Whoever waits in S, the n things he waits for are looked after by the   *)
(* threads of S on their way and by those of O about to announce theirs.   *)
Helped(S, O, n) ==
    WaitingOn(S) # {} => n <= Cardinality(Coming(S)) + Cardinality(Reporting(O))

WakeInv == run /\ signals = 0 /\ ~OrphanedMutex =>
             /\ Decided
             /\ Helped(Cons, Prod, q.load)
             /\ Helped(Prod, Cons, q.size - q.load)

(* How the size of a set of threads changes with one thread. *)
LEMMA CountThreads ==
    ASSUME NEW S \in SUBSET Workers
    PROVE  /\ Cardinality(S) \in Nat
           /\ \A T \in SUBSET S : Cardinality(T) \in Nat /\ Cardinality(T) <= Cardinality(S)
           /\ \A t \in Workers \ S : Cardinality(S \cup {t}) = Cardinality(S) + 1
           /\ \A t \in S : Cardinality(S \ {t}) = Cardinality(S) - 1
<1>1. IsFiniteSet(S)
  BY CondAssumption, FS_Subset DEF Workers
<1> QED
  BY <1>1, FS_CardinalityType, FS_Subset, FS_AddElement, FS_RemoveElement

(* The threads counted are threads. *)
LEMMA CountedThreads ==
    ASSUME NEW S \in {Prod, Cons}
    PROVE  /\ Coming(S) \in SUBSET Workers /\ Reporting(S) \in SUBSET Workers
           /\ Cardinality(Coming(S)) \in Nat /\ Cardinality(Reporting(S)) \in Nat
<1>1. Coming(S) \in SUBSET Workers /\ Reporting(S) \in SUBSET Workers
  BY DEF Coming, Reporting, Workers
<1> QED
  BY <1>1, CountThreads

(* The same after a step. *)
LEMMA CountedThreadsNext ==
    ASSUME NEW S \in {Prod, Cons}
    PROVE  /\ Coming(S)' \in SUBSET Workers /\ Reporting(S)' \in SUBSET Workers
           /\ Cardinality(Coming(S)') \in Nat /\ Cardinality(Reporting(S)') \in Nat
<1>1. Coming(S)' \in SUBSET Workers /\ Reporting(S)' \in SUBSET Workers
  BY DEF Coming, Reporting, Workers
<1> QED
  BY <1>1, CountThreads

(***************************************************************************)
(* What a step may do to the threads that wait and to those that help.     *)
(* Calm: nobody comes to wait, no helper is lost, the queue stays.         *)
(***************************************************************************)
Calm == /\ UNCHANGED q
        /\ \A u \in Workers :
             /\ pc'[u] \in {"waiting", "block"} => pc'[u] = pc[u]
             /\ pc[u] \in {"woken", "timedout", "test"} =>
                  pc'[u] \in {"woken", "timedout", "test"}
             /\ pc[u] = "report" => pc'[u] = "report"

(* Nobody waits or is going to. *)
NobodyWaits == \A u \in Workers : pc'[u] \notin {"waiting", "block"}

(* A push or a pop, to be announced. *)
Done(t) == /\ pc[t] = "test" /\ Goto(t, "report")
           /\ q'.size = q.size
           /\ q'.load = IF t \in Prod THEN q.load + 1 ELSE q.load - 1

(* The decision to wait. *)
Refused(t) == /\ pc[t] = "test" /\ Goto(t, "block") /\ UNCHANGED q
              /\ IF t \in Prod THEN q.load >= q.size ELSE q.load = 0

WakeMove == \/ Calm \/ NobodyWaits
            \/ \E t \in Workers : Done(t) \/ Refused(t) \/ Block(t) \/ Report(t)

(* While the program runs and the mutex is sound, no step does more. *)
LEMMA WorkerMoves ==
    ASSUME TypeOK, OnlyOwnerInside, NEW t \in Workers, WorkerStep(t), run, ~OrphanedMutex'
    PROVE  WakeMove
<1>0. pc \in [Workers -> WorkerPlaces] /\ pc[t] \in WorkerPlaces
  BY DEF TypeOK
<1>1. ASSUME NEW p \in WorkerPlaces, pc' = [pc EXCEPT ![t] = p], UNCHANGED q,
             p \notin {"waiting", "block"}, pc[t] # "report",
             pc[t] \in {"woken", "timedout", "test"} => p \in {"woken", "timedout", "test"}
      PROVE  WakeMove
  BY <1>0, <1>1 DEF WakeMove, Calm
<1>2. CASE Loop(t)
  BY <1>1, <1>2 DEF Loop, At, Goto, WorkerPlaces
<1>3. CASE Lock(t)
  BY <1>1, <1>3 DEF Lock, At, Goto, WorkerPlaces
<1>4. CASE PushTest(t)
  <2>1. CASE q.load >= q.size /\ Goto(t, "block") /\ UNCHANGED q
    BY <1>4, <2>1 DEF PushTest, At, Refused, WakeMove
  <2>2. CASE q' = RingPush(q, msg[t]) /\ Goto(t, "report")
    <3>1. q'.size = q.size /\ q'.load = q.load + 1
      BY <2>2 DEF RingPush, TypeOK, RingType
    <3> QED
      BY <1>4, <2>2, <3>1 DEF PushTest, At, Done, WakeMove
  <2>3. CASE pc' = [w \in Workers |-> IF pc[w] = "unborn" THEN "unborn" ELSE "dead"]
    BY <2>3 DEF WakeMove, NobodyWaits
  <2> QED
    BY <1>4, <2>1, <2>2, <2>3 DEF PushTest
<1>5. CASE PopTest(t)
  <2>0. t \notin Prod
    BY <1>5, Kinds DEF PopTest
  <2>1. CASE q.load = 0 /\ Goto(t, "block") /\ UNCHANGED q
    BY <1>5, <2>0, <2>1 DEF PopTest, At, Refused, WakeMove
  <2>2. CASE q' = RingPop(q) /\ Goto(t, "report")
    <3>1. q'.size = q.size /\ q'.load = q.load - 1
      BY <2>2 DEF RingPop, TypeOK, RingType
    <3> QED
      BY <1>5, <2>0, <2>2, <3>1 DEF PopTest, At, Done, WakeMove
  <2> QED
    BY <1>5, <2>1, <2>2 DEF PopTest
<1>6. CASE Block(t) \/ Report(t)
  BY <1>6 DEF WakeMove
<1>7. CASE Timeout(t)
  BY <1>1, <1>7 DEF Timeout, At, Goto, WorkerPlaces
<1>8. CASE ReturnTimedOut(t)
  BY <1>1, <1>8 DEF ReturnTimedOut, At, Goto, WorkerPlaces
<1>9. CASE Sleep(t)
  BY <1>1, <1>9 DEF Sleep, At, Goto, WorkerPlaces
<1>10. CASE ActOnCancel(t)
  <2>1. CASE At(t, "report") /\ Goto(t, "dead") /\ UNCHANGED mutex
    <3>1. mutex = t
      BY <2>1 DEF OnlyOwnerInside, At, Holding
    <3> QED
      BY <1>0, <2>1, <3>1 DEF Goto, OrphanedMutex
  <2> QED
    BY <1>1, <1>10, <2>1 DEF ActOnCancel, At, Goto, WorkerPlaces
<1>11. CASE Unwind(t)
  BY <1>0, <1>11 DEF Unwind, Goto, OrphanedMutex
<1> QED
  BY <1>2, <1>3, <1>4, <1>5, <1>6, <1>7, <1>8, <1>9, <1>10, <1>11 DEF WorkerStep

(* What is not a worker's step makes nobody wait, and loses nobody who     *)
(* helps.                                                                  *)
LEMMA OtherMoves ==
    ASSUME TypeOK, OnlyOwnerInside, BroadcastInv, [Next]_vars, run', signals' = 0,
           ~ \E t \in Workers : WorkerStep(t)
    PROVE  WakeMove
<1>0. pc \in [Workers -> WorkerPlaces]
  BY DEF TypeOK
<1>1. ASSUME UNCHANGED <<q, pc>> PROVE WakeMove
  BY <1>1 DEF WakeMove, Calm
<1>2. ASSUME UNCHANGED q, WakeAll PROVE WakeMove
  BY <1>0, <1>2 DEF WakeMove, Calm, WakeAll
<1>3. ASSUME NEW t \in Workers, pc[t] = "unborn", Goto(t, "loop"), UNCHANGED q PROVE WakeMove
  BY <1>0, <1>3 DEF WakeMove, Calm, Goto
<1>4. CASE MainStep
  <2>1. CASE Resize
    <3>1. \A u \in Workers : pc[u] # "block"
      BY <2>1, Kinds DEF Resize, OnlyOwnerInside, Holding
    <3>2. CASE WakeAll
      BY <1>0, <3>1, <3>2 DEF WakeAll, WakeMove, NobodyWaits
    <3> QED
      BY <1>1, <2>1, <3>2 DEF Resize
  <2>2. CASE Broadcast
    BY <1>2, <2>2 DEF Broadcast
  <2>3. CASE Destroy
    BY <2>3 DEF Destroy, MainAt, BroadcastInv
  <2> QED
    BY <1>1, <1>4, <2>1, <2>2, <2>3
       DEF MainStep, CheckRunning, MainLock, Status, JoinVictim, CancelAll, JoinAll, Exit,
           workerVars
<1>5. CASE UserStep
  BY <1>1, <1>3, <1>5 DEF UserStep, NoCommand, StatusCommand, Quit, AddProducer, AddConsumer,
                          ResizeCommand, KillCommand, workerVars, Workers
<1>6. ASSUME NEW t \in Threads, Signal(t) \/ HandlerStep(t) PROVE WakeMove
  BY <1>1, <1>2, <1>6
     DEF Signal, HandlerStep, HandlerLock, HandlerWake, HandlerRefused, workerVars
<1>7. ASSUME NEW t \in Workers, SignalLost(t) PROVE WakeMove
  BY <1>7 DEF SignalLost, TypeOK
<1> QED
  BY <1>1, <1>4, <1>5, <1>6, <1>7 DEF Next, Exited, vars

(* keep_running is never set again, and a mutex whose owner is dead stays  *)
(* so.                                                                     *)
LEMMA StaysBroken ==
    ASSUME TypeOK, OnlyOwnerInside, [Next]_vars
    PROVE  /\ run' => run
           /\ signals' = 0 => signals = 0
           /\ OrphanedMutex => OrphanedMutex'
<1>0. pc \in [Workers -> WorkerPlaces] /\ signals \in Nat
  BY DEF TypeOK
<1>1. (run' => run) /\ (signals' = 0 => signals = 0)
  BY <1>0
     DEF Next, vars, UserStep, MainStep, WorkerStep, HandlerStep, Exited, Loop, Lock, PushTest,
         PopTest, Block, Timeout, ReturnTimedOut, Report, Sleep, ActOnCancel, Unwind,
         UnchangedOutside, Signal, SignalLost, HandlerLock, HandlerWake, HandlerRefused,
         NoCommand, StatusCommand, Quit,
         AddProducer, AddConsumer, ResizeCommand, KillCommand, CheckRunning, MainLock, Resize,
         Status, JoinVictim, Broadcast, CancelAll, JoinAll, Destroy, Exit
<1>2. ASSUME OrphanedMutex PROVE OrphanedMutex'
  <2>0. mutex \in Workers /\ pc[mutex] = "dead" /\ mutex # NoThread /\ mutex # Main
    BY <1>2, Kinds DEF OrphanedMutex, Threads
  <2>1. ASSUME UNCHANGED mutex, pc'[mutex] = "dead" PROVE OrphanedMutex'
    BY <2>0, <2>1 DEF OrphanedMutex
  <2>2. ASSUME NEW t \in Workers, WorkerStep(t) PROVE OrphanedMutex'
    <3>1. pc[t] # "dead" /\ pc[t] \notin Holding \cup {"unborn"}
      BY <2>0, <2>2 DEF OnlyOwnerInside, Holding, WorkerStep, Loop, Lock, PushTest, PopTest,
                        Block, Timeout, ReturnTimedOut, Report, Sleep, ActOnCancel, Unwind, At
    <3>2. UNCHANGED mutex /\ \E p \in WorkerPlaces : pc' = [pc EXCEPT ![t] = p]
      BY <2>0, <2>2, <3>1 DEF Holding, WorkerStep, Loop, Lock, PushTest, PopTest, Block,
                  Timeout, ReturnTimedOut, Report, Sleep, ActOnCancel, Unwind, At, Goto,
                  WorkerPlaces
    <3> QED
      BY <1>0, <2>0, <2>1, <3>1, <3>2
  <2>3. ASSUME NEW t \in Threads, Signal(t) \/ HandlerStep(t) PROVE OrphanedMutex'
    <3>1. CASE Signal(t) \/ HandlerLock(t) \/ HandlerRefused(t)
      BY <2>0, <2>1, <3>1 DEF Signal, HandlerLock, HandlerRefused, workerVars
    <3>2. CASE HandlerWake(t)
      <4>1. mutex = t
        BY <3>2 DEF HandlerWake, OnlyOwnerInside
      <4> QED
        BY <2>0, <3>2, <4>1 DEF HandlerWake, Alive
    <3> QED
      BY <2>3, <3>1, <3>2 DEF HandlerStep
  <2>4. CASE UserStep
    <3>1. UNCHANGED mutex
      BY <2>4 DEF UserStep, NoCommand, StatusCommand, Quit, AddProducer, AddConsumer,
                  ResizeCommand, KillCommand
    <3>2. pc'[mutex] = "dead"
      BY <1>0, <2>0, <2>4 DEF UserStep, NoCommand, StatusCommand, Quit, AddProducer,
                  AddConsumer, ResizeCommand, KillCommand, Goto, workerVars, Workers
    <3> QED
      BY <2>1, <3>1, <3>2
  <2>5. CASE MainStep
    BY <2>0, <2>1, <2>5 DEF MainStep, CheckRunning, MainLock, Resize, Status, JoinVictim,
                  Broadcast, CancelAll, JoinAll, Destroy, Exit, workerVars
  <2>6. CASE UNCHANGED vars
    BY <2>0, <2>1, <2>6 DEF vars
  <2>7. ASSUME NEW t \in Workers, SignalLost(t) PROVE OrphanedMutex'
    BY <1>0, <2>0, <2>1, <2>7 DEF SignalLost, Goto, Alive, mainVars
  <2> QED
    BY <2>2, <2>3, <2>4, <2>5, <2>6, <2>7 DEF Next, Exited
<1> QED
  BY <1>1, <1>2

(* The waiters and their helpers after a step, for n things to wait for.   *)
HelpedNext(S, O, n) ==
    WaitingOn(S)' # {} => n <= Cardinality(Coming(S)') + Cardinality(Reporting(O)')

(* Nobody comes to wait and no helper is lost. *)
LEMMA HelpersKept ==
    ASSUME NEW S \in {Prod, Cons}, NEW O \in {Prod, Cons}, NEW n \in Int, Helped(S, O, n),
           WaitingOn(S)' \subseteq WaitingOn(S), Coming(S) \subseteq Coming(S)',
           Reporting(O) \subseteq Reporting(O)'
    PROVE  HelpedNext(S, O, n)
<1>1. /\ Cardinality(Coming(S)) <= Cardinality(Coming(S)')
      /\ Cardinality(Reporting(O)) <= Cardinality(Reporting(O)')
  BY CountedThreadsNext, CountThreads
<1> QED
  BY <1>1, CountedThreads, CountedThreadsNext DEF Helped, HelpedNext

(* Where nothing is there to be waited for, nobody needs help. *)
LEMMA NoHelpNeeded ==
    ASSUME NEW S \in {Prod, Cons}, NEW O \in {Prod, Cons}, NEW n \in Int, n <= 0
    PROVE  HelpedNext(S, O, n)
BY CountedThreadsNext DEF HelpedNext

(* A thread of O that goes to announce one more helps S. *)
LEMMA OneMoreAnnounced ==
    ASSUME TypeOK, NEW S \in {Prod, Cons}, NEW O \in {Prod, Cons}, NEW n \in Int,
           Helped(S, O, n), NEW t \in O, t \notin S, pc[t] = "test", Goto(t, "report")
    PROVE  HelpedNext(S, O, n + 1)
<1>0. t \in Workers /\ S \subseteq Workers /\ O \subseteq Workers /\ pc \in [Workers -> WorkerPlaces]
  BY DEF Workers, TypeOK
<1>1. WaitingOn(S)' = WaitingOn(S) /\ Coming(S)' = Coming(S)
  BY <1>0 DEF WaitingOn, Coming, Goto
<1>2. Reporting(O)' = Reporting(O) \cup {t} /\ t \notin Reporting(O)
  BY <1>0 DEF Reporting, Goto
<1>3. Cardinality(Reporting(O)') = Cardinality(Reporting(O)) + 1
  BY <1>0, <1>2, CountedThreads, CountThreads
<1> QED
  BY <1>1, <1>3, CountedThreads DEF Helped, HelpedNext

(* A thread of S that takes one of the n leaves the others with one less. *)
LEMMA OneTaken ==
    ASSUME TypeOK, NEW S \in {Prod, Cons}, NEW O \in {Prod, Cons}, NEW n \in Int,
           Helped(S, O, n), NEW t \in S, t \notin O, pc[t] = "test", Goto(t, "report")
    PROVE  HelpedNext(S, O, n - 1)
<1>0. t \in Workers /\ S \subseteq Workers /\ O \subseteq Workers /\ pc \in [Workers -> WorkerPlaces]
  BY DEF Workers, TypeOK
<1>1. WaitingOn(S)' = WaitingOn(S) /\ Reporting(O)' = Reporting(O)
  BY <1>0 DEF WaitingOn, Reporting, Goto
<1>2. Coming(S)' = Coming(S) \ {t} /\ t \in Coming(S)
  BY <1>0 DEF Coming, Goto
<1>3. Cardinality(Coming(S)') = Cardinality(Coming(S)) - 1
  BY <1>2, CountedThreads, CountThreads
<1> QED
  BY <1>1, <1>3, CountedThreads DEF Helped, HelpedNext

(* A thread of O that announces wakes one of S, if there is one to wake. *)
LEMMA OneWoken ==
    ASSUME TypeOK, NEW S \in {Prod, Cons}, NEW O \in {Prod, Cons}, NEW n \in Int,
           Helped(S, O, n), NEW t \in O, t \notin S, pc[t] = "report",
           \/ WaitingOn(S) = {} /\ Goto(t, "sleep")
           \/ \E w \in WaitingOn(S) : pc' = [pc EXCEPT ![t] = "sleep", ![w] = "woken"]
    PROVE  HelpedNext(S, O, n)
<1>0. t \in Workers /\ S \subseteq Workers /\ O \subseteq Workers /\ pc \in [Workers -> WorkerPlaces]
  BY DEF Workers, TypeOK
<1>1. CASE WaitingOn(S) = {} /\ Goto(t, "sleep")
  <2>1. WaitingOn(S)' = {}
    BY <1>0, <1>1 DEF WaitingOn, Goto
  <2> QED
    BY <2>1 DEF HelpedNext
<1>2. ASSUME NEW w \in WaitingOn(S), pc' = [pc EXCEPT ![t] = "sleep", ![w] = "woken"]
      PROVE  HelpedNext(S, O, n)
  <2>0. w \in S /\ w \in Workers /\ pc[w] = "waiting"
    BY <1>0 DEF WaitingOn
  <2>1. Coming(S)' = Coming(S) \cup {w} /\ w \notin Coming(S)
    BY <1>0, <1>2, <2>0 DEF Coming
  <2>2. Reporting(O) \ {t} \subseteq Reporting(O)' /\ t \in Reporting(O)
    BY <1>0, <1>2, <2>0 DEF Reporting
  <2>3. Cardinality(Coming(S)') = Cardinality(Coming(S)) + 1
    BY <2>0, <2>1, CountedThreads, CountThreads
  <2>4. Cardinality(Reporting(O) \ {t}) = Cardinality(Reporting(O)) - 1
    BY <2>2, CountedThreads, CountThreads
  <2>5. Cardinality(Reporting(O) \ {t}) <= Cardinality(Reporting(O)')
    BY <2>2, CountedThreadsNext, CountThreads
  <2>6. n <= Cardinality(Coming(S)) + Cardinality(Reporting(O))
    BY DEF Helped
  <2> QED
    BY <2>3, <2>4, <2>5, <2>6, CountedThreads, CountedThreadsNext DEF HelpedNext
<1> QED
  BY <1>1, <1>2

(* No move leaves a waiter without help. *)
LEMMA MoveHelps ==
    ASSUME TypeOK, OnlyOwnerInside, WakeMove, Decided,
           Helped(Cons, Prod, q.load), Helped(Prod, Cons, q.size - q.load)
    PROVE  /\ Decided'
           /\ HelpedNext(Cons, Prod, q'.load)
           /\ HelpedNext(Prod, Cons, q'.size - q'.load)
<1> DEFINE free == q.size - q.load
           Goal == /\ Decided'
                   /\ HelpedNext(Cons, Prod, q'.load)
                   /\ HelpedNext(Prod, Cons, q'.size - q'.load)
<1>0. /\ q.load \in Int /\ q.size \in Int /\ free \in Int
      /\ pc \in [Workers -> WorkerPlaces]
      /\ Prod \subseteq Workers /\ Cons \subseteq Workers /\ Workers = Prod \cup Cons
      /\ Prod \cap Cons = {}
  BY Kinds DEF TypeOK, RingType, Workers
<1>1. CASE Calm
  <2>1. \A S \in {Prod, Cons} : /\ WaitingOn(S)' \subseteq WaitingOn(S)
                                /\ Coming(S) \subseteq Coming(S)'
                                /\ Reporting(S) \subseteq Reporting(S)'
    BY <1>0, <1>1 DEF Calm, WaitingOn, Coming, Reporting
  <2>2. Decided'
    BY <1>1 DEF Calm, Decided
  <2>3. HelpedNext(Cons, Prod, q.load) /\ HelpedNext(Prod, Cons, free)
    BY <1>0, <2>1, HelpersKept
  <2> QED
    BY <1>1, <2>2, <2>3 DEF Calm
<1>2. CASE NobodyWaits
  <2>1. \A S \in {Prod, Cons} : WaitingOn(S)' = {}
    BY <1>0, <1>2 DEF NobodyWaits, WaitingOn
  <2>2. Decided'
    BY <1>2 DEF NobodyWaits, Decided
  <2> QED
    BY <2>1, <2>2 DEF HelpedNext
<1>3. ASSUME NEW t \in Workers, pc[t] \in Holding, NEW u \in Workers, u # t
      PROVE  pc[u] \notin Holding
  BY <1>3 DEF OnlyOwnerInside
<1>4. ASSUME NEW t \in Workers, Done(t) PROVE Goal
  <2>1. Decided'
    BY <1>0, <1>3, <1>4 DEF Done, Decided, Goto, Holding
  <2>2. CASE t \in Prod
    <3>1. t \notin Cons /\ q'.load = q.load + 1 /\ q'.size - q'.load = free - 1
      BY <1>0, <1>4, <2>2 DEF Done
    <3>2. HelpedNext(Cons, Prod, q.load + 1) /\ HelpedNext(Prod, Cons, free - 1)
      BY <1>0, <1>4, <2>2, <3>1, OneMoreAnnounced, OneTaken DEF Done
    <3> QED
      BY <2>1, <3>1, <3>2
  <2>3. CASE t \in Cons
    <3>1. t \notin Prod /\ q'.load = q.load - 1 /\ q'.size - q'.load = free + 1
      BY <1>0, <1>4, <2>3 DEF Done
    <3>2. HelpedNext(Cons, Prod, q.load - 1) /\ HelpedNext(Prod, Cons, free + 1)
      BY <1>0, <1>4, <2>3, <3>1, OneMoreAnnounced, OneTaken DEF Done
    <3> QED
      BY <2>1, <3>1, <3>2
  <2> QED
    BY <1>0, <2>2, <2>3
<1>5. ASSUME NEW t \in Workers, Refused(t) \/ Block(t) PROVE Goal
  <2>1. /\ UNCHANGED q /\ pc[t] \in {"test", "block"}
        /\ \E p \in {"block", "waiting"} : pc' = [pc EXCEPT ![t] = p]
        /\ IF t \in Prod THEN q.load >= q.size ELSE q.load = 0
    BY <1>5 DEF Refused, Block, At, Goto, Decided
  <2>2. Decided'
    BY <1>0, <2>1 DEF Decided
  <2>3. ASSUME NEW S \in {Prod, Cons}, t \notin S
        PROVE  WaitingOn(S)' = WaitingOn(S) /\ Coming(S)' = Coming(S)
    BY <1>0, <2>1, <2>3 DEF WaitingOn, Coming
  <2>4. \A S \in {Prod, Cons} : Reporting(S)' = Reporting(S)
    BY <1>0, <2>1 DEF Reporting
  <2>5. CASE t \in Prod
    <3>1. t \notin Cons /\ free <= 0
      BY <1>0, <2>1, <2>5
    <3>2. HelpedNext(Cons, Prod, q.load)
      BY <1>0, <2>3, <2>4, <3>1, HelpersKept
    <3>3. HelpedNext(Prod, Cons, free)
      BY <1>0, <3>1, NoHelpNeeded
    <3> QED
      BY <2>1, <2>2, <3>2, <3>3
  <2>6. CASE t \in Cons
    <3>1. t \notin Prod /\ q.load <= 0
      BY <1>0, <2>1, <2>6
    <3>2. HelpedNext(Prod, Cons, free)
      BY <1>0, <2>3, <2>4, <3>1, HelpersKept
    <3>3. HelpedNext(Cons, Prod, q.load)
      BY <1>0, <3>1, NoHelpNeeded
    <3> QED
      BY <2>1, <2>2, <3>2, <3>3
  <2> QED
    BY <1>0, <2>5, <2>6
<1>6. ASSUME NEW t \in Workers, Report(t) PROVE Goal
  <2>0. pc[t] = "report" /\ UNCHANGED q
    BY <1>6 DEF Report, At
  <2>1. ASSUME NEW S \in {Prod, Cons}, NEW O \in {Prod, Cons}, t \in O, t \notin S,
               S = IF t \in Prod THEN Cons ELSE Prod
        PROVE  /\ \/ WaitingOn(S) = {} /\ Goto(t, "sleep")
                  \/ \E w \in WaitingOn(S) : pc' = [pc EXCEPT ![t] = "sleep", ![w] = "woken"]
               /\ WaitingOn(O)' \subseteq WaitingOn(O) /\ Coming(O) \subseteq Coming(O)'
               /\ Reporting(S) \subseteq Reporting(S)'
    <3>1. \/ WaitingOn(S) = {} /\ Goto(t, "sleep")
          \/ \E w \in WaitingOn(S) : pc' = [pc EXCEPT ![t] = "sleep", ![w] = "woken"]
      <4> DEFINE others == WaitingOn(IF t \in Prod THEN Cons ELSE Prod)
      <4>1. \/ others = {} /\ Goto(t, "sleep")
            \/ \E w \in others : pc' = [pc EXCEPT ![t] = "sleep", ![w] = "woken"]
        BY <1>6 DEF Report
      <4>2. others = WaitingOn(S)
        BY <2>1
      <4> HIDE DEF others
      <4> QED
        BY <4>1, <4>2
    <3>2. CASE Goto(t, "sleep")
      BY <1>0, <2>0, <2>1, <3>1, <3>2 DEF Goto, WaitingOn, Coming, Reporting
    <3>3. ASSUME NEW w \in WaitingOn(S), pc' = [pc EXCEPT ![t] = "sleep", ![w] = "woken"]
          PROVE  /\ WaitingOn(O)' \subseteq WaitingOn(O) /\ Coming(O) \subseteq Coming(O)'
                 /\ Reporting(S) \subseteq Reporting(S)'
      BY <1>0, <2>0, <2>1, <3>3 DEF WaitingOn, Coming, Reporting
    <3> QED
      BY <3>1, <3>2, <3>3
  <2>2. Decided'
    <3>1. \A u \in Workers : pc'[u] = "block" => pc[u] = "block"
      BY <1>0, <1>6 DEF Report, Goto
    <3> QED
      BY <2>0, <3>1 DEF Decided
  <2>3. CASE t \in Prod
    <3>1. t \notin Cons
      BY <1>0, <2>3
    <3>2. HelpedNext(Cons, Prod, q.load)
      BY <1>0, <2>0, <2>1, <2>3, <3>1, OneWoken
    <3>3. HelpedNext(Prod, Cons, free)
      BY <1>0, <2>1, <2>3, <3>1, HelpersKept
    <3> QED
      BY <2>0, <2>2, <3>2, <3>3
  <2>4. CASE t \in Cons
    <3>1. t \notin Prod
      BY <1>0, <2>4
    <3>2. HelpedNext(Prod, Cons, free)
      BY <1>0, <2>0, <2>1, <2>4, <3>1, OneWoken
    <3>3. HelpedNext(Cons, Prod, q.load)
      BY <1>0, <2>1, <2>4, <3>1, HelpersKept
    <3> QED
      BY <2>0, <2>2, <3>2, <3>3
  <2> QED
    BY <1>0, <2>3, <2>4
<1> QED
  BY <1>1, <1>2, <1>4, <1>5, <1>6 DEF WakeMove

(* Every step keeps the waiters in sight. *)
LEMMA WakeStep ==
    TypeOK /\ OnlyOwnerInside /\ BroadcastInv /\ WakeInv /\ [Next]_vars => WakeInv'
<1> SUFFICES ASSUME TypeOK, OnlyOwnerInside, BroadcastInv, WakeInv, [Next]_vars,
                    run', signals' = 0, ~OrphanedMutex'
             PROVE  /\ Decided'
                    /\ HelpedNext(Cons, Prod, q'.load)
                    /\ HelpedNext(Prod, Cons, q'.size - q'.load)
  BY DEF WakeInv, Helped, HelpedNext
<1>1. run /\ signals = 0 /\ ~OrphanedMutex
  BY StaysBroken
<1>2. WakeMove
  BY <1>1, WorkerMoves, OtherMoves
<1> QED
  BY <1>1, <1>2, MoveHelps DEF WakeInv

(* The wakeups suffice, for any number of threads and whatever the user    *)
(* resizes and cancels: no consumer sleeps with more messages in the queue *)
(* than threads on their way to take or announce one, no producer with     *)
(* more free slots than threads on their way to fill or announce one, as   *)
(* long as no signal has come.                                             *)
THEOREM NobodyOversleeps == Spec => []NoLostWakeup
<1>1. Init => WakeInv
  BY DEF Init, WakeInv, Decided, Helped, WaitingOn, Workers
<1>2. WakeInv => NoLostWakeup
  BY DEF WakeInv, Helped, NoLostWakeup, OnTheirWay, Announcing, Coming, Reporting
<1>3. Init => BroadcastInv
  BY DEF Init, BroadcastInv
<1> QED
  BY <1>1, <1>2, <1>3, WakeStep, BroadcastStep, TypeCorrect, MutualExclusion, PTL DEF Spec

-----------------------------------------------------------------------------
(* The ring and the channel.  As long as no resize leaves the load equal   *)
(* to the size, the ring is coherent until it is freed, and what a         *)
(* producer pushes is a message it has made.                               *)
RingInv == /\ IF main \in {"exiting", "done"} THEN q.size = 0 /\ q.load = 0 ELSE RingOK(q)
           /\ \A t \in Prod :
                pc[t] \notin {"unborn", "loop", "report", "sleep", "dead"} =>
                  msg[t] \in Msg
           /\ main \in {"destroy", "exiting", "done"} => \A t \in Workers : Dead(t)

(* The program starts with a coherent, empty ring. *)
LEMMA RingInit == Init => RingInv
<1> SUFFICES ASSUME Init PROVE RingInv
  OBVIOUS
<1>1. /\ q.buffer = [i \in 0..InitSize-1 |-> Garbage] /\ q.load = 0 /\ q.head = 0
      /\ q.size = InitSize /\ q.tail = 0 /\ q.added = 0 /\ q.extracted = 0
  BY DEF Init, NewRing
<1>2. InitSize \in Nat /\ InitSize > 0 /\ 0 \in 0..InitSize-1
  BY Kinds
<1>3. Slot(q, 0) = 0
  BY <1>1, <1>2, WrapZero DEF Slot
<1>4. RingOK(q)
  BY <1>1, <1>2, <1>3 DEF RingOK
<1> QED BY <1>4, Kinds DEF RingInv, Init, Dead, Workers

(* Every step keeps the ring coherent and is a step of the bounded channel *)
(* or leaves the channel as it is.                                         *)
LEMMA RingStep ==
  ASSUME ExactShrink = FALSE, TypeOK, TypeOK', RingSafe, RingInv, NoUseAfterDestroy', [Next]_vars
  PROVE  RingInv' /\ [Fifo!FifoNext]_(Fifo!fifoVars)
<1> USE Kinds
<1>t. /\ pc \in [Workers -> WorkerPlaces] /\ q \in RingType(MaxSize)
      /\ msg \in [Workers -> Msg \cup {Garbage}]
  BY DEF TypeOK
<1>w. Prod \subseteq Workers /\ Cons \subseteq Workers /\ Workers \subseteq Threads
      /\ Main \in Threads /\ \A u \in Workers : u # Main /\ u # NoThread
      /\ Workers = Prod \cup Cons /\ Prod \cap Cons = {}
  BY DEF Workers, Threads
<1>m. \A u \in Prod : /\ pc[u] \notin {"unborn", "loop", "report", "sleep", "dead"}
                      => msg[u] \in Msg
  BY DEF RingInv
<1>r. IF main \in {"exiting", "done"} THEN q.size = 0 /\ q.load = 0 ELSE RingOK(q)
  BY DEF RingInv
<1>d. main' \in {"destroy", "exiting", "done"} => \A u \in Workers : Dead(u)'
  BY DEF NoUseAfterDestroy, Dead
<1> DEFINE MsgOK == \A u \in Prod : /\ pc'[u] \notin {"unborn", "loop", "report", "sleep", "dead"}
                                    => msg'[u] \in Msg
<1> DEFINE Kept == main' \in {"exiting", "done"} <=> main \in {"exiting", "done"}
<1>g. /\ IF main' \in {"exiting", "done"} THEN q'.size = 0 /\ q'.load = 0 ELSE RingOK(q')
      /\ MsgOK
      => RingInv'
  BY <1>d DEF RingInv
<1>s. q' = q /\ Kept /\ MsgOK => RingInv'
  BY <1>g, <1>r
<1>f. q' = q /\ msg' = msg => UNCHANGED Fifo!fifoVars
  BY DEF Fifo!fifoVars
<1>1. ASSUME NEW t \in Workers, Loop(t) PROVE RingInv' /\ [Fifo!FifoNext]_(Fifo!fifoVars)
  <2>1. CASE msg' = msg
    <3>1. MsgOK /\ q' = q /\ main' = main
      BY <1>1, <2>1, <1>t, <1>w, <1>m
         DEF Loop, At, Goto, UnchangedOutside, mainVars, Executes
    <3> QED BY <3>1, <2>1, <1>s, <1>f
  <2>2. CASE \E m \in Msg : t \in Prod /\ msg' = [msg EXCEPT ![t] = m]
    <3>1. PICK m \in Msg : t \in Prod /\ msg' = [msg EXCEPT ![t] = m]
      BY <2>2
    <3>2. q' = q /\ main' = main /\ MsgOK
      BY <1>1, <3>1, <1>t, <1>w, <1>m
         DEF Loop, At, Goto, UnchangedOutside, mainVars, Executes
    <3>3. [u \in Prod |-> msg'[u]] = [[u \in Prod |-> msg[u]] EXCEPT ![t] = m]
      BY <3>1, <1>t, <1>w
    <3>4. [u \in Cons |-> msg'[u]] = [u \in Cons |-> msg[u]]
      BY <3>1, <1>t, <1>w
    <3>5. Fifo!Offer(t, m)
      BY <3>2, <3>3, <3>4 DEF Fifo!Offer
    <3> QED BY <3>1, <3>2, <3>5, <1>s DEF Fifo!FifoNext
  <2> QED BY <2>1, <2>2, <1>1 DEF Loop
<1>2. ASSUME NEW t \in Workers, Lock(t) PROVE RingInv' /\ [Fifo!FifoNext]_(Fifo!fifoVars)
  <2>1. q' = q /\ msg' = msg
    BY <1>2 DEF Lock, At, Goto, UnchangedOutside, mainVars, Executes
  <2>2. MsgOK /\ Kept
    BY <1>2, <2>1, <1>t, <1>w, <1>m
       DEF Lock, At, Goto, UnchangedOutside, mainVars, Executes
  <2> QED BY <2>1, <2>2, <1>s, <1>f
<1>3. ASSUME NEW t \in Workers, PushTest(t) PROVE RingInv' /\ [Fifo!FifoNext]_(Fifo!fifoVars)
  <2>1. msg' = msg /\ t \in Prod /\ pc[t] = "test" /\ msg[t] \in Msg
        /\ main \notin {"exiting", "done"}
    <3>1. t \in Prod /\ pc[t] = "test" /\ msg' = msg
      BY <1>3 DEF PushTest, At
    <3> QED BY <3>1, <1>m, <1>w DEF RingInv, Dead
  <2>2. CASE q' = q
    <3>1. MsgOK /\ Kept
      BY <1>3, <2>1, <2>2, <1>t, <1>w, <1>m
         DEF PushTest, At, Goto, UnchangedOutside, mainVars, Executes
    <3> QED BY <2>1, <2>2, <3>1, <1>s, <1>f
  <2>3. CASE q.load < q.size /\ q' = RingPush(q, msg[t]) /\ Goto(t, "report") /\ main' = main
    <3>1. RingOK(q') /\ Contents(q') = Append(Contents(q), msg[t])
      BY <2>1, <2>3, <1>r, <1>t, PushKeepsRing
    <3>2. MsgOK
      BY <2>1, <2>3, <1>t, <1>w, <1>m DEF Goto
    <3>3. RingInv'
      BY <3>1, <3>2, <2>1, <2>3, <1>g
    <3>4. q'.size = q.size
      BY <2>3, <1>t DEF RingPush, RingType
    <3>5. Len(Contents(q)) < q.size
      BY <2>1, <2>3, <1>r, <1>t, ContentsIsQueue
    <3>6. Fifo!Send(t)
      BY <2>1, <3>1, <3>4, <3>5 DEF Fifo!Send
    <3> QED BY <2>1, <3>3, <3>6 DEF Fifo!FifoNext
  <2> QED BY <2>2, <2>3, <1>3 DEF PushTest, UnchangedOutside, mainVars
<1>4. ASSUME NEW t \in Workers, PopTest(t) PROVE RingInv' /\ [Fifo!FifoNext]_(Fifo!fifoVars)
  <2>1. t \in Cons /\ pc[t] = "test" /\ main' = main
    BY <1>4 DEF PopTest, At, UnchangedOutside, mainVars
  <2>2. main \notin {"exiting", "done"}
    BY <2>1, <1>w DEF RingInv, Dead
  <2>3. CASE q' = q /\ msg' = msg
    <3>1. MsgOK
      BY <1>4, <2>1, <2>3, <1>t, <1>w, <1>m
         DEF PopTest, At, Goto, UnchangedOutside, mainVars, Executes
    <3> QED BY <2>1, <2>3, <3>1, <1>s, <1>f
  <2>4. CASE /\ q.load # 0 /\ q' = RingPop(q) /\ Goto(t, "report")
             /\ msg' = [msg EXCEPT ![t] = RingFront(q)]
    <3>1. q.load > 0
      BY <2>2, <2>4, <1>r, <1>t DEF RingOK, RingType
    <3>2. /\ RingOK(q') /\ Contents(q) # <<>>
          /\ RingFront(q) = Head(Contents(q)) /\ Contents(q') = Tail(Contents(q))
      BY <2>2, <2>4, <3>1, <1>r, <1>t, PopKeepsRing
    <3>3. MsgOK
      BY <2>1, <2>4, <1>t, <1>w, <1>m DEF Goto
    <3>4. RingInv'
      BY <3>2, <3>3, <2>1, <2>2, <1>g
    <3>5. q'.size = q.size
      BY <2>4, <1>t DEF RingPop, RingType
    <3>6. [c \in Cons |-> msg'[c]] = [[c \in Cons |-> msg[c]] EXCEPT ![t] = Head(Contents(q))]
      BY <2>1, <2>4, <3>2, <1>t, <1>w
    <3>7. [p \in Prod |-> msg'[p]] = [p \in Prod |-> msg[p]]
      BY <2>1, <2>4, <1>t, <1>w
    <3>8. Fifo!Receive(t)
      BY <3>2, <3>5, <3>6, <3>7 DEF Fifo!Receive
    <3> QED BY <2>1, <3>4, <3>8 DEF Fifo!FifoNext
  <2> QED BY <2>3, <2>4, <1>4 DEF PopTest
<1>5. ASSUME NEW t \in Workers, Block(t) PROVE RingInv' /\ [Fifo!FifoNext]_(Fifo!fifoVars)
  <2>1. q' = q /\ msg' = msg
    BY <1>5 DEF Block, At, Goto, UnchangedOutside, mainVars, Executes
  <2>2. MsgOK /\ Kept
    BY <1>5, <2>1, <1>t, <1>w, <1>m
       DEF Block, At, Goto, UnchangedOutside, mainVars, Executes
  <2> QED BY <2>1, <2>2, <1>s, <1>f
<1>6. ASSUME NEW t \in Workers, Timeout(t) PROVE RingInv' /\ [Fifo!FifoNext]_(Fifo!fifoVars)
  <2>1. q' = q /\ msg' = msg
    BY <1>6 DEF Timeout, At, Goto, UnchangedOutside, mainVars, Executes
  <2>2. MsgOK /\ Kept
    BY <1>6, <2>1, <1>t, <1>w, <1>m
       DEF Timeout, At, Goto, UnchangedOutside, mainVars, Executes
  <2> QED BY <2>1, <2>2, <1>s, <1>f
<1>7. ASSUME NEW t \in Workers, ReturnTimedOut(t) PROVE RingInv' /\ [Fifo!FifoNext]_(Fifo!fifoVars)
  <2>1. q' = q /\ msg' = msg
    BY <1>7 DEF ReturnTimedOut, At, Goto, UnchangedOutside, mainVars, Executes
  <2>2. MsgOK /\ Kept
    BY <1>7, <2>1, <1>t, <1>w, <1>m
       DEF ReturnTimedOut, At, Goto, UnchangedOutside, mainVars, Executes
  <2> QED BY <2>1, <2>2, <1>s, <1>f
<1>8. ASSUME NEW t \in Workers, Report(t) PROVE RingInv' /\ [Fifo!FifoNext]_(Fifo!fifoVars)
  <2>1. q' = q /\ msg' = msg
    BY <1>8 DEF Report, At, Goto, UnchangedOutside, mainVars, WaitingOn, Executes
  <2>2. MsgOK /\ Kept
    BY <1>8, <2>1, <1>t, <1>w, <1>m
       DEF Report, At, Goto, UnchangedOutside, mainVars, WaitingOn, Executes
  <2> QED BY <2>1, <2>2, <1>s, <1>f
<1>9. ASSUME NEW t \in Workers, Sleep(t) PROVE RingInv' /\ [Fifo!FifoNext]_(Fifo!fifoVars)
  <2>1. q' = q /\ msg' = msg
    BY <1>9 DEF Sleep, At, Goto, UnchangedOutside, mainVars, Executes
  <2>2. MsgOK /\ Kept
    BY <1>9, <2>1, <1>t, <1>w, <1>m
       DEF Sleep, At, Goto, UnchangedOutside, mainVars, Executes
  <2> QED BY <2>1, <2>2, <1>s, <1>f
<1>10. ASSUME NEW t \in Workers, ActOnCancel(t) PROVE RingInv' /\ [Fifo!FifoNext]_(Fifo!fifoVars)
  <2>1. q' = q /\ msg' = msg
    BY <1>10 DEF ActOnCancel, At, Goto, UnchangedOutside, mainVars, Executes
  <2>2. MsgOK /\ Kept
    BY <1>10, <2>1, <1>t, <1>w, <1>m
       DEF ActOnCancel, At, Goto, UnchangedOutside, mainVars, Executes
  <2> QED BY <2>1, <2>2, <1>s, <1>f
<1>11. ASSUME NEW t \in Workers, Unwind(t) PROVE RingInv' /\ [Fifo!FifoNext]_(Fifo!fifoVars)
  <2>1. q' = q /\ msg' = msg
    BY <1>11 DEF Unwind, At, Goto, UnchangedOutside, mainVars, Executes
  <2>2. MsgOK /\ Kept
    BY <1>11, <2>1, <1>t, <1>w, <1>m
       DEF Unwind, At, Goto, UnchangedOutside, mainVars, Executes
  <2> QED BY <2>1, <2>2, <1>s, <1>f
<1>12. ASSUME NEW t \in Threads, Signal(t) PROVE RingInv' /\ [Fifo!FifoNext]_(Fifo!fifoVars)
  <2>1. q' = q /\ msg' = msg
    BY <1>12 DEF Signal, mainVars, workerVars, Executes, Alive
  <2>2. MsgOK /\ Kept
    BY <1>12, <2>1, <1>t, <1>w, <1>m DEF Signal, mainVars, workerVars, Executes, Alive
  <2> QED BY <2>1, <2>2, <1>s, <1>f
<1>13. ASSUME NEW t \in Threads, HandlerLock(t) PROVE RingInv' /\ [Fifo!FifoNext]_(Fifo!fifoVars)
  <2>1. q' = q /\ msg' = msg
    BY <1>13 DEF HandlerLock, mainVars, workerVars, Alive
  <2>2. MsgOK /\ Kept
    BY <1>13, <2>1, <1>t, <1>w, <1>m DEF HandlerLock, mainVars, workerVars, Alive
  <2> QED BY <2>1, <2>2, <1>s, <1>f
<1>14. ASSUME NEW t \in Threads, HandlerWake(t) PROVE RingInv' /\ [Fifo!FifoNext]_(Fifo!fifoVars)
  <2>1. q' = q /\ msg' = msg
    BY <1>14 DEF HandlerWake, mainVars, WakeAll, Alive
  <2>2. MsgOK /\ Kept
    BY <1>14, <2>1, <1>t, <1>w, <1>m DEF HandlerWake, mainVars, WakeAll, Alive
  <2> QED BY <2>1, <2>2, <1>s, <1>f
<1>15. ASSUME NoCommand PROVE RingInv' /\ [Fifo!FifoNext]_(Fifo!fifoVars)
  <2>1. q' = q /\ msg' = msg
    BY <1>15 DEF NoCommand, workerVars, MainAt, Executes
  <2>2. MsgOK /\ Kept
    BY <1>15, <2>1, <1>t, <1>w, <1>m DEF NoCommand, workerVars, MainAt, Executes
  <2> QED BY <2>1, <2>2, <1>s, <1>f
<1>16. ASSUME StatusCommand PROVE RingInv' /\ [Fifo!FifoNext]_(Fifo!fifoVars)
  <2>1. q' = q /\ msg' = msg
    BY <1>16 DEF StatusCommand, workerVars, MainAt, Executes
  <2>2. MsgOK /\ Kept
    BY <1>16, <2>1, <1>t, <1>w, <1>m DEF StatusCommand, workerVars, MainAt, Executes
  <2> QED BY <2>1, <2>2, <1>s, <1>f
<1>17. ASSUME Quit PROVE RingInv' /\ [Fifo!FifoNext]_(Fifo!fifoVars)
  <2>1. q' = q /\ msg' = msg
    BY <1>17 DEF Quit, workerVars, MainAt, Executes
  <2>2. MsgOK /\ Kept
    BY <1>17, <2>1, <1>t, <1>w, <1>m DEF Quit, workerVars, MainAt, Executes
  <2> QED BY <2>1, <2>2, <1>s, <1>f
<1>18. ASSUME NEW t \in Prod, AddProducer(t) PROVE RingInv' /\ [Fifo!FifoNext]_(Fifo!fifoVars)
  <2>1. q' = q /\ msg' = msg
    BY <1>18 DEF AddProducer, Goto, MainAt, Executes
  <2>2. MsgOK /\ Kept
    BY <1>18, <2>1, <1>t, <1>w, <1>m DEF AddProducer, Goto, MainAt, Executes
  <2> QED BY <2>1, <2>2, <1>s, <1>f
<1>19. ASSUME NEW t \in Cons, AddConsumer(t) PROVE RingInv' /\ [Fifo!FifoNext]_(Fifo!fifoVars)
  <2>1. q' = q /\ msg' = msg
    BY <1>19 DEF AddConsumer, Goto, MainAt, Executes
  <2>2. MsgOK /\ Kept
    BY <1>19, <2>1, <1>t, <1>w, <1>m DEF AddConsumer, Goto, MainAt, Executes
  <2> QED BY <2>1, <2>2, <1>s, <1>f
<1>20. ASSUME NEW n \in {q.size - 1, q.size + 1}, ResizeCommand(n) PROVE RingInv' /\ [Fifo!FifoNext]_(Fifo!fifoVars)
  <2>1. q' = q /\ msg' = msg
    BY <1>20 DEF ResizeCommand, workerVars, MainAt, Executes
  <2>2. MsgOK /\ Kept
    BY <1>20, <2>1, <1>t, <1>w, <1>m DEF ResizeCommand, workerVars, MainAt, Executes
  <2> QED BY <2>1, <2>2, <1>s, <1>f
<1>21. ASSUME NEW table \in {prods, cons}, KillCommand(table) PROVE RingInv' /\ [Fifo!FifoNext]_(Fifo!fifoVars)
  <2>1. q' = q /\ msg' = msg
    BY <1>21 DEF KillCommand, MainAt, Executes
  <2>2. MsgOK /\ Kept
    BY <1>21, <2>1, <1>t, <1>w, <1>m DEF KillCommand, MainAt, Executes
  <2> QED BY <2>1, <2>2, <1>s, <1>f
<1>22. ASSUME CheckRunning PROVE RingInv' /\ [Fifo!FifoNext]_(Fifo!fifoVars)
  <2>1. q' = q /\ msg' = msg
    BY <1>22 DEF CheckRunning, workerVars, MainAt, Executes
  <2>2. MsgOK /\ Kept
    BY <1>22, <2>1, <1>t, <1>w, <1>m DEF CheckRunning, workerVars, MainAt, Executes
  <2> QED BY <2>1, <2>2, <1>s, <1>f
<1>23. ASSUME MainLock PROVE RingInv' /\ [Fifo!FifoNext]_(Fifo!fifoVars)
  <2>1. q' = q /\ msg' = msg
    BY <1>23 DEF MainLock, mainVars, workerVars, Executes
  <2>2. MsgOK /\ Kept
    BY <1>23, <2>1, <1>t, <1>w, <1>m DEF MainLock, mainVars, workerVars, Executes
  <2> QED BY <2>1, <2>2, <1>s, <1>f
<1>24. ASSUME Resize PROVE RingInv' /\ [Fifo!FifoNext]_(Fifo!fifoVars)
  <2>1. main = "resize" /\ main' = "loop" /\ msg' = msg /\ newSize \in 1..MaxSize
    BY <1>24 DEF Resize, MainAt, RingSafe, TypeOK
  <2>2. MsgOK
    BY <1>24, <2>1, <1>t, <1>w, <1>m DEF Resize, WakeAll
  <2>3. CASE q' = q
    BY <2>1, <2>2, <2>3, <1>s, <1>f
  <2>4. CASE newSize > q.load /\ q' = RingResize(q, newSize)
    <3>1. RingOK(q') /\ Contents(q') = Contents(q)
      BY <2>1, <2>4, <1>r, <1>t, ResizeKeepsRing
    <3>2. q'.size = newSize
      BY <2>4, <1>t DEF RingResize, RingType
    <3>3. Len(Contents(q)) = q.load /\ q.size > 0 /\ q.load \in Int
      BY <2>1, <1>r, <1>t, ContentsIsQueue DEF RingOK, RingType
    <3>4. Fifo!SetCapacity(newSize)
      BY <2>1, <2>4, <3>1, <3>2, <3>3 DEF Fifo!SetCapacity
    <3> QED BY <2>1, <2>2, <3>1, <3>4, <1>g DEF Fifo!FifoNext
  <2> QED BY <2>3, <2>4, <1>24 DEF Resize
<1>25. ASSUME Status PROVE RingInv' /\ [Fifo!FifoNext]_(Fifo!fifoVars)
  <2>1. q' = q /\ msg' = msg
    BY <1>25 DEF Status, workerVars, MainAt, Executes
  <2>2. MsgOK /\ Kept
    BY <1>25, <2>1, <1>t, <1>w, <1>m DEF Status, workerVars, MainAt, Executes
  <2> QED BY <2>1, <2>2, <1>s, <1>f
<1>26. ASSUME JoinVictim PROVE RingInv' /\ [Fifo!FifoNext]_(Fifo!fifoVars)
  <2>1. q' = q /\ msg' = msg
    BY <1>26 DEF JoinVictim, MainAt, Executes
  <2>2. MsgOK /\ Kept
    BY <1>26, <2>1, <1>t, <1>w, <1>m DEF JoinVictim, MainAt, Executes
  <2> QED BY <2>1, <2>2, <1>s, <1>f
<1>27. ASSUME Broadcast PROVE RingInv' /\ [Fifo!FifoNext]_(Fifo!fifoVars)
  <2>1. q' = q /\ msg' = msg
    BY <1>27 DEF Broadcast, MainAt, WakeAll, Executes
  <2>2. MsgOK /\ Kept
    BY <1>27, <2>1, <1>t, <1>w, <1>m DEF Broadcast, MainAt, WakeAll, Executes
  <2> QED BY <2>1, <2>2, <1>s, <1>f
<1>28. ASSUME CancelAll PROVE RingInv' /\ [Fifo!FifoNext]_(Fifo!fifoVars)
  <2>1. q' = q /\ msg' = msg
    BY <1>28 DEF CancelAll, MainAt, Executes
  <2>2. MsgOK /\ Kept
    BY <1>28, <2>1, <1>t, <1>w, <1>m DEF CancelAll, MainAt, Executes
  <2> QED BY <2>1, <2>2, <1>s, <1>f
<1>29. ASSUME JoinAll PROVE RingInv' /\ [Fifo!FifoNext]_(Fifo!fifoVars)
  <2>1. q' = q /\ msg' = msg
    BY <1>29 DEF JoinAll, MainAt, Executes
  <2>2. MsgOK /\ Kept
    BY <1>29, <2>1, <1>t, <1>w, <1>m DEF JoinAll, MainAt, Executes
  <2> QED BY <2>1, <2>2, <1>s, <1>f
<1>30. ASSUME Destroy PROVE RingInv' /\ [Fifo!FifoNext]_(Fifo!fifoVars)
  <2>1. main = "destroy" /\ main' = "exiting" /\ msg' = msg /\ pc' = pc /\ q' = RingFree(q)
    BY <1>30 DEF Destroy, MainAt, workerVars
  <2>2. q'.size = 0 /\ q'.load = 0
    BY <2>1 DEF RingFree
  <2>3. Contents(q') = <<>>
    BY <2>2 DEF Contents
  <2>4. q.size > 0
    BY <2>1, <1>r DEF RingOK
  <2>5. Fifo!Close
    BY <2>1, <2>2, <2>3, <2>4 DEF Fifo!Close
  <2>6. MsgOK
    BY <2>1, <1>m
  <2> QED BY <2>1, <2>2, <2>5, <2>6, <1>g DEF Fifo!FifoNext
<1>36. ASSUME NEW t \in Threads, HandlerRefused(t) PROVE RingInv' /\ [Fifo!FifoNext]_(Fifo!fifoVars)
  <2>1. q' = q /\ msg' = msg
    BY <1>36 DEF HandlerRefused, mainVars, workerVars
  <2>2. MsgOK /\ Kept
    BY <1>36, <2>1, <1>t, <1>w, <1>m DEF HandlerRefused, mainVars, workerVars
  <2> QED BY <2>1, <2>2, <1>s, <1>f
<1>37. ASSUME NEW t \in Workers, SignalLost(t) PROVE RingInv' /\ [Fifo!FifoNext]_(Fifo!fifoVars)
  <2>1. q' = q /\ msg' = msg
    BY <1>37 DEF SignalLost, mainVars
  <2>2. MsgOK /\ Kept
    BY <1>37, <2>1, <1>t, <1>w, <1>m DEF SignalLost, Goto, mainVars, Alive
  <2> QED BY <2>1, <2>2, <1>s, <1>f
<1>38. ASSUME Exit PROVE RingInv' /\ [Fifo!FifoNext]_(Fifo!fifoVars)
  <2>1. q' = q /\ msg' = msg
    BY <1>38 DEF Exit, workerVars, MainAt
  <2>2. MsgOK /\ Kept
    BY <1>38, <2>1, <1>t, <1>w, <1>m DEF Exit, workerVars, MainAt
  <2> QED BY <2>1, <2>2, <1>s, <1>f
<1>31. ASSUME UNCHANGED vars PROVE RingInv' /\ [Fifo!FifoNext]_(Fifo!fifoVars)
  <2>1. q' = q /\ msg' = msg /\ pc' = pc /\ main' = main
    BY <1>31 DEF vars
  <2> QED BY <2>1, <1>m, <1>s, <1>f
<1>32. ASSUME NEW t \in Workers, WorkerStep(t) PROVE RingInv' /\ [Fifo!FifoNext]_(Fifo!fifoVars)
  BY <1>32, <1>1, <1>2, <1>3, <1>4, <1>5, <1>6, <1>7, <1>8, <1>9, <1>10, <1>11
     DEF WorkerStep
<1>33. ASSUME NEW t \in Threads, Signal(t) \/ HandlerStep(t) PROVE RingInv' /\ [Fifo!FifoNext]_(Fifo!fifoVars)
  BY <1>33, <1>12, <1>13, <1>14, <1>36 DEF HandlerStep
<1>34. ASSUME UserStep PROVE RingInv' /\ [Fifo!FifoNext]_(Fifo!fifoVars)
  BY <1>34, <1>15, <1>16, <1>17, <1>18, <1>19, <1>20, <1>21 DEF UserStep
<1>35. ASSUME MainStep PROVE RingInv' /\ [Fifo!FifoNext]_(Fifo!fifoVars)
  BY <1>35, <1>22, <1>23, <1>24, <1>25, <1>26, <1>27, <1>28, <1>29, <1>30, <1>38
     DEF MainStep
<1> QED BY <1>32, <1>37, <1>33, <1>34, <1>35, <1>31 DEF Next, Exited

(* The initial ring is the empty channel. *)
LEMMA FifoInitial == Init => Fifo!FifoInit
<1> SUFFICES ASSUME Init PROVE Fifo!FifoInit
  OBVIOUS
<1>1. q.load = 0 /\ q.size = InitSize /\ msg = [t \in Workers |-> Garbage]
  BY DEF Init, NewRing
<1>2. Contents(q) = <<>>
  BY <1>1 DEF Contents
<1> QED BY <1>1, <1>2 DEF Fifo!FifoInit, Workers

(* Under an environment that never resizes down to the load, the ring      *)
(* stays coherent whatever the threads, signals and cancellations do.      *)
THEOREM RingStaysCoherent == ExactShrink = FALSE => (Spec => []RingCoherent)
<1> SUFFICES ASSUME ExactShrink = FALSE PROVE Spec => []RingCoherent
  OBVIOUS
<1>1. Init => TypeInv /\ RingInv
  BY TypeInit, RingInit
<1>2. TypeInv /\ RingInv /\ NoUseAfterDestroy' /\ [Next]_vars => TypeInv' /\ RingInv'
  BY TypeStep, RingStep DEF TypeInv
<1>3. RingInv => RingCoherent
  BY DEF RingInv, RingCoherent
<1> QED BY <1>1, <1>2, <1>3, DestroyedAlone, PTL DEF Spec

(* The queue of LAB_5.2 implements the bounded first-in first-out channel  *)
(* under the same environment.                                             *)
THEOREM ImplementsFifo == ExactShrink = FALSE => (Spec => FifoRefinement)
<1> SUFFICES ASSUME ExactShrink = FALSE PROVE Spec => FifoRefinement
  OBVIOUS
<1>1. Init => TypeInv /\ RingInv /\ Fifo!FifoInit
  BY TypeInit, RingInit, FifoInitial
<1>2. TypeInv /\ RingInv /\ NoUseAfterDestroy' /\ [Next]_vars =>
        TypeInv' /\ RingInv' /\ [Fifo!FifoNext]_(Fifo!fifoVars)
  BY TypeStep, RingStep DEF TypeInv
<1> QED BY <1>1, <1>2, DestroyedAlone, PTL DEF Spec, FifoRefinement, Fifo!FifoSpec
=============================================================================
