-------------------------- MODULE SortIndexProofs --------------------------
(***************************************************************************)
(* Proofs about SortIndex, for any number of threads and blocks, any size  *)
(* of the chunks and any failure of a system call.                         *)
(*                                                                         *)
(* The two barriers cut the life of a chunk into stages, and in each of    *)
(* them all threads are in the same small part of worker_thread            *)
(* (StageInv).  What a stage may rely on, and what it leaves to the next   *)
(* one, are facts about the block map: the active blocks tile the chunk    *)
(* (Tile), and a busy block or pair has one owner (SortInv).               *)
(*                                                                         *)
(* The second half is about the contents of the file: a sorted block is a  *)
(* sorted run with the records it had before, merging two runs keeps the   *)
(* records of both and their order, and so, with SortInv, no step loses a  *)
(* record and no block is merged before all are sorted (DataInv).  Facts   *)
(* about all sequences are proved by the least counterexample (LeastNat).  *)
(***************************************************************************)
EXTENDS SortIndex, FiniteSetTheorems, FunctionTheorems, SequenceTheorems, TLAPS

Block == [offset : Nat, size : Nat, state : {"free", "busy", "done"}]

(* Type correctness of all variables but the file. *)
MapTypes == /\ args \in Args
            /\ phase \in 0..2
            /\ map \in [0..args.blocks-1 -> Block]
            /\ active \in 0..args.blocks
            /\ processed \in 0..args.records

(* Where a worker goes from a barrier. *)
Entries == {"phase", "round", "reduce", "claimPair", "loop"}

ProcTypes == /\ main \in MainPlaces /\ mainNext \in MainPlaces \cup {"none"}
             /\ pc \in [Workers -> WorkerPlaces]
             /\ next \in [Workers -> WorkerPlaces \cup {"none"}]
             /\ mine \in [Workers -> 0..args.blocks]
             /\ work \in [Workers -> 0..args.blocks-1]
             /\ \A w \in Workers \ Running : pc[w] = "unborn"
             /\ \A w \in Workers :
                  pc[w] \in {"workers", "control"} => next[w] \in Entries
             /\ main = "control" => mainNext \in {"mapped", "sorted", "join", "failed"}

Types == MapTypes /\ ProcTypes

(* The first n blocks of m cover a chunk of c records, one behind the other. *)
Tile(m, c, n) ==
    /\ n >= 1
    /\ m[0].offset = 0
    /\ \A i \in 0..n-2 : m[i+1].offset = m[i].offset + m[i].size
    /\ m[n-1].offset + m[n-1].size = c
    /\ \A i, j \in 0..n-1 : i < j => m[i].offset + m[i].size <= m[j].offset

TileInv == phase = 1 /\ main # "failed" => Tile(map, ChunkSize, active)

-----------------------------------------------------------------------------
(* The stages. *)

Waits(w, barrier, place) == pc[w] = barrier /\ next[w] = place

(* The main thread is between the two control barriers of a chunk. *)
MainAway == phase = 1 /\ (main = "mapped" \/ (main = "control" /\ mainNext = "sorted"))

Setup == main = "create" /\ phase = 0 /\ \A w \in Workers : pc[w] = "unborn"

(* A thread could not be created: the others wait for it for ever. *)
Crippled == /\ main = "control" /\ mainNext = "failed" /\ phase = 2
            /\ \E w \in Running : pc[w] = "unborn"
            /\ \A w \in Running : \/ pc[w] \in {"unborn", "loop"}
                                  \/ Waits(w, "control", "phase")

(* No chunk is under way. *)
Between == /\ \/ main \in {"chunk", "sorted", "stop"}
              \/ /\ main = "control" /\ mainNext = "mapped"
                 /\ phase = 1 /\ active = args.blocks
              \/ main = "control" /\ mainNext = "join" /\ phase = 2
           /\ main = "sorted" => phase = 1
           /\ main = "chunk" => phase = 0
           /\ \A w \in Running : pc[w] = "loop" \/ Waits(w, "control", "phase")

OneOwner(place) ==
    \A v, w \in Running : pc[v] = place /\ pc[w] = place /\ v # w => work[v] # work[w]

Sorting == /\ MainAway /\ active = args.blocks
           /\ \A w \in Running : \/ pc[w] \in {"phase", "claim"}
                                 \/ /\ pc[w] = "sorting" /\ work[w] < active
                                    /\ map[work[w]].state = "busy"
                                 \/ Waits(w, "workers", "round")
           /\ OneOwner("sorting")

Late(n) == n > 1 /\ ~Early(n)

RoundHead ==
    /\ MainAway
    /\ \A w \in Running :
         \/ pc[w] = "round"
         \/ /\ mine[w] = active
            /\ \/ active <= 1 /\ Waits(w, "control", "loop")
               \/ /\ active > 1 /\ Early(active)
                  /\ \/ Waits(w, "workers", "reduce")
                     \/ pc[w] = "merging" /\ work[w] = w /\ w < active \div 2
               \/ Late(active) /\ Waits(w, "workers", "claimPair")
    /\ Late(active) /\ pc[0] # "round" =>
         \A i \in 0..active \div 2 - 1 : map[i].state = "free"

Pairs ==
    /\ MainAway /\ Late(active)
    /\ \A w \in Running :
         /\ mine[w] = active
         /\ \/ pc[w] = "claimPair"
            \/ /\ pc[w] = "merging" /\ work[w] < active \div 2
               /\ map[work[w]].state = "busy"
            \/ Waits(w, "workers", "reduce") /\ Free(active \div 2) = {}
    /\ OneOwner("merging")
    /\ \A i \in 0..active \div 2 - 1 :
         map[i].state = "busy" => \E w \in Running : pc[w] = "merging" /\ work[w] = i

Reducing ==
    /\ MainAway
    /\ \A w \in Running : /\ mine[w] = mine[0]
                          /\ pc[w] = "reduce" \/ Waits(w, "workers", "round")
    /\ mine[0] > 1
    /\ pc[0] = "reduce" =>
         /\ active = mine[0]
         /\ Late(active) => \A i \in 0..active \div 2 - 1 : map[i].state = "done"
    /\ pc[0] # "reduce" => active = (mine[0] + 1) \div 2

Stopping == main = "join" /\ phase = 2 /\ \A w \in Running : pc[w] \in {"phase", "dead"}

Over == /\ main \in {"merge", "success", "failed"}
        /\ main # "failed" => phase = 2
        /\ \A w \in Workers : pc[w] \in {"unborn", "dead"}

StageInv == \/ Setup \/ Crippled \/ Between \/ Sorting \/ RoundHead \/ Pairs
            \/ Reducing \/ Stopping \/ Over

SortInv == Types /\ TileInv /\ StageInv

-----------------------------------------------------------------------------
(* Types. *)

(* What validate_cli has made sure of. *)
LEMMA ArgsFacts ==
    ASSUME args \in Args
    PROVE  /\ args.threads \in Nat /\ args.threads >= 1 /\ args.threads <= MaxThreads
           /\ args.blocks \in Nat /\ args.blocks >= 4 * args.threads
           /\ args.perChunk \in Nat /\ args.perChunk >= 1
           /\ args.records \in Nat /\ MaxThreads \in Nat
           /\ Running \subseteq Workers /\ 0 \in Running
<1>1. /\ args.threads \in 1..MaxThreads /\ args.blocks \in Nat
      /\ args.blocks >= 4 * args.threads
      /\ args.perChunk \in Nat /\ args.perChunk > 0
      /\ args.records \in Nat /\ MaxThreads \in Nat
  BY SortAssumption DEF Accepted
<1> QED
  BY <1>1 DEF Running, Workers

(* The chunk is not empty while there are records to process. *)
LEMMA ChunkFacts ==
    ASSUME MapTypes
    PROVE  /\ ChunkSize \in Nat /\ processed + ChunkSize \in 0..args.records
<1> DEFINE rest == args.records - processed
<1>1. args.records \in Nat /\ args.perChunk \in Nat /\ processed \in 0..args.records
  BY ArgsFacts DEF MapTypes
<1>2. rest \in Nat /\ processed + rest = args.records
  BY <1>1
<1>3. CASE rest > args.perChunk
  <2>1. ChunkSize = args.perChunk
    BY <1>3 DEF ChunkSize
  <2> QED
    BY <1>1, <1>3, <2>1
<1>4. CASE ~ (rest > args.perChunk)
  <2>1. ChunkSize = rest
    BY <1>4 DEF ChunkSize
  <2> QED
    BY <1>1, <1>2, <2>1
<1> QED
  BY <1>3, <1>4

(* The initial state is type correct. *)
LEMMA InitTypes == Init => Types
<1> SUFFICES ASSUME Init PROVE Types
  OBVIOUS
<1>1. args \in Args
  BY DEF Init
<1>2. 0 \in 0..args.blocks-1 /\ 0 \in 0..args.blocks
  BY <1>1, ArgsFacts
<1>3. NoBlock \in Block
  BY DEF NoBlock, Block
<1>4. map \in [0..args.blocks-1 -> Block]
  BY <1>3 DEF Init
<1>5. MapTypes
  BY <1>1, <1>2, <1>4, ArgsFacts DEF Init, MapTypes
<1>6. ProcTypes
  <2>1. main \in MainPlaces /\ mainNext \in MainPlaces \cup {"none"}
    BY DEF Init, MainPlaces
  <2>2. pc \in [Workers -> WorkerPlaces] /\ next \in [Workers -> WorkerPlaces \cup {"none"}]
    BY DEF Init, WorkerPlaces
  <2>3. mine \in [Workers -> 0..args.blocks] /\ work \in [Workers -> 0..args.blocks-1]
    BY <1>2 DEF Init
  <2>4. main # "control" /\ \A w \in Workers : pc[w] = "unborn"
    BY DEF Init
  <2> QED
    BY <2>1, <2>2, <2>3, <2>4 DEF ProcTypes
<1> QED
  BY <1>5, <1>6 DEF Types

(* Marking a block keeps its place and size. *)
LEMMA MarkedMap ==
    ASSUME MapTypes, NEW i \in DOMAIN map, NEW st \in {"free", "busy", "done"},
           map' = [map EXCEPT ![i].state = st]
    PROVE  /\ map' \in [0..args.blocks-1 -> Block]
           /\ \A j \in DOMAIN map : map'[j].offset = map[j].offset /\ map'[j].size = map[j].size
           /\ \A j \in DOMAIN map : map'[j].state = IF j = i THEN st ELSE map[j].state
BY DEF MapTypes, Block

(* A worker that does anything has been created. *)
LEMMA WorkersRun ==
    ASSUME Types, NEW w \in Workers, WorkerStep(w) \/ MergeFails(w) PROVE w \in Running
<1>1. pc[w] # "unborn"
  BY DEF WorkerStep, Loop, ReadPhase, ClaimBlock, SortBlock, Round, ClaimPair, MergePair,
         Reduce, MergeFails
<1> QED
  BY <1>1 DEF Types, ProcTypes

(* Moving one worker keeps the types of the workers' places. *)
LEMMA PlaceTypes ==
    ASSUME Types, NEW w \in Running, NEW p \in WorkerPlaces, UNCHANGED <<args, main, mainNext>>,
           pc' = [pc EXCEPT ![w] = p],
           \/ p \notin {"workers", "control"} /\ UNCHANGED next
           \/ \E n \in Entries : next' = [next EXCEPT ![w] = n],
           mine' \in [Workers -> 0..args.blocks],
           work' \in [Workers -> 0..args.blocks-1]
    PROVE  ProcTypes'
<1>1. pc' \in [Workers -> WorkerPlaces]
  BY DEF Types, ProcTypes
<1>2. next' \in [Workers -> WorkerPlaces \cup {"none"}]
  BY DEF Types, ProcTypes, Entries, WorkerPlaces
<1>3. Running' = Running
  BY DEF Running
<1>4. \A u \in Workers \ Running : pc'[u] = "unborn"
  BY DEF Types, ProcTypes
<1>5. \A u \in Workers : pc'[u] \in {"workers", "control"} => next'[u] \in Entries
  BY DEF Types, ProcTypes
<1> QED
  BY <1>1, <1>2, <1>3, <1>4, <1>5 DEF Types, ProcTypes

(* The new map of Reduce. *)
LEMMA ReduceMap ==
    ASSUME Types, NEW w, pc[w] = "reduce", Reduce(w), w = 0, 0 \in Workers
    PROVE  /\ map' \in [0..args.blocks-1 -> Block]
           /\ active' = (mine[0] + 1) \div 2 /\ active' \in 0..args.blocks
           /\ \A i \in 0..args.blocks-1 :
                /\ 2*i + 1 < mine[0] =>
                      /\ map'[i].offset = map[2*i].offset
                      /\ map'[i].size = map[2*i].size + map[2*i + 1].size
                /\ 2*i + 1 = mine[0] => map'[i] = map[2*i]
<1> DEFINE m == mine[0]
           f(i) == CASE 2*i + 1 < m ->
                          [offset |-> map[2*i].offset,
                           size   |-> map[2*i].size + map[2*i + 1].size,
                           state  |-> "free"]
                     [] 2*i + 1 = m -> map[2*i]
                     [] OTHER -> map[i]
<1>1. args.blocks \in Nat /\ m \in 0..args.blocks /\ map \in [0..args.blocks-1 -> Block]
  BY ArgsFacts DEF Types, MapTypes, ProcTypes
<1>2. map' = [i \in 0..args.blocks-1 |-> f(i)] /\ active' = (m + 1) \div 2
  BY <1>1 DEF Reduce
<1> HIDE DEF m
<1>3. ASSUME NEW i \in 0..args.blocks-1
      PROVE  /\ f(i) \in Block
             /\ 2*i + 1 < m => /\ f(i).offset = map[2*i].offset
                               /\ f(i).size = map[2*i].size + map[2*i + 1].size
             /\ 2*i + 1 = m => f(i) = map[2*i]
  <2>1. CASE 2*i + 1 < m
    <3>1. 2*i \in 0..args.blocks-1 /\ 2*i + 1 \in 0..args.blocks-1
      BY <1>1, <2>1
    <3>2. f(i) = [offset |-> map[2*i].offset, size |-> map[2*i].size + map[2*i + 1].size,
                  state  |-> "free"]
      BY <2>1
    <3>3. map[2*i] \in Block /\ map[2*i + 1] \in Block
      BY <1>1, <3>1
    <3>4. map[2*i].offset \in Nat /\ map[2*i].size + map[2*i + 1].size \in Nat
      BY <3>3 DEF Block
    <3>5. f(i) \in Block
      BY <3>2, <3>4 DEF Block
    <3>6. f(i).offset = map[2*i].offset /\ f(i).size = map[2*i].size + map[2*i + 1].size
      BY <3>2
    <3>7. 2*i + 1 # m
      BY <1>1, <2>1
    <3> QED
      BY <3>5, <3>6, <3>7
  <2>2. CASE 2*i + 1 = m
    <3>1. 2*i \in 0..args.blocks-1
      BY <1>1, <2>2
    <3>2. f(i) = map[2*i]
      BY <2>2
    <3> QED
      BY <1>1, <2>2, <3>1, <3>2
  <2>3. CASE ~(2*i + 1 < m) /\ 2*i + 1 # m
    <3>1. f(i) = map[i]
      BY <2>3
    <3> QED
      BY <1>1, <2>3, <3>1
  <2> QED
    BY <2>1, <2>2, <2>3
<1> HIDE DEF f
<1>4. map' \in [0..args.blocks-1 -> Block]
  BY <1>2, <1>3
<1>5. \A i \in 0..args.blocks-1 : map'[i] = f(i)
  BY <1>2
<1>6. (m + 1) \div 2 \in 0..args.blocks
  BY <1>1
<1> QED
  BY <1>2, <1>3, <1>4, <1>5, <1>6 DEF m

(* Types after a step of a worker. *)
LEMMA WorkerTypes ==
    ASSUME Types, NEW w \in Workers, WorkerStep(w) PROVE Types'
<1>0. w \in Running /\ MapTypes /\ ProcTypes /\ args \in Args
  BY WorkersRun DEF Types, MapTypes
<1>1. /\ UNCHANGED <<args, main, mainNext, processed, phase>>
      /\ mine \in [Workers -> 0..args.blocks] /\ work \in [Workers -> 0..args.blocks-1]
      /\ args.blocks \in Nat /\ active \in 0..args.blocks
  BY <1>0, ArgsFacts
     DEF WorkerStep, Loop, ReadPhase, ClaimBlock, SortBlock, Round, ClaimPair, MergePair,
         Reduce, UnchangedByWorker, mainVars, ProcTypes, MapTypes
<1>2. ASSUME UNCHANGED <<map, active>> PROVE MapTypes'
  BY <1>0, <1>1, <1>2 DEF MapTypes
<1>3. ASSUME map' \in [0..args.blocks-1 -> Block], active' \in 0..args.blocks PROVE MapTypes'
  BY <1>0, <1>1, <1>3 DEF MapTypes
<1>4. ASSUME NEW p \in WorkerPlaces, UNCHANGED <<mine, work>>,
             \/ p \notin {"workers", "control"} /\ Goto(w, p)
             \/ \E n \in Entries : Wait(w, p, n)
      PROVE  ProcTypes'
  BY <1>0, <1>1, <1>4, PlaceTypes DEF Goto, Wait
<1>5. {"control", "workers", "phase", "claim", "sorting", "round", "claimPair", "merging",
       "reduce", "dead", "loop"} \subseteq WorkerPlaces
      /\ {"phase", "round", "reduce", "claimPair", "loop"} = Entries
  BY DEF WorkerPlaces, Entries
<1>6. ASSUME NEW n \in 0..args.blocks, NEW p \in {"sorting", "merging"}, Claim(w, n, p),
             UNCHANGED <<active, mine>>
      PROVE  Types'
  <2>1. PICK i \in 0..args.blocks-1 : /\ i \in 0..n-1
                                      /\ map[i].state = "free"
                                      /\ map' = [map EXCEPT ![i].state = "busy"]
                                      /\ work' = [work EXCEPT ![w] = i]
                                      /\ pc' = [pc EXCEPT ![w] = p]
                                      /\ UNCHANGED next
    <3>1. PICK i \in Free(n) : /\ map' = [map EXCEPT ![i].state = "busy"]
                               /\ work' = [work EXCEPT ![w] = i]
                               /\ Goto(w, p)
      BY <1>6 DEF Claim
    <3>2. i \in 0..n-1 /\ map[i].state = "free" /\ i \in 0..args.blocks-1
      BY <1>1, <1>6 DEF Free
    <3> QED
      BY <3>1, <3>2 DEF Goto
  <2>2. map' \in [0..args.blocks-1 -> Block]
    BY <1>0, <2>1, MarkedMap DEF MapTypes
  <2>3. work' \in [Workers -> 0..args.blocks-1]
    BY <1>1, <2>1
  <2>4. ProcTypes'
    BY <1>0, <1>1, <1>5, <1>6, <2>1, <2>3, PlaceTypes
  <2>5. MapTypes'
    BY <1>1, <1>3, <1>6, <2>2
  <2> QED
    BY <2>4, <2>5 DEF Types
<1>7. CASE Loop(w) \/ ReadPhase(w)
  <2>1. ProcTypes'
    BY <1>4, <1>5, <1>7 DEF Loop, ReadPhase
  <2>2. MapTypes'
    BY <1>2, <1>7 DEF Loop, ReadPhase
  <2> QED
    BY <2>1, <2>2 DEF Types
<1>8. CASE ClaimBlock(w)
  <2>1. CASE Claim(w, active, "sorting")
    BY <1>1, <1>5, <1>6, <1>8, <2>1 DEF ClaimBlock
  <2>2. CASE Wait(w, "workers", "round") /\ UNCHANGED <<map, work>>
    BY <1>2, <1>4, <1>5, <1>8, <2>2 DEF ClaimBlock, Types
  <2> QED
    BY <1>8, <2>1, <2>2 DEF ClaimBlock
<1>9. CASE SortBlock(w)
  <2>1. work[w] \in DOMAIN map
    BY <1>0, <1>1 DEF MapTypes
  <2>2. map' \in [0..args.blocks-1 -> Block]
    BY <1>0, <1>9, <2>1, MarkedMap DEF SortBlock
  <2> QED
    BY <1>1, <1>3, <1>4, <1>5, <1>9, <2>2 DEF SortBlock, Types
<1>10. CASE Round(w)
  <2>1. mine' \in [Workers -> 0..args.blocks]
    BY <1>1, <1>10 DEF Round
  <2>2. map' \in [0..args.blocks-1 -> Block]
    BY <1>0, <1>10 DEF Round, MapTypes, Block
  <2>3. work' \in [Workers -> 0..args.blocks-1]
    <3>1. CASE UNCHANGED work
      BY <1>1, <3>1
    <3>2. CASE w < active \div 2 /\ work' = [work EXCEPT ![w] = w]
      <4>1. w \in 0..args.blocks-1
        BY <1>0, <1>1, <3>2, ArgsFacts DEF Running
      <4> QED
        BY <1>1, <3>2, <4>1
    <3> QED
      BY <1>10, <3>1, <3>2 DEF Round
  <2>4. \E p \in WorkerPlaces :
           /\ pc' = [pc EXCEPT ![w] = p]
           /\ \/ p \notin {"workers", "control"} /\ UNCHANGED next
              \/ \E n \in Entries : next' = [next EXCEPT ![w] = n]
    BY <1>5, <1>10 DEF Round, Goto, Wait
  <2>5. ProcTypes'
    BY <1>0, <1>1, <2>1, <2>3, <2>4, PlaceTypes
  <2>6. MapTypes'
    BY <1>1, <1>3, <1>10, <2>2 DEF Round
  <2> QED
    BY <2>5, <2>6 DEF Types
<1>11. CASE ClaimPair(w)
  <2>0. mine[w] \div 2 \in 0..args.blocks
    <3>1. mine[w] \in 0..args.blocks
      BY <1>0, <1>1
    <3> QED
      BY <1>1, <3>1
  <2>1. CASE Claim(w, mine[w] \div 2, "merging")
    BY <1>5, <1>6, <1>11, <2>0, <2>1 DEF ClaimPair
  <2>2. CASE Wait(w, "workers", "reduce") /\ UNCHANGED <<map, work>>
    BY <1>2, <1>4, <1>5, <1>11, <2>2 DEF ClaimPair, Types
  <2> QED
    BY <1>11, <2>1, <2>2 DEF ClaimPair
<1>12. CASE MergePair(w)
  <2>1. work[w] \in DOMAIN map
    BY <1>0, <1>1 DEF MapTypes
  <2>2. map' \in [0..args.blocks-1 -> Block]
    <3>1. CASE UNCHANGED map
      BY <1>0, <3>1 DEF MapTypes
    <3>2. CASE map' = [map EXCEPT ![work[w]].state = "done"]
      BY <1>0, <2>1, <3>2, MarkedMap
    <3> QED
      BY <1>12, <3>1, <3>2 DEF MergePair
  <2>3. ProcTypes'
    BY <1>4, <1>5, <1>12 DEF MergePair
  <2> QED
    BY <1>1, <1>3, <1>12, <2>2, <2>3 DEF MergePair, Types
<1>13. CASE Reduce(w)
  <2>1. ProcTypes'
    BY <1>4, <1>5, <1>13 DEF Reduce
  <2>2. CASE w = 0
    BY <1>3, <1>13, <2>1, <2>2, ReduceMap DEF Reduce, Types
  <2>3. CASE w # 0
    BY <1>2, <1>13, <2>1, <2>3 DEF Reduce, Types
  <2> QED
    BY <2>2, <2>3
<1> QED
  BY <1>7, <1>8, <1>9, <1>10, <1>11, <1>12, <1>13 DEF WorkerStep

(* Types after a failure of malloc in a worker, or at a barrier. *)
LEMMA OtherTypes ==
    ASSUME Types,
           \/ \E w \in Workers : MergeFails(w)
           \/ WorkersBarrier \/ ControlBarrier
    PROVE  Types'
<1>0. MapTypes /\ ProcTypes
  BY DEF Types
<1>1. UNCHANGED <<args, phase, map, active, processed, mine, work>>
  BY DEF MergeFails, WorkersBarrier, ControlBarrier, Released
<1>2. MapTypes'
  BY <1>0, <1>1 DEF MapTypes
<1>3. {"unborn", "dead"} \subseteq WorkerPlaces /\ "failed" \in MainPlaces
  BY DEF WorkerPlaces, MainPlaces
<1>4. CASE \E w \in Workers : MergeFails(w)
  <2>1. main' \in MainPlaces /\ mainNext' \in MainPlaces \cup {"none"}
    BY <1>3, <1>4 DEF MergeFails
  <2>2. pc' = [u \in Workers |-> IF pc[u] = "unborn" THEN "unborn" ELSE "dead"]
        /\ next' = [u \in Workers |-> "none"]
    BY <1>4 DEF MergeFails
  <2>3. Running' = Running
    BY <1>1 DEF Running
  <2>4. /\ pc' \in [Workers -> WorkerPlaces] /\ next' \in [Workers -> WorkerPlaces \cup {"none"}]
        /\ \A u \in Workers \ Running : pc'[u] = "unborn"
        /\ \A u \in Workers : pc'[u] \notin {"workers", "control"}
    BY <1>0, <1>3, <2>2 DEF ProcTypes
  <2>5. main' # "control"
    BY <1>4 DEF MergeFails
  <2> QED
    BY <1>0, <1>1, <1>2, <2>1, <2>3, <2>4, <2>5 DEF Types, ProcTypes
<1>5. ASSUME NEW b \in {"workers", "control"}, Released(Arrived(b)),
             main' \in MainPlaces, mainNext' \in MainPlaces \cup {"none"},
             main' = "control" => mainNext' \in {"mapped", "sorted", "join", "failed"}
      PROVE  Types'
  <2>1. /\ pc' = [w \in Workers |-> IF w \in Arrived(b) THEN next[w] ELSE pc[w]]
        /\ next' = [w \in Workers |-> IF w \in Arrived(b) THEN "none" ELSE next[w]]
    BY <1>5 DEF Released
  <2>2. \A u \in Workers \ Running : u \notin Arrived(b)
    BY <1>0, <1>5 DEF Arrived, ProcTypes
  <2>3. Running' = Running
    BY <1>1 DEF Running
  <2>4. pc' \in [Workers -> WorkerPlaces]
    BY <1>0, <1>5, <2>1 DEF ProcTypes, Arrived, Entries, WorkerPlaces
  <2>5. next' \in [Workers -> WorkerPlaces \cup {"none"}]
    BY <1>0, <2>1 DEF ProcTypes
  <2>6. \A u \in Workers \ Running : pc'[u] = "unborn"
    BY <1>0, <2>1, <2>2 DEF ProcTypes
  <2>7. \A u \in Workers : pc'[u] \in {"workers", "control"} => next'[u] \in Entries
    BY <1>0, <1>5, <2>1 DEF ProcTypes, Arrived, Entries
  <2> QED
    BY <1>0, <1>1, <1>2, <1>5, <2>3, <2>4, <2>5, <2>6, <2>7 DEF Types, ProcTypes
<1>6. CASE WorkersBarrier
  BY <1>0, <1>5, <1>6 DEF WorkersBarrier, ProcTypes
<1>7. CASE ControlBarrier
  <2>1. /\ Released(Arrived("control")) /\ main = "control"
        /\ main' = mainNext /\ mainNext' = "none"
    BY <1>7 DEF ControlBarrier
  <2>2. mainNext \in {"mapped", "sorted", "join", "failed"}
    BY <1>0, <2>1 DEF ProcTypes
  <2>3. main' \in MainPlaces /\ main' # "control"
    BY <2>1, <2>2 DEF MainPlaces
  <2> QED
    BY <1>5, <2>1, <2>3
<1> QED
  BY <1>4, <1>6, <1>7

(* The sizes init_block_map gives to the blocks, with base the quotient    *)
(* and rem the remainder: i blocks of them end where block i begins.       *)
LEMMA Division ==
    ASSUME NEW n \in Nat, NEW b \in Nat, b >= 1
    PROVE  /\ n \div b \in Nat /\ n % b \in 0..b-1
           /\ n = b * (n \div b) + (n % b)
OBVIOUS

LEMMA DivisionFacts ==
    ASSUME MapTypes
    PROVE  ChunkSize \in Nat /\ args.blocks \in Nat /\ args.blocks >= 1
<1>1. ChunkSize \in Nat
  BY ChunkFacts
<1>2. args \in Args
  BY DEF MapTypes
<1>3. /\ args.threads \in Nat /\ args.threads >= 1
      /\ args.blocks \in Nat /\ args.blocks >= 4 * args.threads
  BY <1>2, ArgsFacts
<1> QED
  BY <1>1, <1>3

(* The new map of StartChunk. *)
LEMMA StartMap ==
    ASSUME MapTypes, NEW i \in 0..args.blocks-1
    PROVE  BlockOffset(i) \in Nat /\ BlockSize(i) \in Nat
<1>1. /\ ChunkSize \in Nat /\ args.blocks \in Nat /\ args.blocks >= 1 /\ i \in Nat
  BY DivisionFacts
<1>2. ChunkSize \div args.blocks \in Nat /\ ChunkSize % args.blocks \in Nat
  <2>1. PICK n \in Nat, b \in Nat : n = ChunkSize /\ b = args.blocks /\ b >= 1
    BY <1>1
  <2>2. n \div b \in Nat /\ n % b \in Nat
    BY <2>1
  <2> QED
    BY <2>1, <2>2
<1>3. i * (ChunkSize \div args.blocks) \in Nat
  BY <1>1, <1>2
<1> QED
  BY <1>1, <1>2, <1>3 DEF BlockOffset, BlockSize

(* Types after a step of main. *)
LEMMA MainTypes == ASSUME Types, MainStep PROVE Types'
<1>0. MapTypes /\ ProcTypes /\ args \in Args
  BY DEF Types, MapTypes
<1>1. ASSUME UNCHANGED <<args, map, active, workerVars>>,
             phase' \in 0..2, processed' \in 0..args.records,
             main' \in MainPlaces, mainNext' \in MainPlaces \cup {"none"},
             main' = "control" => mainNext' \in {"mapped", "sorted", "join", "failed"}
      PROVE  Types'
  <2>1. Running' = Running
    BY <1>1 DEF Running
  <2>2. MapTypes'
    BY <1>0, <1>1 DEF MapTypes
  <2>3. ProcTypes'
    BY <1>0, <1>1, <2>1 DEF ProcTypes, workerVars
  <2> QED
    BY <2>2, <2>3 DEF Types
<1>2. /\ phase \in 0..2 /\ processed \in 0..args.records
      /\ main \in MainPlaces /\ mainNext \in MainPlaces \cup {"none"}
      /\ 0 \in 0..2 /\ 2 \in 0..2
  BY <1>0 DEF MapTypes, ProcTypes
<1>3. /\ {"control", "chunk", "stop", "merge", "success", "failed", "mapped", "sorted",
          "join"} \subseteq MainPlaces
      /\ {"loop", "dead", "unborn"} \subseteq WorkerPlaces
  BY DEF MainPlaces, WorkerPlaces
<1>4. CASE AwaitChunk \/ LeaveLoop \/ Stop \/ Join
  <2>1. UNCHANGED <<args, map, active, workerVars, processed>> /\ phase' \in 0..2
    BY <1>2, <1>4 DEF AwaitChunk, LeaveLoop, Stop, Join, UnchangedByMain
  <2>2. /\ main' \in MainPlaces /\ mainNext' \in MainPlaces \cup {"none"}
        /\ main' = "control" => mainNext' \in {"mapped", "sorted", "join", "failed"}
    BY <1>2, <1>3, <1>4 DEF AwaitChunk, LeaveLoop, Stop, Join, UnchangedByMain
  <2> QED
    BY <1>1, <1>2, <2>1, <2>2
<1>5. CASE EndChunk
  <2>1. UNCHANGED <<args, map, active, workerVars, mainNext>> /\ phase' \in 0..2
    BY <1>2, <1>5 DEF EndChunk, UnchangedByMain
  <2>2. main' \in MainPlaces /\ main' # "control"
    BY <1>3, <1>5 DEF EndChunk
  <2>3. processed' \in 0..args.records
    BY <1>0, <1>2, <1>5, ChunkFacts DEF EndChunk
  <2> QED
    BY <1>1, <1>2, <2>1, <2>2, <2>3
<1>6. CASE MergeChunks \/ EndMergeRound \/ MergeChunksFails
  <2>1. UNCHANGED <<args, map, active, workerVars, mainNext, phase, processed>>
    BY <1>6 DEF MergeChunks, EndMergeRound, MergeChunksFails, UnchangedByMain
  <2>2. main' \in MainPlaces /\ main' # "control"
    BY <1>3, <1>6 DEF MergeChunks, EndMergeRound, MergeChunksFails
  <2> QED
    BY <1>1, <1>2, <2>1, <2>2
<1>7. CASE Create
  <2>1. UNCHANGED <<args, map, active, processed, next, mine, work>> /\ phase' \in 0..2
    BY <1>2, <1>7 DEF Create
  <2>2. Running' = Running
    BY <2>1 DEF Running
  <2>3. /\ pc' \in [Workers -> {"loop", "unborn"}]
        /\ \A w \in Workers \ Running : pc'[w] = "unborn"
    <3>1. CASE pc' = [w \in Workers |-> IF w \in Running THEN "loop" ELSE "unborn"]
      BY <3>1
    <3>2. ASSUME NEW i \in Running, pc' = [w \in Workers |-> IF w < i THEN "loop" ELSE "unborn"]
          PROVE  /\ pc' \in [Workers -> {"loop", "unborn"}]
                 /\ \A w \in Workers \ Running : pc'[w] = "unborn"
      <4>1. \A w \in Workers \ Running : ~(w < i)
        BY <1>0, <3>2, ArgsFacts DEF Running, Workers
      <4> QED
        BY <3>2, <4>1
    <3> QED
      BY <1>7, <3>1, <3>2 DEF Create
  <2>4. /\ main' \in MainPlaces /\ mainNext' \in MainPlaces \cup {"none"}
        /\ main' = "control" => mainNext' = "failed"
    BY <1>2, <1>3, <1>7 DEF Create
  <2>5. MapTypes'
    BY <1>0, <2>1 DEF MapTypes
  <2>6. ProcTypes'
    BY <1>0, <1>3, <2>1, <2>2, <2>3, <2>4 DEF ProcTypes
  <2> QED
    BY <2>5, <2>6 DEF Types
<1>8. CASE StartChunk
  <2>1. UNCHANGED <<args, processed, next, mine, work>>
    BY <1>8 DEF StartChunk
  <2>2. Running' = Running /\ args.blocks \in Nat
    BY <1>0, <2>1, ArgsFacts DEF Running
  <2>3. map' \in [0..args.blocks-1 -> Block]
    <3>1. CASE UNCHANGED map
      BY <1>0, <3>1 DEF MapTypes
    <3>2. CASE map' = [i \in DOMAIN map |-> [offset |-> BlockOffset(i), size |-> BlockSize(i),
                                             state |-> "free"]]
      <4>1. DOMAIN map = 0..args.blocks-1
        BY <1>0 DEF MapTypes
      <4> QED
        BY <1>0, <3>2, <4>1, StartMap DEF Block
    <3> QED
      BY <1>8, <3>1, <3>2 DEF StartChunk
  <2>4. active' \in 0..args.blocks /\ phase' \in 0..2
    BY <1>0, <1>8, <2>2 DEF StartChunk, MapTypes
  <2>5. MapTypes'
    BY <1>0, <2>1, <2>3, <2>4 DEF MapTypes
  <2>6. /\ main' \in MainPlaces /\ mainNext' \in MainPlaces \cup {"none"}
        /\ main' = "control" => mainNext' = "mapped"
    BY <1>2, <1>3, <1>8 DEF StartChunk
  <2>7. /\ pc' \in [Workers -> WorkerPlaces]
        /\ \A w \in Workers \ Running : pc'[w] = "unborn"
        /\ \A w \in Workers : pc'[w] = pc[w] \/ pc'[w] \in {"dead", "unborn"}
    BY <1>0, <1>3, <1>8 DEF StartChunk, ProcTypes
  <2>8. ProcTypes'
    BY <1>0, <2>1, <2>2, <2>6, <2>7 DEF ProcTypes
  <2> QED
    BY <2>5, <2>8 DEF Types
<1> QED
  BY <1>4, <1>5, <1>6, <1>7, <1>8 DEF MainStep

(* One step keeps all types. *)
LEMMA StepTypes == ASSUME Types, [Next]_vars PROVE Types'
<1>1. CASE UNCHANGED vars
  BY <1>1 DEF vars, mainVars, workerVars, Types, MapTypes, ProcTypes, Running
<1>2. CASE Exited
  BY <1>1, <1>2 DEF Exited
<1> QED
  BY <1>1, <1>2, WorkerTypes, OtherTypes, MainTypes DEF Next

-----------------------------------------------------------------------------
(* The blocks tile the chunk. *)

(* Only places and sizes matter. *)
LEMMA SamePlaces ==
    ASSUME NEW m, NEW m1, NEW c, NEW n \in Nat, Tile(m, c, n),
           \A j \in 0..n-1 : m1[j].offset = m[j].offset /\ m1[j].size = m[j].size
    PROVE  Tile(m1, c, n)
<1>1. n >= 1 /\ 0 \in 0..n-1 /\ n-1 \in 0..n-1
  BY DEF Tile
<1>2. \A i \in 0..n-2 : i \in 0..n-1 /\ i+1 \in 0..n-1
  OBVIOUS
<1> QED
  BY <1>1, <1>2 DEF Tile

(* Of two blocks of the same division the earlier one ends before the later *)
(* one begins.                                                              *)
LEMMA Apart ==
    ASSUME NEW q \in Nat, NEW i \in Nat, NEW j \in Nat, i < j
    PROVE  i * q + q <= j * q
<1>1. PICK d \in Nat : j = i + 1 + d
  <2>1. j - i - 1 \in Nat /\ j = i + 1 + (j - i - 1)
    OBVIOUS
  <2> QED
    BY <2>1
<1>2. (i + 1 + d) * q = i * q + q + d * q
  OBVIOUS
<1>3. d * q \in Nat /\ i * q \in Nat
  OBVIOUS
<1> QED
  BY <1>1, <1>2, <1>3

(* The division init_block_map makes, with q the quotient and r the        *)
(* remainder, tiles the chunk.                                             *)
LEMMA EvenBlocks ==
    ASSUME NEW m, NEW b \in Nat, b >= 1, NEW q \in Nat, NEW r \in 0..b-1,
           \A i \in 0..b-1 : /\ m[i].offset = i * q + (IF i < r THEN i ELSE r)
                             /\ m[i].size = q + (IF i < r THEN 1 ELSE 0)
    PROVE  Tile(m, b * q + r, b)
<1>1. m[0].offset = 0
  <2>1. 0 \in 0..b-1 /\ 0 * q = 0
    OBVIOUS
  <2>2. m[0].offset = 0 * q + (IF 0 < r THEN 0 ELSE r)
    BY <2>1
  <2> QED
    BY <2>1, <2>2
<1>2. ASSUME NEW i \in 0..b-2 PROVE m[i+1].offset = m[i].offset + m[i].size
  <2>1. i \in 0..b-1 /\ i+1 \in 0..b-1
    OBVIOUS
  <2>2. (i+1) * q = i * q + q /\ i * q \in Nat
    OBVIOUS
  <2>3. m[i+1].offset = (i+1) * q + (IF i+1 < r THEN i+1 ELSE r)
    BY <2>1
  <2>4. m[i].offset = i * q + (IF i < r THEN i ELSE r) /\ m[i].size = q + (IF i < r THEN 1 ELSE 0)
    BY <2>1
  <2> DEFINE k == i * q
  <2> HIDE DEF k
  <2>5. m[i+1].offset = k + q + (IF i+1 < r THEN i+1 ELSE r)
    BY <2>2, <2>3 DEF k
  <2>6. m[i].offset = k + (IF i < r THEN i ELSE r)
    BY <2>4 DEF k
  <2>7. k \in Nat
    BY <2>2 DEF k
  <2> QED
    BY <2>4, <2>5, <2>6, <2>7
<1>3. m[b-1].offset + m[b-1].size = b * q + r
  <2>1. b-1 \in 0..b-1 /\ ~(b-1 < r)
    OBVIOUS
  <2>2. m[b-1].offset = (b-1) * q + r /\ m[b-1].size = q
    BY <2>1
  <2>3. b * q = (b-1) * q + q /\ (b-1) * q \in Nat
    OBVIOUS
  <2> QED
    BY <2>2, <2>3
<1>4. ASSUME NEW i \in 0..b-1, NEW j \in 0..b-1, i < j
      PROVE  m[i].offset + m[i].size <= m[j].offset
  <2> DEFINE k == i * q
             l == j * q
  <2>1. k + q <= l /\ k \in Nat /\ l \in Nat
    BY <1>4, Apart
  <2>2. /\ m[i].offset = k + (IF i < r THEN i ELSE r) /\ m[i].size = q + (IF i < r THEN 1 ELSE 0)
        /\ m[j].offset = l + (IF j < r THEN j ELSE r)
    OBVIOUS
  <2> HIDE DEF k, l
  <2> QED
    BY <1>4, <2>1, <2>2
<1> QED
  BY <1>1, <1>2, <1>3, <1>4 DEF Tile

(* What Reduce makes of n blocks that tile the chunk tiles it as well. *)
LEMMA HalvedBlocks ==
    ASSUME NEW m, NEW m1, NEW c, NEW n \in Nat, n > 1, Tile(m, c, n),
           \A i \in 0..n-1 : m[i].offset \in Nat /\ m[i].size \in Nat,
           \A i \in 0..n-1 :
             /\ 2*i + 1 < n => /\ m1[i].offset = m[2*i].offset
                               /\ m1[i].size = m[2*i].size + m[2*i + 1].size
             /\ 2*i + 1 = n => m1[i] = m[2*i]
    PROVE  Tile(m1, c, (n + 1) \div 2)
<1> DEFINE h == (n + 1) \div 2
<1>1. h \in Nat /\ h >= 1 /\ h <= n /\ (n = 2*h \/ n = 2*h - 1)
  OBVIOUS
<1> HIDE DEF h
<1>2. \A i \in 0..n-2 : m[i+1].offset = m[i].offset + m[i].size
  BY DEF Tile
<1>3. \A i, j \in 0..n-1 : i < j => m[i].offset + m[i].size <= m[j].offset
  BY DEF Tile
<1>4. m[0].offset = 0 /\ m[n-1].offset + m[n-1].size = c
  BY DEF Tile
<1>5. ASSUME NEW i \in 0..h-1
      PROVE  /\ i \in 0..n-1 /\ 2*i \in 0..n-1
             /\ m1[i].offset = m[2*i].offset
             /\ m1[i].offset + m1[i].size =
                  IF 2*i + 1 < n THEN m[2*i + 1].offset + m[2*i + 1].size
                                 ELSE m[n-1].offset + m[n-1].size
  <2>1. i \in 0..n-1 /\ 2*i \in 0..n-1
    BY <1>1
  <2>2. CASE 2*i + 1 < n
    <3>1. 2*i \in 0..n-2 /\ 2*i + 1 \in 0..n-1
      BY <1>1, <2>2
    <3>2. m[2*i + 1].offset = m[2*i].offset + m[2*i].size
      BY <1>2, <3>1
    <3>3. m1[i].offset = m[2*i].offset /\ m1[i].size = m[2*i].size + m[2*i + 1].size
      BY <2>1, <2>2
    <3>4. {m[2*i].offset, m[2*i].size, m[2*i + 1].size} \subseteq Nat
      BY <2>1, <3>1
    <3> QED
      BY <2>1, <2>2, <3>2, <3>3, <3>4
  <2>3. CASE ~(2*i + 1 < n)
    <3>1. 2*i + 1 = n /\ 2*i = n-1
      BY <1>1, <2>3
    <3>2. m1[i] = m[2*i]
      BY <2>1, <3>1
    <3> QED
      BY <2>1, <2>3, <3>1, <3>2
  <2> QED
    BY <2>2, <2>3
<1>6. m1[0].offset = 0
  <2>1. 0 \in 0..h-1 /\ 2*0 = 0
    BY <1>1
  <2>2. m1[0].offset = m[2*0].offset
    BY <1>5, <2>1
  <2> QED
    BY <1>4, <2>1, <2>2
<1>7. ASSUME NEW i \in 0..h-2 PROVE m1[i+1].offset = m1[i].offset + m1[i].size
  <2>1. i \in 0..h-1 /\ i+1 \in 0..h-1 /\ 2*i + 1 < n /\ 2*i + 1 \in 0..n-2
    BY <1>1
  <2>2. m1[i+1].offset = m[2*(i+1)].offset
    BY <1>5, <2>1
  <2>3. m1[i].offset + m1[i].size = m[2*i + 1].offset + m[2*i + 1].size
    BY <1>5, <2>1
  <2>4. m[(2*i + 1) + 1].offset = m[2*i + 1].offset + m[2*i + 1].size
    BY <1>2, <2>1
  <2>5. (2*i + 1) + 1 = 2*(i+1)
    OBVIOUS
  <2> QED
    BY <2>2, <2>3, <2>4, <2>5
<1>8. m1[h-1].offset + m1[h-1].size = c
  <2>1. h-1 \in 0..h-1
    BY <1>1
  <2>2. m1[h-1].offset + m1[h-1].size =
          IF 2*(h-1) + 1 < n THEN m[2*(h-1) + 1].offset + m[2*(h-1) + 1].size
                             ELSE m[n-1].offset + m[n-1].size
    BY <1>5, <2>1
  <2>3. 2*(h-1) + 1 < n => 2*(h-1) + 1 = n-1
    BY <1>1
  <2> QED
    BY <1>4, <2>2, <2>3
<1>9. ASSUME NEW i \in 0..h-1, NEW j \in 0..h-1, i < j
      PROVE  m1[i].offset + m1[i].size <= m1[j].offset
  <2>1. 2*i + 1 < n /\ 2*i + 1 \in 0..n-1 /\ 2*j \in 0..n-1 /\ 2*i + 1 < 2*j
    BY <1>1, <1>9
  <2>2. m1[i].offset + m1[i].size = m[2*i + 1].offset + m[2*i + 1].size
    BY <1>5, <2>1
  <2>3. m1[j].offset = m[2*j].offset
    BY <1>5
  <2>4. m[2*i + 1].offset + m[2*i + 1].size <= m[2*j].offset
    BY <1>3, <2>1
  <2> QED
    BY <2>2, <2>3, <2>4
<1>10. Tile(m1, c, h)
  BY <1>1, <1>6, <1>7, <1>8, <1>9 DEF Tile
<1> QED
  BY <1>10 DEF h

(* The map of StartChunk tiles the chunk. *)
LEMMA StartTiles ==
    ASSUME MapTypes,
           map' = [i \in DOMAIN map |-> [offset |-> BlockOffset(i), size |-> BlockSize(i),
                                         state |-> "free"]]
    PROVE  Tile(map', ChunkSize, args.blocks)
<1>1. ChunkSize \in Nat /\ args.blocks \in Nat /\ args.blocks >= 1
  BY DivisionFacts
<1>2. PICK n \in Nat, b \in Nat : n = ChunkSize /\ b = args.blocks /\ b >= 1
  BY <1>1
<1>3. PICK q \in Nat, r \in 0..b-1 : q = (n \div b) /\ r = (n % b) /\ n = b * q + r
  <2>1. n \div b \in Nat /\ (n % b) \in 0..b-1 /\ n = b * (n \div b) + (n % b)
    BY <1>2, Division
  <2> QED
    BY Zenon, <2>1
<1>4. \A i \in 0..b-1 : /\ map'[i].offset = BlockOffset(i)
                        /\ map'[i].size = BlockSize(i)
  BY <1>2 DEF MapTypes
<1>5. \A i \in 0..b-1 : /\ map'[i].offset = i * q + (IF i < r THEN i ELSE r)
                        /\ map'[i].size = q + (IF i < r THEN 1 ELSE 0)
  <2>1. ChunkSize \div args.blocks = q /\ ChunkSize % args.blocks = r
    BY <1>2, <1>3
  <2> SUFFICES ASSUME NEW i \in 0..b-1
               PROVE  /\ map'[i].offset = i * q + (IF i < r THEN i ELSE r)
                      /\ map'[i].size = q + (IF i < r THEN 1 ELSE 0)
    OBVIOUS
  <2>2. map'[i].offset = BlockOffset(i) /\ map'[i].size = BlockSize(i)
    BY <1>4
  <2> QED
    BY <2>1, <2>2, Zenon DEF BlockOffset, BlockSize
<1>6. Tile(map', b * q + r, b)
  BY <1>2, <1>5, EvenBlocks
<1> QED
  BY <1>2, <1>3, <1>6

-----------------------------------------------------------------------------
(* Who can move, and where to. *)

(* A worker's step is the one of the place it is at. *)
LEMMA WorkerAt ==
    ASSUME NEW w \in Workers, WorkerStep(w)
    PROVE  \/ pc[w] = "loop" /\ Loop(w)
           \/ pc[w] = "phase" /\ ReadPhase(w)
           \/ pc[w] = "claim" /\ ClaimBlock(w)
           \/ pc[w] = "sorting" /\ SortBlock(w)
           \/ pc[w] = "round" /\ Round(w)
           \/ pc[w] = "claimPair" /\ ClaimPair(w)
           \/ pc[w] = "merging" /\ MergePair(w)
           \/ pc[w] = "reduce" /\ Reduce(w)
BY DEF WorkerStep, Loop, ReadPhase, ClaimBlock, SortBlock, Round, ClaimPair, MergePair, Reduce

(* Main's step is the one of the place it is at. *)
LEMMA MainAt ==
    ASSUME MainStep
    PROVE  \/ main = "create" /\ Create
           \/ main = "chunk" /\ (StartChunk \/ LeaveLoop)
           \/ main = "mapped" /\ AwaitChunk
           \/ main = "sorted" /\ EndChunk
           \/ main = "stop" /\ Stop
           \/ main = "join" /\ Join
           \/ main = "merge" /\ (MergeChunks \/ EndMergeRound \/ MergeChunksFails)
BY DEF MainStep, Create, StartChunk, LeaveLoop, AwaitChunk, EndChunk, Stop, Join,
       MergeChunks, EndMergeRound, MergeChunksFails

(* A barrier opens only when all threads of the command line are there. *)
LEMMA FullBarrier ==
    ASSUME Types, NEW b \in {"workers", "control"}, Cardinality(Arrived(b)) = args.threads
    PROVE  \A w \in Running : pc[w] = b
<1>1. Arrived(b) \subseteq Running
  BY DEF Arrived, Types, ProcTypes
<1>2. args.threads \in Nat
  BY ArgsFacts DEF Types, MapTypes
<1>3. IsFiniteSet(Running) /\ Cardinality(Running) = args.threads
  <2>1. 0 \in Int /\ args.threads - 1 \in Int
    BY <1>2
  <2>2. IsFiniteSet(0..args.threads-1)
    BY <2>1, FS_Interval
  <2>3. Cardinality(0..args.threads-1) =
          IF 0 > args.threads - 1 THEN 0 ELSE (args.threads - 1) - 0 + 1
    BY <2>1, FS_Interval
  <2> QED
    BY <1>2, <2>2, <2>3 DEF Running
<1>4. Arrived(b) = Running
  BY <1>1, <1>3, FS_Subset
<1> QED
  BY <1>4 DEF Arrived

(* What opening a barrier changes. *)
LEMMA Opened ==
    ASSUME Types, NEW b \in {"workers", "control"}, Released(Arrived(b)),
           \A w \in Running : pc[w] = b
    PROVE  /\ UNCHANGED <<args, phase, map, active, mine, work, processed>>
           /\ \A w \in Running : pc'[w] = next[w]
           /\ \A w \in Workers \ Running : pc'[w] = "unborn"
           /\ Running' = Running
<1>1. UNCHANGED <<args, phase, map, active, mine, work, processed>>
  BY DEF Released
<1>2. pc' = [w \in Workers |-> IF w \in Arrived(b) THEN next[w] ELSE pc[w]]
  BY DEF Released
<1>3. Running \subseteq Workers
  BY ArgsFacts DEF Types, MapTypes
<1>4. \A w \in Running : w \in Arrived(b)
  BY <1>3 DEF Arrived
<1>5. \A w \in Workers \ Running : w \notin Arrived(b) /\ pc[w] = "unborn"
  BY DEF Arrived, Types, ProcTypes
<1> QED
  BY <1>1, <1>2, <1>3, <1>4, <1>5 DEF Running

(* What a step of a worker changes besides its own place. *)
LEMMA Moved ==
    ASSUME Types, NEW w \in Workers, WorkerStep(w)
    PROVE  /\ w \in Running /\ Running \subseteq Workers
           /\ UNCHANGED <<args, phase, main, mainNext, processed>> /\ Running' = Running
           /\ \A u \in Workers : u # w => /\ pc'[u] = pc[u] /\ next'[u] = next[u]
                                        /\ mine'[u] = mine[u] /\ work'[u] = work[u]
<1>1. UNCHANGED <<args, phase, main, mainNext, processed>>
  BY DEF WorkerStep, Loop, ReadPhase, ClaimBlock, SortBlock, Round, ClaimPair, MergePair,
         Reduce, UnchangedByWorker, mainVars
<1>2. Running \subseteq Workers
  BY ArgsFacts DEF Types, MapTypes
<1>3. ASSUME NEW u \in Workers, u # w
      PROVE  /\ pc'[u] = pc[u] /\ next'[u] = next[u]
             /\ mine'[u] = mine[u] /\ work'[u] = work[u]
  BY <1>3 DEF WorkerStep, Loop, ReadPhase, ClaimBlock, SortBlock, Round, ClaimPair, MergePair,
         Reduce, Claim, Goto, Wait, Types, ProcTypes
<1> QED
  BY <1>1, <1>2, <1>3, WorkersRun DEF Running

(* A step of main to which the workers pay no attention. *)
LEMMA MainMoved ==
    ASSUME MainStep, main \notin {"create", "chunk"}
    PROVE  UNCHANGED <<args, map, active, workerVars>> /\ Running' = Running
BY DEF MainStep, Create, StartChunk, LeaveLoop, AwaitChunk, EndChunk, Stop, Join,
       MergeChunks, EndMergeRound, MergeChunksFails, UnchangedByMain, Running

-----------------------------------------------------------------------------
(* From stage to stage. *)

(* The threads are created, all of them or some. *)
LEMMA FromSetup == ASSUME Types, Setup, Next PROVE StageInv'
<1>0. Running \subseteq Workers /\ 0 \in Running /\ Running \subseteq Nat /\ args.threads \in Nat
  BY ArgsFacts DEF Types, MapTypes, Running
<1>1. CASE MainStep
  <2>1. Create
    BY <1>1, MainAt DEF Setup
  <2>2. Running' = Running
    BY <2>1 DEF Create, Running
  <2>3. CASE /\ pc' = [w \in Workers |-> IF w \in Running THEN "loop" ELSE "unborn"]
             /\ main' = "chunk" /\ UNCHANGED <<phase, mainNext>>
    <3>1. Between'
      BY <1>0, <2>2, <2>3 DEF Between, Setup
    <3> QED
      BY <3>1 DEF StageInv
  <2>4. CASE /\ \E i \in Running : pc' = [w \in Workers |-> IF w < i THEN "loop" ELSE "unborn"]
             /\ phase' = 2 /\ main' = "control" /\ mainNext' = "failed"
    <3>1. PICK i \in Running : pc' = [w \in Workers |-> IF w < i THEN "loop" ELSE "unborn"]
      BY <2>4
    <3>2. pc'[i] = "unborn"
      BY <1>0, <3>1
    <3>3. \A w \in Running : pc'[w] \in {"loop", "unborn"}
      BY <1>0, <3>1
    <3>4. Crippled'
      BY <2>2, <2>4, <3>2, <3>3 DEF Crippled
    <3> QED
      BY <3>4 DEF StageInv
  <2> QED
    BY <2>1, <2>3, <2>4 DEF Create
<1>2. CASE WorkersBarrier
  BY <1>0, <1>2, FullBarrier DEF WorkersBarrier, Setup
<1>3. CASE ControlBarrier
  BY <1>3 DEF ControlBarrier, Setup
<1>4. CASE Exited
  BY <1>4 DEF Exited, Setup
<1>5. CASE \E w \in Workers : WorkerStep(w) \/ MergeFails(w)
  BY <1>5, WorkerAt DEF MergeFails, Setup
<1> QED
  BY <1>1, <1>2, <1>3, <1>4, <1>5 DEF Next

(* Without all threads nothing ever starts. *)
LEMMA FromCrippled == ASSUME Types, Crippled, Next PROVE StageInv'
<1>0. Running \subseteq Workers /\ 0 \in Running
  BY ArgsFacts DEF Types, MapTypes
<1>1. ~MainStep /\ ~Exited
  BY MainAt DEF Crippled, Exited
<1>2. ~WorkersBarrier /\ ~ControlBarrier
  BY FullBarrier DEF WorkersBarrier, ControlBarrier, Crippled
<1>3. ASSUME NEW w \in Workers, WorkerStep(w) PROVE Crippled'
  <2>1. w \in Running /\ Loop(w) /\ pc[w] = "loop"
    BY <1>3, WorkerAt, WorkersRun DEF Crippled, Waits
  <2>2. pc'[w] = "control" /\ next'[w] = "phase"
    BY <2>1, <1>0 DEF Loop, Wait, Types, ProcTypes
  <2> QED
    BY <1>0, <1>3, <2>1, <2>2, Moved DEF Crippled, Waits
<1>4. \A w \in Workers : ~MergeFails(w)
  BY WorkersRun DEF MergeFails, Crippled, Waits
<1> QED
  BY <1>1, <1>2, <1>3, <1>4 DEF Next, StageInv

(* A chunk is handed out, noted or refused, or the workers are told to stop. *)
LEMMA FromBetween == ASSUME Types, Between, Next PROVE StageInv'
<1>0. Running \subseteq Workers /\ 0 \in Running
  BY ArgsFacts DEF Types, MapTypes
<1>1. CASE MainStep
  <2>1. main \in {"chunk", "sorted", "stop"}
    BY <1>1, MainAt DEF Between
  <2>2. CASE main = "chunk" /\ StartChunk
    <3>1. Running' = Running
      BY <2>2 DEF StartChunk, Running
    <3>2. CASE ChunkSize >= args.blocks
      <4>1. /\ active' = args'.blocks /\ phase' = 1 /\ main' = "control" /\ mainNext' = "mapped"
            /\ UNCHANGED <<pc, next>>
        BY <2>2, <3>2 DEF StartChunk
      <4> QED
        BY <3>1, <4>1 DEF Between, StageInv, Waits
    <3>3. CASE ~(ChunkSize >= args.blocks)
      <4>1. /\ main' = "failed"
            /\ pc' = [w \in Workers |-> IF w \in Running THEN "dead" ELSE "unborn"]
        BY <2>2, <3>3 DEF StartChunk
      <4> QED
        BY <4>1 DEF Over, StageInv
    <3> QED
      BY <3>2, <3>3
  <2>3. CASE main = "chunk" /\ LeaveLoop
    <3>1. Running' = Running /\ UNCHANGED <<pc, next>> /\ main' = "stop"
      BY <2>3 DEF LeaveLoop, UnchangedByMain, workerVars, Running
    <3> QED
      BY <3>1 DEF Between, StageInv, Waits
  <2>4. CASE main = "sorted" /\ EndChunk
    <3>1. /\ Running' = Running /\ UNCHANGED <<pc, next>>
          /\ (main' = "chunk" /\ phase' = 0) \/ main' = "stop"
      BY <2>4 DEF EndChunk, UnchangedByMain, workerVars, Running
    <3> QED
      BY <3>1 DEF Between, StageInv, Waits
  <2>5. CASE main = "stop" /\ Stop
    <3>1. /\ Running' = Running /\ UNCHANGED <<pc, next>>
          /\ main' = "control" /\ mainNext' = "join" /\ phase' = 2
      BY <2>5 DEF Stop, UnchangedByMain, workerVars, Running
    <3> QED
      BY <3>1 DEF Between, StageInv, Waits
  <2> QED
    BY <1>1, <2>1, <2>2, <2>3, <2>4, <2>5, MainAt
<1>2. ~WorkersBarrier
  BY <1>0, FullBarrier DEF WorkersBarrier, Between, Waits
<1>3. CASE ControlBarrier
  <2>1. \A w \in Running : pc[w] = "control"
    BY <1>3, FullBarrier DEF ControlBarrier
  <2>2. /\ UNCHANGED <<args, phase, active>> /\ Running' = Running
        /\ \A w \in Running : pc'[w] = next[w]
    BY <1>3, <2>1, Opened DEF ControlBarrier
  <2>3. \A w \in Running : pc'[w] = "phase"
    BY <2>1, <2>2 DEF Between, Waits
  <2>4. main = "control" /\ main' = mainNext
    BY <1>3 DEF ControlBarrier
  <2>5. CASE mainNext = "mapped"
    <3>1. Sorting'
      BY <2>2, <2>3, <2>4, <2>5 DEF Between, Sorting, MainAway, OneOwner
    <3> QED
      BY <3>1 DEF StageInv
  <2>6. CASE mainNext = "join"
    <3>1. Stopping'
      BY <2>2, <2>3, <2>4, <2>6 DEF Between, Stopping
    <3> QED
      BY <3>1 DEF StageInv
  <2> QED
    BY <2>4, <2>5, <2>6 DEF Between
<1>4. ~Exited
  BY DEF Exited, Between
<1>5. ASSUME NEW w \in Workers, WorkerStep(w) PROVE Between'
  <2>1. w \in Running /\ Loop(w) /\ pc[w] = "loop"
    BY <1>5, WorkerAt, WorkersRun DEF Between, Waits
  <2>2. pc'[w] = "control" /\ next'[w] = "phase" /\ active' = active
    BY <2>1, <1>0 DEF Loop, Wait, Types, ProcTypes
  <2> QED
    BY <1>0, <1>5, <2>1, <2>2, Moved DEF Between, Waits
<1>6. \A w \in Workers : ~MergeFails(w)
  BY WorkersRun DEF MergeFails, Between, Waits
<1> QED
  BY <1>1, <1>2, <1>3, <1>4, <1>5, <1>6 DEF Next, StageInv

(* When the workers have been told, main waits for the end of each. *)
LEMMA FromStopping == ASSUME Types, Stopping, Next PROVE StageInv'
<1>0. Running \subseteq Workers /\ 0 \in Running
  BY ArgsFacts DEF Types, MapTypes
<1>1. CASE MainStep
  <2>1. Join
    BY <1>1, MainAt DEF Stopping
  <2>2. /\ (\A w \in Running : pc[w] = "dead") /\ UNCHANGED <<pc, phase>>
        /\ main' \in {"merge", "success"}
    BY <2>1 DEF Join, UnchangedByMain, workerVars
  <2>3. \A w \in Workers : pc'[w] \in {"unborn", "dead"}
    BY <2>2 DEF Types, ProcTypes
  <2> QED
    BY <1>0, <2>2, <2>3 DEF Over, StageInv, Stopping
<1>2. ~WorkersBarrier /\ ~ControlBarrier /\ ~Exited
  BY <1>0, FullBarrier DEF WorkersBarrier, ControlBarrier, Exited, Stopping
<1>3. ASSUME NEW w \in Workers, WorkerStep(w) PROVE Stopping'
  <2>1. w \in Running /\ ReadPhase(w)
    BY <1>3, WorkerAt, WorkersRun DEF Stopping
  <2>2. pc'[w] = "dead"
    BY <2>1, <1>0 DEF ReadPhase, Goto, Types, ProcTypes, Stopping
  <2> QED
    BY <1>0, <1>3, <2>1, <2>2, Moved DEF Stopping
<1>4. \A w \in Workers : ~MergeFails(w)
  BY WorkersRun DEF MergeFails, Stopping
<1> QED
  BY <1>1, <1>2, <1>3, <1>4 DEF Next, StageInv

(* When all threads are gone, only main merges the chunks. *)
LEMMA FromOver == ASSUME Types, Over, Next PROVE StageInv'
<1>0. Running \subseteq Workers /\ 0 \in Running
  BY ArgsFacts DEF Types, MapTypes
<1>1. CASE MainStep
  <2>1. MergeChunks \/ EndMergeRound \/ MergeChunksFails
    BY <1>1, MainAt DEF Over
  <2>2. UNCHANGED <<pc, phase>> /\ main' \in {"merge", "success", "failed"} /\ main = "merge"
    BY <2>1 DEF MergeChunks, EndMergeRound, MergeChunksFails, UnchangedByMain, workerVars
  <2> QED
    BY <2>2 DEF Over, StageInv
<1>2. ~WorkersBarrier /\ ~ControlBarrier
  BY <1>0, FullBarrier DEF WorkersBarrier, ControlBarrier, Over
<1>3. CASE Exited
  BY <1>3 DEF Exited, vars, mainVars, workerVars, Over, StageInv
<1>4. \A w \in Workers : ~WorkerStep(w) /\ ~MergeFails(w)
  BY WorkerAt DEF MergeFails, Over
<1> QED
  BY <1>1, <1>2, <1>3, <1>4 DEF Next

(* While main is away, its only step is to the barrier that ends the chunk. *)
LEMMA AwayMain ==
    ASSUME MainAway, MainStep \/ Exited
    PROVE  /\ MainAway' /\ UNCHANGED <<args, phase, map, active, pc, next, mine, work>>
           /\ Running' = Running
<1>1. ~Exited
  BY DEF Exited, MainAway
<1>2. AwaitChunk
  BY <1>1, MainAt DEF MainAway
<1> QED
  BY <1>2 DEF AwaitChunk, UnchangedByMain, workerVars, MainAway, Running

(* A worker that claims one of the first n blocks or pairs. *)
LEMMA Claimed ==
    ASSUME Types, NEW w \in Running, NEW n \in 0..args.blocks, NEW p, Claim(w, n, p)
    PROVE  \E i \in 0..n-1 :
             /\ i \in DOMAIN map /\ map[i].state = "free" /\ map'[i].state = "busy"
             /\ \A j \in DOMAIN map : j # i => map'[j] = map[j]
             /\ work'[w] = i /\ pc'[w] = p
<1>0. /\ Running \subseteq Workers /\ args.blocks \in Nat
      /\ map \in [0..args.blocks-1 -> Block]
      /\ pc \in [Workers -> WorkerPlaces] /\ work \in [Workers -> 0..args.blocks-1]
  BY ArgsFacts DEF Types, MapTypes, ProcTypes
<1>1. PICK i \in Free(n) : /\ map' = [map EXCEPT ![i].state = "busy"]
                           /\ work' = [work EXCEPT ![w] = i]
                           /\ Goto(w, p)
  BY DEF Claim
<1>2. i \in 0..n-1 /\ map[i].state = "free" /\ i \in DOMAIN map
  BY <1>0 DEF Free
<1>3. map'[i].state = "busy" /\ \A j \in DOMAIN map : j # i => map'[j] = map[j]
  BY <1>0, <1>1, <1>2 DEF Block
<1> QED
  BY <1>0, <1>1, <1>2, <1>3 DEF Goto

(* The blocks are sorted, each by the worker that has claimed it. *)
LEMMA FromSorting == ASSUME Types, Sorting, Next PROVE StageInv'
<1>0. /\ Running \subseteq Workers /\ 0 \in Running /\ args.blocks \in Nat
      /\ active \in 0..args.blocks /\ DOMAIN map = 0..args.blocks-1
      /\ pc \in [Workers -> WorkerPlaces]
      /\ next \in [Workers -> WorkerPlaces \cup {"none"}]
      /\ \A w \in Workers : work[w] \in DOMAIN map
  BY ArgsFacts DEF Types, MapTypes, ProcTypes
<1>1. CASE MainStep \/ Exited
  <2>1. /\ MainAway' /\ UNCHANGED <<args, phase, map, active, pc, next, mine, work>>
        /\ Running' = Running
    BY <1>1, AwayMain DEF Sorting
  <2>2. Sorting'
    BY <2>1 DEF Sorting, OneOwner, Waits
  <2> QED
    BY <2>2 DEF StageInv
<1>2. CASE WorkersBarrier
  <2>1. \A w \in Running : pc[w] = "workers"
    BY <1>2, FullBarrier DEF WorkersBarrier
  <2>2. /\ UNCHANGED <<args, phase, map, active, mine, work>> /\ Running' = Running
        /\ \A w \in Running : pc'[w] = next[w]
    BY <1>2, <2>1, Opened DEF WorkersBarrier
  <2>3. \A w \in Running : pc'[w] = "round"
    BY <2>1, <2>2 DEF Sorting, Waits
  <2>4. MainAway'
    BY <1>2, <2>2 DEF WorkersBarrier, Sorting, MainAway
  <2>5. RoundHead'
    BY <1>0, <2>2, <2>3, <2>4 DEF RoundHead
  <2> QED
    BY <2>5 DEF StageInv
<1>3. ~ControlBarrier
  BY <1>0, FullBarrier DEF ControlBarrier, Sorting, Waits
<1>4. ASSUME NEW w \in Workers, WorkerStep(w) PROVE Sorting'
  <2>0. /\ w \in Running /\ Running' = Running /\ UNCHANGED <<args, phase, main, mainNext>>
        /\ \A u \in Workers : u # w => /\ pc'[u] = pc[u] /\ next'[u] = next[u]
                                     /\ work'[u] = work[u]
    BY <1>4, Moved
  <2>1. MainAway'
    BY <2>0 DEF Sorting, MainAway
  <2>2. CASE pc[w] = "phase" /\ ReadPhase(w)
    <3>1. pc'[w] = "claim" /\ UNCHANGED <<map, active, work>>
      BY <1>0, <2>0, <2>2 DEF ReadPhase, Goto, Sorting, MainAway
    <3> QED
      BY <1>0, <2>0, <2>1, <3>1 DEF Sorting, OneOwner, Waits
  <2>3. CASE pc[w] = "claim" /\ ClaimBlock(w)
    <3>1. CASE Claim(w, active, "sorting")
      <4>1. PICK i \in 0..active-1 :
              /\ i \in DOMAIN map /\ map[i].state = "free" /\ map'[i].state = "busy"
              /\ \A j \in DOMAIN map : j # i => map'[j] = map[j]
              /\ work'[w] = i /\ pc'[w] = "sorting"
        BY <1>0, <2>0, <3>1, Claimed
      <4>2. active' = active
        BY <2>3 DEF ClaimBlock
      <4>3. \A u \in Running : u # w /\ pc[u] = "sorting" =>
              work[u] # i /\ map'[work[u]].state = "busy" /\ work[u] < active
        BY <1>0, <4>1 DEF Sorting, Waits
      <4>4. \A u \in Running : \/ pc'[u] \in {"phase", "claim"}
                               \/ /\ pc'[u] = "sorting" /\ work'[u] < active
                                  /\ map'[work'[u]].state = "busy"
                               \/ pc'[u] = "workers" /\ next'[u] = "round"
        BY <1>0, <2>0, <4>1, <4>3 DEF Sorting, Waits
      <4>5. \A u, v \in Running :
              pc'[u] = "sorting" /\ pc'[v] = "sorting" /\ u # v => work'[u] # work'[v]
        BY <1>0, <2>0, <4>1, <4>3 DEF Sorting, OneOwner
      <4> QED
        BY <2>0, <2>1, <4>2, <4>4, <4>5 DEF Sorting, OneOwner, Waits
    <3>2. CASE Wait(w, "workers", "round") /\ UNCHANGED <<map, work>>
      <4>1. pc'[w] = "workers" /\ next'[w] = "round" /\ active' = active
        BY <1>0, <2>0, <2>3, <3>2 DEF ClaimBlock, Wait
      <4> QED
        BY <1>0, <2>0, <2>1, <3>2, <4>1 DEF Sorting, OneOwner, Waits
    <3> QED
      BY <2>3, <3>1, <3>2 DEF ClaimBlock
  <2>4. CASE pc[w] = "sorting" /\ SortBlock(w)
    <3>1. pc'[w] = "claim" /\ UNCHANGED <<active, work>>
      BY <1>0, <2>0, <2>4 DEF SortBlock, Goto
    <3>2. \A j \in DOMAIN map : j # work[w] => map'[j] = map[j]
      BY <2>4 DEF SortBlock
    <3>3. \A u \in Running : u # w /\ pc[u] = "sorting" => work[u] # work[w]
      BY <2>0, <2>4 DEF Sorting, OneOwner
    <3>4. \A u \in Running : \/ pc'[u] \in {"phase", "claim"}
                             \/ /\ pc'[u] = "sorting" /\ work'[u] < active
                                /\ map'[work'[u]].state = "busy"
                             \/ pc'[u] = "workers" /\ next'[u] = "round"
      BY <1>0, <2>0, <3>1, <3>2, <3>3 DEF Sorting, Waits
    <3> QED
      BY <1>0, <2>0, <2>1, <3>1, <3>4 DEF Sorting, OneOwner, Waits
  <2> QED
    BY <1>4, <2>0, <2>2, <2>3, <2>4, WorkerAt DEF Sorting, Waits
<1>5. \A w \in Workers : ~MergeFails(w)
  BY WorkersRun DEF MergeFails, Sorting, Waits
<1> QED
  BY <1>1, <1>2, <1>3, <1>4, <1>5 DEF Next, StageInv

(* The reduction is made by worker 0 alone, between two barriers. *)
LEMMA FromReducing == ASSUME Types, Reducing, Next PROVE StageInv'
<1>0. /\ Running \subseteq Workers /\ 0 \in Running /\ mine[0] \in Nat
      /\ pc \in [Workers -> WorkerPlaces]
      /\ next \in [Workers -> WorkerPlaces \cup {"none"}]
  BY ArgsFacts DEF Types, MapTypes, ProcTypes
<1>1. CASE MainStep \/ Exited
  <2>1. /\ MainAway' /\ UNCHANGED <<args, phase, map, active, pc, next, mine, work>>
        /\ Running' = Running
    BY <1>1, AwayMain DEF Reducing
  <2>2. Reducing'
    BY <2>1 DEF Reducing, Waits, Late, Early
  <2> QED
    BY <2>2 DEF StageInv
<1>2. CASE WorkersBarrier
  <2>1. \A w \in Running : pc[w] = "workers"
    BY <1>2, FullBarrier DEF WorkersBarrier
  <2>2. /\ UNCHANGED <<args, phase, map, active, mine, work>> /\ Running' = Running
        /\ \A w \in Running : pc'[w] = next[w]
    BY <1>2, <2>1, Opened DEF WorkersBarrier
  <2>3. \A w \in Running : pc'[w] = "round"
    BY <2>1, <2>2 DEF Reducing, Waits
  <2>4. MainAway'
    BY <1>2, <2>2 DEF WorkersBarrier, Reducing, MainAway
  <2>5. RoundHead'
    BY <1>0, <2>2, <2>3, <2>4 DEF RoundHead
  <2> QED
    BY <2>5 DEF StageInv
<1>3. ~ControlBarrier
  BY <1>0, FullBarrier DEF ControlBarrier, Reducing, Waits
<1>4. ASSUME NEW w \in Workers, WorkerStep(w) PROVE Reducing'
  <2>0. /\ w \in Running /\ Running' = Running /\ UNCHANGED <<args, phase, main, mainNext>>
        /\ \A u \in Workers : u # w => pc'[u] = pc[u] /\ next'[u] = next[u]
    BY <1>4, Moved
  <2>1. MainAway'
    BY <2>0 DEF Reducing, MainAway
  <2>2. Reduce(w) /\ pc[w] = "reduce"
    BY <1>4, <2>0, WorkerAt DEF Reducing, Waits
  <2>3. pc'[w] = "workers" /\ next'[w] = "round" /\ mine' = mine
    BY <1>0, <2>0, <2>2 DEF Reduce, Wait
  <2>4. w = 0 => active' = (mine[0] + 1) \div 2
    BY <2>2 DEF Reduce
  <2>5. w # 0 => UNCHANGED <<map, active>>
    BY <2>2 DEF Reduce
  <2>6. \A u \in Running : /\ mine'[u] = mine'[0]
                           /\ pc'[u] = "reduce" \/ (pc'[u] = "workers" /\ next'[u] = "round")
    BY <1>0, <2>0, <2>3 DEF Reducing, Waits
  <2>7. CASE w = 0
    <3>1. pc'[0] # "reduce" /\ mine'[0] > 1 /\ active' = (mine'[0] + 1) \div 2
      BY <2>3, <2>4, <2>7 DEF Reducing
    <3> QED
      BY <2>0, <2>1, <2>6, <3>1 DEF Reducing, Waits
  <2>8. CASE w # 0
    <3>1. pc'[0] = pc[0] /\ UNCHANGED <<map, active, mine, args>>
      BY <1>0, <2>0, <2>3, <2>5, <2>8
    <3> QED
      BY <2>0, <2>1, <2>6, <3>1 DEF Reducing, Waits, Late, Early
  <2> QED
    BY <2>7, <2>8
<1>5. \A w \in Workers : ~MergeFails(w)
  BY WorkersRun DEF MergeFails, Reducing, Waits
<1> QED
  BY <1>1, <1>2, <1>3, <1>4, <1>5 DEF Next, StageInv

(* When malloc fails in a merge the process ends. *)
LEMMA AfterFailure == ASSUME Types, NEW w \in Workers, MergeFails(w) PROVE Over'
BY DEF MergeFails, Over

(* The head of a merge round: by the number of blocks all threads agree on *)
(* an early round, a late one or the end of the chunk.                     *)
LEMMA FromRoundHead == ASSUME Types, RoundHead, Next PROVE StageInv'
<1>0. /\ Running \subseteq Workers /\ 0 \in Running /\ args.blocks \in Nat
      /\ active \in 0..args.blocks /\ DOMAIN map = 0..args.blocks-1
      /\ pc \in [Workers -> WorkerPlaces]
      /\ next \in [Workers -> WorkerPlaces \cup {"none"}]
      /\ mine \in [Workers -> 0..args.blocks] /\ work \in [Workers -> 0..args.blocks-1]
      /\ Running = 0..args.threads-1 /\ args.threads \in Nat
  BY ArgsFacts DEF Types, MapTypes, ProcTypes, Running
<1>1. CASE MainStep \/ Exited
  <2>1. /\ MainAway' /\ UNCHANGED <<args, phase, map, active, pc, next, mine, work>>
        /\ Running' = Running
    BY <1>1, AwayMain DEF RoundHead
  <2>2. RoundHead'
    BY <2>1 DEF RoundHead, Waits, Late, Early
  <2> QED
    BY <2>2 DEF StageInv
<1>2. CASE WorkersBarrier
  <2>1. \A w \in Running : pc[w] = "workers"
    BY <1>2, FullBarrier DEF WorkersBarrier
  <2>2. /\ UNCHANGED <<args, phase, map, active, mine, work>> /\ Running' = Running
        /\ \A w \in Running : pc'[w] = next[w]
    BY <1>2, <2>1, Opened DEF WorkersBarrier
  <2>3. MainAway'
    BY <1>2, <2>2 DEF WorkersBarrier, RoundHead, MainAway
  <2>4. /\ active > 1 /\ \A w \in Running : mine[w] = active
        /\ \A w \in Running : next[w] = IF Early(active) THEN "reduce" ELSE "claimPair"
    BY <1>0, <2>1 DEF RoundHead, Waits, Late
  <2>5. CASE Early(active)
    <3>1. /\ \A w \in Running : pc'[w] = "reduce" /\ mine'[w] = mine'[0]
          /\ mine'[0] > 1 /\ active' = mine'[0]
      BY <1>0, <2>2, <2>4, <2>5
    <3>2. ~Late(active)'
      BY <2>2, <2>5 DEF Late, Early
    <3>3. Reducing'
      BY <1>0, <2>2, <2>3, <3>1, <3>2 DEF Reducing
    <3> QED
      BY <3>3 DEF StageInv
  <2>6. CASE ~Early(active)
    <3>1. Late(active)' /\ Late(active)
      BY <2>2, <2>4, <2>6 DEF Late, Early
    <3>2. \A w \in Running : pc'[w] = "claimPair" /\ mine'[w] = active'
      BY <2>2, <2>4, <2>6
    <3>3. \A i \in 0..active \div 2 - 1 : map[i].state = "free"
      BY <1>0, <2>1, <3>1 DEF RoundHead
    <3>4. Pairs'
      BY <2>2, <2>3, <3>1, <3>2, <3>3 DEF Pairs, OneOwner
    <3> QED
      BY <3>4 DEF StageInv
  <2> QED
    BY <2>5, <2>6
<1>3. CASE ControlBarrier
  <2>1. \A w \in Running : pc[w] = "control"
    BY <1>3, FullBarrier DEF ControlBarrier
  <2>2. /\ UNCHANGED <<args, phase, active>> /\ Running' = Running
        /\ \A w \in Running : pc'[w] = next[w]
    BY <1>3, <2>1, Opened DEF ControlBarrier
  <2>3. \A w \in Running : pc'[w] = "loop"
    BY <2>1, <2>2 DEF RoundHead, Waits
  <2>4. main' = "sorted" /\ phase' = 1
    BY <1>3, <2>2 DEF ControlBarrier, RoundHead, MainAway
  <2>5. Between'
    BY <2>2, <2>3, <2>4 DEF Between
  <2> QED
    BY <2>5 DEF StageInv
<1>4. ASSUME NEW w \in Workers, WorkerStep(w) PROVE RoundHead'
  <2>0. /\ w \in Running /\ Running' = Running /\ UNCHANGED <<args, phase, main, mainNext>>
        /\ \A u \in Workers : u # w => /\ pc'[u] = pc[u] /\ next'[u] = next[u]
                                     /\ mine'[u] = mine[u] /\ work'[u] = work[u]
    BY <1>4, Moved
  <2>1. MainAway'
    BY <2>0 DEF RoundHead, MainAway
  <2>2. CASE pc[w] = "round" /\ Round(w)
    <3>1. mine'[w] = active /\ active' = active
      BY <1>0, <2>2 DEF Round
    <3>2. \/ active <= 1 /\ pc'[w] = "control" /\ next'[w] = "loop"
          \/ /\ active > 1 /\ Early(active)
             /\ \/ pc'[w] = "workers" /\ next'[w] = "reduce"
                \/ pc'[w] = "merging" /\ work'[w] = w /\ w < active \div 2
          \/ Late(active) /\ pc'[w] = "workers" /\ next'[w] = "claimPair"
      BY <1>0, <2>0, <2>2 DEF Round, Goto, Wait, Late
    <3>3. Late(active) /\ pc'[0] # "round" =>
            \A i \in 0..active \div 2 - 1 : map'[i].state = "free"
      <4> SUFFICES ASSUME Late(active), pc'[0] # "round",
                          NEW i \in 0..active \div 2 - 1
                   PROVE  map'[i].state = "free"
        OBVIOUS
      <4>0. i \in DOMAIN map /\ i < active \div 2
        BY <1>0
      <4>1. CASE w = 0
        <5>1. map' = [k \in DOMAIN map |-> IF k < active \div 2
                                             THEN [map[k] EXCEPT !.state = "free"]
                                             ELSE map[k]]
          BY <1>0, <2>2, <4>1 DEF Round, Late
        <5>2. map[i] \in Block
          BY <4>0 DEF Types, MapTypes
        <5> QED
          BY <4>0, <5>1, <5>2 DEF Block
      <4>2. CASE w # 0
        <5>1. map' = map
          BY <2>2, <4>2 DEF Round, Late
        <5>2. pc[0] # "round"
          BY <1>0, <2>0, <4>2
        <5> QED
          BY <5>1, <5>2 DEF RoundHead
      <4> QED
        BY <4>1, <4>2
    <3>4. \A u \in Running :
            \/ pc'[u] = "round"
            \/ /\ mine'[u] = active
               /\ \/ active <= 1 /\ pc'[u] = "control" /\ next'[u] = "loop"
                  \/ /\ active > 1 /\ Early(active)
                     /\ \/ pc'[u] = "workers" /\ next'[u] = "reduce"
                        \/ pc'[u] = "merging" /\ work'[u] = u /\ u < active \div 2
                  \/ Late(active) /\ pc'[u] = "workers" /\ next'[u] = "claimPair"
      <4> TAKE u \in Running
      <4>1. CASE u = w
        BY <3>1, <3>2, <4>1
      <4>2. CASE u # w
        BY <1>0, <2>0, <4>2 DEF RoundHead, Waits
      <4> QED
        BY <4>1, <4>2
    <3>5. Late(active)' = Late(active) /\ Early(active)' = Early(active)
      BY <2>0, <3>1 DEF Late, Early
    <3> QED
      BY <2>0, <2>1, <3>1, <3>3, <3>4, <3>5 DEF RoundHead, Waits
  <2>3. CASE pc[w] = "merging" /\ MergePair(w)
    <3>1. mine[w] = active /\ active > 1 /\ Early(active)
      BY <2>0, <2>3 DEF RoundHead, Waits
    <3>2. /\ pc'[w] = "workers" /\ next'[w] = "reduce"
          /\ UNCHANGED <<map, active, mine, work>>
      BY <1>0, <2>0, <2>3, <3>1 DEF MergePair, Wait
    <3>3. Late(active)' = Late(active) /\ Early(active)' = Early(active) /\ ~Late(active)
      BY <2>0, <3>1, <3>2 DEF Late, Early
    <3>4. \A u \in Running :
            \/ pc'[u] = "round"
            \/ /\ mine'[u] = active
               /\ \/ active <= 1 /\ pc'[u] = "control" /\ next'[u] = "loop"
                  \/ /\ active > 1 /\ Early(active)
                     /\ \/ pc'[u] = "workers" /\ next'[u] = "reduce"
                        \/ pc'[u] = "merging" /\ work'[u] = u /\ u < active \div 2
                  \/ Late(active) /\ pc'[u] = "workers" /\ next'[u] = "claimPair"
      <4> TAKE u \in Running
      <4>1. CASE u = w
        BY <3>1, <3>2, <4>1
      <4>2. CASE u # w
        BY <1>0, <2>0, <4>2 DEF RoundHead, Waits
      <4> QED
        BY <4>1, <4>2
    <3> QED
      BY <2>0, <2>1, <3>2, <3>3, <3>4 DEF RoundHead, Waits
  <2> QED
    BY <1>4, <2>0, <2>2, <2>3, WorkerAt DEF RoundHead, Waits
<1>5. CASE \E w \in Workers : MergeFails(w)
  BY <1>5, AfterFailure DEF StageInv
<1> QED
  BY <1>1, <1>2, <1>3, <1>4, <1>5 DEF Next, StageInv

(* A late round: the pairs are claimed and merged until none is free. *)
LEMMA FromPairs == ASSUME Types, Pairs, Next PROVE StageInv'
<1> DEFINE half == active \div 2
<1>0. /\ Running \subseteq Workers /\ 0 \in Running /\ args.blocks \in Nat
      /\ active \in 0..args.blocks /\ DOMAIN map = 0..args.blocks-1
      /\ pc \in [Workers -> WorkerPlaces]
      /\ next \in [Workers -> WorkerPlaces \cup {"none"}]
      /\ \A w \in Workers : work[w] \in DOMAIN map
      /\ \A i \in DOMAIN map : map[i].state \in {"free", "busy", "done"}
  BY ArgsFacts DEF Types, MapTypes, ProcTypes, Block
<1>a. half \in 0..args.blocks /\ \A i \in 0..half-1 : i \in DOMAIN map
  BY <1>0
<1>1. CASE MainStep \/ Exited
  <2>1. /\ MainAway' /\ UNCHANGED <<args, phase, map, active, pc, next, mine, work>>
        /\ Running' = Running
    BY <1>1, AwayMain DEF Pairs
  <2>2. Pairs'
    BY <2>1 DEF Pairs, OneOwner, Waits, Late, Early, Free
  <2> QED
    BY <2>2 DEF StageInv
<1>2. CASE WorkersBarrier
  <2>1. \A w \in Running : pc[w] = "workers"
    BY <1>2, FullBarrier DEF WorkersBarrier
  <2>2. /\ UNCHANGED <<args, phase, map, active, mine, work>> /\ Running' = Running
        /\ \A w \in Running : pc'[w] = next[w]
    BY <1>2, <2>1, Opened DEF WorkersBarrier
  <2>3. \A w \in Running : pc'[w] = "reduce" /\ mine'[w] = active'
    BY <2>1, <2>2 DEF Pairs, Waits
  <2>4. MainAway'
    BY <1>2, <2>2 DEF WorkersBarrier, Pairs, MainAway
  <2>5. ASSUME NEW i \in 0..half-1 PROVE map[i].state = "done"
    <3>1. map[i].state # "free"
      BY <1>0, <2>1 DEF Pairs, Waits, Free
    <3>2. map[i].state # "busy"
      BY <2>1 DEF Pairs
    <3> QED
      BY <1>0, <1>a, <3>1, <3>2
  <2>6. mine'[0] > 1
    BY <1>0, <2>2, <2>3 DEF Pairs, Late
  <2>7. Reducing'
    BY <1>0, <2>2, <2>3, <2>4, <2>5, <2>6 DEF Reducing
  <2> QED
    BY <2>7 DEF StageInv
<1>3. ~ControlBarrier
  BY <1>0, FullBarrier DEF ControlBarrier, Pairs, Waits
<1>4. ASSUME NEW w \in Workers, WorkerStep(w) PROVE Pairs'
  <2>0. /\ w \in Running /\ Running' = Running /\ UNCHANGED <<args, phase, main, mainNext>>
        /\ \A u \in Workers : u # w => /\ pc'[u] = pc[u] /\ next'[u] = next[u]
                                     /\ mine'[u] = mine[u] /\ work'[u] = work[u]
    BY <1>4, Moved
  <2>1. MainAway' /\ mine[w] = active
    BY <2>0 DEF Pairs, MainAway
  <2>2. CASE pc[w] = "claimPair" /\ ClaimPair(w)
    <3>0. UNCHANGED <<active, mine>> /\ Late(active)'
      BY <2>0, <2>2 DEF ClaimPair, Pairs, Late, Early
    <3>1. CASE Claim(w, half, "merging")
      <4>1. PICK i \in 0..half-1 :
              /\ i \in DOMAIN map /\ map[i].state = "free" /\ map'[i].state = "busy"
              /\ \A j \in DOMAIN map : j # i => map'[j] = map[j]
              /\ work'[w] = i /\ pc'[w] = "merging"
        BY <1>a, <2>0, <3>1, Claimed
      <4>2. i \in Free(half)
        BY <4>1 DEF Free
      <4>3. \A u \in Running : u # w => \/ pc[u] = "claimPair"
                                        \/ /\ pc[u] = "merging" /\ work[u] < half
                                           /\ map[work[u]].state = "busy" /\ work[u] # i
        BY <4>1, <4>2 DEF Pairs, Waits
      <4>4. \A u \in Running :
              /\ mine'[u] = active'
              /\ \/ pc'[u] = "claimPair"
                 \/ /\ pc'[u] = "merging" /\ work'[u] < half
                    /\ map'[work'[u]].state = "busy"
        <5> TAKE u \in Running
        <5>1. CASE u = w
          BY <1>a, <2>1, <3>0, <4>1, <5>1
        <5>2. CASE u # w
          BY <1>0, <2>0, <3>0, <4>1, <4>3, <5>2 DEF Pairs
        <5> QED
          BY <5>1, <5>2
      <4>5. \A u, v \in Running :
              pc'[u] = "merging" /\ pc'[v] = "merging" /\ u # v => work'[u] # work'[v]
        BY <1>0, <2>0, <4>1, <4>3 DEF Pairs, OneOwner
      <4>6. ASSUME NEW j \in 0..half-1, map'[j].state = "busy"
            PROVE  \E u \in Running : pc'[u] = "merging" /\ work'[u] = j
        <5>1. CASE j = i
          BY <2>0, <4>1, <5>1
        <5>2. CASE j # i
          <6>1. map[j].state = "busy"
            BY <1>a, <4>1, <4>6, <5>2
          <6>2. PICK u \in Running : pc[u] = "merging" /\ work[u] = j
            BY <6>1 DEF Pairs
          <6>3. u # w
            BY <2>2, <6>2
          <6> QED
            BY <1>0, <2>0, <6>2, <6>3
        <5> QED
          BY <5>1, <5>2
      <4> QED
        BY <2>0, <2>1, <3>0, <4>4, <4>5, <4>6 DEF Pairs, OneOwner
    <3>2. CASE Free(half) = {} /\ Wait(w, "workers", "reduce") /\ UNCHANGED <<map, work>>
      <4>1. pc'[w] = "workers" /\ next'[w] = "reduce"
        BY <1>0, <2>0, <3>2 DEF Wait
      <4>2. Free(active \div 2)' = {}
        BY <3>0, <3>2 DEF Free
      <4>3. \A u \in Running :
              /\ mine'[u] = active'
              /\ \/ pc'[u] = "claimPair"
                 \/ /\ pc'[u] = "merging" /\ work'[u] < active \div 2
                    /\ map'[work'[u]].state = "busy"
                 \/ pc'[u] = "workers" /\ next'[u] = "reduce"
        <5> TAKE u \in Running
        <5>1. CASE u = w
          BY <2>1, <3>0, <4>1, <5>1
        <5>2. CASE u # w
          BY <1>0, <2>0, <3>0, <3>2, <5>2 DEF Pairs, Waits
        <5> QED
          BY <5>1, <5>2
      <4>4. \A u, v \in Running :
              pc'[u] = "merging" /\ pc'[v] = "merging" /\ u # v => work'[u] # work'[v]
        BY <1>0, <2>0, <3>2, <4>1 DEF Pairs, OneOwner
      <4>5. ASSUME NEW j \in 0..half-1, map'[j].state = "busy"
            PROVE  \E u \in Running : pc'[u] = "merging" /\ work'[u] = j
        <5>1. PICK u \in Running : pc[u] = "merging" /\ work[u] = j
          BY <3>2, <4>5 DEF Pairs
        <5>2. u # w
          BY <2>2, <5>1
        <5> QED
          BY <1>0, <2>0, <5>1, <5>2
      <4> QED
        BY <2>0, <2>1, <3>0, <4>2, <4>3, <4>4, <4>5 DEF Pairs, OneOwner, Waits
    <3> QED
      BY <2>1, <2>2, <3>1, <3>2 DEF ClaimPair
  <2>3. CASE pc[w] = "merging" /\ MergePair(w)
    <3>0. UNCHANGED <<active, mine, work>> /\ Late(active)' /\ ~Early(mine[w])
      BY <2>0, <2>1, <2>3 DEF MergePair, Pairs, Late, Early
    <3>1. pc'[w] = "claimPair" /\ map' = [map EXCEPT ![work[w]].state = "done"]
      BY <1>0, <2>0, <2>3, <3>0 DEF MergePair, Goto
    <3>2. /\ \A j \in DOMAIN map : j # work[w] => map'[j] = map[j]
          /\ map'[work[w]].state = "done"
      <4>1. work[w] \in DOMAIN map /\ map[work[w]] \in Block
        BY <1>0, <2>0 DEF Types, MapTypes
      <4> QED
        BY <3>1, <4>1 DEF Block
    <3>3. \A u \in Running : u # w /\ pc[u] = "merging" => work[u] # work[w]
      BY <2>0, <2>3 DEF Pairs, OneOwner
    <3>4. Free(half) = {} => Free(active \div 2)' = {}
      BY <1>0, <1>a, <2>0, <3>0, <3>2 DEF Free
    <3>5. \A u \in Running :
            /\ mine'[u] = active'
            /\ \/ pc'[u] = "claimPair"
               \/ /\ pc'[u] = "merging" /\ work'[u] < active \div 2
                  /\ map'[work'[u]].state = "busy"
               \/ pc'[u] = "workers" /\ next'[u] = "reduce" /\ Free(active \div 2)' = {}
      <4> TAKE u \in Running
      <4>1. CASE u = w
        BY <2>1, <3>0, <3>1, <4>1
      <4>2. CASE u # w
        BY <1>0, <2>0, <3>0, <3>2, <3>3, <3>4, <4>2 DEF Pairs, Waits
      <4> QED
        BY <4>1, <4>2
    <3>6. \A u, v \in Running :
            pc'[u] = "merging" /\ pc'[v] = "merging" /\ u # v => work'[u] # work'[v]
      BY <1>0, <2>0, <3>0, <3>1 DEF Pairs, OneOwner
    <3>7. ASSUME NEW j \in 0..half-1, map'[j].state = "busy"
          PROVE  \E u \in Running : pc'[u] = "merging" /\ work'[u] = j
      <4>1. j # work[w] /\ map[j].state = "busy"
        BY <1>a, <3>2, <3>7
      <4>2. PICK u \in Running : pc[u] = "merging" /\ work[u] = j
        BY <4>1 DEF Pairs
      <4> QED
        BY <1>0, <2>0, <3>0, <4>1, <4>2
    <3> QED
      BY <2>0, <2>1, <3>0, <3>5, <3>6, <3>7 DEF Pairs, OneOwner, Waits
  <2> QED
    BY <1>4, <2>0, <2>2, <2>3, WorkerAt DEF Pairs, Waits
<1>5. CASE \E w \in Workers : MergeFails(w)
  BY <1>5, AfterFailure DEF StageInv
<1> QED
  BY <1>1, <1>2, <1>3, <1>4, <1>5 DEF Next, StageInv

-----------------------------------------------------------------------------
(* The tiling through a step. *)

(* Claiming and finishing a block, and freeing the pairs, move none. *)
LEMMA PlacesStay ==
    ASSUME Types, NEW w \in Workers, WorkerStep(w), ~(Reduce(w) /\ w = 0)
    PROVE  /\ active' = active
           /\ \A j \in DOMAIN map : /\ map'[j].offset = map[j].offset
                                    /\ map'[j].size = map[j].size
<1>0. /\ map \in [0..args.blocks-1 -> Block] /\ work[w] \in DOMAIN map
      /\ \A j \in DOMAIN map : map[j] \in Block
  BY DEF Types, MapTypes, ProcTypes
<1>1. active' = active
  BY DEF WorkerStep, Loop, ReadPhase, ClaimBlock, SortBlock, Round, ClaimPair, MergePair, Reduce
<1>2. ASSUME NEW i, NEW st, map' = [map EXCEPT ![i].state = st]
      PROVE  \A j \in DOMAIN map : /\ map'[j].offset = map[j].offset
                                   /\ map'[j].size = map[j].size
  BY <1>0, <1>2 DEF Block
<1>3. ASSUME NEW n, NEW p, Claim(w, n, p)
      PROVE  \A j \in DOMAIN map : /\ map'[j].offset = map[j].offset
                                   /\ map'[j].size = map[j].size
  BY <1>2, <1>3 DEF Claim
<1>4. CASE Loop(w) \/ ReadPhase(w) \/ Reduce(w)
  BY <1>4, <1>1 DEF Loop, ReadPhase, Reduce
<1>5. CASE ClaimBlock(w) \/ ClaimPair(w)
  BY <1>1, <1>3, <1>5 DEF ClaimBlock, ClaimPair
<1>6. CASE SortBlock(w) \/ MergePair(w)
  BY <1>1, <1>2, <1>6 DEF SortBlock, MergePair
<1>7. CASE Round(w)
  <2>1. CASE UNCHANGED map
    BY <1>1, <2>1
  <2>2. CASE map' = [i \in DOMAIN map |-> IF i < active \div 2
                                            THEN [map[i] EXCEPT !.state = "free"]
                                            ELSE map[i]]
    BY <1>0, <1>1, <2>2 DEF Block
  <2> QED
    BY <1>7, <2>1, <2>2 DEF Round
<1> QED
  BY <1>4, <1>5, <1>6, <1>7 DEF WorkerStep

(* Worker 0 reduces the map it has itself counted. *)
LEMMA ReducerCounts ==
    ASSUME StageInv, pc[0] = "reduce", 0 \in Running, 0 \in Workers
    PROVE  active = mine[0] /\ mine[0] > 1
BY DEF StageInv, Setup, Crippled, Between, Sorting, RoundHead, Pairs, Reducing, Stopping, Over,
       Waits

(* The active blocks tile the chunk from its start to its end. *)
LEMMA TileStep == ASSUME Types, TileInv, StageInv, [Next]_vars PROVE TileInv'
<1> SUFFICES ASSUME phase' = 1, main' # "failed" PROVE Tile(map', ChunkSize', active')
  BY DEF TileInv
<1>0. /\ MapTypes /\ Types /\ 0 \in Running /\ 0 \in Workers /\ args.blocks \in Nat
      /\ active \in 0..args.blocks
      /\ map \in [0..args.blocks-1 -> Block]
  BY ArgsFacts DEF Types, MapTypes
<1>1. ASSUME phase = 1, main # "failed", UNCHANGED <<args, processed, active>>,
             \A j \in DOMAIN map : map'[j].offset = map[j].offset /\ map'[j].size = map[j].size
      PROVE  Tile(map', ChunkSize', active')
  <2>1. ChunkSize' = ChunkSize
    BY <1>1 DEF ChunkSize
  <2>2. Tile(map, ChunkSize, active) /\ active \in Nat
    BY <1>0, <1>1 DEF TileInv
  <2>3. \A j \in 0..active-1 : map'[j].offset = map[j].offset /\ map'[j].size = map[j].size
    BY <1>0, <1>1
  <2>4. Tile(map', ChunkSize, active)
    BY <2>2, <2>3, SamePlaces
  <2> QED
    BY <1>1, <2>1, <2>4
<1>2. CASE UNCHANGED vars \/ Exited
  BY <1>1, <1>2 DEF Exited, vars, mainVars
<1>3. ASSUME NEW w \in Workers, WorkerStep(w) PROVE Tile(map', ChunkSize', active')
  <2>1. UNCHANGED <<args, phase, main, processed>>
    BY <1>3, Moved
  <2>2. phase = 1 /\ main # "failed"
    BY <2>1
  <2>3. CASE Reduce(w) /\ w = 0
    <3>1. pc[0] = "reduce"
      BY <2>3 DEF Reduce
    <3>2. active = mine[0] /\ mine[0] > 1
      BY <1>0, <3>1, ReducerCounts
    <3>3. /\ active' = (active + 1) \div 2
          /\ \A i \in 0..args.blocks-1 :
                /\ 2*i + 1 < active => /\ map'[i].offset = map[2*i].offset
                                       /\ map'[i].size = map[2*i].size + map[2*i + 1].size
                /\ 2*i + 1 = active => map'[i] = map[2*i]
      BY <1>0, <2>3, <3>1, <3>2, ReduceMap
    <3>4. Tile(map, ChunkSize, active)
      BY <2>2 DEF TileInv
    <3>5. \A i \in 0..active-1 : i \in 0..args.blocks-1 /\ map[i] \in Block
      BY <1>0
    <3>6. \A i \in 0..active-1 : map[i].offset \in Nat /\ map[i].size \in Nat
      BY <3>5 DEF Block
    <3>7. PICK n \in Nat : n = active
      BY <1>0
    <3>8. Tile(map', ChunkSize, (n + 1) \div 2)
      <4>1. /\ n > 1 /\ Tile(map, ChunkSize, n)
            /\ \A i \in 0..n-1 : map[i].offset \in Nat /\ map[i].size \in Nat
        BY <3>2, <3>4, <3>6, <3>7
      <4>2. \A i \in 0..n-1 :
              /\ 2*i + 1 < n => /\ map'[i].offset = map[2*i].offset
                                /\ map'[i].size = map[2*i].size + map[2*i + 1].size
              /\ 2*i + 1 = n => map'[i] = map[2*i]
        BY <3>3, <3>5, <3>7
      <4> QED
        BY <4>1, <4>2, HalvedBlocks
    <3>9. ChunkSize' = ChunkSize
      BY <2>1 DEF ChunkSize
    <3> QED
      BY <3>3, <3>7, <3>8, <3>9
  <2>4. CASE ~(Reduce(w) /\ w = 0)
    BY <1>0, <1>1, <1>3, <2>1, <2>2, <2>4, PlacesStay
  <2> QED
    BY <2>3, <2>4
<1>4. \A w \in Workers : ~MergeFails(w)
  BY DEF MergeFails
<1>5. CASE WorkersBarrier
  BY <1>1, <1>5 DEF WorkersBarrier, Released
<1>6. CASE ControlBarrier
  <2>1. UNCHANGED <<args, phase, map, active, processed>> /\ main # "failed"
    BY <1>6 DEF ControlBarrier, Released
  <2> QED
    BY <1>1, <2>1
<1>7. CASE MainStep
  <2>1. CASE Create
    <3>1. UNCHANGED <<args, map, active, processed>> /\ main # "failed" /\ phase = 1
      BY <2>1 DEF Create
    <3> QED
      BY <1>1, <3>1
  <2>2. CASE StartChunk
    <3>1. /\ map' = [i \in DOMAIN map |-> [offset |-> BlockOffset(i), size |-> BlockSize(i),
                                            state |-> "free"]]
          /\ active' = args.blocks /\ UNCHANGED <<args, processed>>
      BY <2>2 DEF StartChunk
    <3>2. ChunkSize' = ChunkSize
      BY <3>1 DEF ChunkSize
    <3>3. Tile(map', ChunkSize, args.blocks)
      BY <1>0, <3>1, StartTiles
    <3> QED
      BY <3>1, <3>2, <3>3
  <2>3. CASE AwaitChunk \/ LeaveLoop \/ Join \/ MergeChunks \/ EndMergeRound
    <3>1. UNCHANGED <<args, map, active, processed, phase>> /\ main # "failed"
      BY <2>3 DEF AwaitChunk, LeaveLoop, Join, MergeChunks, EndMergeRound, UnchangedByMain
    <3> QED
      BY <1>1, <3>1
  <2>4. CASE EndChunk
    <3>1. UNCHANGED <<args, map, active, processed, phase>> /\ main # "failed"
      BY <2>4 DEF EndChunk, UnchangedByMain
    <3> QED
      BY <1>1, <3>1
  <2>5. ~Stop /\ ~MergeChunksFails
    BY DEF Stop, MergeChunksFails
  <2> QED
    BY <1>7, <2>1, <2>2, <2>3, <2>4, <2>5 DEF MainStep
<1> QED
  BY <1>2, <1>3, <1>4, <1>5, <1>6, <1>7 DEF Next

-----------------------------------------------------------------------------
(* The invariant and what it implies. *)

(* The stages follow one another. *)
LEMMA StageStep == ASSUME Types, StageInv, [Next]_vars PROVE StageInv'
<1>1. CASE Next
  BY <1>1, FromSetup, FromCrippled, FromBetween, FromSorting, FromRoundHead, FromPairs,
     FromReducing, FromStopping, FromOver DEF StageInv
<1>2. CASE UNCHANGED vars
  <2>1. /\ UNCHANGED <<args, phase, map, active, main, mainNext, pc, next, mine, work>>
        /\ Running' = Running
    BY <1>2 DEF vars, mainVars, workerVars, Running
  <2>2. MainAway' = MainAway
    BY <2>1 DEF MainAway
  <2>3. CASE Setup \/ Crippled \/ Between \/ Stopping \/ Over
    BY <2>1, <2>3 DEF StageInv, Setup, Crippled, Between, Stopping, Over, Waits
  <2>4. CASE Sorting
    BY <2>1, <2>2, <2>4 DEF StageInv, Sorting, OneOwner, Waits
  <2>5. CASE RoundHead
    BY <2>1, <2>2, <2>5 DEF StageInv, RoundHead, Waits, Late, Early
  <2>6. CASE Pairs
    BY <2>1, <2>2, <2>6 DEF StageInv, Pairs, OneOwner, Waits, Late, Early, Free
  <2>7. CASE Reducing
    BY <2>1, <2>2, <2>7 DEF StageInv, Reducing, Waits, Late, Early
  <2> QED
    BY <2>3, <2>4, <2>5, <2>6, <2>7 DEF StageInv
<1> QED
  BY <1>1, <1>2

(* The inductive invariant. *)
LEMMA SortInvariant == Spec => []SortInv
<1>1. Init => SortInv
  <2> SUFFICES ASSUME Init PROVE SortInv
    OBVIOUS
  <2>1. TileInv
    BY DEF Init, TileInv
  <2>2. StageInv
    BY DEF Init, StageInv, Setup
  <2> QED
    BY <2>1, <2>2, InitTypes DEF SortInv
<1>2. SortInv /\ [Next]_vars => SortInv'
  BY StepTypes, TileStep, StageStep DEF SortInv
<1> QED
  BY <1>1, <1>2, PTL DEF Spec

(* The types of all variables but the contents of the file and the lists   *)
(* of chunks, which EverythingTyped adds.                                  *)
THEOREM TypeCorrect == Spec => []Types
<1>1. SortInv => Types
  BY DEF SortInv
<1> QED
  BY <1>1, SortInvariant, PTL

(* Who sorts or merges is one of the running threads, in a chunk, and what *)
(* it has claimed is among the active blocks and its own.                  *)
LEMMA Owners ==
    ASSUME SortInv
    PROVE  /\ Working # {} => MainAway
           /\ \A w \in Working : IF pc[w] = "sorting"
                                 THEN work[w] \in 0..active-1
                                 ELSE 2 * work[w] \in 0..active-1 /\ 2 * work[w] + 1 \in 0..active-1
           /\ \A v, w \in Working : v # w => pc[v] = pc[w] /\ work[v] # work[w]
<1>0. /\ Types /\ StageInv /\ active \in Nat /\ \A w \in Workers : work[w] \in Nat
  BY ArgsFacts DEF SortInv, Types, MapTypes, ProcTypes
<1>1. Working \subseteq Running /\ Running \subseteq Nat /\ Running \subseteq Workers
  BY <1>0, ArgsFacts DEF Working, Types, MapTypes, ProcTypes, Running
<1>2. \A i \in Nat : i < active \div 2 => 2*i \in 0..active-1 /\ 2*i + 1 \in 0..active-1
  BY <1>0
<1>3. CASE Setup \/ Crippled \/ Between \/ Reducing \/ Stopping \/ Over
  <2>1. Working = {}
    BY <1>1, <1>3 DEF Working, Setup, Crippled, Between, Reducing, Stopping, Over, Waits
  <2> QED
    BY <2>1
<1>4. CASE Sorting
  <2>1. \A w \in Working : pc[w] = "sorting" /\ work[w] < active
    BY <1>1, <1>4 DEF Sorting, Working, Waits
  <2>2. MainAway /\ \A v, w \in Working : v # w => work[v] # work[w]
    BY <1>1, <1>4, <2>1 DEF Sorting, OneOwner
  <2> QED
    BY <1>0, <1>1, <2>1, <2>2
<1>5. CASE RoundHead
  <2>1. \A w \in Working : pc[w] = "merging" /\ work[w] = w /\ w < active \div 2
    BY <1>1, <1>5 DEF RoundHead, Working, Waits
  <2>2. MainAway
    BY <1>5 DEF RoundHead
  <2> QED
    BY <1>0, <1>1, <1>2, <2>1, <2>2
<1>6. CASE Pairs
  <2>1. \A w \in Working : pc[w] = "merging" /\ work[w] < active \div 2
    BY <1>1, <1>6 DEF Pairs, Working, Waits
  <2>2. MainAway /\ \A v, w \in Working : v # w => work[v] # work[w]
    BY <1>1, <1>6, <2>1 DEF Pairs, OneOwner
  <2> QED
    BY <1>0, <1>1, <1>2, <2>1, <2>2
<1> QED
  BY <1>0, <1>3, <1>4, <1>5, <1>6 DEF StageInv

(* No two workers ever touch the same record, and nobody works on a chunk  *)
(* main has unmapped.                                                      *)
THEOREM NobodyInTheWay == Spec => []WorkIsSafe
<1>1. ASSUME SortInv PROVE MappedWhileUsed
  BY <1>1, Owners DEF MappedWhileUsed, MainAway
<1>2. ASSUME SortInv, NEW v \in Working, NEW w \in Working, v # w, work[v] < work[w]
      PROVE  Region(v) \cap Region(w) = {}
  <2>1. phase = 1 /\ main # "failed"
    BY <1>2, Owners DEF MainAway
  <2>2. \A i, j \in 0..active-1 : i < j => map[i].offset + map[i].size <= map[j].offset
    BY <1>2, <2>1 DEF SortInv, TileInv, Tile
  <2>3. /\ work[v] \in Nat /\ work[w] \in Nat /\ active \in 0..args.blocks /\ args.blocks \in Nat
        /\ \A i \in 0..active-1 : map[i] \in Block
    <3>1. v \in Workers /\ w \in Workers
      BY DEF Working
    <3>2. /\ args \in Args /\ active \in 0..args.blocks
          /\ map \in [0..args.blocks-1 -> Block] /\ work \in [Workers -> 0..args.blocks-1]
      BY <1>2 DEF SortInv, Types, MapTypes, ProcTypes
    <3>3. args.blocks \in Nat
      BY <3>2, ArgsFacts
    <3>4. work[v] \in Nat /\ work[w] \in Nat
      BY <3>1, <3>2, <3>3
    <3>5. active \in Nat /\ 0..active-1 \subseteq 0..args.blocks-1
      BY <3>2, <3>3
    <3>6. \A i \in 0..active-1 : map[i] \in Block
      BY <3>2, <3>5
    <3> QED
      BY <3>2, <3>3, <3>4, <3>6, Zenon
  <2>4. \A i \in 0..active-1 : map[i].offset \in Nat /\ map[i].size \in Nat
    BY <2>3 DEF Block
  <2>5. pc[v] = pc[w]
    BY <1>2, Owners
  <2>6. CASE pc[v] = "sorting"
    <3>1. work[v] \in 0..active-1 /\ work[w] \in 0..active-1
      BY <1>2, <2>5, <2>6, Owners
    <3>2. map[work[v]].offset + map[work[v]].size <= map[work[w]].offset
      BY <1>2, <2>2, <3>1
    <3>3. /\ Region(v) = map[work[v]].offset .. map[work[v]].offset + map[work[v]].size - 1
          /\ Region(w) = map[work[w]].offset .. map[work[w]].offset + map[work[w]].size - 1
      BY <2>5, <2>6 DEF Region
    <3>4. /\ map[work[v]].offset \in Int /\ map[work[v]].offset + map[work[v]].size \in Int
          /\ map[work[w]].offset \in Int /\ map[work[w]].offset + map[work[w]].size \in Int
      BY <2>4, <3>1
    <3> DEFINE a == map[work[v]].offset
               b == map[work[v]].offset + map[work[v]].size
               c == map[work[w]].offset
               d == map[work[w]].offset + map[work[w]].size
    <3>5. Region(v) = a .. b - 1 /\ Region(w) = c .. d - 1
      <4>1. map[work[v]].offset + map[work[v]].size - 1 = b - 1
        BY <2>4, <3>1
      <4>2. map[work[w]].offset + map[work[w]].size - 1 = d - 1
        BY <2>4, <3>1
      <4> HIDE DEF b, d
      <4> QED
        BY <3>3, <4>1, <4>2, Zenon
    <3>6. a \in Int /\ b \in Int /\ c \in Int /\ d \in Int /\ b <= c
      BY <3>2, <3>4
    <3> HIDE DEF a, b, c, d
    <3>9. (a .. b - 1) \cap (c .. d - 1) = {}
      BY <3>6
    <3> QED
      BY <3>5, <3>9, Zenon
  <2>7. CASE pc[v] # "sorting"
    <3> DEFINE i == 2 * work[v]
               k == 2 * work[v] + 1
               j == 2 * work[w]
               l == 2 * work[w] + 1
    <3>1. {i, k, j, l} \subseteq 0..active-1
      BY <1>2, <2>5, <2>7, Owners
    <3>2. k < j
      BY <1>2, <2>3
    <3>3. Region(v) = map[i].offset .. map[k].offset + map[k].size - 1
      BY <2>7 DEF Region
    <3>4. Region(w) = map[j].offset .. map[l].offset + map[l].size - 1
      BY <2>5, <2>7 DEF Region
    <3> HIDE DEF i, j, k, l
    <3>5. map[k].offset + map[k].size <= map[j].offset
      BY <2>2, <3>1, <3>2
    <3>6. /\ map[i].offset \in Int /\ map[k].offset + map[k].size \in Int
          /\ map[j].offset \in Int /\ map[l].offset + map[l].size \in Int
      BY <2>4, <3>1
    <3> DEFINE a == map[i].offset
               b == map[k].offset + map[k].size
               c == map[j].offset
               d == map[l].offset + map[l].size
    <3>7. Region(v) = a .. b - 1 /\ Region(w) = c .. d - 1
      <4>1. map[k].offset + map[k].size - 1 = b - 1
        BY <2>4, <3>1
      <4>2. map[l].offset + map[l].size - 1 = d - 1
        BY <2>4, <3>1
      <4> HIDE DEF b, d
      <4> QED
        BY <3>3, <3>4, <4>1, <4>2, Zenon
    <3>8. a \in Int /\ b \in Int /\ c \in Int /\ d \in Int /\ b <= c
      BY <3>5, <3>6
    <3> HIDE DEF a, b, c, d
    <3>9. (a .. b - 1) \cap (c .. d - 1) = {}
      BY <3>8
    <3> QED
      BY <3>7, <3>9, Zenon
  <2> QED
    BY <2>6, <2>7
<1>3. ASSUME SortInv PROVE DisjointWork
  <2> SUFFICES ASSUME NEW v \in Working, NEW w \in Working, v # w
               PROVE  Region(v) \cap Region(w) = {}
    BY DEF DisjointWork
  <2>1. work[v] # work[w]
    BY <1>3, Owners
  <2>2. work[v] \in Nat /\ work[w] \in Nat
    <3>1. v \in Workers /\ w \in Workers
      BY DEF Working
    <3> QED
      BY <1>3, <3>1, ArgsFacts DEF SortInv, Types, MapTypes, ProcTypes
  <2>3. work[v] < work[w] \/ work[w] < work[v]
    BY <2>1, <2>2
  <2>4. CASE work[v] < work[w]
    BY <1>2, <1>3, <2>4
  <2>5. CASE work[w] < work[v]
    <3>1. Region(w) \cap Region(v) = {}
      BY <1>2, <1>3, <2>5
    <3> QED
      BY <3>1
  <2> QED
    BY <2>3, <2>4, <2>5
<1>4. SortInv => WorkIsSafe
  BY <1>1, <1>3 DEF WorkIsSafe
<1> QED
  BY <1>4, SortInvariant, PTL

(* The active blocks cover the chunk without a gap, whatever its size and  *)
(* however many rounds have halved their number.                           *)
THEOREM NothingLeftOut == Spec => []BlocksTileChunk
<1>1. SortInv => BlocksTileChunk
  BY DEF SortInv, TileInv, Tile, BlocksTileChunk
<1> QED
  BY <1>1, SortInvariant, PTL

(* Whoever comes to the reduction of a late round finds every pair merged. *)
THEOREM RoundsAreComplete == Spec => []LateRoundComplete
<1>1. ASSUME SortInv, NEW w \in Workers, pc[w] = "reduce", ~Early(mine[w]), active = mine[w]
      PROVE  \A i \in 0..active \div 2 - 1 : map[i].state = "done"
  <2>0. /\ StageInv /\ w \in Running /\ 0 \in Running /\ mine[0] \in Nat
    BY <1>1, ArgsFacts DEF SortInv, Types, MapTypes, ProcTypes
  <2>1. Reducing
    BY <1>1, <2>0 DEF StageInv, Setup, Crippled, Between, Sorting, RoundHead, Pairs,
                      Stopping, Over, Waits
  <2>2. mine[w] = mine[0] /\ mine[0] > 1
    BY <2>0, <2>1 DEF Reducing
  <2>3. pc[0] = "reduce"
    <3>1. (mine[0] + 1) \div 2 # mine[0]
      <4>1. PICK n \in Nat : n = mine[0] /\ n > 1
        BY <2>0, <2>2
      <4>2. (n + 1) \div 2 # n
        BY <4>1
      <4> QED
        BY <4>1, <4>2
    <3> QED
      BY <1>1, <2>1, <2>2, <3>1 DEF Reducing
  <2>4. Late(active)
    BY <1>1, <2>2 DEF Late
  <2> QED
    BY <2>1, <2>3, <2>4 DEF Reducing
<1>2. SortInv => LateRoundComplete
  BY <1>1 DEF LateRoundComplete
<1> QED
  BY <1>2, SortInvariant, PTL

-----------------------------------------------------------------------------
(* Sequences of keys: how often a key occurs, runs, and writing a run back. *)

Before == {p \in Nat \X Nat : p[1] < p[2]}

(* Every set of numbers has a least one.  Below, induction is by the least *)
(* number for which the claim is wrong.                                    *)
LEMMA LeastNat ==
    ASSUME NEW T \in SUBSET Nat, T # {}
    PROVE  \E n \in T : \A m \in T : n <= m
<1>1. IsWellFoundedOn(Before, Nat)
  BY NatLessThanWellFounded DEF OpToRel, Before
<1>2. PICK n \in T : \A m \in T : ~(<<m, n>> \in Before)
  BY <1>1, WFMin
<1>3. ASSUME NEW m \in T PROVE n <= m
  <2>1. ~(<<m, n>> \in Before) /\ m \in Nat /\ n \in Nat
    BY <1>2
  <2> QED
    BY <2>1 DEF Before
<1> QED
  BY <1>3

(* How often a key occurs in a sequence is a number. *)
LEMMA PlacesFinite ==
    ASSUME NEW s \in Seq(Keys), NEW k
    PROVE  /\ IsFiniteSet({i \in DOMAIN s : s[i] = k})
           /\ Occurs(s, k) \in Nat
<1>1. Len(s) \in Nat /\ DOMAIN s = 1..Len(s)
  BY LenProperties
<1>2. IsFiniteSet(1..Len(s))
  BY <1>1, FS_Interval
<1>3. {i \in DOMAIN s : s[i] = k} \in SUBSET (1..Len(s))
  BY <1>1
<1>4. IsFiniteSet({i \in DOMAIN s : s[i] = k})
  BY <1>2, <1>3, FS_Subset
<1> QED
  BY <1>4, FS_CardinalityType DEF Occurs

(* Two sequences together have the records of both. *)
LEMMA OccursConcat ==
    ASSUME NEW s \in Seq(Keys), NEW t \in Seq(Keys), NEW k
    PROVE  Occurs(s \o t, k) = Occurs(s, k) + Occurs(t, k)
<1> DEFINE n == Len(s)
           m == Len(t)
           u == s \o t
           A == {i \in DOMAIN s : s[i] = k}
           B == {i \in DOMAIN t : t[i] = k}
           C == {i \in n+1..n+m : u[i] = k}
<1>1. /\ n \in Nat /\ m \in Nat /\ DOMAIN s = 1..n /\ DOMAIN t = 1..m
      /\ u \in Seq(Keys) /\ Len(u) = n + m
      /\ DOMAIN u = 1..n+m
      /\ \A i \in 1..n+m : u[i] = IF i <= n THEN s[i] ELSE t[i-n]
  BY ConcatProperties, LenProperties
<1>2. IsFiniteSet(A) /\ IsFiniteSet(B) /\ Occurs(s, k) = Cardinality(A) /\ Occurs(t, k) = Cardinality(B)
  BY PlacesFinite DEF Occurs
<1> HIDE DEF n, m, u
<1>3. Cardinality(C) = Cardinality(B) /\ IsFiniteSet(C)
  <2> DEFINE f == [i \in B |-> n + i]
  <2>1. \A i \in B : i \in 1..m /\ n + i \in n+1..n+m /\ u[n+i] = t[i]
    <3> TAKE i \in B
    <3>1. i \in 1..m /\ n + i \in 1..n+m /\ n + i \in n+1..n+m /\ ~(n + i <= n) /\ (n + i) - n = i
      BY <1>1
    <3> QED
      BY <1>1, <3>1
  <2>2. f \in [B -> C]
    BY <2>1
  <2>3. \A i, j \in B : f[i] = f[j] => i = j
    BY <1>1, <2>1
  <2>4. \A j \in C : \E i \in B : f[i] = j
    <3> TAKE j \in C
    <3>1. j - n \in 1..m /\ j \in 1..n+m /\ ~(j <= n) /\ n + (j - n) = j
      BY <1>1
    <3>2. t[j - n] = k
      BY <1>1, <3>1
    <3>3. j - n \in B
      BY <1>1, <3>1, <3>2
    <3> QED
      BY <3>1, <3>3
  <2> HIDE DEF f, B, C
  <2>5. f \in Bijection(B, C)
    BY <2>2, <2>3, <2>4, Fun_IsBij
  <2> QED
    BY <1>2, <2>5, FS_Bijection DEF ExistsBijection
<1>4. A \cap C = {} /\ {i \in DOMAIN u : u[i] = k} = A \cup C
  <2>1. A \cap C = {}
    BY <1>1
  <2>2. \A i : i \in 1..n+m <=> (i \in 1..n \/ i \in n+1..n+m)
    BY <1>1
  <2>3. \A i \in 1..n : u[i] = s[i]
    BY <1>1
  <2> QED
    BY <1>1, <2>1, <2>2, <2>3
<1>5. Cardinality(A \cup C) = Cardinality(A) + Cardinality(C)
  <2>1. Cardinality(A \cap C) = 0
    BY <1>4, FS_EmptySet
  <2>2. Cardinality(A) \in Nat /\ Cardinality(C) \in Nat
    BY <1>2, <1>3, FS_CardinalityType
  <2> HIDE DEF A, C
  <2>3. Cardinality(A \cup C) = Cardinality(A) + Cardinality(C) - Cardinality(A \cap C)
    BY <1>2, <1>3, FS_Union
  <2> QED
    BY <2>1, <2>2, <2>3
<1>6. Occurs(u, k) = Cardinality(A \cup C)
  BY <1>4 DEF Occurs
<1> QED
  BY <1>2, <1>3, <1>5, <1>6 DEF u

(* What Run reads. *)
LEMMA RunFacts ==
    ASSUME NEW s \in Seq(Keys), NEW o \in Nat, NEW n \in Nat, o + n <= Len(s)
    PROVE  /\ Run(s, o, n) \in Seq(Keys) /\ Len(Run(s, o, n)) = n
           /\ \A i \in 1..n : Run(s, o, n)[i] = s[o + i]
<1>1. \A i \in o+1..o+n : i \in 1..Len(s) /\ s[i] \in Keys
  BY LenProperties, ElementOfSeq
<1>2. o+1 \in Int /\ o+n \in Int
  OBVIOUS
<1>3. /\ SubSeq(s, o+1, o+n) \in Seq(Keys)
      /\ Len(SubSeq(s, o+1, o+n)) = IF o+1 <= o+n THEN o+n - (o+1) + 1 ELSE 0
      /\ \A i \in 1..o+n - (o+1) + 1 : SubSeq(s, o+1, o+n)[i] = s[o+1 + i - 1]
  BY <1>1, <1>2, SubSeqProperties
<1>4. o+n - (o+1) + 1 = n /\ (~(o+1 <= o+n) => n = 0) /\ \A i \in 1..n : o+1 + i - 1 = o + i
  OBVIOUS
<1> QED
  BY <1>3, <1>4 DEF Run

(* Two neighbouring runs are one. *)
LEMMA AdjacentRuns ==
    ASSUME NEW s \in Seq(Keys), NEW o \in Nat, NEW n \in Nat, NEW m \in Nat, o + n + m <= Len(s)
    PROVE  Run(s, o, n) \o Run(s, o + n, m) = Run(s, o, n + m)
<1> DEFINE a == Run(s, o, n)
           b == Run(s, o + n, m)
           c == Run(s, o, n + m)
<1>0. Len(s) \in Nat /\ o + n \in Nat /\ (o + n) + m <= Len(s) /\ o + n <= Len(s)
  BY LenProperties
<1>1. /\ a \in Seq(Keys) /\ Len(a) = n /\ \A i \in 1..n : a[i] = s[o + i]
  BY <1>0, RunFacts
<1>2. /\ b \in Seq(Keys) /\ Len(b) = m /\ \A i \in 1..m : b[i] = s[(o + n) + i]
  BY <1>0, RunFacts
<1>3. /\ c \in Seq(Keys) /\ Len(c) = n + m /\ \A i \in 1..n + m : c[i] = s[o + i]
  <2>1. o + (n + m) <= Len(s) /\ n + m \in Nat
    BY <1>0
  <2> QED
    BY <2>1, RunFacts
<1> HIDE DEF a, b, c
<1>4. /\ a \o b \in Seq(Keys) /\ Len(a \o b) = n + m
      /\ \A i \in 1..n + m : (a \o b)[i] = IF i <= n THEN a[i] ELSE b[i - n]
  BY <1>1, <1>2, ConcatProperties
<1>5. ASSUME NEW i \in 1..n + m PROVE (a \o b)[i] = c[i]
  <2>1. CASE i <= n
    <3>1. i \in 1..n
      BY <2>1
    <3> QED
      BY <1>1, <1>3, <1>4, <2>1, <3>1
  <2>2. CASE ~(i <= n)
    <3>1. i - n \in 1..m /\ (o + n) + (i - n) = o + i
      BY <2>2
    <3> QED
      BY <1>2, <1>3, <1>4, <2>2, <3>1
  <2> QED
    BY <2>1, <2>2
<1>6. a \o b = c
  BY <1>3, <1>4, <1>5, SeqEqual
<1> QED
  BY <1>6 DEF a, b, c

(* What Overwrite leaves. *)
LEMMA OverwriteFacts ==
    ASSUME NEW s \in Seq(Keys), NEW o \in Nat, NEW r \in Seq(Keys), o + Len(r) <= Len(s)
    PROVE  /\ Overwrite(s, o, r) \in [1..Len(s) -> Keys]
           /\ Overwrite(s, o, r) \in Seq(Keys) /\ Len(Overwrite(s, o, r)) = Len(s)
           /\ \A i \in 1..Len(s) : Overwrite(s, o, r)[i] =
                                     IF i \in o+1..o+Len(r) THEN r[i - o] ELSE s[i]
<1>1. Len(s) \in Nat /\ Len(r) \in Nat /\ DOMAIN s = 1..Len(s) /\ \A i \in 1..Len(s) : s[i] \in Keys
  BY LenProperties, ElementOfSeq
<1>2. \A i \in o+1..o+Len(r) : i - o \in 1..Len(r) /\ r[i - o] \in Keys
  BY <1>1, LenProperties, ElementOfSeq
<1>3. Overwrite(s, o, r) = [i \in 1..Len(s) |-> IF i \in o+1..o+Len(r) THEN r[i - o] ELSE s[i]]
  BY <1>1 DEF Overwrite
<1>4. Overwrite(s, o, r) \in [1..Len(s) -> Keys]
  BY <1>1, <1>2, <1>3
<1>5. Overwrite(s, o, r) \in Seq(Keys)
  BY <1>1, <1>4, SeqDef
<1>6. Len(Overwrite(s, o, r)) = Len(s)
  BY <1>1, <1>4, <1>5, LenProperties
<1> QED
  BY <1>3, <1>4, <1>5, <1>6

(* A run apart from what is overwritten stays, and a run within it is part *)
(* of what has been written.                                               *)
LEMMA RunElsewhere ==
    ASSUME NEW s \in Seq(Keys), NEW o \in Nat, NEW r \in Seq(Keys), o + Len(r) <= Len(s),
           NEW p \in Nat, NEW n \in Nat, p + n <= Len(s), p + n <= o \/ o + Len(r) <= p
    PROVE  Run(Overwrite(s, o, r), p, n) = Run(s, p, n)
<1> DEFINE u == Overwrite(s, o, r)
           a == Run(u, p, n)
           b == Run(s, p, n)
<1>1. /\ Len(s) \in Nat /\ Len(r) \in Nat /\ u \in Seq(Keys) /\ Len(u) = Len(s)
      /\ \A i \in 1..Len(s) : u[i] = IF i \in o+1..o+Len(r) THEN r[i - o] ELSE s[i]
  BY OverwriteFacts, LenProperties
<1> HIDE DEF u
<1>2. /\ a \in Seq(Keys) /\ Len(a) = n /\ \A i \in 1..n : a[i] = u[p + i]
  BY <1>1, RunFacts
<1>3. /\ b \in Seq(Keys) /\ Len(b) = n /\ \A i \in 1..n : b[i] = s[p + i]
  BY <1>1, RunFacts
<1>4. ASSUME NEW i \in 1..n PROVE u[p + i] = s[p + i]
  <2>1. p + i \in 1..Len(s) /\ ~(p + i \in o+1..o+Len(r))
    BY <1>1
  <2> QED
    BY <1>1, <2>1
<1> HIDE DEF a, b
<1>5. a = b
  BY <1>2, <1>3, <1>4, SeqEqual
<1> QED
  BY <1>5 DEF a, b, u

(* A run within what has just been written is the run that was written.    *)
LEMMA RunWithin ==
    ASSUME NEW s \in Seq(Keys), NEW o \in Nat, NEW r \in Seq(Keys), o + Len(r) <= Len(s),
           NEW p \in Nat, NEW n \in Nat, p + n <= Len(r)
    PROVE  Run(Overwrite(s, o, r), o + p, n) = Run(r, p, n)
<1> DEFINE u == Overwrite(s, o, r)
           a == Run(u, o + p, n)
           b == Run(r, p, n)
<1>1. /\ Len(s) \in Nat /\ Len(r) \in Nat /\ u \in Seq(Keys) /\ Len(u) = Len(s)
      /\ \A i \in 1..Len(s) : u[i] = IF i \in o+1..o+Len(r) THEN r[i - o] ELSE s[i]
  BY OverwriteFacts, LenProperties
<1> HIDE DEF u
<1>2. /\ a \in Seq(Keys) /\ Len(a) = n /\ \A i \in 1..n : a[i] = u[(o + p) + i]
  <2>1. o + p \in Nat /\ (o + p) + n <= Len(u)
    BY <1>1
  <2> QED
    BY <1>1, <2>1, RunFacts
<1>3. /\ b \in Seq(Keys) /\ Len(b) = n /\ \A i \in 1..n : b[i] = r[p + i]
  BY <1>1, RunFacts
<1>4. ASSUME NEW i \in 1..n PROVE u[(o + p) + i] = r[p + i]
  <2>1. /\ (o + p) + i \in 1..Len(s) /\ (o + p) + i \in o+1..o+Len(r)
        /\ (o + p) + i - o = p + i
    BY <1>1
  <2> QED
    BY <1>1, <2>1
<1> HIDE DEF a, b
<1>5. a = b
  BY <1>2, <1>3, <1>4, SeqEqual
<1> QED
  BY <1>5 DEF a, b, u

(* Overwriting a run by one with the same records keeps the records. *)
LEMMA OverwriteKeeps ==
    ASSUME NEW s \in Seq(Keys), NEW o \in Nat, NEW r \in Seq(Keys), o + Len(r) <= Len(s),
           NEW k, Occurs(r, k) = Occurs(Run(s, o, Len(r)), k)
    PROVE  Occurs(Overwrite(s, o, r), k) = Occurs(s, k)
<1> DEFINE n == Len(r)
           m == Len(s) - (o + n)
           u == Overwrite(s, o, r)
<1>1. /\ n \in Nat /\ m \in Nat /\ Len(s) \in Nat /\ o + n + m = Len(s) /\ n + m \in Nat
      /\ o + n \in Nat /\ 0 \in Nat /\ 0 + o = o /\ o + (n + m) = Len(s)
      /\ u \in Seq(Keys) /\ Len(u) = Len(s)
  BY OverwriteFacts, LenProperties
<1>0. \A x, y \in Seq(Keys) : Occurs(x \o y, k) = Occurs(x, k) + Occurs(y, k)
  BY OccursConcat
<1>2. ASSUME NEW t \in Seq(Keys), Len(t) = Len(s)
      PROVE  Occurs(t, k) = Occurs(Run(t, 0, o), k) + (Occurs(Run(t, o, n), k)
                                                       + Occurs(Run(t, o + n, m), k))
  <2> HIDE DEF n, m, u
  <2> DEFINE a == Run(t, 0, o)
             b == Run(t, o, n)
             c == Run(t, o + n, m)
  <2>1. Run(t, 0, o + (n + m)) = t
    BY <1>1, <1>2, SubSeqFull DEF Run
  <2>2. a \o Run(t, o, n + m) = t
    <3>1. 0 + o + (n + m) <= Len(t) /\ 0 \in Nat /\ o \in Nat /\ n + m \in Nat
      BY <1>1, <1>2
    <3>2. Run(t, 0, o) \o Run(t, 0 + o, n + m) = Run(t, 0, o + (n + m))
      BY <3>1, AdjacentRuns, Zenon
    <3> QED
      BY <1>1, <2>1, <3>2
  <2>3. b \o c = Run(t, o, n + m)
    <3>1. o + n + m <= Len(t) /\ o \in Nat /\ n \in Nat /\ m \in Nat
      BY <1>1, <1>2
    <3> QED
      BY <3>1, AdjacentRuns, Zenon
  <2>4. a \in Seq(Keys) /\ b \in Seq(Keys) /\ c \in Seq(Keys)
    <3>1. 0 + o <= Len(t) /\ o + n <= Len(t) /\ (o + n) + m <= Len(t)
      BY <1>1, <1>2
    <3> QED
      BY <1>1, <3>1, RunFacts
  <2> HIDE DEF a, b, c
  <2>5. b \o c \in Seq(Keys) /\ a \o (b \o c) = t
    BY <2>2, <2>3, <2>4, ConcatProperties
  <2>6. Occurs(a \o (b \o c), k) = Occurs(a, k) + Occurs(b \o c, k)
    BY <2>4, <2>5, <1>0
  <2>7. Occurs(b \o c, k) = Occurs(b, k) + Occurs(c, k)
    BY <2>4, <1>0
  <2>8. Occurs(t, k) = Occurs(a, k) + (Occurs(b, k) + Occurs(c, k))
    BY <2>5, <2>6, <2>7, Zenon
  <2> QED
    BY <2>8 DEF a, b, c
<1>3. Run(u, 0, o) = Run(s, 0, o) /\ Run(u, o + n, m) = Run(s, o + n, m)
  <2> HIDE DEF m
  <2> QED
    BY <1>1, RunElsewhere
<1>4. Run(u, o, n) = r
  <2>1. Run(u, o + 0, n) = Run(r, 0, n)
    BY <1>1, RunWithin
  <2>2. Run(r, 0, n) = r
    BY SubSeqFull, LenProperties DEF Run
  <2> QED
    BY <1>1, <2>1, <2>2
<1> HIDE DEF n, m, u
<1>5. Occurs(Run(u, o, n), k) = Occurs(Run(s, o, n), k)
  BY <1>4 DEF n
<1> QED
  BY <1>1, <1>2, <1>3, <1>5 DEF u

(* A part of a sorted run is sorted. *)
LEMMA SortedPart ==
    ASSUME NEW s \in Seq(Keys), Sorted(s), NEW p \in Nat, NEW n \in Nat, p + n <= Len(s)
    PROVE  Sorted(Run(s, p, n))
<1> DEFINE a == Run(s, p, n)
<1>1. Len(s) \in Nat /\ Len(a) = n /\ \A i \in 1..n : a[i] = s[p + i]
  BY RunFacts, LenProperties
<1> HIDE DEF a
<1>2. ASSUME NEW i \in 1..n-1 PROVE a[i] <= a[i+1]
  <2>1. i \in 1..n /\ i + 1 \in 1..n /\ p + i \in 1..Len(s)-1 /\ p + (i + 1) = (p + i) + 1
    BY <1>1
  <2>2. s[p + i] <= s[(p + i) + 1]
    BY <2>1 DEF Sorted
  <2> QED
    BY <1>1, <2>1, <2>2
<1> QED
  BY <1>1, <1>2 DEF Sorted, a

-----------------------------------------------------------------------------
(* Merging two runs. *)

(* What the loops append from left[i..] and right[j..], when they append   *)
(* m[<<a, b>>] at a later place.                                           *)
Merging(l, r, m, i, j) ==
    IF i > Len(l) \/ j > Len(r)
      THEN SubSeq(l, i, Len(l)) \o SubSeq(r, j, Len(r))
    ELSE IF l[i] <= r[j] THEN <<l[i]>> \o m[<<i + 1, j>>]
                         ELSE <<r[j]>> \o m[<<i, j + 1>>]

(* The records that remain to be merged. *)
Rest(l, r, i, j) == (Len(l) + 1 - i) + (Len(r) + 1 - j)

(* f and g are the same where less than n records remain. *)
Alike(l, r, f, g, n) ==
    \A i \in 1..Len(l)+1, j \in 1..Len(r)+1 : Rest(l, r, i, j) < n => f[<<i, j>>] = g[<<i, j>>]

(* What is appended at a place depends on what is appended later. *)
LEMMA MergingLooksAhead ==
    ASSUME NEW l \in Seq(Keys), NEW r \in Seq(Keys),
           NEW i \in 1..Len(l)+1, NEW j \in 1..Len(r)+1, NEW f, NEW g,
           Alike(l, r, f, g, Rest(l, r, i, j))
    PROVE  Merging(l, r, f, i, j) = Merging(l, r, g, i, j)
<1>1. Len(l) \in Nat /\ Len(r) \in Nat
  BY LenProperties
<1>2. CASE i > Len(l) \/ j > Len(r)
  BY <1>2 DEF Merging
<1>4. CASE ~(i > Len(l)) /\ ~(j > Len(r))
  <2>1. /\ i + 1 \in 1..Len(l)+1 /\ Rest(l, r, i + 1, j) < Rest(l, r, i, j)
        /\ j + 1 \in 1..Len(r)+1 /\ Rest(l, r, i, j + 1) < Rest(l, r, i, j)
    BY <1>1, <1>4 DEF Rest
  <2>2. f[<<i + 1, j>>] = g[<<i + 1, j>>] /\ f[<<i, j + 1>>] = g[<<i, j + 1>>]
    BY <2>1 DEF Alike
  <2> QED
    BY <1>4, <2>2 DEF Merging
<1> QED
  BY <1>2, <1>4

(* So there is a function that gives all of it. *)
LEMMA MergeExists ==
    ASSUME NEW l \in Seq(Keys), NEW r \in Seq(Keys)
    PROVE  \E m : /\ \A i \in 1..Len(l)+1, j \in 1..Len(r)+1 :
                        m[<<i, j>>] = Merging(l, r, m, i, j)
                  /\ MergeRuns(l, r) = m[<<1, 1>>]
<1> DEFINE I == 1..Len(l)+1
           J == 1..Len(r)+1
           Upto(n, f) == \A i \in I, j \in J :
                           Rest(l, r, i, j) < n => f[<<i, j>>] = Merging(l, r, f, i, j)
           Missing == {n \in Nat : ~ \E f : Upto(n, f)}
<1>0. Len(l) \in Nat /\ Len(r) \in Nat
  BY LenProperties
<1>1. \A i \in I, j \in J : Rest(l, r, i, j) \in Nat /\ Rest(l, r, i, j) <= Len(l) + Len(r)
  BY <1>0 DEF Rest
<1>2. ASSUME NEW f, NEW n \in Nat, Upto(n, f) PROVE \E g : Upto(n + 1, g)
  <2> DEFINE g == [p \in I \X J |-> Merging(l, r, f, p[1], p[2])]
  <2>1. \A i \in I, j \in J : g[<<i, j>>] = Merging(l, r, f, i, j)
    <3> HIDE DEF I, J
    <3> QED
      OBVIOUS
  <2> HIDE DEF g
  <2>2. ASSUME NEW i \in I, NEW j \in J, Rest(l, r, i, j) < n + 1
        PROVE  g[<<i, j>>] = Merging(l, r, g, i, j)
    <3>1. Alike(l, r, g, f, Rest(l, r, i, j))
      <4> SUFFICES ASSUME NEW a \in I, NEW b \in J, Rest(l, r, a, b) < Rest(l, r, i, j)
                   PROVE  g[<<a, b>>] = f[<<a, b>>]
        BY DEF Alike
      <4>1. Rest(l, r, a, b) \in Nat /\ Rest(l, r, i, j) \in Nat
        BY <1>1
      <4>2. Rest(l, r, a, b) < n
        BY <2>2, <4>1
      <4> QED
        BY <1>2, <2>1, <4>2
    <3>2. Merging(l, r, g, i, j) = Merging(l, r, f, i, j)
      BY <3>1, MergingLooksAhead
    <3> QED
      BY <2>1, <3>2
  <2> QED
    BY <2>2
<1>3. Missing = {}
  <2>0. SUFFICES ASSUME Missing # {} PROVE FALSE
    OBVIOUS
  <2>1. PICK n \in Nat : n \in Missing /\ \A k \in Missing : n <= k
    BY <2>0, LeastNat
  <2>2. ~ \E f : Upto(n, f)
    BY <2>1
  <2> HIDE DEF Missing
  <2>3. CASE n = 0
    <3>1. Upto(0, <<>>)
      <4>1. \A i \in I, j \in J : ~(Rest(l, r, i, j) < 0)
        BY <1>1
      <4> QED
        BY <4>1, Zenon
    <3> HIDE DEF Upto
    <3> QED
      BY <2>2, <2>3, <3>1
  <2>4. CASE n # 0
    <3>1. n - 1 \in Nat /\ ~(n <= n - 1) /\ (n - 1) + 1 = n
      BY <2>4
    <3>2. n - 1 \notin Missing
      BY <2>1, <3>1
    <3> USE DEF Missing
    <3> HIDE DEF Upto
    <3>3. PICK f : Upto(n - 1, f)
      BY <3>1, <3>2
    <3>4. \E g : Upto((n - 1) + 1, g)
      BY <1>2, <3>1, <3>3
    <3> QED
      BY <2>2, <3>1, <3>4
  <2> QED
    BY <2>3, <2>4
<1>4. PICK f : \A i \in I, j \in J : f[<<i, j>>] = Merging(l, r, f, i, j)
  <2>1. Len(l) + Len(r) + 1 \in Nat
    BY <1>0
  <2>2. PICK f : Upto(Len(l) + Len(r) + 1, f)
    BY <1>3, <2>1
  <2>3. \A i \in I, j \in J : Rest(l, r, i, j) < Len(l) + Len(r) + 1
    BY <1>0, <1>1
  <2> QED
    BY <2>2, <2>3
<1> DEFINE Whole(m) == m = [p \in I \X J |-> Merging(l, r, m, p[1], p[2])]
           h == [p \in I \X J |-> Merging(l, r, f, p[1], p[2])]
<1>5. Whole(h)
  <2>1. \A i \in I, j \in J : h[<<i, j>>] = f[<<i, j>>]
    <3> HIDE DEF I, J
    <3>1. \A i \in I, j \in J : h[<<i, j>>] = Merging(l, r, f, i, j)
      OBVIOUS
    <3> QED
      BY <1>4, <3>1
  <2> HIDE DEF h
  <2>2. ASSUME NEW i \in I, NEW j \in J
        PROVE  Merging(l, r, h, i, j) = Merging(l, r, f, i, j)
    <3>1. Alike(l, r, h, f, Rest(l, r, i, j))
      BY <2>1 DEF Alike
    <3> QED
      BY <3>1, MergingLooksAhead
  <2>3. ASSUME NEW p \in I \X J
        PROVE  Merging(l, r, h, p[1], p[2]) = Merging(l, r, f, p[1], p[2])
    <3>1. p[1] \in I /\ p[2] \in J
      OBVIOUS
    <3> QED
      BY <2>2, <3>1
  <2> QED
    BY <2>3 DEF h
<1> DEFINE m == CHOOSE m : Whole(m)
<1>6. Whole(m)
  <2> HIDE DEF Whole
  <2> QED
    BY <1>5
<1>7. MergeRuns(l, r) = m[<<1, 1>>]
  BY DEF MergeRuns, Merging
<1> HIDE DEF m
<1>8. \A i \in I, j \in J : m[<<i, j>>] = Merging(l, r, m, i, j)
  <2> HIDE DEF I, J
  <2> QED
    BY <1>6
<1> QED
  BY <1>7, <1>8

(* The records from the i-th one on. *)
From(s, i) == SubSeq(s, i, Len(s))

(* Taking the first record off a run.                                      *)
LEMMA FromFacts ==
    ASSUME NEW s \in Seq(Keys), NEW i \in 1..Len(s)+1
    PROVE  /\ From(s, i) \in Seq(Keys) /\ Len(From(s, i)) = Len(s) + 1 - i
           /\ i <= Len(s) => /\ s[i] \in Keys /\ i + 1 \in 1..Len(s)+1
                             /\ From(s, i)[1] = s[i]
                             /\ From(s, i) = <<s[i]>> \o From(s, i + 1)
           /\ i > Len(s) => From(s, i) = <<>>
           /\ Sorted(s) => Sorted(From(s, i))
<1>1. PICK o \in Nat, n \in Nat : o = i - 1 /\ n = Len(s) + 1 - i /\ o + n = Len(s) /\ o + 1 = i
  <2>1. /\ Len(s) \in Nat /\ i - 1 \in Nat /\ Len(s) + 1 - i \in Nat
        /\ (i - 1) + (Len(s) + 1 - i) = Len(s) /\ (i - 1) + 1 = i
    BY LenProperties
  <2> QED
    BY <2>1
<1>2. From(s, i) = Run(s, o, n)
  BY <1>1 DEF From, Run
<1>3. /\ From(s, i) \in Seq(Keys) /\ Len(From(s, i)) = n
      /\ \A x \in 1..n : From(s, i)[x] = s[o + x]
  <2>1. o + n <= Len(s)
    BY <1>1
  <2> QED
    BY <1>2, <2>1, RunFacts
<1>4. ASSUME i <= Len(s)
      PROVE  /\ s[i] \in Keys /\ i + 1 \in 1..Len(s)+1
             /\ From(s, i)[1] = s[i]
             /\ From(s, i) = <<s[i]>> \o From(s, i + 1)
  <2>1. i \in 1..Len(s) /\ Len(s) \in i..Len(s) /\ i + 1 \in 1..Len(s)+1
    BY <1>1, <1>4
  <2>2. 1 \in 1..n
    BY <1>1, <1>4
  <2>3. From(s, i)[1] = s[i]
    BY <1>1, <1>3, <2>2
  <2>4. SubSeq(s, i, Len(s)) = <<s[i]>> \o SubSeq(s, i + 1, Len(s)) /\ s[i] \in Keys
    BY <2>1, ElementOfSeq, SubSeqRecursiveFirst
  <2> QED
    BY <2>1, <2>3, <2>4 DEF From
<1>5. ASSUME i > Len(s) PROVE From(s, i) = <<>>
  <2>1. i \in Int /\ Len(s) \in Int /\ Len(s) < i
    BY <1>5, LenProperties
  <2> QED
    BY <2>1, SubSeqEmpty DEF From
<1>6. Sorted(s) => Sorted(From(s, i))
  <2>1. o + n <= Len(s)
    BY <1>1
  <2> QED
    BY <1>2, <2>1, SortedPart
<1> QED
  BY <1>1, <1>3, <1>4, <1>5, <1>6

(* A record before a sorted run of records that are not smaller. *)
LEMMA SortedCons ==
    ASSUME Keys \subseteq Int, NEW x \in Keys, NEW t \in Seq(Keys), Sorted(t),
           t # <<>> => x <= t[1]
    PROVE  Sorted(<<x>> \o t)
<1>1. /\ <<x>> \in Seq(Keys) /\ Len(<<x>>) = 1 /\ <<x>>[1] = x /\ Len(t) \in Nat
  BY LenProperties
<1>2. /\ Len(<<x>> \o t) = 1 + Len(t)
      /\ \A i \in 1..1 + Len(t) : (<<x>> \o t)[i] = IF i <= 1 THEN <<x>>[i] ELSE t[i - 1]
  BY <1>1, ConcatProperties
<1>3. ASSUME NEW i \in 1..Len(t) PROVE (<<x>> \o t)[i] <= (<<x>> \o t)[i + 1]
  <2>1. (<<x>> \o t)[i + 1] = t[i]
    <3>1. i + 1 \in 1..1 + Len(t) /\ ~(i + 1 <= 1) /\ (i + 1) - 1 = i
      BY <1>1
    <3> QED
      BY <1>2, <3>1
  <2>2. CASE i = 1
    <3>1. t # <<>> /\ 1 \in 1..1 + Len(t)
      BY <1>1, <2>2, EmptySeq
    <3>2. (<<x>> \o t)[1] = x
      BY <1>1, <1>2, <3>1
    <3> QED
      BY <2>1, <2>2, <3>1, <3>2
  <2>3. CASE i # 1
    <3>1. i \in 1..1 + Len(t) /\ ~(i <= 1) /\ i - 1 \in 1..Len(t)-1 /\ (i - 1) + 1 = i
      BY <1>1, <2>3
    <3>2. (<<x>> \o t)[i] = t[i - 1]
      BY <1>2, <3>1
    <3>3. t[i - 1] <= t[(i - 1) + 1]
      BY <3>1 DEF Sorted
    <3> QED
      BY <2>1, <3>1, <3>2, <3>3
  <2> QED
    BY <2>2, <2>3
<1>4. Len(<<x>> \o t) - 1 = Len(t)
  BY <1>1, <1>2
<1> QED
  BY <1>3, <1>4 DEF Sorted

(* t is what merging l and r has to append from their places i and j on. *)
Merged(l, r, t, i, j) ==
    /\ t \in Seq(Keys) /\ Len(t) = Rest(l, r, i, j)
    /\ \A k \in Keys : Occurs(t, k) = Occurs(From(l, i), k) + Occurs(From(r, j), k)
    /\ Sorted(l) /\ Sorted(r) =>
         /\ Sorted(t)
         /\ \A x \in Keys : /\ i <= Len(l) => x <= l[i]
                            /\ j <= Len(r) => x <= r[j]
                            /\ t # <<>>
                            => x <= t[1]

(* One of the runs is used up. *)
LEMMA MergedAtEnd ==
    ASSUME NEW l \in Seq(Keys), NEW r \in Seq(Keys),
           NEW i \in 1..Len(l)+1, NEW j \in 1..Len(r)+1, i > Len(l) \/ j > Len(r)
    PROVE  Merged(l, r, From(l, i) \o From(r, j), i, j)
<1>0. \A x, y \in Seq(Keys) : x \o y \in Seq(Keys) /\ Len(x \o y) = Len(x) + Len(y)
  BY ConcatProperties
<1> DEFINE a == From(l, i)
           b == From(r, j)
<1>1. /\ Len(l) \in Nat /\ Len(r) \in Nat
      /\ a \in Seq(Keys) /\ Len(a) = Len(l) + 1 - i
      /\ b \in Seq(Keys) /\ Len(b) = Len(r) + 1 - j
      /\ i > Len(l) => a = <<>>
      /\ j > Len(r) => b = <<>>
      /\ Sorted(l) => Sorted(a)
      /\ Sorted(r) => Sorted(b)
  BY FromFacts, LenProperties
<1>2. i <= Len(l) => a[1] = l[i]
  BY FromFacts
<1>3. j <= Len(r) => b[1] = r[j]
  BY FromFacts
<1>4. i > Len(l) <=> ~(i <= Len(l))
  BY <1>1
<1>5. j > Len(r) <=> ~(j <= Len(r))
  BY <1>1
<1> HIDE DEF a, b
<1>6. a \o b \in Seq(Keys) /\ Len(a \o b) = Rest(l, r, i, j)
  <2>1. a \o b \in Seq(Keys) /\ Len(a \o b) = Len(a) + Len(b)
    <3>1. a \in Seq(Keys) /\ b \in Seq(Keys)
      BY <1>1
    <3> QED
      BY <1>0, <3>1
  <2> QED
    BY <1>1, <2>1 DEF Rest
<1>7. ASSUME NEW k \in Keys PROVE Occurs(a \o b, k) = Occurs(a, k) + Occurs(b, k)
  BY <1>1, OccursConcat
<1>8. \/ i > Len(l) /\ a \o b = b
      \/ j > Len(r) /\ a \o b = a
  BY <1>1, ConcatEmptySeq
<1>9. ASSUME Sorted(l), Sorted(r)
      PROVE  /\ Sorted(a \o b)
             /\ \A x \in Keys : /\ i <= Len(l) => x <= l[i]
                                /\ j <= Len(r) => x <= r[j]
                                /\ a \o b # <<>>
                                => x <= (a \o b)[1]
  <2>1. CASE i > Len(l) /\ a \o b = b
    <3>1. b # <<>> => b[1] = r[j] /\ j <= Len(r)
      BY <1>1, <1>3, <1>5
    <3> QED
      BY <1>1, <1>9, <2>1, <3>1
  <2>2. CASE j > Len(r) /\ a \o b = a
    <3>1. a # <<>> => a[1] = l[i] /\ i <= Len(l)
      BY <1>1, <1>2, <1>4
    <3> QED
      BY <1>1, <1>9, <2>2, <3>1
  <2> QED
    BY <1>8, <2>1, <2>2
<1>10. Merged(l, r, a \o b, i, j)
  BY <1>6, <1>7, <1>9 DEF Merged, a, b
<1> QED
  BY <1>10 DEF a, b

(* One record, and then what is left. *)
LEMMA MergedStep ==
    ASSUME Keys \subseteq Int, NEW l \in Seq(Keys), NEW r \in Seq(Keys),
           NEW i \in 1..Len(l), NEW j \in 1..Len(r), NEW t
    PROVE  /\ l[i] <= r[j] /\ Merged(l, r, t, i + 1, j) => Merged(l, r, <<l[i]>> \o t, i, j)
           /\ ~(l[i] <= r[j]) /\ Merged(l, r, t, i, j + 1) => Merged(l, r, <<r[j]>> \o t, i, j)
<1>a. \A x, y \in Seq(Keys) : x \o y \in Seq(Keys) /\ Len(x \o y) = Len(x) + Len(y)
  BY ConcatProperties
<1>b. \A x, y \in Seq(Keys), k \in Keys : Occurs(x \o y, k) = Occurs(x, k) + Occurs(y, k)
  BY OccursConcat
<1>c. \A s \in Seq(Keys), k \in Keys : Occurs(s, k) \in Nat
  BY PlacesFinite
<1>d. \A x \in Keys : <<x>> \in Seq(Keys) /\ Len(<<x>>) = 1
  BY LenProperties
<1>1. PICK a, b : a = l[i] /\ b = r[j]
  OBVIOUS
<1>2. PICK p, q : p = i + 1 /\ q = j + 1
  OBVIOUS
<1>3. /\ Len(l) \in Nat /\ Len(r) \in Nat /\ i \in 1..Len(l)+1 /\ j \in 1..Len(r)+1
      /\ i <= Len(l) /\ j <= Len(r) /\ p \in 1..Len(l)+1 /\ q \in 1..Len(r)+1
      /\ a \in Keys /\ b \in Keys
      /\ <<a>> \in Seq(Keys) /\ Len(<<a>>) = 1
      /\ <<b>> \in Seq(Keys) /\ Len(<<b>>) = 1
  BY <1>1, <1>2, <1>d, LenProperties, ElementOfSeq
<1>4. /\ From(l, i) \in Seq(Keys) /\ From(l, p) \in Seq(Keys)
      /\ From(l, i) = <<a>> \o From(l, p)
      /\ From(r, j) \in Seq(Keys) /\ From(r, q) \in Seq(Keys)
      /\ From(r, j) = <<b>> \o From(r, q)
  BY <1>1, <1>2, <1>3, FromFacts
<1>5. /\ Sorted(l) => (p <= Len(l) => a <= l[p])
      /\ Sorted(r) => (q <= Len(r) => b <= r[q])
  BY <1>1, <1>2, <1>3 DEF Sorted
<1>6. \A x \in Keys, s \in Seq(Keys) : (<<x>> \o s)[1] = x
  BY ConcatProperties, LenProperties
<1>7. ASSUME a <= b, Merged(l, r, t, p, j) PROVE Merged(l, r, <<a>> \o t, i, j)
  <2>1. t \in Seq(Keys) /\ Len(t) = Rest(l, r, p, j)
    BY <1>7 DEF Merged
  <2>2. <<a>> \o t \in Seq(Keys) /\ Len(<<a>> \o t) = Rest(l, r, i, j)
    <3>1. <<a>> \o t \in Seq(Keys) /\ Len(<<a>> \o t) = 1 + Len(t)
      BY <1>a, <1>3, <2>1
    <3>2. 1 + Rest(l, r, p, j) = Rest(l, r, i, j)
      BY <1>2, <1>3 DEF Rest
    <3> QED
      BY <2>1, <3>1, <3>2
  <2>3. ASSUME NEW k \in Keys
        PROVE  Occurs(<<a>> \o t, k) = Occurs(From(l, i), k) + Occurs(From(r, j), k)
    <3>1. Occurs(t, k) = Occurs(From(l, p), k) + Occurs(From(r, j), k)
      BY <1>7 DEF Merged
    <3>2. Occurs(<<a>> \o t, k) = Occurs(<<a>>, k) + Occurs(t, k)
      BY <1>b, <1>3, <2>1
    <3>3. Occurs(From(l, i), k) = Occurs(<<a>>, k) + Occurs(From(l, p), k)
      <4>1. <<a>> \in Seq(Keys) /\ From(l, p) \in Seq(Keys)
        BY <1>3, <1>4
      <4>2. Occurs(<<a>> \o From(l, p), k) = Occurs(<<a>>, k) + Occurs(From(l, p), k)
        BY <1>b, <4>1, Zenon
      <4> QED
        BY <1>4, <4>2, Zenon
    <3>4. /\ Occurs(<<a>>, k) \in Nat /\ Occurs(From(l, p), k) \in Nat
          /\ Occurs(From(r, j), k) \in Nat
      BY <1>c, <1>3, <1>4
    <3> QED
      BY <3>1, <3>2, <3>3, <3>4
  <2>4. ASSUME Sorted(l), Sorted(r)
        PROVE  /\ Sorted(<<a>> \o t)
               /\ \A x \in Keys : x <= l[i] => x <= (<<a>> \o t)[1]
    <3>1. Sorted(t) /\ (p <= Len(l) => a <= l[p]) /\ (t # <<>> => a <= t[1])
      BY <1>1, <1>3, <1>5, <1>7, <2>4 DEF Merged
    <3>2. Sorted(<<a>> \o t)
      BY <1>3, <2>1, <3>1, SortedCons
    <3>3. (<<a>> \o t)[1] = a
      BY <1>3, <1>6, <2>1
    <3> QED
      BY <1>1, <3>2, <3>3
  <2> QED
    BY <1>3, <2>2, <2>3, <2>4 DEF Merged
<1>8. ASSUME ~(a <= b), Merged(l, r, t, i, q) PROVE Merged(l, r, <<b>> \o t, i, j)
  <2>1. t \in Seq(Keys) /\ Len(t) = Rest(l, r, i, q)
    BY <1>8 DEF Merged
  <2>2. <<b>> \o t \in Seq(Keys) /\ Len(<<b>> \o t) = Rest(l, r, i, j)
    <3>1. <<b>> \o t \in Seq(Keys) /\ Len(<<b>> \o t) = 1 + Len(t)
      BY <1>a, <1>3, <2>1
    <3>2. 1 + Rest(l, r, i, q) = Rest(l, r, i, j)
      BY <1>2, <1>3 DEF Rest
    <3> QED
      BY <2>1, <3>1, <3>2
  <2>3. ASSUME NEW k \in Keys
        PROVE  Occurs(<<b>> \o t, k) = Occurs(From(l, i), k) + Occurs(From(r, j), k)
    <3>1. Occurs(t, k) = Occurs(From(l, i), k) + Occurs(From(r, q), k)
      BY <1>8 DEF Merged
    <3>2. Occurs(<<b>> \o t, k) = Occurs(<<b>>, k) + Occurs(t, k)
      BY <1>b, <1>3, <2>1
    <3>3. Occurs(From(r, j), k) = Occurs(<<b>>, k) + Occurs(From(r, q), k)
      <4>1. <<b>> \in Seq(Keys) /\ From(r, q) \in Seq(Keys)
        BY <1>3, <1>4
      <4>2. Occurs(<<b>> \o From(r, q), k) = Occurs(<<b>>, k) + Occurs(From(r, q), k)
        BY <1>b, <4>1, Zenon
      <4> QED
        BY <1>4, <4>2, Zenon
    <3>4. /\ Occurs(<<b>>, k) \in Nat /\ Occurs(From(l, i), k) \in Nat
          /\ Occurs(From(r, q), k) \in Nat
      BY <1>c, <1>3, <1>4
    <3> QED
      BY <3>1, <3>2, <3>3, <3>4
  <2>4. ASSUME Sorted(l), Sorted(r)
        PROVE  /\ Sorted(<<b>> \o t)
               /\ \A x \in Keys : x <= r[j] => x <= (<<b>> \o t)[1]
    <3>0. b <= a
      BY <1>3, <1>8
    <3>1. Sorted(t) /\ (q <= Len(r) => b <= r[q]) /\ (t # <<>> => b <= t[1])
      BY <1>1, <1>3, <1>5, <1>8, <2>4, <3>0 DEF Merged
    <3>2. Sorted(<<b>> \o t)
      BY <1>3, <2>1, <3>1, SortedCons
    <3>3. (<<b>> \o t)[1] = b
      BY <1>3, <1>6, <2>1
    <3> QED
      BY <1>1, <3>2, <3>3
  <2> QED
    BY <1>3, <2>2, <2>3, <2>4 DEF Merged
<1> QED
  BY <1>1, <1>2, <1>7, <1>8

(* merge_two_runs: all records of both runs, in order when both are. *)
LEMMA MergeFacts ==
    ASSUME NEW l \in Seq(Keys), NEW r \in Seq(Keys)
    PROVE  /\ MergeRuns(l, r) \in Seq(Keys)
           /\ Len(MergeRuns(l, r)) = Len(l) + Len(r)
           /\ \A k \in Keys : Occurs(MergeRuns(l, r), k) = Occurs(l, k) + Occurs(r, k)
           /\ Sorted(l) /\ Sorted(r) => Sorted(MergeRuns(l, r))
<1>0. Len(l) \in Nat /\ Len(r) \in Nat /\ Keys \subseteq Int
  BY LenProperties, SortAssumption
<1>1. PICK m : /\ \A i \in 1..Len(l)+1, j \in 1..Len(r)+1 :
                     m[<<i, j>>] = Merging(l, r, m, i, j)
               /\ MergeRuns(l, r) = m[<<1, 1>>]
  BY MergeExists
<1> DEFINE Wrong == {n \in Nat : \E i \in 1..Len(l)+1, j \in 1..Len(r)+1 :
                       n = Rest(l, r, i, j) /\ ~Merged(l, r, m[<<i, j>>], i, j)}
<1>2. Wrong = {}
  <2>0. SUFFICES ASSUME Wrong # {} PROVE FALSE
    OBVIOUS
  <2>1. PICK n \in Nat : n \in Wrong /\ \A k \in Wrong : n <= k
    BY <2>0, LeastNat
  <2>2. PICK i \in 1..Len(l)+1, j \in 1..Len(r)+1 :
               n = Rest(l, r, i, j) /\ ~Merged(l, r, m[<<i, j>>], i, j)
    BY <2>1
  <2>3. ASSUME NEW a \in 1..Len(l)+1, NEW b \in 1..Len(r)+1,
               Rest(l, r, a, b) \in Nat, Rest(l, r, a, b) < n
        PROVE  Merged(l, r, m[<<a, b>>], a, b)
    <3>1. Rest(l, r, a, b) \notin Wrong
      <4> HIDE DEF Wrong
      <4> QED
        BY <2>1, <2>3
    <3> QED
      BY <2>3, <3>1
  <2> HIDE DEF Wrong
  <2>4. CASE i > Len(l) \/ j > Len(r)
    <3>1. m[<<i, j>>] = From(l, i) \o From(r, j)
      BY <1>1, <2>4 DEF Merging, From
    <3> QED
      BY <2>2, <2>4, <3>1, MergedAtEnd
  <2>5. CASE ~(i > Len(l)) /\ ~(j > Len(r))
    <3>1. /\ i \in 1..Len(l) /\ j \in 1..Len(r)
          /\ i + 1 \in 1..Len(l)+1 /\ j + 1 \in 1..Len(r)+1
      BY <1>0, <2>5
    <3>2. /\ Rest(l, r, i + 1, j) \in Nat /\ Rest(l, r, i + 1, j) < n
          /\ Rest(l, r, i, j + 1) \in Nat /\ Rest(l, r, i, j + 1) < n
      BY <1>0, <2>2, <3>1 DEF Rest
    <3>3. Merged(l, r, m[<<i + 1, j>>], i + 1, j) /\ Merged(l, r, m[<<i, j + 1>>], i, j + 1)
      BY <2>3, <3>1, <3>2
    <3>4. m[<<i, j>>] = IF l[i] <= r[j] THEN <<l[i]>> \o m[<<i + 1, j>>]
                                        ELSE <<r[j]>> \o m[<<i, j + 1>>]
      BY <1>1, <2>5 DEF Merging
    <3>5. CASE l[i] <= r[j]
      <4>1. Merged(l, r, <<l[i]>> \o m[<<i + 1, j>>], i, j)
        BY <1>0, <3>1, <3>3, <3>5, MergedStep
      <4> QED
        BY <2>2, <3>4, <3>5, <4>1
    <3>6. CASE ~(l[i] <= r[j])
      <4>1. Merged(l, r, <<r[j]>> \o m[<<i, j + 1>>], i, j)
        BY <1>0, <3>1, <3>3, <3>6, MergedStep
      <4> QED
        BY <2>2, <3>4, <3>6, <4>1
    <3> QED
      BY <3>5, <3>6
  <2> QED
    BY <2>4, <2>5
<1>3. Merged(l, r, MergeRuns(l, r), 1, 1)
  <2>1. 1 \in 1..Len(l)+1 /\ 1 \in 1..Len(r)+1 /\ Rest(l, r, 1, 1) \in Nat
    BY <1>0 DEF Rest
  <2> QED
    BY <1>1, <1>2, <2>1
<1>4. From(l, 1) = l /\ From(r, 1) = r
  BY SubSeqFull DEF From
<1>5. Rest(l, r, 1, 1) = Len(l) + Len(r)
  BY <1>0 DEF Rest
<1> QED
  BY <1>3, <1>4, <1>5 DEF Merged

-----------------------------------------------------------------------------
(* Sorting a run. *)

(* t is s in order. *)
InOrder(s, t) == /\ t \in Seq(Keys) /\ Len(t) = Len(s) /\ Sorted(t)
                 /\ \A k \in Keys : Occurs(t, k) = Occurs(s, k)

(* Whatever can be sorted can still be with one more record. *)
LEMMA OneMore ==
    ASSUME NEW s \in Seq(Keys), NEW t, InOrder(s, t), NEW x \in Keys
    PROVE  InOrder(s \o <<x>>, MergeRuns(t, <<x>>))
<1>1. <<x>> \in Seq(Keys) /\ Len(<<x>>) = 1 /\ Sorted(<<x>>)
  BY LenProperties DEF Sorted
<1>2. t \in Seq(Keys) /\ Len(t) = Len(s) /\ Sorted(t)
  BY DEF InOrder
<1>3. PICK u : u = MergeRuns(t, <<x>>)
  OBVIOUS
<1>4. /\ u \in Seq(Keys) /\ Len(u) = Len(t) + Len(<<x>>) /\ Sorted(u)
      /\ \A k \in Keys : Occurs(u, k) = Occurs(t, k) + Occurs(<<x>>, k)
  BY <1>1, <1>2, <1>3, MergeFacts
<1>5. Len(s \o <<x>>) = Len(s) + Len(<<x>>)
  BY <1>1, ConcatProperties
<1>6. \A k \in Keys : Occurs(s \o <<x>>, k) = Occurs(s, k) + Occurs(<<x>>, k)
  BY <1>1, OccursConcat
<1> QED
  BY <1>2, <1>3, <1>4, <1>5, <1>6 DEF InOrder

(* So every run can be sorted. *)
LEMMA SortExists ==
    ASSUME NEW s \in Seq(Keys)
    PROVE  \E t : InOrder(s, t)
<1> DEFINE Wrong == {n \in Nat : \E u \in Seq(Keys) : Len(u) = n /\ ~ \E t : InOrder(u, t)}
<1>1. Wrong = {}
  <2>0. SUFFICES ASSUME Wrong # {} PROVE FALSE
    OBVIOUS
  <2>1. PICK n \in Nat : n \in Wrong /\ \A k \in Wrong : n <= k
    BY <2>0, LeastNat
  <2>2. PICK u \in Seq(Keys) : Len(u) = n /\ ~ \E t : InOrder(u, t)
    BY <2>1
  <2>3. CASE n = 0
    <3>1. Sorted(u)
      BY <2>2, <2>3 DEF Sorted
    <3> QED
      BY <2>2, <3>1 DEF InOrder
  <2>4. CASE n # 0
    <3>1. PICK p \in Nat : p + 1 = n /\ p = n - 1 /\ ~(n <= p)
      <4>1. n - 1 \in Nat /\ (n - 1) + 1 = n /\ ~(n <= n - 1)
        BY <2>4
      <4> QED
        BY <4>1
    <3>2. u # <<>>
      BY <2>2, <2>4, EmptySeq
    <3>3. PICK v : v = SubSeq(u, 1, Len(u) - 1)
      OBVIOUS
    <3>4. v = Run(u, 0, p) /\ 0 + p <= Len(u)
      BY <2>2, <3>1, <3>3 DEF Run
    <3>5. v \in Seq(Keys) /\ Len(v) = p
      BY <3>4, RunFacts
    <3>6. n \in 1..Len(u) /\ u[n] \in Keys
      BY <2>2, <2>4, ElementOfSeq
    <3>7. u = v \o <<u[n]>>
      <4>1. /\ v \o <<u[n]>> \in Seq(Keys) /\ Len(v \o <<u[n]>>) = n
            /\ \A i \in 1..n : (v \o <<u[n]>>)[i] = IF i <= p THEN v[i] ELSE <<u[n]>>[i - p]
        BY <3>1, <3>5, <3>6, ConcatProperties, LenProperties
      <4>2. \A i \in 1..p : v[i] = u[i]
        <5>1. \A i \in 1..p : v[i] = u[0 + i]
          BY <3>4, RunFacts
        <5> QED
          BY <5>1
      <4>3. ASSUME NEW i \in 1..n PROVE (v \o <<u[n]>>)[i] = u[i]
        <5>1. CASE i <= p
          BY <3>1, <4>1, <4>2, <5>1
        <5>2. CASE ~(i <= p)
          <6>1. i = n /\ i - p = 1
            BY <3>1, <5>2
          <6>2. (v \o <<u[n]>>)[i] = <<u[n]>>[i - p]
            BY <4>1, <5>2
          <6>3. (v \o <<u[n]>>)[i] = <<u[n]>>[1]
            BY <6>1, <6>2, Zenon
          <6>4. <<u[n]>>[1] = u[n]
            OBVIOUS
          <6> QED
            BY <6>1, <6>3, <6>4, Zenon
        <5> QED
          BY <5>1, <5>2
      <4> QED
        BY <2>2, <4>1, <4>3, SeqEqual
    <3>8. p \notin Wrong
      <4> HIDE DEF Wrong
      <4> QED
        BY <2>1, <3>1
    <3>9. PICK t : InOrder(v, t)
      BY <3>5, <3>8
    <3>10. InOrder(v \o <<u[n]>>, MergeRuns(t, <<u[n]>>))
      BY <3>5, <3>6, <3>9, OneMore
    <3> QED
      BY <2>2, <3>7, <3>10
  <2> QED
    BY <2>3, <2>4
<1> QED
  BY <1>1, LenProperties

(* qsort with cmp_index. *)
LEMMA SortFacts ==
    ASSUME NEW s \in Seq(Keys)
    PROVE  InOrder(s, SortRun(s))
<1> DEFINE P(t) == Sorted(t) /\ \A k \in Keys : Occurs(t, k) = Occurs(s, k)
           S == [1..Len(s) -> Keys]
<1>0. Len(s) \in Nat
  BY LenProperties
<1>1. PICK t : InOrder(s, t)
  BY SortExists
<1>2. t \in S /\ P(t)
  <2>1. DOMAIN t = 1..Len(s) /\ \A i \in 1..Len(s) : t[i] \in Keys
    BY <1>1, LenProperties, ElementOfSeq DEF InOrder
  <2>2. t \in [1..Len(s) -> Keys]
    BY <1>1, LenProperties DEF InOrder
  <2> QED
    BY <1>1, <2>2 DEF InOrder
<1>3. SortRun(s) = CHOOSE u \in S : P(u)
  BY DEF SortRun
<1> HIDE DEF P, S
<1>4. SortRun(s) \in S /\ P(SortRun(s))
  BY <1>2, <1>3, Zenon
<1>5. \A u \in S : u \in Seq(Keys) /\ Len(u) = Len(s)
  BY <1>0, SeqDef, LenProperties DEF S
<1> QED
  BY <1>4, <1>5 DEF InOrder, P

-----------------------------------------------------------------------------
(* The steps that write the file. *)

(* The records of the file, in whatever order. *)
FileOK == file \in Seq(Keys) /\ Len(file) = args.records

(* u has the records of s. *)
SameRecords(s, u) == /\ u \in Seq(Keys) /\ Len(u) = Len(s)
                     /\ \A k \in Keys : Occurs(u, k) = Occurs(s, k)

(* Two runs of n and m records that have been sorted are merged where they are. *)
LEMMA MergeInPlace ==
    ASSUME NEW s \in Seq(Keys), NEW o \in Nat, NEW n \in Nat, NEW m \in Nat,
           (o + n) + m <= Len(s), NEW u,
           u = Overwrite(s, o, MergeRuns(Run(s, o, n), Run(s, o + n, m)))
    PROVE  /\ SameRecords(s, u)
           /\ Sorted(Run(s, o, n)) /\ Sorted(Run(s, o + n, m)) =>
                Sorted(Run(u, o, n)) /\ Sorted(Run(u, o + n, m))
           /\ \A p, q \in Nat : p + q <= Len(s) /\ (p + q <= o \/ (o + n) + m <= p) =>
                Run(u, p, q) = Run(s, p, q)
<1>a. Run(s, o, n) \o Run(s, o + n, m) = Run(s, o, n + m)
  BY AdjacentRuns
<1>b. \A x, y \in Seq(Keys), k \in Keys : Occurs(x \o y, k) = Occurs(x, k) + Occurs(y, k)
  BY OccursConcat
<1>c. ASSUME NEW x \in Seq(Keys), o + Len(x) <= Len(s)
      PROVE  /\ \A k \in Keys : Occurs(x, k) = Occurs(Run(s, o, Len(x)), k) =>
                               Occurs(Overwrite(s, o, x), k) = Occurs(s, k)
             /\ \A p, q \in Nat : p + q <= Len(s) /\ (p + q <= o \/ o + Len(x) <= p) =>
                                 Run(Overwrite(s, o, x), p, q) = Run(s, p, q)
  BY <1>c, OverwriteKeeps, RunElsewhere
<1> DEFINE a == Run(s, o, n)
           b == Run(s, o + n, m)
           r == MergeRuns(a, b)
<1>0. Len(s) \in Nat /\ o + n \in Nat /\ o + n <= Len(s) /\ n + m \in Nat
      /\ o + (n + m) = (o + n) + m /\ o + n + m <= Len(s) /\ 0 \in Nat
  BY LenProperties
<1>1. a \in Seq(Keys) /\ Len(a) = n /\ b \in Seq(Keys) /\ Len(b) = m
  BY <1>0, RunFacts
<1>2. a \o b = Run(s, o, n + m)
  BY <1>a
<1> HIDE DEF a, b
<1>3. /\ r \in Seq(Keys) /\ Len(r) = n + m
      /\ \A k \in Keys : Occurs(r, k) = Occurs(a, k) + Occurs(b, k)
      /\ Sorted(a) /\ Sorted(b) => Sorted(r)
  BY <1>1, MergeFacts
<1>4. \A k \in Keys : Occurs(r, k) = Occurs(Run(s, o, n + m), k)
  <2>1. \A k \in Keys : Occurs(a \o b, k) = Occurs(a, k) + Occurs(b, k)
    BY <1>b, <1>1
  <2> QED
    BY <1>2, <1>3, <2>1
<1> HIDE DEF r
<1>5. u = Overwrite(s, o, r) /\ o + Len(r) <= Len(s)
  BY <1>0, <1>3 DEF r, a, b
<1>6. SameRecords(s, u)
  <2>1. u \in Seq(Keys) /\ Len(u) = Len(s)
    BY <1>3, <1>5, OverwriteFacts
  <2>2. ASSUME NEW k \in Keys PROVE Occurs(u, k) = Occurs(s, k)
    <3>1. Occurs(r, k) = Occurs(Run(s, o, Len(r)), k)
      BY <1>3, <1>4
    <3>2. r \in Seq(Keys) /\ o + Len(r) <= Len(s)
      BY <1>3, <1>5
    <3>3. Occurs(Overwrite(s, o, r), k) = Occurs(s, k)
      BY <1>c, <3>1, <3>2
    <3> QED
      BY <1>5, <3>3
  <2> QED
    BY <2>1, <2>2 DEF SameRecords
<1>7. ASSUME Sorted(a), Sorted(b)
      PROVE  Sorted(Run(u, o, n)) /\ Sorted(Run(u, o + n, m))
  <2>1. Sorted(r) /\ 0 + n <= Len(r) /\ n + m <= Len(r) /\ o + 0 = o
    BY <1>3, <1>7
  <2>2. Run(u, o + 0, n) = Run(r, 0, n) /\ Run(u, o + n, m) = Run(r, n, m)
    BY <1>0, <1>3, <1>5, <2>1, RunWithin
  <2>3. Sorted(Run(r, 0, n)) /\ Sorted(Run(r, n, m))
    BY <1>0, <1>3, <2>1, SortedPart
  <2> QED
    BY <2>1, <2>2, <2>3
<1>8. ASSUME NEW p \in Nat, NEW q \in Nat, p + q <= Len(s), p + q <= o \/ (o + n) + m <= p
      PROVE  Run(u, p, q) = Run(s, p, q)
  <2>1. p + q <= o \/ o + Len(r) <= p
    BY <1>0, <1>3, <1>8
  <2> QED
    BY <1>c, <1>3, <1>5, <1>8, <2>1
<1> QED
  BY <1>6, <1>7, <1>8 DEF a, b

(* A run is sorted where it is. *)
LEMMA SortInPlace ==
    ASSUME NEW s \in Seq(Keys), NEW o \in Nat, NEW n \in Nat, o + n <= Len(s), NEW u,
           u = Overwrite(s, o, SortRun(Run(s, o, n)))
    PROVE  /\ SameRecords(s, u) /\ Sorted(Run(u, o, n))
           /\ \A p, q \in Nat : p + q <= Len(s) /\ (p + q <= o \/ o + n <= p) =>
                Run(u, p, q) = Run(s, p, q)
<1> DEFINE a == Run(s, o, n)
           r == SortRun(a)
<1>1. a \in Seq(Keys) /\ Len(a) = n
  BY RunFacts
<1> HIDE DEF a
<1>2. /\ r \in Seq(Keys) /\ Len(r) = n /\ Sorted(r)
      /\ \A k \in Keys : Occurs(r, k) = Occurs(a, k)
  BY <1>1, SortFacts DEF InOrder
<1> HIDE DEF r
<1>3. u = Overwrite(s, o, r) /\ o + Len(r) <= Len(s)
  BY <1>2 DEF r, a
<1>4. u \in Seq(Keys) /\ Len(u) = Len(s)
  BY <1>2, <1>3, OverwriteFacts
<1>5. ASSUME NEW k \in Keys PROVE Occurs(u, k) = Occurs(s, k)
  <2>1. Occurs(r, k) = Occurs(Run(s, o, Len(r)), k)
    BY <1>2 DEF a
  <2> QED
    BY <1>2, <1>3, <2>1, OverwriteKeeps
<1>6. Sorted(Run(u, o, n))
  <2>1. 0 \in Nat /\ 0 + n <= Len(r) /\ o + 0 = o
    BY <1>2
  <2>2. Run(u, o + 0, n) = Run(r, 0, n)
    BY <1>2, <1>3, <2>1, RunWithin
  <2>3. Sorted(Run(r, 0, n))
    BY <1>2, <2>1, SortedPart
  <2> QED
    BY <2>1, <2>2, <2>3
<1>7. ASSUME NEW p \in Nat, NEW q \in Nat, p + q <= Len(s), p + q <= o \/ o + n <= p
      PROVE  Run(u, p, q) = Run(s, p, q)
  BY <1>2, <1>3, <1>7, RunElsewhere
<1> QED
  BY <1>4, <1>5, <1>6, <1>7 DEF SameRecords

(* Where the active blocks lie in the file. *)
LEMMA BlocksInFile ==
    ASSUME Types, TileInv, phase = 1, main # "failed", FileOK
    PROVE  /\ processed \in Nat /\ file \in Seq(Keys)
           /\ \A i \in 0..active-1 :
                /\ i \in 0..args.blocks-1
                /\ map[i].offset \in Nat /\ map[i].size \in Nat
                /\ map[i].state \in {"free", "busy", "done"}
                /\ (processed + map[i].offset) + map[i].size <= Len(file)
           /\ \A i, j \in 0..active-1 : i < j => map[i].offset + map[i].size <= map[j].offset
           /\ \A i \in 0..active-2 : map[i+1].offset = map[i].offset + map[i].size
<1>1. /\ active \in 0..args.blocks /\ args.blocks \in Nat /\ map \in [0..args.blocks-1 -> Block]
      /\ processed \in Nat /\ args.records \in Nat /\ ChunkSize \in Nat
      /\ processed + ChunkSize <= args.records /\ Len(file) = args.records
  BY ArgsFacts, ChunkFacts DEF Types, MapTypes, FileOK
<1>2. ASSUME NEW i \in 0..active-1
      PROVE  /\ i \in 0..args.blocks-1 /\ map[i].offset \in Nat /\ map[i].size \in Nat
             /\ map[i].state \in {"free", "busy", "done"}
  <2>1. i \in 0..args.blocks-1
    BY <1>1
  <2>2. map[i] \in Block
    BY <1>1, <2>1
  <2> QED
    BY <2>1, <2>2 DEF Block
<1>3. /\ \A i, j \in 0..active-1 : i < j => map[i].offset + map[i].size <= map[j].offset
      /\ \A i \in 0..active-2 : map[i+1].offset = map[i].offset + map[i].size
      /\ map[active-1].offset + map[active-1].size = ChunkSize /\ active >= 1
  BY DEF TileInv, Tile
<1>4. ASSUME NEW i \in 0..active-1
      PROVE  (processed + map[i].offset) + map[i].size <= Len(file)
  <2>0. PICK e : e = active - 1
    OBVIOUS
  <2>1. e \in 0..active-1 /\ (i = e \/ i < e)
    BY <1>1, <1>3, <2>0
  <2>2. map[i].offset + map[i].size <= ChunkSize
    <3>1. CASE i = e
      BY <1>1, <1>3, <2>0, <3>1
    <3>2. CASE i < e
      <4>1. map[i].offset + map[i].size <= map[e].offset
        BY <1>3, <2>1, <3>2
      <4>2. map[e].offset + map[e].size = ChunkSize
        BY <1>3, <2>0
      <4> QED
        BY <1>1, <1>2, <2>1, <4>1, <4>2
    <3> QED
      BY <2>1, <3>1, <3>2
  <2> QED
    BY <1>1, <1>2, <2>2
<1> QED
  BY <1>1, <1>2, <1>3, <1>4 DEF FileOK

-----------------------------------------------------------------------------
(* The chunks. *)

Chunk == [offset : Nat, records : Nat]

(* Where the last of the chunks c ends. *)
EndOf(c) == IF c = <<>> THEN 0 ELSE c[Len(c)].offset + c[Len(c)].records

(* The chunks c lie one behind the other in a file of n records. *)
Chain(c, n) == /\ c \in Seq(Chunk)
               /\ c # <<>> => c[1].offset = 0
               /\ \A i \in 1..Len(c)-1 : c[i+1].offset = c[i].offset + c[i].records
               /\ \A i \in 1..Len(c) : c[i].offset + c[i].records <= n

(* The main thread has not yet left its loop over the chunks. *)
InLoop == \/ main \in {"create", "chunk", "mapped", "sorted"}
          \/ main = "control" /\ mainNext \in {"mapped", "sorted"}

ChunksInv == /\ merged \in Seq(Chunk) /\ chunks \in Seq(Chunk)
             /\ Chain(merged \o chunks, args.records)
             /\ InLoop => merged = <<>> /\ EndOf(chunks) = processed

(* One more chunk at the end. *)
LEMMA ChainAppend ==
    ASSUME NEW c, NEW n \in Nat, Chain(c, n), NEW e \in Chunk, e.offset = EndOf(c),
           e.offset + e.records <= n
    PROVE  Chain(Append(c, e), n) /\ EndOf(Append(c, e)) = e.offset + e.records
<1>1. c \in Seq(Chunk) /\ Len(c) \in Nat
  BY LenProperties DEF Chain
<1>2. PICK d : d = Append(c, e)
  OBVIOUS
<1>3. PICK m \in Nat : m = Len(c)
  BY <1>1
<1>4. /\ d \in Seq(Chunk) /\ Len(d) = m + 1 /\ d[m + 1] = e
      /\ \A i \in 1..m : d[i] = c[i]
  BY <1>1, <1>2, <1>3, AppendProperties
<1>5. d # <<>>
  BY <1>3, <1>4, EmptySeq
<1>6. EndOf(d) = e.offset + e.records
  BY <1>4, <1>5 DEF EndOf
<1>7. d[1].offset = 0
  <2>1. CASE m = 0
    <3>1. c = <<>>
      BY <1>1, <1>3, <2>1, EmptySeq
    <3> QED
      BY <1>4, <2>1, <3>1 DEF EndOf
  <2>2. CASE m # 0
    <3>1. 1 \in 1..m /\ c # <<>>
      BY <1>3, <2>2, EmptySeq
    <3> QED
      BY <1>4, <3>1 DEF Chain
  <2> QED
    BY <2>1, <2>2
<1>8. ASSUME NEW i \in 1..m PROVE d[i+1].offset = d[i].offset + d[i].records
  <2>1. CASE i = m
    <3>1. c # <<>>
      BY <1>3, <2>1, EmptySeq
    <3> QED
      BY <1>3, <1>4, <2>1, <3>1 DEF EndOf
  <2>2. CASE i # m
    <3>1. i \in 1..m-1 /\ i+1 \in 1..m
      <4>1. i \in Int /\ m \in Int /\ 1 <= i /\ i <= m
        BY <1>8
      <4> QED
        BY <2>2, <4>1
    <3>2. c[i+1].offset = c[i].offset + c[i].records
      BY <1>3, <3>1 DEF Chain
    <3> QED
      BY <1>4, <3>1, <3>2
  <2> QED
    BY <2>1, <2>2
<1>9. ASSUME NEW i \in 1..m+1 PROVE d[i].offset + d[i].records <= n
  <2>1. CASE i = m + 1
    BY <1>4, <2>1
  <2>2. CASE i # m + 1
    <3>1. i \in 1..m
      BY <2>2
    <3> QED
      BY <1>3, <1>4, <3>1 DEF Chain
  <2> QED
    BY <2>1, <2>2
<1>10. Chain(d, n)
  <2>1. (m + 1) - 1 = m
    OBVIOUS
  <2> QED
    BY <1>4, <1>7, <1>8, <1>9, <2>1 DEF Chain
<1> QED
  BY <1>2, <1>6, <1>10

(* Two neighbours become one. *)
LEMMA ChainJoin ==
    ASSUME NEW a \in Seq(Chunk), NEW b \in Seq(Chunk), NEW n \in Nat, Chain(a \o b, n), Len(b) >= 2,
           NEW e, e = [offset |-> b[1].offset, records |-> b[1].records + b[2].records]
    PROVE  /\ b[1] \in Chunk /\ b[2] \in Chunk
           /\ b[2].offset = b[1].offset + b[1].records
           /\ b[2].offset + b[2].records <= n
           /\ e \in Chunk /\ Append(a, e) \in Seq(Chunk)
           /\ SubSeq(b, 3, Len(b)) \in Seq(Chunk)
           /\ Chain(Append(a, e) \o SubSeq(b, 3, Len(b)), n)
<1>a. \A s, t \in Seq(Chunk) :
        /\ s \o t \in Seq(Chunk) /\ Len(s \o t) = Len(s) + Len(t)
        /\ \A i \in 1..Len(s) + Len(t) :
             (s \o t)[i] = IF i <= Len(s) THEN s[i] ELSE t[i - Len(s)]
  BY ConcatProperties
<1>0. PICK m \in Nat, l \in Nat : m = Len(a) /\ l = Len(b) /\ l >= 2
  BY LenProperties
<1>1. PICK x, y : x = b[1] /\ y = b[2]
  OBVIOUS
<1>2. x \in Chunk /\ y \in Chunk
  BY <1>0, <1>1, ElementOfSeq
<1>3. PICK z : z = a \o b
  OBVIOUS
<1>4. /\ z \in Seq(Chunk) /\ Len(z) = m + l
      /\ \A i \in 1..m + l : z[i] = IF i <= m THEN a[i] ELSE b[i - m]
  BY <1>a, <1>0, <1>3
<1>5. /\ \A i \in 1..(m + l)-1 : z[i+1].offset = z[i].offset + z[i].records
      /\ \A i \in 1..m + l : z[i].offset + z[i].records <= n
      /\ z # <<>> => z[1].offset = 0
  BY <1>3, <1>4 DEF Chain
<1>6. z[m + 1] = x /\ z[m + 2] = y
  <2>1. /\ m + 1 \in 1..m + l /\ ~(m + 1 <= m) /\ (m + 1) - m = 1
        /\ m + 2 \in 1..m + l /\ ~(m + 2 <= m) /\ (m + 2) - m = 2
    BY <1>0
  <2> QED
    BY <1>1, <1>4, <2>1
<1>7. y.offset = x.offset + x.records /\ y.offset + y.records <= n
  <2>1. m + 1 \in 1..(m + l)-1 /\ (m + 1) + 1 = m + 2 /\ m + 2 \in 1..m + l
    BY <1>0
  <2>2. z[(m + 1) + 1].offset = z[m + 1].offset + z[m + 1].records
    BY <1>5, <2>1
  <2>3. z[m + 2].offset + z[m + 2].records <= n
    BY <1>5, <2>1
  <2> QED
    BY <1>6, <2>1, <2>2, <2>3
<1>8. /\ e \in Chunk /\ e.offset = x.offset
      /\ e.offset + e.records = y.offset + y.records
  <2>1. /\ x.offset \in Nat /\ x.records \in Nat /\ y.records \in Nat
        /\ e = [offset |-> x.offset, records |-> x.records + y.records]
    BY <1>1, <1>2 DEF Chunk
  <2>2. PICK f \in Nat, g \in Nat : f = x.offset /\ g = x.records + y.records
    BY <2>1
  <2>3. e = [offset |-> f, records |-> g]
    BY <2>1, <2>2
  <2>4. e.offset = f /\ e.records = g /\ e \in Chunk
    BY <2>3 DEF Chunk
  <2> QED
    BY <1>7, <2>1, <2>2, <2>4
<1>9. PICK p, q : p = Append(a, e) /\ q = SubSeq(b, 3, Len(b))
  OBVIOUS
<1>10. /\ p \in Seq(Chunk) /\ Len(p) = m + 1 /\ p[m + 1] = e
       /\ \A i \in 1..m : p[i] = a[i]
  BY <1>0, <1>8, <1>9, AppendProperties
<1>11. /\ q \in Seq(Chunk) /\ Len(q) = l - 2
       /\ \A i \in 1..l - 2 : q[i] = b[i + 2]
  <2>1. \A i \in 3..l : i \in 1..Len(b) /\ b[i] \in Chunk
    BY <1>0, ElementOfSeq
  <2>2. /\ SubSeq(b, 3, l) \in Seq(Chunk)
        /\ Len(SubSeq(b, 3, l)) = IF 3 <= l THEN l - 3 + 1 ELSE 0
        /\ \A i \in 1..l - 3 + 1 : SubSeq(b, 3, l)[i] = b[3 + i - 1]
    BY <1>0, <2>1, SubSeqProperties
  <2>3. l - 3 + 1 = l - 2 /\ (~(3 <= l) => l - 2 = 0) /\ \A i \in 1..l - 2 : 3 + i - 1 = i + 2
    BY <1>0
  <2>4. q = SubSeq(b, 3, l)
    BY <1>0, <1>9
  <2>5. Len(q) = l - 2
    BY <1>0, <2>2, <2>3, <2>4
  <2>6. ASSUME NEW i \in 1..l - 2 PROVE q[i] = b[i + 2]
    <3>1. i \in 1..l - 3 + 1 /\ 3 + i - 1 = i + 2
      BY <1>0, <2>3
    <3> QED
      BY <2>2, <2>4, <3>1
  <2> QED
    BY <2>2, <2>4, <2>5, <2>6
<1>12. PICK u : u = p \o q
  OBVIOUS
<1>13. /\ u \in Seq(Chunk) /\ Len(u) = (m + l) - 1
       /\ \A i \in 1..(m + l) - 1 : u[i] = IF i <= m + 1 THEN p[i] ELSE q[i - (m + 1)]
  <2>1. /\ u \in Seq(Chunk) /\ Len(u) = (m + 1) + (l - 2)
        /\ \A i \in 1..(m + 1) + (l - 2) : u[i] = IF i <= m + 1 THEN p[i] ELSE q[i - (m + 1)]
    <3>1. p \in Seq(Chunk) /\ q \in Seq(Chunk) /\ Len(p) = m + 1 /\ Len(q) = l - 2
      BY <1>10, <1>11
    <3>2. /\ p \o q \in Seq(Chunk) /\ Len(p \o q) = Len(p) + Len(q)
          /\ \A i \in 1..Len(p) + Len(q) :
               (p \o q)[i] = IF i <= Len(p) THEN p[i] ELSE q[i - Len(p)]
      BY <1>a, <3>1, Zenon
    <3> QED
      BY <1>12, <3>1, <3>2, Zenon
  <2>2. (m + 1) + (l - 2) = (m + l) - 1
    OBVIOUS
  <2> QED
    BY <2>1, <2>2, Zenon
<1>14. \A i \in 1..m : u[i] = z[i]
  <2> TAKE i \in 1..m
  <2>1. i \in 1..(m + l) - 1 /\ i \in 1..m + l /\ i <= m + 1 /\ i <= m
    BY <1>0
  <2> QED
    BY <1>4, <1>10, <1>13, <2>1
<1>15. u[m + 1] = e
  <2>1. m + 1 \in 1..(m + l) - 1 /\ m + 1 <= m + 1
    BY <1>0
  <2> QED
    BY <1>10, <1>13, <2>1
<1>16. \A i \in m + 2 .. (m + l) - 1 : u[i] = z[i + 1]
  <2> TAKE i \in m + 2 .. (m + l) - 1
  <2>1. /\ i \in 1..(m + l) - 1 /\ ~(i <= m + 1) /\ i - (m + 1) \in 1..l - 2
        /\ (i - (m + 1)) + 2 = (i + 1) - m
        /\ i + 1 \in 1..m + l /\ ~(i + 1 <= m)
    BY <1>0
  <2>2. u[i] = q[i - (m + 1)]
    BY <1>13, <2>1
  <2>3. q[i - (m + 1)] = b[(i - (m + 1)) + 2]
    BY <1>11, <2>1
  <2>4. z[i + 1] = b[(i + 1) - m]
    BY <1>4, <2>1
  <2> QED
    BY <2>1, <2>2, <2>3, <2>4
<1>17. u[1].offset = 0
  <2>1. z # <<>>
    BY <1>0, <1>4, EmptySeq
  <2>2. CASE m = 0
    BY <1>5, <1>6, <1>8, <1>15, <2>1, <2>2
  <2>3. CASE m # 0
    <3>1. 1 \in 1..m
      BY <2>3
    <3> QED
      BY <1>5, <1>14, <2>1, <3>1
  <2> QED
    BY <2>2, <2>3
<1>18. ASSUME NEW i \in 1..((m + l) - 1) - 1 PROVE u[i+1].offset = u[i].offset + u[i].records
  <2>1. CASE i < m
    <3>1. i \in 1..m /\ i + 1 \in 1..m /\ i \in 1..(m + l)-1
      BY <2>1
    <3> QED
      BY <1>5, <1>14, <3>1
  <2>2. CASE i = m
    <3>1. i \in 1..m /\ i \in 1..(m + l)-1
      BY <1>0, <2>2
    <3>2. z[i + 1].offset = z[i].offset + z[i].records
      BY <1>5, <3>1
    <3> QED
      BY <1>6, <1>8, <1>14, <1>15, <2>2, <3>1, <3>2
  <2>3. CASE i = m + 1
    <3>1. i + 1 \in m + 2 .. (m + l) - 1 /\ m + 2 \in 1..(m + l)-1 /\ (m + 1) + 1 = m + 2
      BY <1>0, <2>3
    <3>2. u[i + 1] = z[(m + 2) + 1]
      BY <1>16, <2>3, <3>1
    <3>3. z[(m + 2) + 1].offset = z[m + 2].offset + z[m + 2].records
      BY <1>5, <3>1
    <3> QED
      BY <1>6, <1>8, <1>15, <2>3, <3>2, <3>3
  <2>4. CASE i > m + 1
    <3>1. /\ i \in m + 2 .. (m + l) - 1 /\ i + 1 \in m + 2 .. (m + l) - 1
          /\ i + 1 \in 1..(m + l)-1
      BY <1>0, <2>4
    <3> QED
      BY <1>5, <1>16, <3>1
  <2> QED
    BY <2>1, <2>2, <2>3, <2>4
<1>19. ASSUME NEW i \in 1..(m + l) - 1 PROVE u[i].offset + u[i].records <= n
  <2>1. CASE i <= m
    <3>1. i \in 1..m /\ i \in 1..m + l
      BY <1>0, <2>1
    <3> QED
      BY <1>5, <1>14, <3>1
  <2>2. CASE i = m + 1
    BY <1>7, <1>8, <1>15, <2>2
  <2>3. CASE i > m + 1
    <3>1. i \in m + 2 .. (m + l) - 1 /\ i + 1 \in 1..m + l
      BY <1>0, <2>3
    <3> QED
      BY <1>5, <1>16, <3>1
  <2> QED
    BY <2>1, <2>2, <2>3
<1>20. Chain(u, n)
  BY <1>13, <1>17, <1>18, <1>19 DEF Chain
<1> QED
  BY <1>1, <1>2, <1>7, <1>8, <1>9, <1>10, <1>11, <1>12, <1>20

(* The command line stays. *)
LEMMA ArgsStay == ASSUME Types, [Next]_vars PROVE args' = args
<1>1. CASE UNCHANGED vars \/ Exited
  BY <1>1 DEF Exited, vars
<1>2. CASE MainStep
  BY <1>2 DEF MainStep, Create, StartChunk, AwaitChunk, EndChunk, LeaveLoop, Stop, Join,
              MergeChunks, EndMergeRound, MergeChunksFails, UnchangedByMain
<1>3. CASE WorkersBarrier \/ ControlBarrier
  BY <1>3 DEF WorkersBarrier, ControlBarrier, Released
<1>4. CASE \E w \in Workers : WorkerStep(w)
  BY <1>4, Moved
<1>5. CASE \E w \in Workers : MergeFails(w)
  BY <1>5 DEF MergeFails
<1> QED
  BY <1>1, <1>2, <1>3, <1>4, <1>5 DEF Next

(* What SortBlock does to the file. *)
LEMMA SortBlockFile ==
    ASSUME SortInv, FileOK, NEW w \in Workers, SortBlock(w)
    PROVE  /\ SameRecords(file, file') /\ work[w] \in 0..active-1
           /\ Sorted(Run(file', processed + map[work[w]].offset, map[work[w]].size))
           /\ \A i \in 0..active-1 : i # work[w] =>
                Run(file', processed + map[i].offset, map[i].size) =
                Run(file, processed + map[i].offset, map[i].size)
<1>1. w \in Working /\ pc[w] = "sorting"
  BY DEF SortBlock, Working
<1>2. work[w] \in 0..active-1 /\ phase = 1 /\ main # "failed"
  BY <1>1, Owners DEF MainAway
<1>3. PICK j : j = work[w]
  OBVIOUS
<1>4. /\ processed \in Nat /\ file \in Seq(Keys) /\ j \in 0..active-1
      /\ \A i \in 0..active-1 :
           /\ map[i].offset \in Nat /\ map[i].size \in Nat
           /\ (processed + map[i].offset) + map[i].size <= Len(file)
      /\ \A i, k \in 0..active-1 : i < k => map[i].offset + map[i].size <= map[k].offset
  BY <1>2, <1>3, BlocksInFile DEF SortInv
<1>5. PICK o \in Nat, n \in Nat : o = processed + map[j].offset /\ n = map[j].size
  BY <1>4
<1>6. o + n <= Len(file) /\ file' = Overwrite(file, o, SortRun(Run(file, o, n)))
  BY <1>3, <1>4, <1>5 DEF SortBlock
<1>7. /\ SameRecords(file, file') /\ Sorted(Run(file', o, n))
      /\ \A p, q \in Nat : p + q <= Len(file) /\ (p + q <= o \/ o + n <= p) =>
           Run(file', p, q) = Run(file, p, q)
  BY <1>4, <1>6, SortInPlace
<1>8. ASSUME NEW i \in 0..active-1, i # j
      PROVE  Run(file', processed + map[i].offset, map[i].size) =
             Run(file, processed + map[i].offset, map[i].size)
  <2>1. PICK p \in Nat, q \in Nat : p = processed + map[i].offset /\ q = map[i].size
    BY <1>4
  <2>2. p + q <= Len(file)
    BY <1>4, <2>1
  <2>3. i \in Int /\ j \in Int
    BY <1>4
  <2>4. CASE i < j
    <3>1. map[i].offset + map[i].size <= map[j].offset
      BY <1>4, <2>4
    <3>2. p + q <= o
      <4>1. processed \in Nat /\ {map[i].offset, map[i].size, map[j].offset, map[j].size} \subseteq Nat
        BY <1>4
      <4> QED
        BY <1>5, <2>1, <3>1, <4>1
    <3> QED
      BY <1>7, <2>1, <2>2, <3>2
  <2>5. CASE j < i
    <3>1. map[j].offset + map[j].size <= map[i].offset
      BY <1>4, <2>5
    <3>2. o + n <= p
      <4>1. processed \in Nat /\ {map[j].offset, map[j].size, map[i].offset, map[i].size} \subseteq Nat
        BY <1>4
      <4> QED
        BY <1>5, <2>1, <3>1, <4>1
    <3> QED
      BY <1>7, <2>1, <2>2, <3>2
  <2> QED
    BY <1>8, <2>3, <2>4, <2>5
<1> QED
  BY <1>2, <1>3, <1>5, <1>7, <1>8

(* What MergePair does to the file. *)
LEMMA MergePairFile ==
    ASSUME SortInv, FileOK, NEW w \in Workers, MergePair(w)
    PROVE  /\ SameRecords(file, file')
           /\ (\A i \in 0..active-1 : BlockIsSorted(i)) =>
              \A i \in 0..active-1 :
                Sorted(Run(file', processed + map[i].offset, map[i].size))
<1>1. w \in Working /\ pc[w] = "merging"
  BY DEF MergePair, Working
<1>2. /\ 2 * work[w] \in 0..active-1 /\ 2 * work[w] + 1 \in 0..active-1
      /\ phase = 1 /\ main # "failed"
  BY <1>1, Owners DEF MainAway
<1>3. PICK j \in 0..active-1, l \in 0..active-1 : j = 2 * work[w] /\ l = 2 * work[w] + 1
  BY <1>2
<1>4. /\ processed \in Nat /\ file \in Seq(Keys)
      /\ \A i \in 0..active-1 :
           /\ map[i].offset \in Nat /\ map[i].size \in Nat
           /\ (processed + map[i].offset) + map[i].size <= Len(file)
      /\ \A i, k \in 0..active-1 : i < k => map[i].offset + map[i].size <= map[k].offset
      /\ \A i \in 0..active-2 : map[i+1].offset = map[i].offset + map[i].size
      /\ active \in Nat
  BY <1>2, BlocksInFile, ArgsFacts DEF SortInv, Types, MapTypes
<1>5. l = j + 1 /\ j \in Int /\ j \in 0..active-2
  <2>1. work[w] \in Nat
    BY <1>1, ArgsFacts DEF SortInv, Types, MapTypes, ProcTypes, Working
  <2> QED
    BY <1>3, <1>4, <2>1
<1>6. PICK o \in Nat, n \in Nat, m \in Nat :
        o = processed + map[j].offset /\ n = map[j].size /\ m = map[l].size
  <2>1. /\ processed \in Nat /\ map[j].offset \in Nat /\ map[j].size \in Nat
        /\ map[l].size \in Nat
    BY <1>4
  <2>2. processed + map[j].offset \in Nat
    BY <2>1
  <2> QED
    BY <2>1, <2>2, Zenon
<1>7. map[l].offset = map[j].offset + map[j].size
  BY <1>4, <1>5
<1>8. processed + map[l].offset = o + n /\ (o + n) + m <= Len(file)
  <2>1. /\ processed \in Nat /\ map[j].offset \in Nat /\ map[j].size \in Nat
        /\ map[l].offset \in Nat
        /\ (processed + map[l].offset) + map[l].size <= Len(file)
    BY <1>4
  <2>2. processed + map[l].offset = o + n
    <3>1. processed + (map[j].offset + map[j].size) = (processed + map[j].offset) + map[j].size
      BY <2>1
    <3> QED
      BY <1>6, <1>7, <3>1, Zenon
  <2> QED
    BY <1>6, <2>1, <2>2, Zenon
<1>9. file' = Overwrite(file, o, MergeRuns(Run(file, o, n), Run(file, o + n, m)))
  BY <1>3, <1>6 DEF MergePair
<1>10. /\ SameRecords(file, file')
       /\ Sorted(Run(file, o, n)) /\ Sorted(Run(file, o + n, m)) =>
            Sorted(Run(file', o, n)) /\ Sorted(Run(file', o + n, m))
       /\ \A p, q \in Nat : p + q <= Len(file) /\ (p + q <= o \/ (o + n) + m <= p) =>
            Run(file', p, q) = Run(file, p, q)
  BY <1>4, <1>8, <1>9, MergeInPlace
<1>11. ASSUME \A i \in 0..active-1 : BlockIsSorted(i), NEW i \in 0..active-1
       PROVE  Sorted(Run(file', processed + map[i].offset, map[i].size))
  <2>1. PICK p \in Nat, q \in Nat : p = processed + map[i].offset /\ q = map[i].size
    BY <1>4
  <2>2. p + q <= Len(file) /\ Sorted(Run(file, p, q))
    BY <1>4, <1>11, <2>1 DEF BlockIsSorted
  <2>3. Sorted(Run(file', o, n)) /\ Sorted(Run(file', o + n, m))
    BY <1>6, <1>8, <1>10, <1>11 DEF BlockIsSorted
  <2>4. CASE i = j \/ i = l
    BY <1>6, <1>8, <2>3, <2>4
  <2>5. CASE i < j
    <3>1. map[i].offset + map[i].size <= map[j].offset
      BY <1>4, <2>5
    <3>2. p + q <= o
      <4>1. processed \in Nat /\ {map[i].offset, map[i].size, map[j].offset, map[j].size} \subseteq Nat
        BY <1>4
      <4> QED
        BY <1>6, <2>1, <3>1, <4>1
    <3> QED
      BY <1>10, <2>1, <2>2, <3>2
  <2>6. CASE l < i
    <3>1. map[l].offset + map[l].size <= map[i].offset
      BY <1>4, <2>6
    <3>2. (o + n) + m <= p
      <4>1. processed \in Nat /\ {map[l].offset, map[l].size, map[i].offset, map[i].size} \subseteq Nat
        BY <1>4
      <4>2. (processed + map[l].offset) + map[l].size <= processed + map[i].offset
        BY <3>1, <4>1
      <4>3. processed + map[l].offset = o + n /\ map[l].size = m /\ processed + map[i].offset = p
        BY <1>6, <1>8, <2>1
      <4> QED
        BY <4>2, <4>3, Zenon
    <3> QED
      BY <1>10, <2>1, <2>2, <3>2
  <2>7. i = j \/ i = l \/ i < j \/ l < i
    BY <1>5
  <2> QED
    BY <2>4, <2>5, <2>6, <2>7
<1> QED
  BY <1>10, <1>11

(* What MergeChunks does to the file and the chunks. *)
LEMMA MergeChunksFile ==
    ASSUME Types, ChunksInv, FileOK, MergeChunks
    PROVE  /\ SameRecords(file, file')
           /\ merged' \in Seq(Chunk) /\ chunks' \in Seq(Chunk)
           /\ Chain(merged' \o chunks', args.records)
<1>1. PICK e : e = [offset |-> chunks[1].offset,
                    records |-> chunks[1].records + chunks[2].records]
  OBVIOUS
<1>2. /\ merged' = Append(merged, e) /\ chunks' = SubSeq(chunks, 3, Len(chunks))
      /\ Len(chunks) >= 2 /\ chunks \in Seq(Chunk) /\ merged \in Seq(Chunk)
      /\ Chain(merged \o chunks, args.records) /\ args.records \in Nat
  BY <1>1, ArgsFacts DEF MergeChunks, ChunksInv, Types, MapTypes
<1>3. /\ chunks[1] \in Chunk /\ chunks[2] \in Chunk
      /\ chunks[2].offset = chunks[1].offset + chunks[1].records
      /\ chunks[2].offset + chunks[2].records <= args.records
      /\ Append(merged, e) \in Seq(Chunk) /\ SubSeq(chunks, 3, Len(chunks)) \in Seq(Chunk)
      /\ Chain(Append(merged, e) \o SubSeq(chunks, 3, Len(chunks)), args.records)
  BY <1>1, <1>2, ChainJoin
<1>4. PICK o \in Nat, n \in Nat, m \in Nat :
        o = chunks[1].offset /\ n = chunks[1].records /\ m = chunks[2].records
  BY <1>3 DEF Chunk
<1>5. chunks[2].offset = o + n /\ (o + n) + m <= Len(file) /\ file \in Seq(Keys)
  BY <1>3, <1>4 DEF FileOK
<1>6. file' = Overwrite(file, o, MergeRuns(Run(file, o, n), Run(file, o + n, m)))
  BY <1>4, <1>5 DEF MergeChunks
<1>7. SameRecords(file, file')
  BY <1>5, <1>6, MergeInPlace
<1> QED
  BY <1>2, <1>3, <1>7

(* Every step leaves the records of the file as they are, but for their order. *)
LEMMA FileStep ==
    ASSUME SortInv, ChunksInv, FileOK, [Next]_vars PROVE SameRecords(file, file') /\ FileOK'
<1>0. SUFFICES SameRecords(file, file')
  BY ArgsStay DEF SortInv, SameRecords, FileOK
<1>1. SameRecords(file, file)
  BY DEF FileOK, SameRecords
<1>2. CASE UNCHANGED file
  BY <1>1, <1>2
<1>3. CASE \E w \in Workers : SortBlock(w)
  BY <1>3, SortBlockFile
<1>4. CASE \E w \in Workers : MergePair(w)
  BY <1>4, MergePairFile
<1>5. CASE MergeChunks
  BY <1>5, MergeChunksFile DEF SortInv
<1>6. \/ UNCHANGED file \/ MergeChunks
      \/ \E w \in Workers : SortBlock(w) \/ MergePair(w)
  <2>1. CASE UNCHANGED vars \/ Exited
    BY <2>1 DEF Exited, vars
  <2>2. CASE MainStep
    BY <2>2 DEF MainStep, Create, StartChunk, AwaitChunk, EndChunk, LeaveLoop, Stop, Join,
                EndMergeRound, MergeChunksFails
  <2>3. CASE WorkersBarrier \/ ControlBarrier
    BY <2>3 DEF WorkersBarrier, ControlBarrier, Released
  <2>4. CASE \E w \in Workers : WorkerStep(w)
    BY <2>4 DEF WorkerStep, Loop, ReadPhase, ClaimBlock, Round, ClaimPair, Reduce
  <2>5. CASE \E w \in Workers : MergeFails(w)
    BY <2>5 DEF MergeFails
  <2> QED
    BY <2>1, <2>2, <2>3, <2>4, <2>5 DEF Next
<1> QED
  BY <1>2, <1>3, <1>4, <1>5, <1>6

(* The chunks to merge lie one behind the other. *)
LEMMA ChunksStep ==
    ASSUME SortInv, ChunksInv, FileOK, [Next]_vars PROVE ChunksInv'
<1>0. /\ args' = args /\ Types /\ StageInv /\ args.records \in Nat
      /\ processed \in Nat /\ ChunkSize \in Nat /\ processed + ChunkSize <= args.records
  BY ArgsStay, ArgsFacts, ChunkFacts DEF SortInv, Types, MapTypes
<1>1. ASSUME UNCHANGED <<chunks, merged>>, ~InLoop' \/ (InLoop /\ UNCHANGED processed)
      PROVE  ChunksInv'
  BY <1>0, <1>1 DEF ChunksInv
<1>2. CASE UNCHANGED vars \/ Exited
  <2>1. UNCHANGED <<chunks, merged, processed, main, mainNext>>
    BY <1>2 DEF Exited, vars, mainVars
  <2> QED
    BY <1>1, <2>1 DEF InLoop
<1>3. ASSUME NEW w \in Workers, WorkerStep(w) PROVE ChunksInv'
  <2>1. UNCHANGED <<chunks, merged, processed, main, mainNext>>
    BY <1>3 DEF WorkerStep, Loop, ReadPhase, ClaimBlock, SortBlock, Round, ClaimPair,
                MergePair, Reduce, UnchangedByWorker, mainVars
  <2> QED
    BY <1>1, <2>1 DEF InLoop
<1>4. ASSUME NEW w \in Workers, MergeFails(w) PROVE ChunksInv'
  BY <1>1, <1>4 DEF MergeFails, InLoop
<1>5. CASE WorkersBarrier
  BY <1>1, <1>5 DEF WorkersBarrier, Released, InLoop
<1>6. CASE ControlBarrier
  <2>1. main = "control" /\ mainNext \in {"mapped", "sorted", "join", "failed"}
    BY <1>0, <1>6 DEF ControlBarrier, Types, ProcTypes
  <2> QED
    BY <1>1, <1>6, <2>1 DEF ControlBarrier, Released, InLoop
<1>7. CASE MainStep
  <2>1. CASE Create \/ StartChunk \/ AwaitChunk
    BY <1>1, <2>1 DEF Create, StartChunk, AwaitChunk, InLoop
  <2>2. CASE LeaveLoop \/ Stop \/ Join \/ MergeChunksFails
    BY <1>1, <2>2 DEF LeaveLoop, Stop, Join, MergeChunksFails, InLoop
  <2>3. CASE EndChunk
    <3>1. PICK e : e = [offset |-> processed, records |-> ChunkSize]
      OBVIOUS
    <3>2. /\ e \in Chunk /\ e.offset = processed /\ e.records = ChunkSize
      BY <1>0, <3>1 DEF Chunk
    <3>3. chunks' = Append(chunks, e) /\ merged' = merged
      BY <2>3, <3>1 DEF EndChunk
    <3>4. merged = <<>> /\ EndOf(chunks) = processed
      BY <2>3 DEF EndChunk, InLoop, ChunksInv
    <3>5. chunks \in Seq(Chunk) /\ Chain(merged \o chunks, args.records)
      BY DEF ChunksInv
    <3>6. Chain(chunks, args.records)
      BY <3>4, <3>5, ConcatEmptySeq
    <3>7. Chain(Append(chunks, e), args.records) /\ EndOf(Append(chunks, e)) = e.offset + e.records
      BY <1>0, <3>2, <3>4, <3>6, ChainAppend
    <3>8. chunks' \in Seq(Chunk) /\ merged' = <<>> /\ merged' \in Seq(Chunk)
      BY <3>3, <3>4, <3>7 DEF Chain
    <3>9. Chain(merged' \o chunks', args'.records)
      BY <1>0, <3>3, <3>7, <3>8, ConcatEmptySeq
    <3>10. InLoop' => EndOf(chunks') = processed'
      <4>1. (main' = "chunk" /\ processed' = processed + ChunkSize) \/ main' = "stop"
        BY <2>3 DEF EndChunk
      <4> QED
        BY <3>2, <3>3, <3>7, <4>1 DEF InLoop
    <3> QED
      BY <3>8, <3>9, <3>10 DEF ChunksInv
  <2>4. CASE MergeChunks
    <3>1. main' = "merge"
      BY <2>4 DEF MergeChunks
    <3>2. ~InLoop'
      BY <3>1 DEF InLoop
    <3> QED
      BY <1>0, <2>4, <3>2, MergeChunksFile DEF ChunksInv
  <2>5. CASE EndMergeRound
    <3>1. main = "merge" /\ main' \in {"merge", "success"}
      BY <2>5 DEF EndMergeRound
    <3>2. ~InLoop'
      BY <3>1 DEF InLoop
    <3>3. CASE UNCHANGED <<chunks, merged>>
      BY <1>1, <3>2, <3>3
    <3>4. CASE chunks' = merged \o chunks /\ merged' = <<>>
      <4>1. chunks' \in Seq(Chunk) /\ merged' \in Seq(Chunk)
        BY <3>4, ConcatProperties DEF ChunksInv
      <4>2. merged' \o chunks' = chunks'
        BY <3>4, <4>1, ConcatEmptySeq
      <4> QED
        BY <1>0, <3>2, <3>4, <4>1, <4>2 DEF ChunksInv
    <3> QED
      BY <2>5, <3>3, <3>4 DEF EndMergeRound
  <2> QED
    BY <1>7, <2>1, <2>2, <2>3, <2>4, <2>5 DEF MainStep
<1> QED
  BY <1>2, <1>3, <1>4, <1>5, <1>6, <1>7 DEF Next

-----------------------------------------------------------------------------
(* The blocks that have been sorted. *)

(* The blocks are those init_block_map has made, none yet merged away. *)
Fresh == phase = 1 /\ main # "failed" /\ active = args.blocks

DoneIsSorted == \A i \in 0..active-1 : map[i].state = "done" => BlockIsSorted(i)

BusyIsOwned ==
    \A i \in 0..active-1 :
      map[i].state = "busy" => \E w \in Running : pc[w] = "sorting" /\ work[w] = i

(* No worker leaves the sorting before all blocks have been claimed. *)
AllClaimed ==
    (\E w \in Running : pc[w] \in {"workers", "round", "merging", "reduce"}) =>
      \A i \in 0..active-1 : map[i].state # "free"

BlocksInv == Fresh => DoneIsSorted /\ BusyIsOwned /\ AllClaimed

DataInv == SortInv /\ FileOK /\ ChunksInv /\ BlocksInv

(* The first round of merging is an early one. *)
LEMMA FreshIsEarly ==
    ASSUME SortInv, Fresh
    PROVE  /\ active > 1 /\ Early(active) /\ ~Late(active)
           /\ active \in Nat /\ args.blocks \in Nat
           /\ Running \subseteq Workers /\ 0 \in Running
           /\ \A i \in 0..active-1 : i \in DOMAIN map /\ map[i].state \in {"free", "busy", "done"}
           /\ pc \in [Workers -> WorkerPlaces] /\ work \in [Workers -> 0..args.blocks-1]
           /\ next \in [Workers -> WorkerPlaces \cup {"none"}]
<1>1. /\ args.threads \in Nat /\ args.threads >= 1 /\ args.blocks \in Nat
      /\ args.blocks >= 4 * args.threads /\ Running \subseteq Workers /\ 0 \in Running
      /\ map \in [0..args.blocks-1 -> Block] /\ active = args.blocks
  BY ArgsFacts DEF SortInv, Types, MapTypes, Fresh
<1>2. PICK b \in Nat, t \in Nat : b = args.blocks /\ t = args.threads /\ t >= 1 /\ b >= 4 * t
  BY <1>1
<1>3. b > 1 /\ b \div 2 >= t
  BY <1>2
<1>4. active > 1 /\ Early(active)
  BY <1>1, <1>2, <1>3 DEF Early
<1>5. \A i \in 0..active-1 : i \in DOMAIN map /\ map[i].state \in {"free", "busy", "done"}
  BY <1>1 DEF Block
<1> QED
  BY <1>1, <1>4, <1>5 DEF Late, SortInv, Types, ProcTypes

(* Once a worker merges, or may, the blocks have all been sorted. *)
LEMMA AllSorted ==
    ASSUME SortInv, BlocksInv, Fresh,
           NEW w \in Running, pc[w] \in {"round", "merging", "reduce"}
    PROVE  /\ \A i \in 0..active-1 : map[i].state = "done" /\ BlockIsSorted(i)
           /\ RoundHead \/ Reducing
<1>1. RoundHead \/ Reducing
  BY FreshIsEarly
     DEF SortInv, StageInv, Setup, Crippled, Between, Sorting, Pairs, Stopping, Over, Waits, Fresh
<1>2. \A u \in Running : pc[u] # "sorting"
  BY <1>1 DEF RoundHead, Reducing, Waits
<1>3. ASSUME NEW i \in 0..active-1 PROVE map[i].state = "done"
  <2>1. map[i].state # "free"
    BY DEF BlocksInv, AllClaimed
  <2>2. map[i].state # "busy"
    BY <1>2 DEF BlocksInv, BusyIsOwned
  <2> QED
    BY <2>1, <2>2, FreshIsEarly
<1> QED
  BY <1>1, <1>3 DEF BlocksInv, DoneIsSorted

(* Nothing that BlocksInv speaks of has changed but the place of a worker. *)
LEMMA BlocksStay ==
    ASSUME SortInv, BlocksInv, Fresh, UNCHANGED <<args, file, phase, map, active, processed, work>>,
           \A u \in Running : pc[u] = "sorting" => pc'[u] = "sorting",
           \A u \in Running : pc'[u] \in {"workers", "round", "merging", "reduce"} =>
                                \A i \in 0..active-1 : map[i].state # "free"
    PROVE  BlocksInv'
<1>1. Running' = Running
  BY DEF Running
<1>2. DoneIsSorted'
  BY DEF BlocksInv, DoneIsSorted, BlockIsSorted
<1>3. BusyIsOwned'
  BY <1>1 DEF BlocksInv, BusyIsOwned
<1>4. AllClaimed'
  BY <1>1 DEF AllClaimed
<1> QED
  BY <1>2, <1>3, <1>4 DEF BlocksInv

(* A block is claimed. *)
LEMMA BlocksClaimed ==
    ASSUME SortInv, BlocksInv, Fresh, NEW w \in Workers, WorkerStep(w), ClaimBlock(w),
           Claim(w, active, "sorting")
    PROVE  BlocksInv'
<1>1. /\ w \in Running /\ Running' = Running /\ Running \subseteq Workers
      /\ UNCHANGED <<args, phase, main, mainNext, processed>>
      /\ \A u \in Workers : u # w => pc'[u] = pc[u] /\ work'[u] = work[u]
  BY Moved DEF SortInv
<1>2. UNCHANGED <<file, active>> /\ pc[w] = "claim"
  BY DEF ClaimBlock
<1>3. active \in 0..args.blocks /\ Types
  BY DEF SortInv, Types, MapTypes
<1>4. PICK i \in 0..active-1 :
        /\ i \in DOMAIN map /\ map[i].state = "free" /\ map'[i].state = "busy"
        /\ \A j \in DOMAIN map : j # i => map'[j] = map[j]
        /\ work'[w] = i /\ pc'[w] = "sorting"
  BY <1>1, <1>3, Claimed
<1>5. DoneIsSorted'
  <2> SUFFICES ASSUME NEW j \in 0..active-1, map'[j].state = "done" PROVE BlockIsSorted(j)'
    BY <1>2 DEF DoneIsSorted
  <2>1. map'[j] = map[j]
    BY <1>4, FreshIsEarly
  <2>2. BlockIsSorted(j)
    BY <2>1 DEF BlocksInv, DoneIsSorted
  <2> QED
    BY <1>1, <1>2, <2>1, <2>2 DEF BlockIsSorted
<1>6. BusyIsOwned'
  <2> SUFFICES ASSUME NEW j \in 0..active-1, map'[j].state = "busy"
               PROVE  \E u \in Running : pc'[u] = "sorting" /\ work'[u] = j
    BY <1>1, <1>2 DEF BusyIsOwned
  <2>1. CASE j = i
    BY <1>1, <1>4, <2>1
  <2>2. CASE j # i
    <3>1. map[j].state = "busy"
      BY <1>4, <2>2, FreshIsEarly
    <3>2. PICK u \in Running : pc[u] = "sorting" /\ work[u] = j
      BY <3>1 DEF BlocksInv, BusyIsOwned
    <3>3. u # w /\ u \in Workers
      BY <1>1, <1>2, <3>2
    <3> QED
      BY <1>1, <3>2, <3>3
  <2> QED
    BY <2>1, <2>2
<1>7. AllClaimed'
  <2>1. \A u \in Running : pc[u] \notin {"workers", "round", "merging", "reduce"}
    BY <1>4 DEF BlocksInv, AllClaimed
  <2>2. \A u \in Running : pc'[u] \notin {"workers", "round", "merging", "reduce"}
    <3> TAKE u \in Running
    <3>1. CASE u = w
      BY <1>4, <3>1
    <3>2. CASE u # w
      BY <1>1, <2>1, <3>2
    <3> QED
      BY <3>1, <3>2
  <2> QED
    BY <1>1, <2>2 DEF AllClaimed
<1> QED
  BY <1>5, <1>6, <1>7 DEF BlocksInv

(* A block has been sorted. *)
LEMMA BlocksSorted ==
    ASSUME SortInv, FileOK, BlocksInv, Fresh, NEW w \in Workers, WorkerStep(w), SortBlock(w)
    PROVE  BlocksInv'
<1>1. /\ w \in Running /\ Running' = Running /\ Running \subseteq Workers
      /\ UNCHANGED <<args, phase, main, mainNext, processed>>
      /\ \A u \in Workers : u # w => pc'[u] = pc[u] /\ work'[u] = work[u]
  BY Moved DEF SortInv
<1>2. /\ UNCHANGED <<active, work>> /\ pc[w] = "sorting" /\ pc' = [pc EXCEPT ![w] = "claim"]
      /\ map' = [map EXCEPT ![work[w]].state = "done"]
  BY DEF SortBlock, Goto
<1>3. PICK i : i = work[w]
  OBVIOUS
<1>4. /\ i \in 0..active-1 /\ Sorted(Run(file', processed + map[i].offset, map[i].size))
      /\ \A j \in 0..active-1 : j # i => Run(file', processed + map[j].offset, map[j].size) =
                                         Run(file, processed + map[j].offset, map[j].size)
  BY <1>3, SortBlockFile
<1>5. /\ \A j \in DOMAIN map : map'[j].offset = map[j].offset /\ map'[j].size = map[j].size
      /\ \A j \in DOMAIN map : map'[j].state = IF j = i THEN "done" ELSE map[j].state
  <2>1. i \in DOMAIN map /\ MapTypes
    BY <1>4, FreshIsEarly DEF SortInv, Types
  <2> QED
    BY <1>2, <1>3, <2>1, MarkedMap
<1>6. pc'[w] = "claim"
  BY <1>2, FreshIsEarly
<1>7. DoneIsSorted'
  <2> SUFFICES ASSUME NEW j \in 0..active-1, map'[j].state = "done" PROVE BlockIsSorted(j)'
    BY <1>2 DEF DoneIsSorted
  <2>0. j \in DOMAIN map
    BY FreshIsEarly
  <2>1. Sorted(Run(file', processed + map[j].offset, map[j].size))
    <3>1. CASE j = i
      BY <1>4, <3>1
    <3>2. CASE j # i
      <4>1. map[j].state = "done"
        BY <1>5, <2>0, <3>2
      <4>2. BlockIsSorted(j)
        BY <4>1 DEF BlocksInv, DoneIsSorted
      <4> QED
        BY <1>4, <3>2, <4>2 DEF BlockIsSorted
    <3> QED
      BY <3>1, <3>2
  <2>2. map'[j].offset = map[j].offset /\ map'[j].size = map[j].size
    BY <1>5, <2>0
  <2> QED
    BY <1>1, <2>1, <2>2 DEF BlockIsSorted
<1>8. BusyIsOwned'
  <2> SUFFICES ASSUME NEW j \in 0..active-1, map'[j].state = "busy"
               PROVE  \E u \in Running : pc'[u] = "sorting" /\ work'[u] = j
    BY <1>1, <1>2 DEF BusyIsOwned
  <2>1. j # i /\ map[j].state = "busy"
    BY <1>5, FreshIsEarly
  <2>2. PICK u \in Running : pc[u] = "sorting" /\ work[u] = j
    BY <2>1 DEF BlocksInv, BusyIsOwned
  <2>3. u # w /\ u \in Workers
    BY <1>1, <1>3, <2>1, <2>2
  <2> QED
    BY <1>1, <2>2, <2>3
<1>9. AllClaimed'
  <2> SUFFICES ASSUME NEW u \in Running, pc'[u] \in {"workers", "round", "merging", "reduce"},
                      NEW j \in 0..active-1
               PROVE  map'[j].state # "free"
    BY <1>1, <1>2 DEF AllClaimed
  <2>1. u # w
    BY <1>6
  <2>2. pc[u] \in {"workers", "round", "merging", "reduce"}
    BY <1>1, <2>1
  <2>3. map[j].state # "free"
    BY <2>2 DEF BlocksInv, AllClaimed
  <2> QED
    BY <1>5, <2>3, FreshIsEarly
<1> QED
  BY <1>7, <1>8, <1>9 DEF BlocksInv

(* Two blocks have been merged. *)
LEMMA BlocksMerged ==
    ASSUME SortInv, FileOK, BlocksInv, Fresh, NEW w \in Workers, WorkerStep(w), MergePair(w)
    PROVE  BlocksInv'
<1>1. /\ w \in Running /\ Running' = Running /\ Running \subseteq Workers
      /\ UNCHANGED <<args, phase, main, mainNext, processed>>
  BY Moved DEF SortInv
<1>2. pc[w] = "merging" /\ active' = active
  BY DEF MergePair
<1>3. /\ \A i \in 0..active-1 : map[i].state = "done" /\ BlockIsSorted(i)
      /\ RoundHead \/ Reducing
  BY <1>1, <1>2, AllSorted
<1>4. mine[w] = active
  BY <1>1, <1>2, <1>3 DEF RoundHead, Reducing, Waits
<1>5. map' = map
  BY <1>4, FreshIsEarly DEF MergePair
<1>6. \A i \in 0..active-1 : Sorted(Run(file', processed + map[i].offset, map[i].size))
  BY <1>3, MergePairFile
<1>7. DoneIsSorted'
  BY <1>1, <1>2, <1>5, <1>6 DEF DoneIsSorted, BlockIsSorted
<1>8. BusyIsOwned' /\ AllClaimed'
  BY <1>2, <1>3, <1>5 DEF BusyIsOwned, AllClaimed
<1> QED
  BY <1>7, <1>8 DEF BlocksInv

(* The blocks through a step of a worker. *)
LEMMA BlocksWorker ==
    ASSUME SortInv, FileOK, BlocksInv, NEW w \in Workers, WorkerStep(w) PROVE BlocksInv'
<1>0. SUFFICES ASSUME Fresh' PROVE BlocksInv'
  BY DEF BlocksInv
<1>1. /\ w \in Running /\ Running' = Running /\ Running \subseteq Workers
      /\ UNCHANGED <<args, phase, main, mainNext, processed>>
      /\ \A u \in Workers : u # w => pc'[u] = pc[u] /\ work'[u] = work[u]
  BY Moved DEF SortInv
<1>2. ~(Reduce(w) /\ w = 0)
  <2>1. SUFFICES ASSUME Reduce(w), w = 0 PROVE FALSE
    OBVIOUS
  <2>2. pc[0] = "reduce" /\ active' = (mine[0] + 1) \div 2
    BY <2>1 DEF Reduce
  <2>3. active = mine[0] /\ mine[0] > 1
    BY <1>1, <2>1, <2>2, ReducerCounts DEF SortInv
  <2>4. active \in 0..args.blocks /\ args.blocks \in Nat /\ active' = args.blocks
    BY <1>0, <1>1, ArgsFacts DEF SortInv, Types, MapTypes, Fresh
  <2>5. PICK n \in Nat : n = active
    BY <2>4
  <2>6. (n + 1) \div 2 < n
    BY <2>3, <2>5
  <2> QED
    BY <2>2, <2>3, <2>4, <2>5, <2>6
<1>3. Fresh /\ active' = active
  BY <1>0, <1>1, <1>2, PlacesStay DEF SortInv, Fresh
<1>4. ASSUME UNCHANGED <<file, map, work>>, pc[w] # "sorting",
             \/ pc[w] \in {"workers", "round", "merging", "reduce"}
             \/ pc'[w] \notin {"workers", "round", "merging", "reduce"}
             \/ \A i \in 0..active-1 : map[i].state # "free"
      PROVE  BlocksInv'
  <2>1. \A u \in Running : pc[u] = "sorting" => pc'[u] = "sorting"
    BY <1>1, <1>4
  <2>2. ASSUME NEW u \in Running, pc'[u] \in {"workers", "round", "merging", "reduce"}
        PROVE  \A i \in 0..active-1 : map[i].state # "free"
    <3>1. CASE u = w
      BY <1>1, <1>3, <1>4, <2>2, <3>1 DEF BlocksInv, AllClaimed
    <3>2. CASE u # w
      BY <1>1, <1>3, <2>2, <3>2 DEF BlocksInv, AllClaimed
    <3> QED
      BY <3>1, <3>2
  <2> QED
    BY <1>1, <1>3, <1>4, <2>1, <2>2, BlocksStay
<1>5. CASE pc[w] = "loop" /\ Loop(w)
  <2>1. pc'[w] = "control"
    BY <1>3, <1>5, FreshIsEarly DEF Loop, Wait
  <2> QED
    BY <1>4, <1>5, <2>1 DEF Loop
<1>6. CASE pc[w] = "phase" /\ ReadPhase(w)
  <2>1. pc'[w] \in {"dead", "claim", "loop"}
    BY <1>3, <1>6, FreshIsEarly DEF ReadPhase, Goto
  <2> QED
    BY <1>4, <1>6, <2>1 DEF ReadPhase
<1>7. CASE pc[w] = "claim" /\ ClaimBlock(w)
  <2>1. CASE Claim(w, active, "sorting")
    BY <1>3, <1>7, <2>1, BlocksClaimed
  <2>2. CASE Free(active) = {} /\ Wait(w, "workers", "round") /\ UNCHANGED <<map, work>>
    <3>1. \A i \in 0..active-1 : map[i].state # "free"
      BY <2>2 DEF Free
    <3> QED
      BY <1>4, <1>7, <2>2, <3>1 DEF ClaimBlock
  <2> QED
    BY <1>7, <2>1, <2>2 DEF ClaimBlock
<1>8. CASE pc[w] = "sorting" /\ SortBlock(w)
  BY <1>3, <1>8, BlocksSorted
<1>9. CASE pc[w] = "round" /\ Round(w)
  <2>1. UNCHANGED <<file, map>>
    BY <1>3, <1>9, FreshIsEarly DEF Round
  <2>2. \A i \in 0..active-1 : map[i].state = "done" /\ BlockIsSorted(i)
    BY <1>1, <1>3, <1>9, AllSorted
  <2>3. DoneIsSorted'
    BY <1>1, <1>3, <2>1, <2>2 DEF DoneIsSorted, BlockIsSorted
  <2>4. BusyIsOwned' /\ AllClaimed'
    BY <1>3, <2>1, <2>2 DEF BusyIsOwned, AllClaimed
  <2> QED
    BY <2>3, <2>4 DEF BlocksInv
<1>10. CASE pc[w] = "claimPair" /\ ClaimPair(w)
  <2>1. Pairs
    BY <1>1, <1>10
       DEF SortInv, StageInv, Setup, Crippled, Between, Sorting, RoundHead, Reducing, Stopping,
           Over, Waits
  <2> QED
    BY <1>3, <2>1, FreshIsEarly DEF Pairs
<1>11. CASE pc[w] = "merging" /\ MergePair(w)
  BY <1>3, <1>11, BlocksMerged
<1>12. CASE pc[w] = "reduce" /\ Reduce(w)
  BY <1>2, <1>4, <1>12 DEF Reduce
<1> QED
  BY <1>5, <1>6, <1>7, <1>8, <1>9, <1>10, <1>11, <1>12, WorkerAt

(* The blocks through any step. *)
LEMMA BlocksStep ==
    ASSUME SortInv, FileOK, BlocksInv, [Next]_vars PROVE BlocksInv'
<1>0. SUFFICES ASSUME Fresh' PROVE BlocksInv'
  BY DEF BlocksInv
<1>1. Running \subseteq Workers /\ 0 \in Running /\ Types /\ StageInv
  BY ArgsFacts DEF SortInv, Types, MapTypes
<1>2. ASSUME UNCHANGED <<args, file, phase, map, active, processed, work, pc>>, main # "failed"
      PROVE  BlocksInv'
  <2>1. Fresh
    BY <1>0, <1>2 DEF Fresh
  <2>2. \A u \in Running : pc'[u] \in {"workers", "round", "merging", "reduce"} =>
          \A i \in 0..active-1 : map[i].state # "free"
    BY <1>2, <2>1 DEF BlocksInv, AllClaimed
  <2> QED
    BY <1>2, <2>1, <2>2, BlocksStay
<1>3. CASE UNCHANGED vars \/ Exited
  <2>1. UNCHANGED <<args, file, phase, map, active, processed, work, pc, main>>
    BY <1>3 DEF Exited, vars, mainVars, workerVars
  <2>2. main # "failed"
    BY <1>0, <2>1 DEF Fresh
  <2> QED
    BY <1>2, <2>1, <2>2
<1>4. CASE MainStep
  <2>1. CASE Create
    <3>1. Setup
      BY <1>1, <2>1 DEF Create, StageInv, Crippled, Between, Sorting, RoundHead, Pairs, Reducing,
                        Stopping, Over, MainAway
    <3>2. phase' # 1
      BY <2>1, <3>1 DEF Create, Setup
    <3> QED
      BY <1>0, <3>2 DEF Fresh
  <2>2. CASE StartChunk
    <3>1. main' # "failed"
      BY <1>0 DEF Fresh
    <3>2. /\ map' = [i \in DOMAIN map |-> [offset |-> BlockOffset(i), size |-> BlockSize(i),
                                            state |-> "free"]]
          /\ UNCHANGED <<args, pc>> /\ active' = args.blocks /\ main = "chunk"
      BY <2>2, <3>1 DEF StartChunk
    <3>3. Between
      BY <1>1, <3>2 DEF StageInv, Setup, Crippled, Sorting, RoundHead, Pairs, Reducing,
                        Stopping, Over, MainAway
    <3>4. Running' = Running /\ DOMAIN map = 0..args.blocks-1
      BY <1>1, <3>2 DEF Running, Types, MapTypes
    <3>5. \A i \in 0..args.blocks-1 : map'[i].state = "free"
      BY <3>2, <3>4
    <3>6. DoneIsSorted' /\ BusyIsOwned'
      BY <3>2, <3>5 DEF DoneIsSorted, BusyIsOwned
    <3>7. \A u \in Running : pc'[u] \in {"loop", "control"}
      BY <3>2, <3>3 DEF Between, Waits
    <3>8. AllClaimed'
      BY <3>4, <3>7 DEF AllClaimed
    <3> QED
      BY <3>6, <3>8 DEF BlocksInv
  <2>3. CASE AwaitChunk \/ LeaveLoop \/ Join \/ EndMergeRound
    <3>1. /\ UNCHANGED <<args, file, phase, map, active, processed, work, pc>>
          /\ main # "failed"
      BY <2>3 DEF AwaitChunk, LeaveLoop, Join, EndMergeRound, UnchangedByMain, workerVars
    <3> QED
      BY <1>2, <3>1
  <2>4. CASE EndChunk
    <3>1. phase' # 0
      BY <1>0 DEF Fresh
    <3>2. /\ UNCHANGED <<args, file, phase, map, active, processed, work, pc>>
          /\ main # "failed"
      BY <2>4, <3>1 DEF EndChunk, UnchangedByMain, workerVars
    <3> QED
      BY <1>2, <3>2
  <2>5. ~Stop /\ ~MergeChunksFails
    BY <1>0 DEF Stop, MergeChunksFails, Fresh
  <2>6. ~MergeChunks
    <3>1. SUFFICES ASSUME MergeChunks PROVE FALSE
      OBVIOUS
    <3>2. main = "merge" /\ phase = 1
      BY <1>0, <3>1 DEF MergeChunks, Fresh
    <3> QED
      BY <1>1, <3>2 DEF StageInv, Setup, Crippled, Between, Sorting, RoundHead, Pairs,
                        Reducing, Stopping, Over, MainAway
  <2> QED
    BY <1>4, <2>1, <2>2, <2>3, <2>4, <2>5, <2>6 DEF MainStep
<1>5. ASSUME NEW b \in {"workers", "control"}, Released(Arrived(b)), main # "failed",
             Cardinality(Arrived(b)) = args.threads,
             b = "control" => \A u \in Running : next[u] \in {"phase", "loop"}
      PROVE  BlocksInv'
  <2>1. \A u \in Running : pc[u] = b
    BY <1>1, <1>5, FullBarrier
  <2>2. /\ UNCHANGED <<args, phase, map, active, mine, work, processed>>
        /\ \A u \in Running : pc'[u] = next[u]
    BY <1>1, <1>5, <2>1, Opened
  <2>3. Fresh /\ UNCHANGED file
    BY <1>0, <1>5, <2>2 DEF Fresh, Released
  <2>4. \A u \in Running : pc[u] # "sorting"
    BY <2>1
  <2>5. b = "workers" => \A i \in 0..active-1 : map[i].state # "free"
    BY <1>1, <2>1, <2>3 DEF BlocksInv, AllClaimed
  <2>6. \A u \in Running : pc'[u] \in {"workers", "round", "merging", "reduce"} =>
          \A i \in 0..active-1 : map[i].state # "free"
    BY <1>5, <2>2, <2>5
  <2> QED
    BY <2>2, <2>3, <2>4, <2>6, BlocksStay
<1>6. CASE WorkersBarrier
  <2>1. main # "failed"
    BY <1>0, <1>6 DEF WorkersBarrier, Fresh
  <2> QED
    BY <1>5, <1>6, <2>1 DEF WorkersBarrier
<1>7. CASE ControlBarrier
  <2>1. \A u \in Running : pc[u] = "control"
    BY <1>1, <1>7, FullBarrier DEF ControlBarrier
  <2>2. main = "control"
    BY <1>7 DEF ControlBarrier
  <2>3. \A u \in Running : next[u] \in {"phase", "loop"}
    BY <1>1, <2>1, <2>2 DEF StageInv, Setup, Crippled, Between, Sorting, RoundHead, Pairs,
                            Reducing, Stopping, Over, Waits
  <2> QED
    BY <1>5, <1>7, <2>2, <2>3 DEF ControlBarrier
<1>8. ASSUME NEW w \in Workers, MergeFails(w) PROVE FALSE
  BY <1>0, <1>8 DEF MergeFails, Fresh
<1>9. ASSUME NEW w \in Workers, WorkerStep(w) PROVE BlocksInv'
  BY <1>9, BlocksWorker
<1> QED
  BY <1>3, <1>4, <1>6, <1>7, <1>8, <1>9 DEF Next

(* The inductive invariant, with the contents of the file. *)
LEMMA DataInvariant == Spec => []DataInv
<1>1. Init /\ SortInv => FileOK /\ ChunksInv /\ BlocksInv
  <2> SUFFICES ASSUME Init, SortInv PROVE FileOK /\ ChunksInv /\ BlocksInv
    OBVIOUS
  <2>1. args.records \in Nat
    BY ArgsFacts DEF SortInv, Types, MapTypes
  <2>2. FileOK
    BY <2>1, SeqDef, LenProperties DEF Init, FileOK
  <2>3. merged = <<>> /\ chunks = <<>> /\ processed = 0
    BY DEF Init
  <2>4. <<>> \in Seq(Chunk) /\ Len(<<>>) = 0 /\ merged \o chunks = <<>>
    BY <2>3, EmptySeq, ConcatEmptySeq
  <2>5. Chain(<<>>, args.records)
    BY <2>4 DEF Chain
  <2>6. EndOf(<<>>) = 0
    BY DEF EndOf
  <2>7. ChunksInv
    BY <2>3, <2>4, <2>5, <2>6 DEF ChunksInv
  <2>8. BlocksInv
    BY DEF Init, BlocksInv, Fresh
  <2> QED
    BY <2>2, <2>7, <2>8
<1>2. SortInv /\ FileOK /\ ChunksInv /\ BlocksInv /\ [Next]_vars =>
        FileOK' /\ ChunksInv' /\ BlocksInv'
  BY FileStep, ChunksStep, BlocksStep
<1> QED
  BY <1>1, <1>2, SortInvariant, PTL DEF Spec, DataInv

(* Type correctness of every variable: whatever is merged stays a file of  *)
(* as many records, and the chunks stay within it.                         *)
THEOREM EverythingTyped == Spec => []TypeOK
<1>1. ASSUME DataInv PROVE TypeOK
  <2>1. MapTypes /\ ProcTypes
    BY <1>1 DEF DataInv, SortInv, Types
  <2>2. file \in [1..args.records -> Keys]
    <3>1. file \in Seq(Keys) /\ Len(file) = args.records
      BY <1>1 DEF DataInv, FileOK
    <3> QED
      BY <3>1, LenProperties
  <2>3. chunks \in Seq([offset : Nat, records : Nat]) /\ merged \in Seq([offset : Nat, records : Nat])
    BY <1>1 DEF DataInv, ChunksInv, Chunk
  <2> QED
    BY <2>1, <2>2, <2>3 DEF TypeOK, MapTypes, ProcTypes, Block
<1> QED
  BY <1>1, DataInvariant, PTL

(* Neither the sorting of a block, nor the merging of two of them, nor that *)
(* of two chunks loses or duplicates a record.                              *)
THEOREM RecordsSurvive == Spec => RecordsKept
<1>1. ASSUME DataInv, [Next]_vars
      PROVE  [\A k \in Keys : Occurs(file', k) = Occurs(file, k)]_vars
  BY <1>1, FileStep DEF DataInv, SameRecords
<1> QED
  BY <1>1, DataInvariant, PTL DEF Spec, RecordsKept

(* The barriers keep the rounds apart: the blocks tile the chunk, all are  *)
(* sorted before any two are merged, and a late round ends complete.       *)
THEOREM RoundsKeepOrder == Spec => []RoundsInOrder
<1>1. ASSUME DataInv PROVE SortedBeforeMerge
  <2>1. SUFFICES ASSUME NEW w \in Workers, pc[w] \in {"round", "merging"}, active = args.blocks,
                        NEW i \in 0..active-1
                 PROVE  BlockIsSorted(i)
    BY DEF SortedBeforeMerge
  <2>2. SortInv /\ BlocksInv /\ StageInv /\ Types
    BY <1>1 DEF DataInv, SortInv
  <2>3. w \in Running
    BY <2>1, <2>2 DEF Types, ProcTypes
  <2>4. MainAway
    BY <2>1, <2>2, <2>3 DEF StageInv, Setup, Crippled, Between, Sorting, RoundHead, Pairs,
                            Reducing, Stopping, Over, Waits
  <2>5. Fresh
    BY <2>1, <2>4 DEF MainAway, Fresh
  <2> QED
    BY <2>1, <2>2, <2>3, <2>5, AllSorted
<1>2. DataInv => SortedBeforeMerge
  BY <1>1
<1> QED
  BY <1>2, DataInvariant, NothingLeftOut, RoundsAreComplete, PTL DEF RoundsInOrder

=============================================================================
