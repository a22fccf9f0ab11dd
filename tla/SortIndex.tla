----------------------------- MODULE SortIndex -----------------------------
(***************************************************************************)
(* LAB_6, sort_index: the main thread maps one chunk of the index file     *)
(* after another; the worker threads sort the blocks of the chunk and      *)
(* merge them in rounds, in step through two barriers; at the end the main *)
(* thread merges the chunks in the file.                                   *)
(*                                                                         *)
(* A record is its key.  The mapping is shared, so that the file itself is *)
(* the buffer; qsort and merge_two_runs are one step each, which is sound  *)
(* as no two threads work on the same records (DisjointWork).              *)
(***************************************************************************)
EXTENDS Integers, FiniteSets, Sequences

CONSTANTS
    Args,       \* command lines: [threads, blocks, perChunk, records]
    Keys,       \* the time marks
    MaxThreads, \* bound: the most threads of a command line
    MayFail     \* whether system calls may fail

(* What validate_cli accepts.  memsize / sizeof(struct index_s) is perChunk, *)
(* and records is what the header of the file says.                          *)
Accepted(a) == /\ \E e \in 0..30 : a.blocks = 2^e
               /\ a.threads > 0
               /\ a.blocks >= 4 * a.threads
               /\ a.perChunk > 0

ASSUME SortAssumption ==
    /\ MayFail \in BOOLEAN
    /\ Keys \subseteq Int
    /\ MaxThreads \in Nat
    /\ \A a \in Args : /\ Accepted(a) /\ a.threads \in 1..MaxThreads
                       /\ {a.blocks, a.perChunk, a.records} \subseteq Nat

VARIABLES
    args,       \* the command line
    file,       \* the records of the file, the mapped chunk among them
    phase,      \* ctx.phase (done is set together with phase 2)
    map,        \* ctx.block_map
    active,     \* ctx.active_blocks
    processed,  \* the records of the chunks done
    chunks,     \* the chunks [offset, records] to merge ...
    merged,     \* ... and those the current merge round has made
    main,       \* where the main thread is
    mainNext,   \* where it goes from the control barrier
    pc,         \* where each worker is
    next,       \* where it goes from the barrier it waits at
    mine,       \* its local variable active
    work        \* the block it sorts, or the pair it merges

workerVars == <<pc, next, mine, work>>
mainVars == <<main, mainNext, processed, chunks, merged>>
vars == <<args, file, phase, map, active, mainVars, workerVars>>

Workers == 0..MaxThreads-1
Running == 0..args.threads-1

NoBlock == [offset |-> 0, size |-> 0, state |-> "free"]

Init == /\ args \in Args
        /\ file \in [1..args.records -> Keys]
        /\ phase = 0
        /\ map = [i \in 0..args.blocks-1 |-> NoBlock]
        /\ active = 0
        /\ processed = 0
        /\ chunks = <<>> /\ merged = <<>>
        /\ main = "create" /\ mainNext = "none"
        /\ pc = [w \in Workers |-> "unborn"]
        /\ next = [w \in Workers |-> "none"]
        /\ mine = [w \in Workers |-> 0]
        /\ work = [w \in Workers |-> 0]

-----------------------------------------------------------------------------
(* Sorting and merging runs of the file. *)

(* The records offset+1 .. offset+Len(run) of s replaced by run. *)
Overwrite(s, offset, run) ==
    [i \in DOMAIN s |-> IF i \in offset+1..offset+Len(run) THEN run[i - offset] ELSE s[i]]

Run(s, offset, size) == SubSeq(s, offset + 1, offset + size)

Sorted(s) == \A i \in 1..Len(s)-1 : s[i] <= s[i+1]

Occurs(s, k) == Cardinality({i \in DOMAIN s : s[i] = k})

(* qsort with cmp_index, by what it promises: the same records in order. *)
SortRun(s) == CHOOSE t \in [1..Len(s) -> Keys] :
                Sorted(t) /\ \A k \in Keys : Occurs(t, k) = Occurs(s, k)

(* Mutant: what remains of one run is not copied. *)
MergeRunsShort(left, right) ==
    LET m[p \in (1..Len(left)+1) \X (1..Len(right)+1)] ==
          LET i == p[1]
              j == p[2]
          IN  IF i > Len(left) \/ j > Len(right) THEN <<>>
              ELSE IF left[i] <= right[j] THEN <<left[i]>> \o m[<<i + 1, j>>]
                                          ELSE <<right[j]>> \o m[<<i, j + 1>>]
    IN  m[<<1, 1>>]

(* The loops of merge_two_runs, which are those of merge_two_sorted_chunks: *)
(* m[<<i, j>>] is what they append from left[i..] and right[j..].           *)
MergeRuns(left, right) ==
    LET m[p \in (1..Len(left)+1) \X (1..Len(right)+1)] ==
          LET i == p[1]
              j == p[2]
          IN  IF i > Len(left) \/ j > Len(right)
                THEN SubSeq(left, i, Len(left)) \o SubSeq(right, j, Len(right))
              ELSE IF left[i] <= right[j] THEN <<left[i]>> \o m[<<i + 1, j>>]
                                          ELSE <<right[j]>> \o m[<<i, j + 1>>]
    IN  m[<<1, 1>>]

-----------------------------------------------------------------------------
(* The barriers.  Whoever arrives waits until all parties have arrived,    *)
(* wherever in the code each of them has called pthread_barrier_wait.      *)

Goto(w, place) == /\ pc' = [pc EXCEPT ![w] = place]
                  /\ UNCHANGED next

Wait(w, barrier, place) == /\ pc' = [pc EXCEPT ![w] = barrier]
                           /\ next' = [next EXCEPT ![w] = place]

Arrived(barrier) == {w \in Workers : pc[w] = barrier}

Released(S) == /\ pc' = [w \in Workers |-> IF w \in S THEN next[w] ELSE pc[w]]
               /\ next' = [w \in Workers |-> IF w \in S THEN "none" ELSE next[w]]
               /\ UNCHANGED <<args, file, phase, map, active, mine, work,
                              processed, chunks, merged>>

WorkersBarrier == /\ Cardinality(Arrived("workers")) = args.threads
                  /\ Released(Arrived("workers"))
                  /\ UNCHANGED <<main, mainNext>>

ControlBarrier == /\ Cardinality(Arrived("control")) = args.threads
                  /\ main = "control"
                  /\ Released(Arrived("control"))
                  /\ main' = mainNext
                  /\ mainNext' = "none"

-----------------------------------------------------------------------------
(* worker_thread. *)

UnchangedByWorker == UNCHANGED <<args, phase, mainVars>>

Loop(w) ==
    /\ pc[w] = "loop"
    /\ Wait(w, "control", "phase")
    /\ UNCHANGED <<file, map, active, mine, work>> /\ UnchangedByWorker

ReadPhase(w) ==
    /\ pc[w] = "phase"
    /\ Goto(w, CASE phase = 2 -> "dead" [] phase = 1 -> "claim" [] OTHER -> "loop")
    /\ UNCHANGED <<file, map, active, mine, work>> /\ UnchangedByWorker

Free(n) == {i \in 0..n-1 : map[i].state = "free"}

(* Mutant: the block is not marked busy. *)
ClaimUnmarked(w, n, place) ==
    \E i \in Free(n) : /\ \A j \in Free(n) : i <= j
                       /\ work' = [work EXCEPT ![w] = i]
                       /\ Goto(w, place)
                       /\ UNCHANGED map

(* get_free_block_for_sort and get_free_pair_for_merge: the first free one *)
(* becomes busy, under map_mutex.                                          *)
Claim(w, n, place) ==
    \E i \in Free(n) : /\ \A j \in Free(n) : i <= j
                       /\ map' = [map EXCEPT ![i].state = "busy"]
                       /\ work' = [work EXCEPT ![w] = i]
                       /\ Goto(w, place)

(* Mutant: no barrier between sorting and merging. *)
ClaimBlockHastily(w) ==
    /\ pc[w] = "claim"
    /\ \/ Claim(w, active, "sorting")
       \/ Free(active) = {} /\ Goto(w, "round") /\ UNCHANGED <<map, work>>
    /\ UNCHANGED <<file, active, mine>> /\ UnchangedByWorker

ClaimBlock(w) ==
    /\ pc[w] = "claim"
    /\ \/ Claim(w, active, "sorting")
       \/ Free(active) = {} /\ Wait(w, "workers", "round") /\ UNCHANGED <<map, work>>
    /\ UNCHANGED <<file, active, mine>> /\ UnchangedByWorker

SortBlock(w) ==
    /\ pc[w] = "sorting"
    /\ LET b == map[work[w]] IN
         file' = Overwrite(file, processed + b.offset,
                           SortRun(Run(file, processed + b.offset, b.size)))
    /\ map' = [map EXCEPT ![work[w]].state = "done"]
    /\ Goto(w, "claim")
    /\ UNCHANGED <<active, mine, work>> /\ UnchangedByWorker

Early(n) == n \div 2 >= args.threads

(* The head of a merge round.  In an early round the worker has the pair   *)
(* with its own number; in a late one worker 0 frees the pairs to claim.   *)
Round(w) ==
    /\ pc[w] = "round"
    /\ mine' = [mine EXCEPT ![w] = active]
    /\ \/ /\ active <= 1
          /\ Wait(w, "control", "loop")
          /\ UNCHANGED <<map, work>>
       \/ /\ active > 1 /\ Early(active)
          /\ IF w < active \div 2
               THEN work' = [work EXCEPT ![w] = w] /\ Goto(w, "merging")
               ELSE UNCHANGED work /\ Wait(w, "workers", "reduce")
          /\ UNCHANGED map
       \/ /\ active > 1 /\ ~Early(active)
          /\ IF w = 0
               THEN map' = [i \in DOMAIN map |-> IF i < active \div 2
                                                   THEN [map[i] EXCEPT !.state = "free"]
                                                   ELSE map[i]]
               ELSE UNCHANGED map
          /\ Wait(w, "workers", "claimPair")
          /\ UNCHANGED work
    /\ UNCHANGED <<file, active>> /\ UnchangedByWorker

ClaimPair(w) ==
    /\ pc[w] = "claimPair"
    /\ \/ Claim(w, mine[w] \div 2, "merging")
       \/ /\ Free(mine[w] \div 2) = {}
          /\ Wait(w, "workers", "reduce")
          /\ UNCHANGED <<map, work>>
    /\ UNCHANGED <<file, active, mine>> /\ UnchangedByWorker

MergePair(w) ==
    /\ pc[w] = "merging"
    /\ LET l == map[2 * work[w]]
           r == map[2 * work[w] + 1]
           from == processed + l.offset
       IN  file' = Overwrite(file, from,
                     MergeRuns(Run(file, from, l.size), Run(file, from + l.size, r.size)))
    /\ IF Early(mine[w])
         THEN UNCHANGED map /\ Wait(w, "workers", "reduce")
         ELSE /\ map' = [map EXCEPT ![work[w]].state = "done"]
              /\ Goto(w, "claimPair")
    /\ UNCHANGED <<active, mine, work>> /\ UnchangedByWorker

(* malloc fails in merge_two_runs: exit takes the whole process down. *)
MergeFails(w) ==
    /\ pc[w] = "merging" /\ MayFail
    /\ main' = "failed" /\ mainNext' = "none"
    /\ pc' = [u \in Workers |-> IF pc[u] = "unborn" THEN "unborn" ELSE "dead"]
    /\ next' = [u \in Workers |-> "none"]
    /\ UNCHANGED <<args, file, phase, map, active, mine, work, processed, chunks, merged>>

(* Between two barriers worker 0 makes one block of each pair, and keeps   *)
(* an odd last block.                                                      *)
Reduce(w) ==
    /\ pc[w] = "reduce"
    /\ IF w = 0
         THEN /\ map' = [i \in DOMAIN map |->
                           CASE 2*i + 1 < mine[0] ->
                                  [offset |-> map[2*i].offset,
                                   size   |-> map[2*i].size + map[2*i + 1].size,
                                   state  |-> "free"]
                             [] 2*i + 1 = mine[0] -> map[2*i]
                             [] OTHER -> map[i]]
              /\ active' = (mine[0] + 1) \div 2
         ELSE UNCHANGED <<map, active>>
    /\ Wait(w, "workers", "round")
    /\ UNCHANGED <<file, mine, work>> /\ UnchangedByWorker

WorkerStep(w) == \/ Loop(w) \/ ReadPhase(w) \/ ClaimBlock(w) \/ SortBlock(w)
                 \/ Round(w) \/ ClaimPair(w) \/ MergePair(w) \/ Reduce(w)

-----------------------------------------------------------------------------
(* main. *)

(* The threads are created; when one cannot be, main waits for those that  *)
(* exist at the barrier meant for all of them.                             *)
Create ==
    /\ main = "create"
    /\ \/ /\ pc' = [w \in Workers |-> IF w \in Running THEN "loop" ELSE "unborn"]
          /\ main' = "chunk"
          /\ UNCHANGED <<phase, mainNext>>
       \/ /\ MayFail
          /\ \E i \in Running :
               pc' = [w \in Workers |-> IF w < i THEN "loop" ELSE "unborn"]
          /\ phase' = 2
          /\ main' = "control" /\ mainNext' = "failed"
    /\ UNCHANGED <<args, file, map, active, processed, chunks, merged, next, mine, work>>

ChunkSize == IF args.records - processed > args.perChunk
               THEN args.perChunk ELSE args.records - processed

(* init_block_map: blocks of equal size, the first ones longer by one. *)
BlockSize(i) == ChunkSize \div args.blocks
                + (IF i < ChunkSize % args.blocks THEN 1 ELSE 0)

(* The blocks before i together. *)
BlockOffset(i) == i * (ChunkSize \div args.blocks)
                  + (IF i < ChunkSize % args.blocks THEN i ELSE ChunkSize % args.blocks)

(* A chunk is mapped, divided and handed to the workers; a chunk with      *)
(* fewer records than there are blocks ends the process.                   *)
StartChunk ==
    /\ main = "chunk" /\ processed < args.records
    /\ IF ChunkSize >= args.blocks
         THEN /\ map' = [i \in DOMAIN map |->
                           [offset |-> BlockOffset(i),
                            size   |-> BlockSize(i),
                            state  |-> "free"]]
              /\ active' = args.blocks
              /\ phase' = 1
              /\ main' = "control" /\ mainNext' = "mapped"
              /\ UNCHANGED pc
         ELSE /\ main' = "failed"
              /\ pc' = [w \in Workers |-> IF w \in Running THEN "dead" ELSE "unborn"]
              /\ UNCHANGED <<map, active, phase, mainNext>>
    /\ UNCHANGED <<args, file, processed, chunks, merged, next, mine, work>>

UnchangedByMain == UNCHANGED <<args, map, active, workerVars>>

(* Main goes from the barrier at the start of a chunk to that at its end. *)
AwaitChunk ==
    /\ main = "mapped"
    /\ main' = "control" /\ mainNext' = "sorted"
    /\ UNCHANGED <<file, phase, processed, chunks, merged>> /\ UnchangedByMain

(* Mutant: every chunk is taken to be a full one. *)
EndChunkFull ==
    /\ main = "sorted"
    /\ chunks' = Append(chunks, [offset |-> processed, records |-> ChunkSize])
    /\ processed' = processed + args.perChunk
    /\ phase' = 0
    /\ main' = "chunk"
    /\ UNCHANGED <<file, mainNext, merged>> /\ UnchangedByMain

(* The chunk is noted and unmapped; if msync or munmap fails the loop ends. *)
EndChunk ==
    /\ main = "sorted"
    /\ chunks' = Append(chunks, [offset |-> processed, records |-> ChunkSize])
    /\ \/ /\ processed' = processed + ChunkSize
          /\ phase' = 0
          /\ main' = "chunk"
       \/ /\ MayFail
          /\ main' = "stop"
          /\ UNCHANGED <<processed, phase>>
    /\ UNCHANGED <<file, mainNext, merged>> /\ UnchangedByMain

(* All records are processed, or mmap has failed. *)
LeaveLoop ==
    /\ main = "chunk"
    /\ processed >= args.records \/ MayFail
    /\ main' = "stop"
    /\ UNCHANGED <<file, phase, mainNext, processed, chunks, merged>> /\ UnchangedByMain

(* Mutant: the workers are not told. *)
StopQuietly ==
    /\ main = "stop"
    /\ main' = "control" /\ mainNext' = "join"
    /\ UNCHANGED <<file, phase, processed, chunks, merged>> /\ UnchangedByMain

Stop ==
    /\ main = "stop"
    /\ phase' = 2
    /\ main' = "control" /\ mainNext' = "join"
    /\ UNCHANGED <<file, processed, chunks, merged>> /\ UnchangedByMain

Join ==
    /\ main = "join" /\ \A w \in Running : pc[w] = "dead"
    /\ main' = IF Len(chunks) > 1 THEN "merge" ELSE "success"
    /\ UNCHANGED <<file, phase, mainNext, processed, chunks, merged>> /\ UnchangedByMain

(* merge_sorted_chunks: the next pair of chunks is read, merged and        *)
(* written back over the first of the two; the odd last chunk is kept.     *)
MergeChunks ==
    /\ main = "merge" /\ Len(chunks) >= 2
    /\ LET l == chunks[1]
           r == chunks[2]
       IN  /\ file' = Overwrite(file, l.offset,
                        MergeRuns(Run(file, l.offset, l.records),
                                  Run(file, r.offset, r.records)))
           /\ merged' = Append(merged, [offset |-> l.offset,
                                        records |-> l.records + r.records])
    /\ chunks' = SubSeq(chunks, 3, Len(chunks))
    /\ UNCHANGED <<main, mainNext, phase, processed>> /\ UnchangedByMain

EndMergeRound ==
    /\ main = "merge" /\ Len(chunks) < 2
    /\ IF Len(merged \o chunks) > 1
         THEN chunks' = merged \o chunks /\ merged' = <<>> /\ UNCHANGED main
         ELSE main' = "success" /\ UNCHANGED <<chunks, merged>>
    /\ UNCHANGED <<file, mainNext, phase, processed>> /\ UnchangedByMain

(* No memory, or a read that fails, in merge_two_sorted_chunks. *)
MergeChunksFails ==
    /\ main = "merge" /\ Len(chunks) >= 2 /\ MayFail
    /\ main' = "failed"
    /\ UNCHANGED <<file, mainNext, phase, processed, chunks, merged>> /\ UnchangedByMain

MainStep == \/ Create \/ StartChunk \/ AwaitChunk \/ EndChunk \/ LeaveLoop \/ Stop
            \/ Join \/ MergeChunks \/ EndMergeRound \/ MergeChunksFails

Exited == main \in {"success", "failed"} /\ UNCHANGED vars

Next == \/ MainStep \/ WorkersBarrier \/ ControlBarrier \/ Exited
        \/ \E w \in Workers : WorkerStep(w) \/ MergeFails(w)

(* Every thread that can run is run. *)
Fairness == /\ WF_vars(MainStep) /\ WF_vars(WorkersBarrier) /\ WF_vars(ControlBarrier)
            /\ \A w \in Workers : WF_vars(WorkerStep(w))

Spec == Init /\ [][Next]_vars /\ Fairness

-----------------------------------------------------------------------------
(* Properties. *)

WorkerPlaces == {"unborn", "loop", "control", "workers", "phase", "claim", "sorting",
                 "round", "claimPair", "merging", "reduce", "dead"}
MainPlaces == {"create", "chunk", "control", "mapped", "sorted", "stop", "join",
               "merge", "success", "failed"}

(* Type correctness of every variable. *)
TypeOK ==
    /\ args \in Args
    /\ file \in [1..args.records -> Keys]
    /\ phase \in 0..2
    /\ map \in [0..args.blocks-1 -> [offset : Nat, size : Nat, state : {"free", "busy", "done"}]]
    /\ active \in 0..args.blocks
    /\ processed \in 0..args.records
    /\ {chunks, merged} \subseteq Seq([offset : Nat, records : Nat])
    /\ main \in MainPlaces /\ mainNext \in MainPlaces \cup {"none"}
    /\ pc \in [Workers -> WorkerPlaces]
    /\ next \in [Workers -> WorkerPlaces \cup {"none"}]
    /\ mine \in [Workers -> 0..args.blocks]
    /\ work \in [Workers -> 0..args.blocks-1]

(* The records of the chunk a worker reads and writes. *)
Region(w) ==
    LET first == IF pc[w] = "sorting" THEN work[w] ELSE 2 * work[w]
        end == IF pc[w] = "sorting" THEN work[w] ELSE 2 * work[w] + 1
    IN  map[first].offset .. map[end].offset + map[end].size - 1

Working == {w \in Workers : pc[w] \in {"sorting", "merging"}}

(* No two workers ever work on the same record, whether they claim their   *)
(* blocks and pairs under map_mutex or take them by their thread number;   *)
(* and the mapping stays while anybody works on it: main waits at the      *)
(* barrier that ends the chunk.                                            *)
DisjointWork ==
    \A v, w \in Working : v # w => Region(v) \cap Region(w) = {}

MappedWhileUsed ==
    Working # {} => main = "mapped" \/ (main = "control" /\ mainNext = "sorted")

WorkIsSafe == DisjointWork /\ MappedWhileUsed

(* The active blocks always tile the chunk, so that a round leaves nothing *)
(* out and the last block is the whole chunk.                              *)
BlocksTileChunk ==
    phase = 1 /\ main # "failed" =>
      /\ map[0].offset = 0
      /\ \A i \in 0..active-2 : map[i+1].offset = map[i].offset + map[i].size
      /\ map[active-1].offset + map[active-1].size = ChunkSize

BlockIsSorted(i) == Sorted(Run(file, processed + map[i].offset, map[i].size))

(* No merge round begins before every block has been sorted. *)
SortedBeforeMerge ==
    (\E w \in Workers : pc[w] \in {"round", "merging"}) /\ active = args.blocks =>
      \A i \in 0..active-1 : BlockIsSorted(i)

(* A late round ends with every pair claimed by one worker and merged. *)
LateRoundComplete ==
    \A w \in Workers : pc[w] = "reduce" /\ ~Early(mine[w]) /\ active = mine[w] =>
      \A i \in 0..active \div 2 - 1 : map[i].state = "done"

(* What the barriers between sorting, the rounds and the reduction of the  *)
(* block map are for, whichever thread is fast and whichever is slow.      *)
RoundsInOrder == BlocksTileChunk /\ SortedBeforeMerge /\ LateRoundComplete

(* Sorting never loses or duplicates a record. *)
RecordsKept == [][\A k \in Keys : Occurs(file', k) = Occurs(file, k)]_vars

(* Once all threads exist the program ends. *)
Terminates == main = "chunk" ~> main \in {"success", "failed"}

(* The time mark is the sort key (index.h:21): a program that has got      *)
(* through all chunks and reports success leaves a sorted file.            *)
SortedOnSuccess ==
    main = "success" /\ processed = args.records => Sorted(file)
=============================================================================
