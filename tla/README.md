# A verification project for the OS-SP laboratory programs

The repository holds eight laboratory works (nine programs, since LAB_5 comes
in two versions) on operating system services: processes, signals, System V
IPC, POSIX threads, memory mapping, record locks, sockets. They are small C
programs without a common library, and what can go wrong in them is in the
interleavings: a signal between a test and a `pause`, a token lost on the way
out of `semop`, a ring resized under its users. This directory models them in
TLA+, checks the models with TLC and proves the most important properties with
TLAPS.

Paths below are relative to the repository (`src/LAB_4/...`).
`PROJECT.json` gives, for every definition, the lines it translates.

## 1. Inventory

### LAB_5.2: thread queue with condition variables (`src/LAB_5.2/src`)

* **State.** One `SharedQueue`: a ring (`buffer`, `head`, `tail`,
  `added_count`, `extracted_count`, `current_load`, `queue_size`), a mutex and
  the condition variables `not_full` and `not_empty`. `keep_running` under
  `global_mutex`. Two tables of threads.
* **Operations.** Producers: `queue_push`; consumers: `queue_pop`; both wait
  with `pthread_cond_timedwait` for a second at a time. Main: `p`, `c`, `kpl`,
  `kcl` (cancel and join the last thread), `+`, `-` (`queue_resize`), `s`,
  `q`; then `cleanup_all`: broadcast, cancel, join, destroy. The handler for
  SIGINT and SIGTERM may run on any thread, in the middle of anything.
* **Hard.** `keep_running` is changed without the mutex of the queue; threads
  are cancelled inside the condition wait and inside `printf` with the mutex
  held; the handler takes that mutex; the ring is resized while threads wait.
* **Correct when** one thread is inside the ring at a time; messages are
  neither lost, duplicated nor reordered; no thread sleeps through work or
  through the shutdown; nothing is destroyed that somebody still uses; `q` ends
  the program.

### LAB_5.1: thread queue with POSIX semaphores (`src/LAB_5.1/src`)

* **State.** The same ring, mutex, tables and `keep_running`, with the counting
  semaphores `empty` and `full` in place of the condition variables.
* **Operations.** Producers: `sem_timedwait(empty)`, test, push under the
  mutex, `sem_post(full)`; consumers the other way round. Main: as in LAB_5.2;
  `cleanup_all` posts both semaphores twenty times before it cancels and joins.
* **Hard.** `queue_resize` counts the semaphores anew after it has released the
  mutex, while threads sleep on them or have taken tokens; the posts of the
  shutdown stand for nothing, and `queue_pop` does not test for an empty ring;
  a cancelled thread takes its token, or the mutex, along.
* **Correct when** load and tokens agree, the ring never underflows, and a
  program told to stop ends.

### LAB_4: process queue with System V semaphores (`src/LAB_4/src`)

* **State.** The ring in shared memory, a set of three semaphores EMPTY, FULL,
  MUTEX; `keep_running` of each process; the PID tables of the parent.
* **Operations.** Children: P(EMPTY) or P(FULL), test, P(MUTEX), push or pop,
  V(MUTEX), V(FULL) or V(EMPTY). Parent: fork, `kpl`/`kcl` (SIGTERM and
  `waitpid`), and a shutdown by SIGTERM, a second's wait, SIGKILL and `waitpid`.
* **Hard.** `sem_wait` returns without the token when SIGTERM interrupts
  `semop`; SIGTERM between the test of `keep_running` and `semop` interrupts
  nothing; push and pop test nothing themselves.
* **Correct when** the critical section is exclusive, tokens are conserved and
  agree with the load, and kills and shutdown come back.

### LAB_7: shared file of records (`src/LAB_7/src`)

* **State.** The file, the open-file-description locks on its records, and in
  each process the user's last view `REC` and her copy `REC_WRK`.
* **Operations.** LST, GET, PUT (read, edit without a lock, compare under a
  write lock, ask and start again if somebody else was faster), ADD, QUIT.
* **Correct when** no change is overwritten unseen, locks are neither leaked
  nor held while a user thinks, and an added record stays.

### LAB_6: parallel external sort (`src/LAB_6/src/sort_index.c`)

* **State.** The memory-mapped chunk, the block map, the phase, two barriers,
  the list of chunks.
* **Operations.** The main thread maps one chunk after another and meets the
  workers at the control barrier; the workers sort blocks, then merge in
  rounds: early rounds by thread number, late ones by claiming pairs; at the
  end the main thread merges chunks in the file.
* **Hard.** Two barriers with a fixed number of parties, reached from five
  places; work claimed or assigned by number; `munmap` after the barrier;
  system calls that fail half way.
* **Correct when** no two threads touch the same records, phases do not
  overlap, no record is lost, the program ends and the file is sorted.

### LAB_3: children that ask for permission to print (`src/LAB_3/src`)

* **State.** Flags written by signal handlers: `can_print` and
  `terminate_child` in a child, `ready_to_print_pid` and `got_sigint` in the
  parent; the table of children.
* **Hard.** One place for one asking PID; `can_print` cleared after the
  question was asked; test and `pause` are two steps; `waitpid` is interrupted.
* **Correct when** every report has its permission, every question is
  answered, no running child is forgotten, and deleting a child comes back.

### LAB_8: TCP line protocol (`src/LAB_8/src`)

* **State.** A connection: bytes under way in either direction; in the server
  one detached thread per client, in the client the line the user typed.
* **Operations.** Server: greeting, `read_line`, `dispatch_command`, replies of
  one line or of several up to ".". Client: `receive_response`, which decides
  from the line it sent how many lines to wait for.
* **Hard.** Both sides parse the line, each in its own way; nobody looks at the
  result of `send_line`; either side may close with something unread.
* **Correct when** both sides agree where a reply ends, nobody waits for a
  reply that never comes, and the server thread ends with its client.

### LAB_2: spawner (`src/LAB_2/src`)

* **State.** The reduced environment (`child_env`, its capacity and count), the
  child number, the children, the handler of SIGCHLD.
* **Operations.** Build the table from the file `env`; `+` and `*` fork; `q`
  takes the handler out and waits for all; the table is freed.
* **Hard.** The handler and the last loop reap the same children; SIGCHLD is
  pending once; `realloc` fails after the capacity has been doubled.
* **Correct when** the table ends inside its block, no child is left behind by
  `q`, and no child stays a zombie.

### LAB_1: dirwalk (`src/LAB_1/dirwalk/src/dirwalker.c`)

* **State.** The recursion of `walk_dir`, the counters, the list that `-s` sorts.
* **Hard.** Objects disappear between `opendir`, `readdir` and `lstat`; errors
  and want of memory leave parts out in different ways.
* **Correct when** each object is counted once, and what is counted, printed and
  reachable agree.

### The rest

* **LAB_6 `gen`, `view`**: straight-line input and output.
* **Message hashing, and unused versions of the queue** (`message.c`, `hash.c`,
  LAB_4 `queue.c` and `semaphore.c`, LAB_5.1 `ipc_utils.c`): linked and never
  called, or not linked.

The labs do not interact with each other. What they share is the ring, in
three copies of the same code, which is why it has a module of its own.
The hazards, each at its line, are listed in `PROJECT.json`.

## 2. Modules

| Module | Models | Kind |
| --- | --- | --- |
| `MessageRing` | the ring of LAB_4, 5.1, 5.2: new, push, pop, resize, free | operators |
| `BoundedFifo` | what the queue of LAB_5.2 promises | abstract specification |
| `CondQueue` | LAB_5.2, over `MessageRing`, refines `BoundedFifo` | system |
| `TokenQueue` | LAB_5.1, over `MessageRing` | system |
| `SemQueue` | LAB_4, over `MessageRing` | system |
| `RecordStore` | what LAB_7 promises: compare-and-write, append | abstract specification |
| `StudentRecords` | LAB_7, refines `RecordStore` | system |
| `StudentFields` | `StudentRecords` with the fields of a record | system |
| `SortIndex` | LAB_6, the sorter | system |
| `PrintTurns` | LAB_3 | system |
| `LineProtocol` | LAB_8, one session: client, server thread, connection | system |
| `Spawner` | LAB_2 | system |
| `DirWalk` | LAB_1 | system |
| `MC...` | symmetry sets, lines and command lines of the instances | for TLC |
| `...Proofs` | `MessageRing`, `CondQueue`, `TokenQueue`, `SemQueue`, `StudentRecords` (with `StudentFields`), `SortIndex`, `PrintTurns` | proofs |
| `SmallProgramsProofs` | `Spawner`, `LineProtocol`, `DirWalk`, which share no names for this reason: `SpawnSpec`, `SessionSpec`, `WalkSpec` | proofs |

In the system modules a step ends where another actor can get in. `pc` holds
the places of the actors and is named after what the code does there. Beside
some actions stand their *mutants*, which are not part of `Next`: the same
handler with a plausible mistake, listed in `PROJECT.json` with the property
that notices it.

### MessageRing

A ring is a record of the fields of `SharedQueue`. `RingPush` and `RingPop`
test nothing, as in LAB_4. `tail` may lie beyond the block, as
`queue_resize` leaves it when the new size is the load: a push then stores its
message in no slot. `Contents` is the queue the ring stands for, `RingOK` what
the operations rely on and keep.

### CondQueue

The places of a worker:

    loop -> lock -> test -> report -> sleep -> loop
                     |  ^
                     v  | (woken, timedout)
                  block -> waiting -> unwinding (cancelled)

It holds `q->mutex` in test, block and report. `block` is apart from `waiting`
because `pthread_cond_timedwait` is a second call: a signal may come between.
A cancellation acts in the wait only, and the mutex is taken back first. A
spurious wakeup leads to the same new test as a timeout with `keep_running`
set. `report` is the `printf` in the critical section, a
cancellation point, together with the `pthread_cond_signal` and the unlock
after it. A thread with `handler[t] # "none"` is frozen under
`signal_handler`. The handler clears `keep_running` in the step of its
delivery, waits for the mutex in `HandlerLock`, wakes everybody in
`HandlerWake`. Its first statement is a `printf`, in which a thread with a
cancellation pending dies before `keep_running` is cleared: `SignalLost`, with
the mutex if the thread has it.

Main has one place per blocking call; `MainLock` is the lock of whichever
section it is about to enter. `q->mutex` may stay with a dead thread
(`OrphanedMutex`): nothing ever unlocks it, as in the program.
From `Destroy` to `Exit` main is in `exiting`: the mutex is destroyed, the
handler is installed and `global_queue` still points to the queue, so that a
signal to main locks a destroyed mutex. That is undefined; in the model the lock
works as before, as in this C library, or is refused, and the handler returns.
A push outside the block leaves the program running with a message lost, or
aborts it (the second outcome stands for a heap whose own data is destroyed).

*Left out:* the statistics and hashes; a second signal in a handler; outcomes
of the use of the destroyed mutex beside the two above; the failure of
`pthread_create`, which changes nothing here. `global_mutex` guards single reads and writes of
`keep_running` and holds no other lock, so that its sections are one step.

### TokenQueue

A worker goes through

    loop -> want -> (asleep ->) check -> lock -> report -> announce -> sleep -> loop
                                          \-> refund -------------------^

It has its token from `check` on; `report` is the `printf` of `queue_push` or
`queue_pop`, with the mutex held. `Owes` says who has a token that is in no
semaphore, a thread that died with the mutex included. `queue_resize` is five
steps, as only the first is under the mutex: `Resize`, then for each semaphore
the reading of `current_load` (`InitEmpty`, `InitFull`; `counted` is what was
read) and the store of `sem_init` (`StoreEmpty`, `StoreFull`), with pushes and
pops in between. `damaged` is a history variable that becomes true when a store
meets a token on its way or is of a count that is no longer right, or when
`Resize` leaves `tail` behind the block. The handler prints before all else: in
`SignalLost` a thread with a cancellation pending dies there, `keep_running` is
not cleared, and the token the thread had is gone. The history variable `lost`
counts those tokens until the next `sem_init` makes them good. What happens after that
stays in the model (an underflow, a negative load, writes outside the block
that may abort the program), but only liveness is claimed of it.
`TakeToken` and `Timeout` leave open whether a sleeper under which the
semaphore has been initialised is woken; the second of `sem_timedwait` passes
in any case.

*Left out:* statistics, hashes, printed text, failing `pthread_create`. A signal
that kills its thread in `queue_push` or `queue_pop` acts before the lock or at
the `printf`, and not on the few statements between the two. `queue_destroy`
and the end of `main` are one step: a signal in between posts to semaphores that
nobody uses any more.

### SemQueue

`want...` is before `semop`, `asleep...` in it. `Give` hands the token to a
sleeper at once, as the kernel does; which one is left open.
`Interrupted(S)` is the SIGTERM handler in all children of `S`: a sleeper on
EMPTY or FULL goes on to its test of `keep_running`, a sleeper on MUTEX into
the critical section, both without a token. Push and pop compute from what the
process found on entry (`seen`) and write into the ring as it is, so that two
processes inside tear it apart as they would in memory. `holds` and `barged`
are history variables: the tokens a process answers for, and whether a
process has ever entered without the mutex.

Signals from outside are Ctrl-C (`CtrlC`, to parent and children), a SIGTERM to
one child (`Signal`) and one to the parent alone (`TermParent`), at any time
before the parent has ended, the stopping and killing of the shutdown included.

*Left out:* the instant between `fork` and the child's `signal`; a second
instance of the program, which shares the fixed IPC keys; failing `fork`.

### StudentRecords

One step per system call or answer. `file` is a sequence of opaque contents;
`locks` holds triples; `Lock` is the rule of the kernel (a request waits for
conflicting locks of others and replaces the own one). `Exit` is QUIT, the end
of the input and the death of the process at any place.

*Left out:* failing and partial reads, writes and locks, with the early returns
they cause (commands.c:58, 60, 83, 87: the command ends, and gives up its lock
if it has one); the parsing of commands.

### StudentFields

In `StudentRecords` an edit is any other content. `StudentFields` adds what a
user has typed and what she has left alone with an empty line, with two history
variables (`base`, the content her copy was made from; `told`, whether she has
been shown another one since) that decide nothing: `FieldNext` is
`Next /\ Remember`. Who answers 'y' has her whole copy written, fields she never
touched included; the program takes back another user's change then, as the
question at `commands.c:97` has it ("apply on top"), and the property says that
this is the only way it does.

### SortIndex

`Wait(w, barrier, place)` puts a worker at a barrier with the place where it
goes on; a barrier opens when its parties have arrived, wherever in the code
they did. `qsort` and `merge_two_runs` are one step: `WorkIsSafe`, which is
proved, makes that sound. `Claim` is one step as it runs under `map_mutex`. The
loop of `init_block_map` adds up the sizes of the blocks; `BlockOffset` is that
sum in closed form. A failing `pthread_create` leaves main at a barrier whose
other parties do not exist, and it stays there, as in the program.

*Left out:* parsing of the command line and of the header (`Accepted` is what
`validate_cli` lets through); the contents of the file when `exit` comes in the
middle of a `memcpy`; a `pwrite` in the merge of chunks that writes a part and
then fails (sort_index.c:410): a merge writes all or nothing here.

### PrintTurns

The handlers of a child only set a flag and end its `pause`, and run in the
step that sends the signal; those of the parent are steps of their own, with
one pending SIGUSR1. `drowsy` is between the test and `pause`. `waitpid`
returns without its child when a handler has run (`Interrupted`). `lost` is a
history variable: the children whose request, or the permission they got, fell
into one of the gaps of the code, each of which the model enters by a step of
its own (a second SIGUSR1 while one is pending, a second PID over the first,
`ready_to_print_pid` cleared after the `kill`, `can_print` cleared after the
question, SIGUSR2 between the test and `pause`).

*Left out:* the statistics, terminal modes, and the reuse of a PID.

### LineProtocol

A line is what the two parsers tell apart: blanks in front, the first word,
what follows it, a carriage return. `Reply` is `dispatch_command`,
`IsMultiline` and `IsQuit` are the client's own reading of the line. `up` and
`down` are what is under way on the connection, whole lines in order;
`ReadNothing` is the closed connection, or the reset that follows when the
server closes with something unread, in which case replies under way may be
lost. A client that sends to a server known to be gone ends in `lost`, by SIGPIPE
or by the error of `send_line` after which it leaves its loop and closes
(client.c:112); the server has closed before, so that the two are one to it.
`tidy` is a history variable: every line so far began with a word and had
no carriage return. The sessions of several clients share only the counter of
the accepting thread, so that one session is the model.

*Left out:* lines longer than their buffers, the counter of clients, the text of
replies, connection set-up, a client that is killed in the middle of a reply.
That a server finds its client gone with replies unread does occur: a client
that is out of step leaves in that way.

### Spawner

The block `child_env` points at has its own size, apart from `cap`, which is
doubled before `realloc` is asked. `pending` is the one pending SIGCHLD; the
handler's loop of `waitpid` is `HandlerReap` and `HandlerEnd`, in which the
parent stands still. `FreeTable` frees every slot up to the capacity: the slots
never written, and those behind the block after a failed `realloc`, hold
anything, so that the C library may abort the program.

*Left out:* what is printed, and the length of a line of `env`.

### DirWalk

The tree is chosen at the start: every tree of the given size, with every
assignment of kinds. `Remove`, another process, may take away a leaf at any
time. `stack` holds the `walk_dir` calls under way with the entries they still
have to read. `VisitWithoutMemory` is the `continue` after a failed allocation,
which leaves a directory unwalked and has emptied the list. `uncounted`,
`unwalked` and `short` are history variables. `Above(n)` is what lies above n:
whatever is in every set that holds the parent of n and is closed under parents.

*Left out:* option parsing, the order of the lines, renamed and new objects.

## 3. Runs

Every run takes from seconds to a few minutes.

| Run | Question | Instance |
| --- | --- | --- |
| `condqueue_safety` | Are mutex, wakeups, broadcast and destruction right with a signal to any thread, kills, cancellation in `printf` and all resizes? | 2 producers, 1 consumer, ring of 1 or 2, up to 2 messages, 1 signal |
| `condqueue_fifo` | Is the queue a bounded FIFO channel, and does a program told to stop end? | 1 producer, 1 consumer, two contents, ring of 1 or 2, 3 messages, 1 signal, kills; no shrink to the load |
| `semqueue` | Do tokens, load and ring agree, and do kills and the shutdown come back? | 1 producer, 1 consumer, ring of 2, 3 messages, 1 outside signal beside those of the parent |
| `records` | Is PUT a compare-and-write, is nothing taken back unseen, are locks given up? | 2 processes, one of them executes ADD; up to 2 records of two fields with two values each |
| `records_add` | Does ADD append when both processes give it: **no** | 2 processes, 2 contents, up to 2 records |
| `sortindex` | Are work, barriers, phases, failures and the end right? | the command lines of `MCSortIndex`, keys 0 and 1, failing system calls |
| `sortindex_sorted` | Is the file sorted on success: **no** | the same without failures |
| `printturns` | Which requests and permissions can be lost, and does anything else go wrong? | 2 children, 2 cycles each |
| `tokenqueue` | Do the semaphores of LAB_5.1 count what they stand for, and does the program end? | 1 producer, 1 consumer, ring of 1 or 2, 2 messages, 1 signal, resizes, kills |
| `lineprotocol` | Do client and server agree where a reply ends, and does the server thread end? | every kind of line, 3 in a session |
| `spawner` | Does the environment end inside its block, and are all children waited for? | 3 children, capacity 2 at first, up to 4 names |
| `dirwalk` | Is what is counted and printed what could be reached? | all trees of 4 objects, depth limit 1, three sets of filters, with and without `-s` |

The two runs marked **no** are disagreements between the code and what it says
of itself; `PROJECT.json` quotes both under "findings".

### What the properties say

* LAB_5.2. `OnlyOwnerInside`: whoever is in a critical section owns the mutex.
  `NoLostWakeup`: while a consumer sleeps there are no more messages than
  threads on their way to take or announce one, and likewise for producers and
  free slots; that is what `pthread_cond_signal` (not broadcast) has to
  achieve. It is claimed until the first signal: one that reaches a cancelled
  thread in its `printf` may take a woken thread away without stopping the
  program, and then the timeouts have to help. `NobodyWaitsAfterBroadcast`, `NoUseAfterDestroy`: the shutdown
  reaches every thread, and outlives it. `RingCoherent`, `FifoRefinement`: the
  queue is a bounded FIFO channel. `StopTerminates`.
* LAB_5.1. `TokensMatch`: for every message there is a full token and for every
  free slot an empty one, in the semaphore, in the hands of one thread, or lost
  with a thread that a signal killed in the handler's `printf`.
  `RingCoherent`: the ring neither underflows nor overflows, not even by the
  twenty posts of the shutdown. `StopTerminates`.
* LAB_4. `ExclusiveUnlessBarged`; `SlotsAccounted`, which is `SlotsConserved`
  (every slot is free, filled, or in the hands of a child, dead or alive) and
  `LoadMatchesTokens` (the load is what the tokens say); `RingCoherent`.
  `StuckOnlyByMissedTerm` and `ShutdownTerminates` delimit what a missed
  SIGTERM can do.
* LAB_7. `ReadIsCurrent`, `StoreRefinement`: PUT writes over exactly what its
  user has seen. `TakenBackOnlyWhenTold`: another user's change is undone only
  by one who was told of it. `EveryLockReleased`: no process waits for a user of
  another.
* LAB_6. `WorkIsSafe`: no two threads touch the same records (`DisjointWork`)
  and nobody touches an unmapped chunk (`MappedWhileUsed`). `RoundsInOrder`:
  what the barriers are for, in three parts (`BlocksTileChunk`,
  `SortedBeforeMerge`, `LateRoundComplete`). `RecordsKept`, `Terminates`: all
  that is right about the sorter, whose early rounds are wrong
  (`SortedOnSuccess`).
* LAB_3. `OnePrintPerPermission`, `DroppedOnlyWhenTold`,
  `StuckOnlyByMissedTerm`, `EveryRequestAnswered`.
* LAB_8. `InStep`: after every reply to tidy lines both sides are in the same
  place, with nothing under way. `Answered`: the client waits in vain only after
  a line of blanks, however far the two are out of step. `ThreadEnds`: the
  server thread does not outlive its client.
* LAB_2. `EnvTerminated`: the table ends in NULL inside its block whatever
  `realloc` does. `QuitWaitsForAll`, `ZombiesReaped`: handler and last loop
  together miss no child.
* LAB_1. `ReportComplete`: each object is counted at most once and printed at
  most once, what nothing stood before is counted, and nothing is printed that
  is not counted or not asked for. Unless memory was short, what nothing stood
  before is printed too, and each counter is the number of its lines.

**Where the code goes wrong without contradicting itself.** Several properties
name the exception the code really has. The models contain the bad behaviour,
and the property says that it is the only one; without the exception TLC finds
the bad behaviour at once.

* LAB_5.2: `queue_resize` to exactly the load leaves `tail` behind the block
  (queue.c:205), so `RingCoherent` and `FifoRefinement` are claimed with
  `ExactShrink = FALSE` only. A handler can wait for the mutex of the thread it
  interrupts, and a thread cancelled in `printf` takes the mutex along:
  `HandlerOnOwner` and `OrphanedMutex` in `StopTerminates`. A signal at the very
  end makes the handler lock a destroyed mutex (`exiting`).
* LAB_5.1: a resize that meets a token on its way, or a push or pop between its
  reading of the load and its `sem_init`, makes tokens and load disagree for good
  (`damaged`); a cancellation in `printf` orphans the mutex, and in the `printf`
  of the handler it takes a token along (`lost`). In both versions the signal
  itself is then without effect.
* LAB_4: SIGTERM in the wait for MUTEX lets its process in without it
  (`barged`); a SIGTERM just before `semop` is missed, and `kpl` hangs
  (`MissedTerm`).
* LAB_7: who answers 'y' has her whole copy written, so that the other user's
  change is lost in the fields she never touched as well.
* LAB_6: a failing `pthread_create` leaves main at a barrier for ever;
  `Terminates` starts after the threads exist.
* LAB_3: requests and permissions get lost in five places (`lost`).
* LAB_8: a line of blanks is sent and never answered; blanks in front and
  carriage returns are read in two ways (`tidy`).
* LAB_2: `free` of slots that were never written may abort the program at its
  end (`aborted`), after the children have been waited for.
* LAB_1: after a failed allocation a directory is not walked and the list so
  far is gone (`short`): the counters include objects whose lines are missing.

### Bounds

* Threads and processes: two of one kind compete for a slot, a token or a
  record; one of the other kind is enough to wake them. No code distinguishes a
  third. The runs with liveness have one of each kind, for which the
  hazards they are about (a missed signal, an orphaned mutex) already occur.
* Ring sizes 1 and 2: a ring of 1 is full and empty at once after one step; one
  of 2 wraps with a message in it. `MaxAdded` (messages ever made) exceeds the
  ring size where contents matter, so that it does wrap. A producer at the
  bound stops making messages and can still see `keep_running` cleared.
* `MaxSignals = 1`: a second signal finds `keep_running` cleared already, or, if
  the first one died in the handler's `printf`, does what the first one could
  have done.
* `MaxRecords` bounds the file at the start of an ADD only. Records of two
  fields: one that the user edits and one that she leaves alone. With two
  values each, a record can be changed, changed differently and changed back.
* Sorter: 2 threads need 8 blocks (`validate_cli`), which gives an early round
  of 4 pairs, one of 2 pairs and a late one; blocks of one record and of
  one and two; one chunk, two chunks, a last chunk too small, no record at all.
* `MaxCycles = 2`: a permission of the first cycle can meet the second.
* `MaxLines = 3`: a line that brings the two sides out of step, one that is read
  out of step, and one after it.
* Environment: a capacity of 2 with 4 names has to grow twice (8 is enough for
  all), and either growth may fail and leave the doubled capacity behind.
* Directory trees: 4 objects give a directory in a directory, siblings, and a
  leaf below the depth limit of 1; what the program does with an object depends
  on its kind and on the objects above it only.

The deadlock check is on in `records` and `records_add`, where a process that
has ended may be started again. Elsewhere the program really can stop: it ends,
or it hangs with an orphaned mutex or a handler waiting for its own thread
(LAB_5), with children asleep for a missed SIGTERM and a parent in `waitpid`
(LAB_4, LAB_3), with main alone at a barrier (LAB_6), or with both sides waiting
after a line of blanks (LAB_8). Which of these stops are possible is what the
liveness properties say.

### Fairness

Weak fairness of every thread and process (the scheduler runs whoever can run),
of started handlers, of the delivery of pending signals, of the barriers, and of
the loops of the main threads, whose waits for input time out (`select`,
`read_command`). No fairness of the user: nobody has to type `q`, answer a
question of PUT, start a command, or send a line. No fairness of failures,
signals from outside, and other processes that remove files. Mutexes and `semop`
are *not* assumed to be fair to their waiters (weak fairness of a step that is
enabled only now and then promises nothing), which is why the liveness
properties of the queues are about shutdown, where the competition ends.
Timeouts are under the weak fairness of the worker: a thread in a timed wait
stops waiting at some time. `DirWalk` is checked for safety only: its recursion
ends with the tree.

## 4. Proofs

All proofs are for any set of threads or processes, any bounds and any
contents; they use the assumptions named in the modules only
(`RingAssumption`, `CondAssumption`, `SemAssumption`, `RecordAssumption`,
`FieldAssumption`, `SortAssumption`, `TurnAssumption`, `LineAssumption`,
`SpawnerAssumption`, `TokenAssumption`, `WalkAssumption`).

**MessageRing.** `PushKeepsRing`, `PopKeepsRing`, `ResizeKeepsRing`: the ring
stays coherent, and `Contents` becomes `Append`, `Tail`, or stays. They rest on
a few facts about `%` (`WrapRange`, `WrapNext`, `WrapDistinct`, ...).
`ResizeKeepsRing` needs `n > load`: with `n = load`, which the code lets
through, `tail` is not a slot.

**CondQueue.** Six invariants, each inductive over the ones before it:

1. `TypeInv`: `TypeOK` with `InRange`, as a ring's indices are in range only if
   its arithmetic is known. Gives `TypeCorrect`. It holds with the defective
   shrink, since `tail` past the block is in the type.
2. `OwnerInv`: `OnlyOwnerInside`, and that main and a handler own what they
   think they own. Gives `MutualExclusion`: a handler and its frozen thread
   never both hold the mutex.
3. `OrphanInv`: where an owner of the mutex can be. Gives `OnlyCancelledOrphans`
   (`OrphanOnlyByCancel`): no ordinary way out leaves the mutex locked.
4. `BroadcastInv`: after the broadcast `keep_running` stays cleared, and whoever
   is about to block has a broadcast still before it. Gives
   `BroadcastReachesAll`. The point is the thread that has tested
   `keep_running` before it was cleared: it holds the mutex until it sleeps, and
   the broadcast takes the mutex.
5. `TablesInv`: the tables have no duplicates and hold every live thread, and
   the victim of a kill is the last of its table (`VictimIsLast`). Gives
   `DestroyedAlone`.
6. `WakeInv`: whoever has decided to wait still sees the queue he has tested, as
   he keeps the mutex until he sleeps; and for every message a sleeping consumer
   could take there is a consumer on its way or a producer about to signal, and
   the same for the slots, until the first signal. Gives `NobodyOversleeps`
   (`NoLostWakeup`). A push adds
   one message and one producer that will signal, a signal turns that producer
   into a consumer on its way, a consumer on its way takes one or sleeps with
   the queue empty. The counting needs the sets of threads to be finite
   (`CondAssumption`).

`RingInv` then says that the ring is coherent whenever it is not destroyed, and
`RingStep` that every step keeps it *and* maps to a step of `BoundedFifo` or to
none. That gives `RingStaysCoherent` and `ImplementsFifo`, both under
`ExactShrink = FALSE`, with signals, kills and cancellations everywhere.

**TokenQueue.** `ProcTypes` and `PlacesInv` come first: who owns the mutex is in
`printf` or was cancelled there, whoever runs is in a table, and nobody is left
when the ring is freed. `RingTypes` types the ring with the range of its indices
and so gives `TypeCorrect`, underflows after a damaging resize included.
`TokensInv` is about what `queue_pop`, which tests nothing, relies on. While the
program runs it is `TokensMatch`: `OneChanges` says how a set of threads grows
or shrinks when one thread moves, and `Balanced` that the ring, the two
semaphores and the sets of those who owe a token move together in every step of
a worker. A resize that damages nothing finds nobody who owes a token and stores
what is still the load, and until the first store only the full tokens are
claimed. A thread that a signal kills moves its token from `Owed` to `lost`. `TokensMatch` ends
with `run`, as the shutdown posts tokens that stand for nothing. What stays true
is that the consumers about to pop (`Ready`) are no more than the messages:
whoever takes a token now is sent home by `check`, and for those who had passed
it before the count was right. Gives
`TokensCount` and `NoPopFromEmpty`; the counting needs the threads to be
finitely many.

**SemQueue.** `TypeInv` gives `TypeCorrect`. `HoldInv` ties the tokens a child
answers for to its place, and gives `SlotsStay`: what leaves a semaphore is in
the hands of one child, and a child that dies keeps it. `LockInv`, as long as
nobody has barged in, has one child at most between P(MUTEX) and V(MUTEX), and
the semaphore at 0 then: `MutexUntilBarged`. `RingStaysCoherent` is the one that
needs an idea: push and pop test nothing, so that overflow and underflow are
excluded by counting alone. `CountInv` has two inequalities (at least as
many messages as full tokens in semaphore and hands, at least as many free slots
as empty ones), which a death at any place keeps. `EverySlotAccounted`
(`SlotsAccounted`) adds to `SlotsStay` the equation `LoadInv`, which holds until
the SIGKILLs of the shutdown, and only until then: every move that kills nobody
(`Gentle`) keeps it, as only a push, a pop and the last V operation change who
is about to give a token back.

**StudentRecords.** `Inv` adds to `TypeOK` and `ReadIsCurrent` that a process in
the middle of a read or write holds the lock for it (`Covered`), that locks of
different processes are compatible (`Compatible`), and which command is where
(`Commands`). Gives `TypeCorrect` and `ReadsStayCurrent`, whoever executes ADD.
`HeldNow`, which says at which places and on which record a process can hold a
lock, gives `NobodyThinksLocked` (`NoIdleLock`). `ImplementsStore` needs
besides that an ADD under way still finds the end of the file where it was (`AtEnd`), true only if
one process at most executes ADD (`SoleAdder`): the defect of ADD is exactly what
the proof must exclude. `NothingTakenBackUntold` is about `StudentFields`:
`Untold` says that a user who has not been told of a change still has before
her the record her copy was made from, so that the compare finds that record.

**SortIndex.** The threads run in lockstep only from barrier to barrier, and no
variable says between which two. `StageInv` does: it is a disjunction of the
stages of a chunk (`Setup`, `Between`, `Sorting`, `RoundHead`, `Pairs`,
`Reducing`, `Stopping`, `Over`, and `Crippled` after a failed
`pthread_create`), each with the places the workers may be at in it. A step stays
in its stage, or it is the opening of a barrier, or worker 0's reduction, which
leads to the next one. With `TileInv` (the active blocks tile the chunk without
a gap, through every division and reduction) this gives `NobodyInTheWay`
(`WorkIsSafe`), `NothingLeftOut` (`BlocksTileChunk`) and `RoundsAreComplete`
(`LateRoundComplete`), for every number of threads and blocks.

The second half is about what the file contains. `SortFacts` and `MergeFacts`
say for all runs that a sorted run exists with the same keys and that the loops
of `merge_two_runs` keep the keys of both runs, and their order; `MergeRuns` is
a recursive function, so that first of all it is shown that there is a function
that solves its equation (`MergeExists`). `Overwrite` changes a run and nothing
beside it, and the keys of the whole file are those of its runs. `DataInv` adds
to `SortInv` that the file has as many records as ever (`FileOK`), that the
chunks to merge lie one behind the other within the file (`ChunksInv`), and, as
long as the blocks are those of `init_block_map`, that a block marked done is a
sorted run, one marked busy has a worker at it, and none is free once a worker
has left the sorting (`BlocksInv`). Gives `EverythingTyped`, `RecordsSurvive`
(`RecordsKept`) and `RoundsKeepOrder` (`RoundsInOrder`), for any contents.
Facts that would be proved by induction are proved by contradiction, from the
least number (`LeastNat`, of a length or of what is left to merge) for which
they fail: the induction rules of the library take an operator as a parameter,
the well-foundedness of `<` does not.

**PrintTurns.** `Open` and `Turns` say, by the place of a child, how the numbers
of its cycles, permissions and reports are related, and that a request that is
pending, in `ready_to_print_pid` or being answered is one without a permission
yet. `Single` says that a request is not pending any more once it has been
noted, which is why a question cannot be answered twice. `Permits`: `can_print`
is set only for a permission whose report is still to come. Gives
`PermissionsAreRequested` and `NobodyForgotten`.

**LineProtocol.** `Session` says what may be under way at each pair of places as
long as lines are tidy: nothing, the one line, or the unread rest of its reply
(`Coming`). Gives `StaysInStep` for any set of lines and sessions of any length.

**Spawner.** `TableInv` relates the size of the block, the capacity and the
count after any sequence of failures of `realloc`: `TableEnds`. `QuitInv` says
who can still be unreaped at which place: `QuitLeavesNobody`.

**DirWalk.** What has been counted and what has been opened is in no variable,
so that the invariant `WalkInv` begins with two existential sets, C and O.
`Listed`: what the open directories still have to hand out is pairwise disjoint,
lies directly in a directory of O, and is not in C; the directory about to be
opened is in C and not in O. So nothing is counted twice. `Booked`: the counters
are those of C, and the output and the list together have no duplicates and only
what of C is asked for, all of it unless memory was short; with `-s` nothing is
in the output before the end, which is why emptying the list loses lines and
repeats none. `Covered`: every object nothing stood before is in C, or it, or something
above it, is pending or about to be opened. Removals and errors only take away
from what can be reached (`ReachedBefore`), and where an entry leaves the
pending ones without being walked it stands before all that is below it. `Above`
is a least fixed point, so no induction over the tree is needed: `ChildBelow`
takes an object out of the fixed point and contradicts its being least, and
`RootAbove`, that the walk starts above everything, looks at the least object of
a set that is closed under parents: it can only be 0. Gives `WalkTypeCorrect` and `ReportIsComplete`.

**Only model-checked:** all liveness, `StuckOnlyByMissedTerm` included (fairness
is out of the prover's reach). Every other invariant and action property of the
passing runs is a theorem.

## 5. Not modelled

* **LAB_6 `gen` and `view`, message hashing, unused code**: see section 1. They
  keep no state between operations, or nothing calls them.
* **Two instances of LAB_4** on the same fixed IPC keys (ipc_utils.c:34): the
  model has the one parent that creates the objects. The second instance resets
  semaphores and ring under the first; no property would survive, and nothing in
  the repository promises one.
* **Reuse of a PID** (LAB_3, parent.c:183): a permission to a child that is gone
  has no effect in the model.
* **Failing reads, writes and locks of LAB_7**: the code gives up the lock and
  the command; partial records on disk are outside the model.
* **Text**: the parsing of options and commands (beside that of LAB_8, which is
  its subject), the wording and order of what is printed, the statistics.
