----------------------- MODULE SmallProgramsProofs -----------------------
(***************************************************************************)
(* Proofs about the three small programs, each with a specification of its *)
(* own and no state in common: Spawner (LAB_2), LineProtocol (LAB_8) and   *)
(* DirWalk (LAB_1), in this order, for all values of their constants.      *)
(***************************************************************************)
EXTENDS Spawner, LineProtocol, DirWalk,
        SequenceTheorems, FiniteSetTheorems, WellFoundedInduction, TLAPS

-----------------------------------------------------------------------------
(* Spawner, for any number of children, any file env and any initial       *)
(* capacity above one.                                                     *)
(*                                                                         *)
(* The environment: as long as there are lines to read, the block has just *)
(* the capacity the counter says, and when the table is complete, its last *)
(* slot is still inside (TableInv).  The children: once "q" has been given *)
(* no further child is started, and the last wait fails when none is left  *)
(* (QuitInv).                                                              *)

(* How the block, the capacity and the count hang together; n is the       *)
(* number of slots the block really has.                                   *)
IsBlock(n) == slots \in [0..n-1 -> SlotContent] /\ count < n /\ n <= cap

TableInv ==
    /\ \E n \in 1..cap : /\ IsBlock(n)
                         /\ main = "env" /\ names # <<>> => n = cap
                         /\ main # "env" => slots[count] = "null"
    /\ \A i \in 0..count-1 : slots[i] = "var"

SpawnTypes == SpawnTypeOK /\ cap > 1 /\ TableInv

QuitInv ==
    /\ quit => main \in {"quit", "wait", "free", "done", "aborted"}
    /\ QuitWaitsForAll

-----------------------------------------------------------------------------
(* The initial state satisfies both invariants. *)
LEMMA SpawnInitInv == SpawnInit => SpawnTypes /\ QuitInv
<1> SUFFICES ASSUME SpawnInit PROVE SpawnTypes /\ QuitInv
  OBVIOUS
<1>1. InitCap \in Nat /\ InitCap > 1
  BY SpawnerAssumption
<1>2. names \in Seq(Line)
  <2>1. PICK n \in 0..MaxNames : names \in [1..n -> Line]
    BY SMT DEF SpawnInit
  <2> QED
    BY <2>1, SpawnerAssumption
<1>3. slots \in [0..InitCap-1 -> SlotContent]
  BY <1>1 DEF SpawnInit, Block, SlotContent
<1>4. SpawnTypeOK
  <2>1. \E n \in 1..cap : slots \in [0..n-1 -> SlotContent]
    BY <1>1, <1>3 DEF SpawnInit
  <2>2. cap \in Nat /\ count \in 0..cap /\ num \in 0..99
    BY <1>1 DEF SpawnInit
  <2>3. main \in MainPlaces /\ kids \in [Child -> KidPlaces]
    BY DEF SpawnInit, MainPlaces, KidPlaces
  <2>4. {handler, pending, handling, quit} \subseteq BOOLEAN
    BY DEF SpawnInit
  <2> QED
    BY <1>2, <2>1, <2>2, <2>3, <2>4 DEF SpawnTypeOK
<1>5. TableInv
  BY <1>1, <1>3 DEF SpawnInit, TableInv, IsBlock
<1> QED
  BY <1>1, <1>4, <1>5 DEF SpawnInit, SpawnTypes, QuitInv, QuitWaitsForAll

(* A variable fits into a block with two slots to spare: one for it and    *)
(* one for the NULL.                                                       *)
LEMMA AddVarFits ==
    ASSUME count \in Nat, cap \in Nat,
           NEW block, NEW n \in Nat, block \in [0..n-1 -> SlotContent],
           count < n - 1, \A i \in 0..count-1 : block[i] = "var", AddVar(block)
    PROVE  /\ slots' \in [0..n-1 -> SlotContent]
           /\ count' = count + 1
           /\ \A i \in 0..count'-1 : slots'[i] = "var"
<1>1. count \in 0..n-1
  OBVIOUS
<1>2. slots' = [block EXCEPT ![count] = "var"] /\ count' = count + 1
  BY DEF AddVar
<1>3. slots' \in [0..n-1 -> SlotContent]
  BY <1>1, <1>2 DEF SlotContent
<1>4. ASSUME NEW i \in 0..count'-1 PROVE slots'[i] = "var"
  BY <1>1, <1>2, <1>4
<1> QED
  BY <1>2, <1>3, <1>4

(* StoreVar keeps the table right. *)
LEMMA StoreVarInv == ASSUME SpawnTypes, StoreVar PROVE SpawnTypes'
<1>0. SpawnTypeOK /\ cap > 1 /\ TableInv /\ names # <<>> /\ main = "env"
  BY DEF SpawnTypes, StoreVar
<1>1. IsBlock(cap) /\ count < cap - 1 /\ cap \in Nat /\ count \in Nat
  BY <1>0 DEF TableInv, StoreVar, SpawnTypeOK
<1>2. /\ names' \in Seq(Line) /\ main' = main /\ cap' = cap
      /\ UNCHANGED <<num, kids, signalVars, quit>>
  BY <1>0 DEF SpawnTypeOK, StoreVar, UnchangedByEnv
<1>3. /\ slots' \in [0..cap-1 -> SlotContent] /\ count' \in 0..cap-1
      /\ \A i \in 0..count'-1 : slots'[i] = "var"
  <2>1. CASE AddVar(slots)
    BY <1>0, <1>1, <2>1, AddVarFits DEF IsBlock, TableInv
  <2>2. CASE UNCHANGED <<slots, count>>
    BY <1>0, <1>1, <2>2 DEF IsBlock, TableInv
  <2> QED
    BY <2>1, <2>2 DEF StoreVar
<1>4. SpawnTypeOK'
  <2>1. \E n \in 1..cap' : slots' \in [0..n-1 -> SlotContent]
    BY <1>1, <1>2, <1>3
  <2>2. count' \in 0..cap' /\ cap' \in Nat
    BY <1>1, <1>2, <1>3
  <2> QED
    BY <1>0, <1>2, <2>1, <2>2 DEF SpawnTypeOK, signalVars
<1>5. TableInv'
  BY <1>0, <1>1, <1>2, <1>3 DEF TableInv, IsBlock
<1> QED
  BY <1>0, <1>2, <1>4, <1>5 DEF SpawnTypes

(* GrowTable keeps the table right, with and without memory. *)
LEMMA GrowTableInv == ASSUME SpawnTypes, GrowTable PROVE SpawnTypes'
<1>0. SpawnTypeOK /\ cap > 1 /\ TableInv /\ names # <<>> /\ main = "env"
  BY DEF SpawnTypes, GrowTable
<1>1. IsBlock(cap) /\ count < cap /\ cap \in Nat /\ count \in Nat
  BY <1>0 DEF TableInv, IsBlock, SpawnTypeOK
<1>2. main' = main /\ cap' = 2 * cap /\ UNCHANGED <<num, kids, signalVars, quit>>
  BY DEF GrowTable, UnchangedByEnv
<1>3. \A i \in 0..count-1 : slots[i] = "var"
  BY <1>0 DEF TableInv
<1>4. CASE names' = <<>> /\ UNCHANGED <<slots, count>>
  <2>1. SpawnTypeOK'
    BY <1>0, <1>1, <1>2, <1>4 DEF SpawnTypeOK, signalVars, IsBlock
  <2>2. TableInv'
    BY <1>0, <1>1, <1>2, <1>3, <1>4 DEF TableInv, IsBlock
  <2> QED
    BY <1>0, <1>1, <1>2, <2>1, <2>2 DEF SpawnTypes
<1>5. CASE names' = Tail(names) /\ ~(names' = <<>> /\ UNCHANGED <<slots, count>>)
  <2>0. PICK n \in Nat : n = cap'
    BY <1>1, <1>2
  <2> DEFINE block == [i \in 0..n-1 |-> IF i \in DOMAIN slots THEN slots[i] ELSE "garbage"]
  <2>1. block \in [0..n-1 -> SlotContent]
    BY <1>1, <1>2, <2>0 DEF IsBlock, SlotContent
  <2>2. \A i \in 0..count-1 : block[i] = "var"
    BY <1>1, <1>2, <1>3, <2>0 DEF IsBlock
  <2>3. AddVar(block) \/ (slots' = block /\ UNCHANGED count)
    BY <1>5, <2>0 DEF GrowTable
  <2>4. count < n - 1 /\ n > 1
    BY <1>0, <1>1, <1>2, <2>0
  <2> HIDE DEF block
  <2>5. /\ slots' \in [0..n-1 -> SlotContent] /\ count' \in 0..n-1
        /\ \A i \in 0..count'-1 : slots'[i] = "var"
    <3>1. CASE AddVar(block)
      BY <1>1, <2>1, <2>2, <2>4, <3>1, AddVarFits
    <3>2. CASE slots' = block /\ UNCHANGED count
      BY <1>1, <2>1, <2>2, <2>4, <3>2
    <3> QED
      BY <2>3, <3>1, <3>2
  <2>6. names' \in Seq(Line)
    BY <1>0, <1>5 DEF SpawnTypeOK
  <2>7. SpawnTypeOK'
    <3>1. \E i \in 1..n : slots' \in [0..i-1 -> SlotContent]
      BY <2>4, <2>5
    <3>2. count' \in 0..n
      BY <2>5
    <3> QED
      BY <1>0, <1>2, <2>0, <2>6, <3>1, <3>2 DEF SpawnTypeOK, signalVars
  <2>8. TableInv'
    <3>1. slots' \in [0..n-1 -> SlotContent] /\ count' < n /\ n <= n /\ n \in 1..n
      BY <2>4, <2>5
    <3> QED
      BY <1>0, <1>2, <2>0, <2>5, <3>1 DEF TableInv, IsBlock
  <2> QED
    BY <1>0, <1>1, <1>2, <2>7, <2>8 DEF SpawnTypes
<1> QED
  BY <1>4, <1>5 DEF GrowTable

(* EndTable writes the NULL inside the block. *)
LEMMA EndTableInv == ASSUME SpawnTypes, EndTable PROVE SpawnTypes'
<1>0. SpawnTypeOK /\ cap > 1 /\ TableInv
  BY DEF SpawnTypes
<1>1. PICK n \in 1..cap : IsBlock(n)
  BY <1>0 DEF TableInv
<1>2. /\ slots' = [i \in DOMAIN slots |-> IF i = count THEN "null" ELSE slots[i]]
      /\ UNCHANGED <<names, cap, count, num, kids, signalVars, quit>> /\ main' = "scan"
  BY DEF EndTable, UnchangedByEnv
<1>3. DOMAIN slots = 0..n-1 /\ count \in 0..n-1 /\ cap \in Nat /\ n \in Nat
  BY <1>0, <1>1 DEF IsBlock, SpawnTypeOK
<1>4. slots' \in [0..n-1 -> SlotContent] /\ slots'[count] = "null"
  BY <1>1, <1>2, <1>3 DEF IsBlock, SlotContent
<1>5. \A i \in 0..count'-1 : slots'[i] = "var"
  BY <1>0, <1>2, <1>3 DEF TableInv
<1>6. SpawnTypeOK'
  BY <1>0, <1>2, <1>3, <1>4 DEF SpawnTypeOK, signalVars, MainPlaces
<1>7. TableInv'
  BY <1>1, <1>2, <1>3, <1>4, <1>5 DEF TableInv, IsBlock
<1> QED
  BY <1>0, <1>2, <1>6, <1>7 DEF SpawnTypes

(* Once the table is complete nobody touches it. *)
LEMMA TableStays ==
    ASSUME TableInv, cap > 1, UNCHANGED <<cap, count, slots>>,
           main = "env" => main' = "env" /\ names' = Tail(names) /\ names # <<>>,
           main' = "env" => main = "env"
    PROVE  TableInv' /\ cap' > 1
  BY DEF TableInv, IsBlock

(* The type invariant with the facts about the table is inductive. *)
LEMMA SpawnTypesStep == SpawnTypes /\ [SpawnNext]_spawnVars => SpawnTypes'
<1> SUFFICES ASSUME SpawnTypes, [SpawnNext]_spawnVars PROVE SpawnTypes'
  OBVIOUS
<1>0. SpawnTypeOK /\ cap > 1 /\ TableInv
  BY DEF SpawnTypes
<1>1. CASE SkipName
  <2>1. SpawnTypeOK'
    BY <1>0, <1>1 DEF SkipName, UnchangedByEnv, SpawnTypeOK, signalVars
  <2> QED
    BY <1>0, <1>1, <2>1, TableStays DEF SkipName, SpawnTypes
<1>2. CASE StoreVar
  BY <1>2, StoreVarInv
<1>3. CASE GrowTable
  BY <1>3, GrowTableInv
<1>4. CASE EndTable
  BY <1>4, EndTableInv
<1>5. CASE Quit \/ EndOfCommands \/ \E c \in Child : Fork(c)
  <2>1. SpawnTypeOK'
    <3>1. CASE Quit \/ EndOfCommands
      BY <1>0, <3>1 DEF Quit, EndOfCommands, UnchangedByMain, envVars, signalVars, SpawnTypeOK, MainPlaces
    <3>2. ASSUME NEW c \in Child, Fork(c) PROVE SpawnTypeOK'
      <4>1. num' \in 0..99
        <5>1. num \in 0..99
          BY <1>0 DEF SpawnTypeOK
        <5>2. num' = (num + 1) % 100
          BY <3>2 DEF Fork
        <5> QED
          BY <5>1, <5>2
      <4>2. kids' \in [Child -> KidPlaces]
        BY <1>0, <3>2 DEF Fork, SpawnTypeOK, KidPlaces
      <4>3. UNCHANGED <<main, names, cap, count, slots, handler, pending, handling, quit>>
        BY <3>2 DEF Fork, UnchangedByMain, envVars, signalVars
      <4> QED
        BY <1>0, <4>1, <4>2, <4>3 DEF SpawnTypeOK
    <3> QED
      BY <1>5, <3>1, <3>2
  <2>2. main = "scan" /\ main' # "env" /\ UNCHANGED envVars
    BY <1>5 DEF Quit, EndOfCommands, Fork, UnchangedByMain
  <2> QED
    BY <1>0, <2>1, <2>2, TableStays DEF SpawnTypes, envVars
<1>6. CASE ResetHandler \/ Wait \/ WaitFails \/ FreeTable
  <2>1. SpawnTypeOK'
    BY <1>0, <1>6 DEF ResetHandler, Wait, WaitFails, FreeTable, ReapOne, UnchangedByMain, envVars, signalVars, SpawnTypeOK, MainPlaces, KidPlaces
  <2>2. main # "env" /\ main' # "env" /\ UNCHANGED envVars
    BY <1>6 DEF ResetHandler, Wait, WaitFails, FreeTable, UnchangedByMain
  <2> QED
    BY <1>0, <2>1, <2>2, TableStays DEF SpawnTypes, envVars
<1>7. CASE HandlerStep
  <2>1. SpawnTypeOK'
    BY <1>0, <1>7 DEF HandlerStep, HandlerStart, HandlerReap, HandlerEnd, ReapOne, UnchangedByHandler, envVars, SpawnTypeOK, KidPlaces
  <2>2. UNCHANGED <<main, envVars>>
    BY <1>7 DEF HandlerStep, HandlerStart, HandlerReap, HandlerEnd, UnchangedByHandler
  <2> QED
    BY <1>0, <2>1, <2>2 DEF SpawnTypes, TableInv, IsBlock, envVars
<1>8. CASE \E c \in Child : ChildStep(c)
  <2>1. SpawnTypeOK'
    BY <1>0, <1>8 DEF ChildStep, Exec, Exit, UnchangedByChild, envVars, SpawnTypeOK, KidPlaces
  <2>2. UNCHANGED <<main, envVars>>
    BY <1>8 DEF ChildStep, Exec, Exit, UnchangedByChild
  <2> QED
    BY <1>0, <2>1, <2>2 DEF SpawnTypes, TableInv, IsBlock, envVars
<1>9. CASE UNCHANGED spawnVars
  BY <1>0, <1>9 DEF spawnVars, SpawnTypes, SpawnTypeOK, TableInv, IsBlock, envVars, signalVars
<1> QED
  BY <1>1, <1>2, <1>3, <1>4, <1>5, <1>6, <1>7, <1>8, <1>9 DEF SpawnNext, MainStep, CommandStep

(* Nothing undoes what "q" has begun: no child is forked after it, and     *)
(* whoever has been reaped stays reaped.                                   *)
LEMMA QuitStep == SpawnTypes /\ QuitInv /\ [SpawnNext]_spawnVars => QuitInv'
<1> SUFFICES ASSUME SpawnTypes, QuitInv, [SpawnNext]_spawnVars PROVE QuitInv'
  OBVIOUS
<1>0. kids \in [Child -> KidPlaces] /\ main \in MainPlaces
  BY DEF SpawnTypes, SpawnTypeOK
<1> USE DEF QuitInv, QuitWaitsForAll
<1>1. CASE SkipName \/ StoreVar \/ GrowTable \/ EndTable
  BY <1>1 DEF SkipName, StoreVar, GrowTable, EndTable, UnchangedByEnv
<1>2. CASE Quit \/ EndOfCommands \/ \E c \in Child : Fork(c)
  BY <1>2 DEF Quit, EndOfCommands, Fork
<1>3. CASE ResetHandler \/ WaitFails \/ FreeTable
  BY <1>3 DEF ResetHandler, WaitFails, FreeTable
<1>4. CASE Wait
  BY <1>0, <1>4 DEF Wait, ReapOne
<1>5. CASE HandlerStep
  BY <1>0, <1>5 DEF HandlerStep, HandlerStart, HandlerReap, HandlerEnd, ReapOne, Zombie, UnchangedByHandler
<1>6. CASE \E c \in Child : ChildStep(c)
  BY <1>0, <1>6 DEF ChildStep, Exec, Exit, UnchangedByChild
<1>7. CASE UNCHANGED spawnVars
  BY <1>7 DEF spawnVars
<1> QED
  BY <1>1, <1>2, <1>3, <1>4, <1>5, <1>6, <1>7 DEF SpawnNext, MainStep, CommandStep

(* Both invariants hold in every reachable state. *)
LEMMA SpawnInvariance == SpawnSpec => []SpawnTypes /\ []QuitInv
  BY SpawnInitInv, SpawnTypesStep, QuitStep, PTL DEF SpawnSpec

(* Every variable keeps its type, and the table never outgrows its block,  *)
(* for any file env.                                                       *)
THEOREM SpawnTypeCorrect == SpawnSpec => []SpawnTypeOK
<1>1. SpawnTypes => SpawnTypeOK
  BY DEF SpawnTypes
<1> QED
  BY <1>1, SpawnInvariance, PTL

(* What execve gets ends inside its block, however many variables there    *)
(* are and whichever realloc or malloc fails (parent.c:83-103).            *)
THEOREM TableEnds == SpawnSpec => []EnvTerminated
<1>1. SpawnTypes => EnvTerminated
  <2> SUFFICES ASSUME SpawnTypes, main # "env" PROVE EnvTerminated
    BY DEF EnvTerminated
  <2>1. PICK n \in 1..cap : IsBlock(n) /\ slots[count] = "null"
    BY DEF SpawnTypes, TableInv
  <2>2. count \in DOMAIN slots
    BY <2>1 DEF IsBlock, SpawnTypes, SpawnTypeOK
  <2> QED
    BY <2>1, <2>2 DEF SpawnTypes, TableInv, EnvTerminated
<1> QED
  BY <1>1, SpawnInvariance, PTL

(* "q" leaves no child behind, whoever reaped it (parent.c:140-148).       *)
THEOREM QuitLeavesNobody == SpawnSpec => []QuitWaitsForAll
<1>1. QuitInv => QuitWaitsForAll
  BY DEF QuitInv
<1> QED
  BY <1>1, SpawnInvariance, PTL

-----------------------------------------------------------------------------
(* LineProtocol, for any lines and any number of them.                     *)
(*                                                                         *)
(* Session says what is on its way while the client waits: the line it     *)
(* typed, or just the rest of the reply to it, of which down holds the     *)
(* first part and out the second.  It needs tidy: for other lines client   *)
(* and server disagree about the length of the reply.                      *)

TidyLine(l) == l.word # "" /\ ~l.lead /\ ~l.cr

(* What the client reads after "rest", and after "first". *)
EndsText(s) == /\ Len(s) > 0 /\ s[Len(s)] = "end"
               /\ \A i \in 1..Len(s)-1 : s[i] = "text"

Whole(s, l) == IF IsMultiline(l)
                 THEN /\ Len(s) > 1 /\ s[Len(s)] = "end"
                      /\ \A i \in 2..Len(s)-1 : s[i] = "text"
                 ELSE Len(s) = 1

Quiet == up = <<>> /\ down = <<>> /\ out = <<>>

(* The server is at the line l, or has served it. *)
Serving(l) == /\ sv # "start"
              /\ bye <=> l.word = "QUIT"
              /\ sv = "closed" => l.word = "QUIT"

Greeting == typed = Nothing /\ Quiet /\ ((sv = "start" /\ ~bye) \/ sv = "closed")

Sent == up = <<typed>> /\ down = <<>> /\ out = <<>> /\ sv # "start" /\ typed # Nothing

Coming == up = <<>> /\ Whole(down \o out, typed) /\ Serving(typed)

Session ==
    tidy =>
      /\ typed = Nothing \/ TidyLine(typed)
      /\ cl = "first" => Greeting \/ Sent \/ Coming
      /\ cl = "rest" => /\ up = <<>> /\ IsMultiline(typed)
                        /\ EndsText(down \o out) /\ Serving(typed)
      /\ cl = "prompt" => Quiet /\ Serving(typed)
      /\ cl = "done" => Quiet /\ sv # "start"

(* Only in the middle of a reply is there something left to send. *)
Idle == /\ sv \in {"start", "read", "closed"} => out = <<>>
        /\ sv = "read" => ~bye

SessionInv == SessionTypeOK /\ Idle /\ Session

-----------------------------------------------------------------------------
(* Sending a line does not change what is coming. *)
LEMMA SendShift ==
    ASSUME NEW S, NEW s \in Seq(S), NEW t \in Seq(S), t # <<>>
    PROVE  Append(s, Head(t)) \o Tail(t) = s \o t
<1>1. Head(t) \in S /\ Tail(t) \in Seq(S) /\ Append(s, Head(t)) \in Seq(S)
  BY HeadTailProperties
<1>2. Append(s, Head(t)) \o Tail(t) \in Seq(S) /\ s \o t \in Seq(S)
  BY <1>1, ConcatProperties
<1>3. Len(Append(s, Head(t)) \o Tail(t)) = Len(s \o t)
  BY <1>1, ConcatProperties, HeadTailProperties
<1>4. ASSUME NEW i \in 1..Len(s \o t)
      PROVE  (Append(s, Head(t)) \o Tail(t))[i] = (s \o t)[i]
  BY <1>1, ConcatProperties, HeadTailProperties
<1> QED
  BY <1>2, <1>3, <1>4, SeqEqual

(* Reading a line takes the first of what is coming. *)
LEMMA ReadShift ==
    ASSUME NEW S, NEW s \in Seq(S), NEW t \in Seq(S), s # <<>>
    PROVE  /\ s \o t \in Seq(S) /\ Tail(s) \o t \in Seq(S)
           /\ Len(s \o t) = Len(Tail(s) \o t) + 1
           /\ Head(s) = (s \o t)[1]
           /\ \A i \in 1..Len(Tail(s) \o t) : (Tail(s) \o t)[i] = (s \o t)[i+1]
<1>1. Tail(s) \in Seq(S) /\ Len(s) \in Nat /\ Len(s) > 0 /\ Len(t) \in Nat
  BY HeadTailProperties, LenProperties, EmptySeq
<1>2. s \o t \in Seq(S) /\ Tail(s) \o t \in Seq(S)
  BY <1>1, ConcatProperties
<1>3. Len(s \o t) = Len(s) + Len(t) /\ Len(Tail(s) \o t) = Len(s) - 1 + Len(t)
  BY <1>1, ConcatProperties, HeadTailProperties
<1>4. Head(s) = (s \o t)[1]
  BY <1>1, ConcatProperties
<1>5. ASSUME NEW i \in 1..Len(Tail(s) \o t) PROVE (Tail(s) \o t)[i] = (s \o t)[i+1]
  BY <1>1, <1>3, ConcatProperties, HeadTailProperties
<1> QED
  BY <1>2, <1>3, <1>4, <1>5

(* After the first line of a reply the client expects the rest of it, or   *)
(* there is none. *)
LEMMA FirstOfWhole ==
    ASSUME NEW s \in Seq(Replies), NEW t \in Seq(Replies), s # <<>>, NEW l, Whole(s \o t, l)
    PROVE  IF IsMultiline(l) THEN EndsText(Tail(s) \o t) ELSE Tail(s) = <<>> /\ t = <<>>
<1>1. CASE IsMultiline(l)
  BY <1>1, ReadShift DEF Whole, EndsText
<1>2. CASE ~IsMultiline(l)
  <2>1. Len(s) \in Nat \ {0} /\ Len(t) \in Nat /\ Tail(s) \in Seq(Replies)
        /\ Len(Tail(s)) = Len(s) - 1
    BY EmptySeq, LenProperties, HeadTailProperties
  <2>2. Len(s) + Len(t) = 1
    BY <1>2, ConcatProperties DEF Whole
  <2>3. Len(Tail(s)) = 0 /\ Len(t) = 0
    BY <2>1, <2>2
  <2> QED
    BY <1>2, <2>1, <2>3, EmptySeq
<1> QED
  BY <1>1, <1>2

(* A line of the text is followed by more, and the end by nothing.         *)
LEMMA NextOfText ==
    ASSUME NEW s \in Seq(Replies), NEW t \in Seq(Replies), s # <<>>, EndsText(s \o t)
    PROVE  IF Head(s) = "text" THEN EndsText(Tail(s) \o t) ELSE Tail(s) = <<>> /\ t = <<>>
<1>1. CASE Head(s) = "text"
  BY <1>1, ReadShift DEF EndsText
<1>2. CASE Head(s) # "text"
  <2>1. Len(s) \in Nat \ {0} /\ Len(t) \in Nat /\ Tail(s) \in Seq(Replies)
        /\ Len(Tail(s)) = Len(s) - 1
    BY EmptySeq, LenProperties, HeadTailProperties
  <2>2. Len(s \o t) = 1
    BY <1>2, ReadShift DEF EndsText
  <2>3. Len(Tail(s)) = 0 /\ Len(t) = 0
    BY <2>1, <2>2, ConcatProperties
  <2> QED
    BY <1>2, <2>1, <2>3, EmptySeq
<1> QED
  BY <1>1, <1>2

(* The shape of the replies of several lines. *)
LEMMA TextReply ==
    ASSUME NEW k \in Nat, NEW r, r = <<"ok">> \o Texts(k) \o <<"end">>
    PROVE  /\ r \in Seq(Replies) /\ Len(r) = k + 2 /\ r[k+2] = "end"
           /\ \A i \in 2..k+1 : r[i] = "text"
<1> DEFINE s == <<"ok">> \o Texts(k)
<1>1. Texts(k) \in Seq(Replies) /\ Len(Texts(k)) = k
  BY DEF Texts, Replies
<1>2. /\ <<"ok">> \in Seq(Replies) /\ Len(<<"ok">>) = 1
      /\ <<"end">> \in Seq(Replies) /\ Len(<<"end">>) = 1
  BY DEF Replies
<1>3. /\ s \in Seq(Replies) /\ Len(s) = k + 1
      /\ \A i \in 1..k+1 : s[i] = IF i <= 1 THEN <<"ok">>[i] ELSE Texts(k)[i-1]
  BY <1>1, <1>2, ConcatProperties
<1>4. \A i \in 2..k+1 : s[i] = "text"
  BY <1>3 DEF Texts
<1> HIDE DEF s
<1>5. r = s \o <<"end">>
  BY DEF s
<1>6. /\ r \in Seq(Replies) /\ Len(r) = k + 2
      /\ \A i \in 1..k+2 : r[i] = IF i <= k+1 THEN s[i] ELSE <<"end">>[i-(k+1)]
  <2>1. /\ s \o <<"end">> \in Seq(Replies)
        /\ Len(s \o <<"end">>) = Len(s) + Len(<<"end">>)
        /\ \A i \in 1 .. Len(s) + Len(<<"end">>) :
             (s \o <<"end">>)[i] = IF i <= Len(s) THEN s[i] ELSE <<"end">>[i - Len(s)]
    BY <1>2, <1>3, ConcatProperties, Zenon
  <2>2. Len(s) = k + 1 /\ Len(<<"end">>) = 1 /\ Len(s) + Len(<<"end">>) = k + 2
    BY <1>2, <1>3
  <2> HIDE <1>2, <1>3
  <2> QED
    BY <1>5, <2>1, <2>2
<1>7. r[k+2] = <<"end">>[1]
  BY <1>6
<1> QED
  BY <1>4, <1>6, <1>7

(* The server's reply is what the client expects after a tidy line.        *)
LEMMA ReplyIsWhole ==
    ASSUME NEW l \in AllLines
    PROVE  /\ Reply(l) \in Seq(Replies)
           /\ TidyLine(l) => Whole(Reply(l), l)
<1>0. l.word \in {"ECHO", "INFO", "HELP", "QUIT", "OTHER", ""}
  BY DEF AllLines
<1>1. CASE l.word = "INFO"
  <2>1. Reply(l) = <<"ok">> \o Texts(5) \o <<"end">>
    BY <1>1 DEF Reply
  <2>2. /\ Reply(l) \in Seq(Replies) /\ Len(Reply(l)) = 5 + 2 /\ Reply(l)[5 + 2] = "end"
        /\ \A i \in 2..5 + 1 : Reply(l)[i] = "text"
    <3>1. 5 \in Nat
      OBVIOUS
    <3> QED
      BY <2>1, <3>1, TextReply, Zenon
  <2> QED
    BY <1>1, <2>2 DEF TidyLine, Whole, IsMultiline
<1>2. CASE l.word = "HELP"
  <2>1. Reply(l) = <<"ok">> \o Texts(4) \o <<"end">>
    BY <1>2 DEF Reply
  <2>2. /\ Reply(l) \in Seq(Replies) /\ Len(Reply(l)) = 4 + 2 /\ Reply(l)[4 + 2] = "end"
        /\ \A i \in 2..4 + 1 : Reply(l)[i] = "text"
    <3>1. 4 \in Nat
      OBVIOUS
    <3> QED
      BY <2>1, <3>1, TextReply, Zenon
  <2> QED
    BY <1>2, <2>2 DEF TidyLine, Whole, IsMultiline
<1>3. CASE l.word \notin {"INFO", "HELP"}
  <2>1. Reply(l) \in {<<"ok">>, <<"err">>, <<>>} /\ (Reply(l) = <<>> => l.word = "")
    BY <1>0, <1>3 DEF Reply
  <2>2. Reply(l) \in Seq(Replies)
    <3>1. <<"ok">> \in Seq(Replies) /\ <<"err">> \in Seq(Replies) /\ <<>> \in Seq(Replies)
      BY DEF Replies
    <3> QED
      BY <2>1, <3>1
  <2>3. l.word # "" => Len(Reply(l)) = 1
    <3>1. Len(<<"ok">>) = 1 /\ Len(<<"err">>) = 1
      OBVIOUS
    <3> QED
      BY <2>1, <3>1
  <2>4. ~IsMultiline(l)
    BY <1>3 DEF IsMultiline
  <2> QED
    BY <2>2, <2>3, <2>4 DEF TidyLine, Whole
<1> QED
  BY <1>1, <1>2, <1>3

-----------------------------------------------------------------------------
(* The initial state satisfies the invariant. *)
LEMMA SessionInitInv == SessionInit => SessionInv
<1> SUFFICES ASSUME SessionInit PROVE SessionInv
  OBVIOUS
<1>1. SessionTypeOK
  <2>1. out \in Seq(Replies) /\ down \in Seq(Replies) /\ up \in Seq(Lines \ {Nothing})
    BY DEF SessionInit
  <2>2. sent \in 0..MaxLines
    <3>1. MaxLines \in Nat
      BY LineAssumption, Zenon
    <3> QED
      BY <3>1 DEF SessionInit
  <2> QED
    BY <2>1, <2>2 DEF SessionInit, SessionTypeOK, ClientPlaces, ServerPlaces
<1> QED
  BY <1>1 DEF SessionInit, SessionInv, Idle, Session, Greeting, Quiet

(* What the user types is a line the parsers know. *)
LEMMA KnownLines == Lines \cup {Nothing} \subseteq AllLines
<1>1. Nothing \in AllLines
  BY DEF AllLines, Nothing
<1>2. Lines \subseteq AllLines
  BY LineAssumption
<1> QED
  BY <1>1, <1>2

(* A step of the server preserves the invariant. *)
LEMMA ServerInv == ASSUME SessionInv, ServerStep PROVE SessionInv'
<1>0. SessionTypeOK /\ Idle /\ Session /\ typed \in AllLines
  BY KnownLines DEF SessionInv, SessionTypeOK
<1>a. down \in Seq(Replies) /\ out \in Seq(Replies) /\ up \in Seq(Lines \ {Nothing})
  BY <1>0 DEF SessionTypeOK
<1>1. CASE Start
  <2>1. <<"ok">> \in Seq(Replies) /\ Len(<<>> \o <<"ok">>) = 1
    BY DEF Replies
  <2>2. SessionTypeOK'
    BY <1>0, <1>1, <2>1 DEF Start, UnchangedByServer, SessionTypeOK, ServerPlaces
  <2>3. Idle'
    BY <1>0, <1>1 DEF Start, Idle
  <2>4. Session'
    <3> SUFFICES ASSUME tidy' PROVE Session'
      BY DEF Session
    <3>1. UNCHANGED <<cl, typed, up, down, bye, tidy>> /\ sv = "start"
      BY <1>1 DEF Start, UnchangedByServer
    <3>2. CASE cl = "first"
      <4>1. Greeting /\ ~bye
        BY <1>0, <3>1, <3>2 DEF Session, Sent, Coming, Serving, Greeting
      <4>2. ~IsMultiline(Nothing) /\ Nothing.word = ""
        BY DEF IsMultiline, Nothing
      <4>3. CASE sv' = "closed" /\ UNCHANGED out
        BY <1>0, <3>1, <3>2, <4>1, <4>3 DEF Session, Greeting, Quiet
      <4>4. CASE sv' = "reply" /\ out' = <<"ok">>
        <5>1. Coming'
          BY <2>1, <3>1, <4>1, <4>2, <4>4 DEF Coming, Whole, Serving, Greeting, Quiet, IsMultiline
        <5> QED
          BY <1>0, <3>1, <3>2, <5>1 DEF Session
      <4> QED
        BY <1>1, <4>3, <4>4 DEF Start
    <3>3. CASE cl # "first"
      BY <1>0, <3>1, <3>3, <1>1 DEF Session, Serving, Quiet, Start, ClientGone
    <3> QED
      BY <3>2, <3>3
  <2> QED
    BY <2>2, <2>3, <2>4 DEF SessionInv
<1>2. CASE Receive
  <2> DEFINE l == Head(up)
  <2>1. /\ l \in Lines \ {Nothing} /\ l \in AllLines /\ Tail(up) \in Seq(Lines \ {Nothing})
        /\ up' = Tail(up) /\ sv = "read" /\ UNCHANGED <<down, cl, typed, sent, tidy>>
        /\ up # <<>>
    BY <1>a, <1>2, KnownLines, HeadTailProperties DEF Receive, UnchangedByServer
  <2>2. \/ ReadsEmpty(l) /\ sv' = "closed" /\ UNCHANGED <<out, bye>>
        \/ ~ReadsEmpty(l) /\ sv' = "reply" /\ out' = Reply(l) /\ bye' = (l.word = "QUIT")
    BY <1>2 DEF Receive
  <2>3. Reply(l) \in Seq(Replies) /\ (TidyLine(l) => Whole(Reply(l), l))
    BY <2>1, ReplyIsWhole
  <2>4. SessionTypeOK'
    <3>1. bye' \in BOOLEAN /\ out' \in Seq(Replies) /\ sv' \in ServerPlaces
      BY <1>0, <1>a, <2>2, <2>3 DEF SessionTypeOK, ServerPlaces
    <3> QED
      BY <1>0, <2>1, <3>1 DEF SessionTypeOK
  <2>5. Idle'
    BY <1>0, <2>1, <2>2 DEF Idle
  <2>6. Session'
    <3> SUFFICES ASSUME tidy' PROVE Session'
      BY DEF Session
    <3>1. cl \notin {"rest", "prompt", "done"}
      BY <1>0, <2>1 DEF Session, Quiet
    <3>2. CASE cl = "first"
      <4>1. Sent
        BY <1>0, <2>1, <3>2 DEF Session, Greeting, Quiet, Coming
      <4>2. l = typed /\ Tail(up) = <<>> /\ TidyLine(l)
        BY <1>0, <2>1, <4>1 DEF Sent, Session
      <4>3. ~ReadsEmpty(l)
        BY <4>2 DEF ReadsEmpty, TidyLine
      <4>4. down' \o out' = Reply(l)
        BY <2>1, <2>2, <2>3, <4>1, <4>3, ConcatEmptySeq DEF Sent
      <4>5. Whole(down' \o out', typed')
        BY <2>1, <2>3, <4>2, <4>4
      <4>6. Serving(typed)'
        BY <2>1, <2>2, <4>2, <4>3 DEF Serving
      <4> QED
        BY <1>0, <2>1, <3>2, <4>2, <4>5, <4>6 DEF Session, Coming, Whole, IsMultiline
    <3> QED
      BY <1>0, <2>1, <3>1, <3>2 DEF Session
  <2> QED
    BY <2>4, <2>5, <2>6 DEF SessionInv
<1>3. CASE ReceiveEnd
  <2>1. /\ cl \in {"done", "lost"} /\ sv' = "closed" /\ sv = "read"
        /\ UNCHANGED <<out, bye, up, down, cl, typed, sent, tidy>>
    BY <1>3 DEF ReceiveEnd, UnchangedByServer, ClientGone
  <2>2. SessionTypeOK'
    BY <1>0, <2>1 DEF SessionTypeOK, ServerPlaces
  <2>3. Idle' /\ Session'
    BY <1>0, <2>1 DEF Idle, Session, Quiet
  <2> QED
    BY <2>2, <2>3 DEF SessionInv
<1>4. CASE SendReply
  <2>1. /\ sv = "reply" /\ out # <<>> /\ out' = Tail(out)
        /\ UNCHANGED <<sv, bye, up, cl, typed, sent, tidy>>
    BY <1>4 DEF SendReply, UnchangedByServer
  <2>2. Head(out) \in Replies /\ Tail(out) \in Seq(Replies)
    BY <1>a, <2>1, HeadTailProperties
  <2>3. down' \in Seq(Replies)
    BY <1>a, <1>4, <2>2 DEF SendReply
  <2>4. SessionTypeOK'
    BY <1>0, <2>1, <2>2, <2>3 DEF SessionTypeOK
  <2>5. Idle'
    BY <2>1 DEF Idle
  <2>6. Session'
    <3> SUFFICES ASSUME tidy' PROVE Session'
      BY DEF Session
    <3>1. cl \notin {"prompt", "done"}
      BY <1>0, <2>1 DEF Session, Quiet
    <3>2. CASE cl \in {"first", "rest"}
      <4>1. down' = Append(down, Head(out))
        BY <1>4, <3>2 DEF SendReply, ClientGone
      <4>2. down' \o out' = down \o out
        BY <1>a, <2>1, <4>1, SendShift
      <4>3. cl = "first" => Coming
        BY <1>0, <2>1 DEF Session, Greeting, Sent, Quiet
      <4>4. cl = "first" => Coming'
        BY <2>1, <4>2, <4>3 DEF Coming, Whole, Serving, IsMultiline
      <4>5. cl = "rest" => EndsText(down' \o out') /\ Serving(typed)' /\ IsMultiline(typed)' /\ up' = <<>>
        BY <1>0, <2>1, <4>2 DEF Session, Serving, IsMultiline
      <4> QED
        BY <1>0, <2>1, <3>2, <4>4, <4>5 DEF Session, EndsText
    <3> QED
      BY <1>0, <2>1, <3>1, <3>2 DEF Session
  <2> QED
    BY <2>4, <2>5, <2>6 DEF SessionInv
<1>5. CASE EndReply
  <2>1. /\ sv = "reply" /\ out = <<>> /\ sv' = (IF bye THEN "closed" ELSE "read")
        /\ UNCHANGED <<out, bye, up, down, cl, typed, sent, tidy>>
    BY <1>5 DEF EndReply, UnchangedByServer
  <2>2. SessionTypeOK'
    BY <1>0, <2>1 DEF SessionTypeOK, ServerPlaces
  <2>3. Idle'
    BY <2>1 DEF Idle
  <2>4. Session'
    BY <1>0, <2>1 DEF Session, Greeting, Sent, Coming, Serving, Quiet, Whole, EndsText, IsMultiline
  <2> QED
    BY <2>2, <2>3, <2>4 DEF SessionInv
<1> QED
  BY <1>1, <1>2, <1>3, <1>4, <1>5 DEF ServerStep

(* A step of the client or its user preserves the invariant. *)
LEMMA ClientInv == ASSUME SessionInv, ClientStep \/ UserStep PROVE SessionInv'
<1>0. SessionTypeOK /\ Idle /\ Session /\ typed \in AllLines
  BY KnownLines DEF SessionInv, SessionTypeOK
<1>a. /\ down \in Seq(Replies) /\ out \in Seq(Replies) /\ up \in Seq(Lines \ {Nothing})
      /\ typed \in Lines \cup {Nothing} /\ sent \in 0..MaxLines
  BY <1>0 DEF SessionTypeOK
<1>b. UNCHANGED <<sv, out, bye>> /\ Idle'
  <2>1. CASE ClientStep \/ EndOfInput
    BY <1>0, <2>1 DEF ClientStep, ReadFirst, ReadRest, ReadNothing, EndOfInput, UnchangedByClient, Idle
  <2>2. ASSUME NEW l \in Lines, TypeLine(l) PROVE UNCHANGED <<sv, out, bye>> /\ Idle'
    BY <1>0, <2>2 DEF TypeLine, UnchangedByServer, UnchangedByClient, Idle
  <2> QED
    BY <2>1, <2>2 DEF UserStep
<1>1. CASE EndOfInput
  <2>1. cl = "prompt" /\ cl' = "done" /\ UNCHANGED <<typed, sent, up, down, tidy>>
    BY <1>1 DEF EndOfInput
  <2>2. SessionTypeOK'
    BY <1>0, <1>b, <2>1 DEF SessionTypeOK, ClientPlaces
  <2>3. Session'
    BY <1>0, <1>b, <2>1 DEF Session, Quiet, Serving
  <2> QED
    BY <1>b, <2>2, <2>3 DEF SessionInv
<1>2. ASSUME NEW l \in Lines, TypeLine(l) PROVE SessionInv'
  <2>1. /\ cl = "prompt" /\ l # Nothing /\ sent < MaxLines /\ typed' = l /\ sent' = sent + 1
        /\ tidy' = (tidy /\ l.word # "" /\ ~l.lead /\ ~l.cr)
        /\ down' = down
        /\ \/ cl' = "first" /\ up' = Append(up, l)
           \/ cl' = "lost" /\ UNCHANGED up
    BY <1>2 DEF TypeLine
  <2>2. SessionTypeOK'
    <3>0. sent' \in 0..MaxLines
      <4>1. MaxLines \in Nat
        BY LineAssumption, Zenon
      <4>2. sent \in 0..MaxLines /\ sent < MaxLines /\ sent' = sent + 1
        BY <1>a, <2>1, Zenon
      <4> QED
        BY <4>1, <4>2
    <3>1. up' \in Seq(Lines \ {Nothing})
      <4>1. l \in Lines \ {Nothing}
        BY <2>1
      <4>2. Append(up, l) \in Seq(Lines \ {Nothing})
        BY <1>a, <4>1
      <4> QED
        BY <1>a, <2>1, <4>2
    <3>2. tidy' \in BOOLEAN /\ cl' \in ClientPlaces /\ typed' \in Lines \cup {Nothing}
      BY <2>1 DEF ClientPlaces
    <3> QED
      BY <1>0, <1>b, <2>1, <3>0, <3>1, <3>2 DEF SessionTypeOK
  <2>3. Session'
    <3> SUFFICES ASSUME tidy' PROVE Session'
      BY DEF Session
    <3>1. tidy /\ TidyLine(l)
      BY <2>1 DEF TidyLine
    <3>2. Quiet /\ sv # "start"
      BY <1>0, <2>1, <3>1 DEF Session, Serving
    <3>3. cl' = "first" => Sent'
      <4>1. Append(<<>>, l) = <<l>>
        OBVIOUS
      <4> QED
        BY <1>b, <2>1, <3>2, <4>1 DEF Quiet, Sent
    <3>4. TidyLine(typed)'
      BY <2>1, <3>1 DEF TidyLine
    <3> QED
      BY <2>1, <3>3, <3>4 DEF Session
  <2> QED
    BY <1>b, <2>2, <2>3 DEF SessionInv
<1>3. CASE ReadFirst
  <2>1. /\ cl = "first" /\ down # <<>> /\ down' = Tail(down)
        /\ cl' = (IF IsMultiline(typed) THEN "rest" ELSE AfterReply)
        /\ UNCHANGED <<typed, sent, up, tidy>>
    BY <1>3 DEF ReadFirst
  <2>2. SessionTypeOK'
    <3>1. down' \in Seq(Replies) /\ cl' \in ClientPlaces
      BY <1>a, <2>1, HeadTailProperties DEF ClientPlaces, AfterReply
    <3> QED
      BY <1>0, <1>b, <2>1, <3>1 DEF SessionTypeOK
  <2>3. Session'
    <3> SUFFICES ASSUME tidy' PROVE Session'
      BY DEF Session
    <3>1. Coming
      BY <1>0, <2>1 DEF Session, Greeting, Sent, Quiet
    <3>2. IF IsMultiline(typed) THEN EndsText(Tail(down) \o out) ELSE Tail(down) = <<>> /\ out = <<>>
      BY <1>a, <2>1, <3>1, FirstOfWhole DEF Coming
    <3>3. Serving(typed)' /\ up' = <<>> /\ sv' # "start"
      BY <1>b, <2>1, <3>1 DEF Coming, Serving
    <3>4. CASE IsMultiline(typed)
      BY <1>0, <1>b, <2>1, <3>2, <3>3, <3>4 DEF Session, IsMultiline, EndsText, TidyLine
    <3>5. CASE ~IsMultiline(typed)
      BY <1>0, <1>b, <2>1, <3>2, <3>3, <3>5 DEF Session, Quiet, AfterReply, TidyLine
    <3> QED
      BY <3>4, <3>5
  <2> QED
    BY <1>b, <2>2, <2>3 DEF SessionInv
<1>4. CASE ReadRest
  <2>1. /\ cl = "rest" /\ down # <<>> /\ down' = Tail(down)
        /\ cl' = (IF Head(down) = "text" THEN "rest" ELSE AfterReply)
        /\ UNCHANGED <<typed, sent, up, tidy>>
    BY <1>4 DEF ReadRest
  <2>2. SessionTypeOK'
    <3>1. down' \in Seq(Replies) /\ cl' \in ClientPlaces
      BY <1>a, <2>1, HeadTailProperties DEF ClientPlaces, AfterReply
    <3> QED
      BY <1>0, <1>b, <2>1, <3>1 DEF SessionTypeOK
  <2>3. Session'
    <3> SUFFICES ASSUME tidy' PROVE Session'
      BY DEF Session
    <3>1. up = <<>> /\ IsMultiline(typed) /\ EndsText(down \o out) /\ Serving(typed)
      BY <1>0, <2>1 DEF Session
    <3>2. IF Head(down) = "text" THEN EndsText(Tail(down) \o out) ELSE Tail(down) = <<>> /\ out = <<>>
      BY <1>a, <2>1, <3>1, NextOfText
    <3>3. Serving(typed)' /\ up' = <<>> /\ sv' # "start"
      BY <1>b, <2>1, <3>1 DEF Serving
    <3>4. CASE Head(down) = "text"
      BY <1>0, <1>b, <2>1, <3>1, <3>2, <3>3, <3>4 DEF Session, IsMultiline, EndsText, TidyLine
    <3>5. CASE Head(down) # "text"
      BY <1>0, <1>b, <2>1, <3>2, <3>3, <3>5 DEF Session, Quiet, AfterReply, TidyLine
    <3> QED
      BY <3>4, <3>5
  <2> QED
    BY <1>b, <2>2, <2>3 DEF SessionInv
<1>5. CASE ReadNothing
  <2>1. /\ sv = "closed" /\ down' = <<>> /\ UNCHANGED <<typed, sent, up, tidy>>
        /\ \/ cl = "first" /\ cl' = "lost"
           \/ cl = "rest" /\ cl' = AfterReply
    BY <1>5 DEF ReadNothing
  <2>2. SessionTypeOK'
    <3>1. down' \in Seq(Replies) /\ cl' \in ClientPlaces
      BY <2>1 DEF ClientPlaces, AfterReply
    <3> QED
      BY <1>0, <1>b, <2>1, <3>1 DEF SessionTypeOK
  <2>3. Session'
    <3> SUFFICES ASSUME tidy' PROVE Session'
      BY DEF Session
    <3>1. ~(cl = "rest")
      BY <1>0, <2>1 DEF Session, Serving, IsMultiline
    <3> QED
      BY <1>0, <2>1, <3>1 DEF Session, TidyLine
  <2> QED
    BY <1>b, <2>2, <2>3 DEF SessionInv
<1> QED
  BY <1>1, <1>2, <1>3, <1>4, <1>5 DEF ClientStep, UserStep

(* The invariant holds in every reachable state. *)
LEMMA SessionInvariance == SessionSpec => []SessionInv
<1>1. SessionInv /\ [SessionNext]_sessionVars => SessionInv'
  <2>1. SessionInv /\ UNCHANGED sessionVars => SessionInv'
    <3> SUFFICES ASSUME SessionInv, UNCHANGED sessionVars PROVE SessionInv'
      OBVIOUS
    <3>1. SessionTypeOK' /\ Idle'
      BY DEF SessionInv, sessionVars, SessionTypeOK, Idle
    <3>2. Session'
      BY DEF SessionInv, sessionVars, Session, Greeting, Sent, Coming, Serving, Quiet,
             Whole, EndsText, IsMultiline, TidyLine
    <3> QED
      BY <3>1, <3>2 DEF SessionInv
  <2> QED
    BY <2>1, ServerInv, ClientInv DEF SessionNext
<1> QED
  BY SessionInitInv, <1>1, PTL DEF SessionSpec

(* Every variable keeps its type, whatever is typed. *)
THEOREM SessionTypeCorrect == SessionSpec => []SessionTypeOK
<1>1. SessionInv => SessionTypeOK
  BY DEF SessionInv
<1> QED
  BY <1>1, SessionInvariance, PTL

(* Client and server agree about every reply to a tidy line, for sessions  *)
(* of any length (dispatch_command, is_multiline_command).                 *)
THEOREM StaysInStep == SessionSpec => []InStep
<1>1. SessionInv => InStep
  BY DEF SessionInv, Session, InStep, Quiet, Serving
<1> QED
  BY <1>1, SessionInvariance, PTL

-----------------------------------------------------------------------------
(* DirWalk, for trees of any size and depth, any removals and any errors.  *)
(*                                                                         *)
(* Two sets are kept in mind: what has been counted (C) and what has been  *)
(* opened (O).  What is pending has not been counted and lies in an open   *)
(* directory, so nothing is counted twice (Listed); and whatever can still *)
(* be reached has been counted or lies below something pending (Covered).  *)

Pending == {e \in 1..Last : \E i \in DOMAIN stack : e \in stack[i]}

(* What stays as it is, and the sorts of what changes. *)
WalkTypes ==
    /\ WalkTypeOK
    /\ parent \in [1..Last -> Object] /\ kind \in [Object -> Kinds] /\ IsTree(parent, kind)
    /\ sort \in BOOLEAN
    /\ stack \in Seq(SUBSET (1..Last))

-----------------------------------------------------------------------------
(* A set of objects that is not empty has a least element. *)
LEMMA LeastObject ==
    ASSUME NEW S \in SUBSET Object, S # {} PROVE \E x \in S : \A y \in S : x <= y
<1>1. S \subseteq Nat
  BY WalkAssumption DEF Object
<1>2. IsWellFoundedOn(OpToRel(<, Nat), Nat)
  BY NatLessThanWellFounded
<1>3. PICK x \in S : \A y \in S : ~ (<<y, x>> \in OpToRel(<, Nat))
  BY <1>1, <1>2, WFMin
<1>4. \A y \in S : ~ (y < x)
  BY <1>1, <1>3 DEF OpToRel
<1> QED
  BY <1>1, <1>4

LEMMA ParentAbove ==
    ASSUME parent \in [1..Last -> Object], NEW n \in 1..Last PROVE parent[n] \in Above(n)
BY WalkAssumption DEF Above, Object

(* The walk starts above everything. *)
LEMMA RootAbove ==
    ASSUME parent \in [1..Last -> Object], IsTree(parent, kind), NEW n \in 1..Last
    PROVE  0 \in Above(n)
<1>1. Last \in Nat /\ n # 0 /\ 0 \in Object
  BY WalkAssumption DEF Object
<1>2. ASSUME NEW S \in SUBSET Object, parent[n] \in S, Closed(S) PROVE 0 \in S
  <2>1. PICK x \in S : \A y \in S : x <= y
    BY <1>2, LeastObject
  <2>2. ASSUME x # 0 PROVE FALSE
    <3>1. x \in 1..Last /\ parent[x] \in S
      BY <1>1, <1>2, <2>2 DEF Closed, Object
    <3>2. parent[x] < x
      BY <3>1 DEF IsTree
    <3>3. x <= parent[x]
      BY <2>1, <3>1
    <3>4. x \in Nat /\ parent[x] \in Nat
      BY <1>1, <3>1 DEF Object
    <3> QED
      BY <3>2, <3>3, <3>4
  <2> QED
    BY <2>2
<1> QED
  BY <1>1, <1>2 DEF Above

(* From what lies above n the way down begins with a child. *)
LEMMA ChildBelow ==
    ASSUME parent \in [1..Last -> Object], NEW n \in Object, NEW a \in Above(n)
    PROVE  \E b \in (Above(n) \cup {n}) \ {0} : b \in 1..Last /\ parent[b] = a
<1>1. Last \in Nat /\ n \in 1..Last /\ a \in Object
  BY WalkAssumption DEF Above, Object
<1> SUFFICES ASSUME \A b \in (Above(n) \cup {n}) \ {0} : b \in 1..Last => parent[b] # a
             PROVE  FALSE
  OBVIOUS
<1> DEFINE S == Above(n) \ {a}
<1>2. S \in SUBSET Object
  BY DEF Above
<1>3. parent[n] \in S
  BY <1>1, ParentAbove
<1>4. Closed(S)
  <2> SUFFICES ASSUME NEW m \in S \ {0} PROVE parent[m] \in S
    BY DEF Closed
  <2>1. m \in 1..Last /\ m \in Above(n)
    BY <1>1, <1>2 DEF Object
  <2>2. parent[m] \in Above(n)
    <3>1. parent[m] \in Object
      BY <2>1
    <3>2. ASSUME NEW T \in SUBSET Object, parent[n] \in T, Closed(T) PROVE parent[m] \in T
      <4>1. m \in T
        BY <2>1, <3>2 DEF Above
      <4> QED
        BY <3>2, <4>1 DEF Closed
    <3> QED
      BY <1>1, <3>1, <3>2 DEF Above
  <2> QED
    BY <2>1, <2>2
<1>5. a \in S
  BY <1>2, <1>3, <1>4 DEF Above
<1> QED
  BY <1>5

(* Removals and errors only take away from what can be reached. *)
LEMMA ReachedBefore ==
    ASSUME UNCHANGED parent, gone \subseteq gone', uncounted \subseteq uncounted',
           unwalked \subseteq unwalked', NEW n \in Object, Reached(n)'
    PROVE  Reached(n)
<1>1. Above(n)' = Above(n)
  BY DEF Above, Closed
<1> QED
  BY <1>1 DEF Reached

-----------------------------------------------------------------------------
(* C is what has been counted, O what has been opened, and what is pending *)
(* has been listed by readdir of an open directory.                        *)
Listed(C, O) ==
    /\ O \subseteq C \cup {0}
    /\ \A e \in C \ {0} : parent[e] \in O
    /\ \A e \in Pending : e \notin C /\ parent[e] \in O
    /\ \A i, j \in DOMAIN stack : i # j => stack[i] \cap stack[j] = {}
    /\ at = "start" => C = {} /\ O = {} /\ stack = <<>> /\ dir = 0
    /\ at = "open" => dir \in (C \cup {0}) \ O /\ dir \notin Pending
    /\ at = "done" => stack = <<>> /\ list = <<>>

Printed(s) == {s[i] : i \in DOMAIN s}

Booked(C) ==
    /\ \A k \in Kinds : stats[k] = OfKind(C, k)
    /\ ~sort => list = <<>>
    /\ sort /\ at # "done" => output = <<>>
    /\ Printed(output \o list) \subseteq {n \in C : ShouldPrint(n)}
    /\ Cardinality(Printed(output \o list)) = Len(output \o list)
    /\ ~short => Printed(output \o list) = {n \in C : ShouldPrint(n)}

(* What can still be reached is counted, or below what is yet to be read.  *)
Ahead(n) == \/ \E a \in Above(n) \cup {n} : a \in Pending
            \/ at = "open" /\ dir \in Above(n)

Covered(C) == at \notin {"start", "refused"} =>
                \A n \in Object : Reached(n) => n \in C \/ Ahead(n)

Walked(C, O) == Listed(C, O) /\ Booked(C) /\ Covered(C)

WalkInv == WalkTypes /\ \E C, O \in SUBSET Object : Walked(C, O)

LEMMA WalkInitInv == WalkInit => WalkInv
<1> SUFFICES ASSUME WalkInit PROVE WalkInv
  OBVIOUS
<1>1. WalkTypes
  <2>1. Last \in Nat /\ MaxDepth \in Nat /\ 0 \in Object
    BY WalkAssumption DEF Object
  <2>2. stack \in Seq(SUBSET (1..Last)) /\ list \in Seq(Object) /\ output \in Seq(Object)
    BY EmptySeq DEF WalkInit
  <2>3. Len(stack) = 0 /\ DOMAIN stack = {}
    BY DEF WalkInit
  <2>4. WalkTypeOK
    BY <2>1, <2>2, <2>3 DEF WalkInit, WalkTypeOK
  <2> QED
    BY <2>2, <2>4 DEF WalkInit, WalkTypes
<1>2. Listed({}, {})
  <2>1. DOMAIN stack = {}
    BY DEF WalkInit
  <2> QED
    BY <2>1 DEF WalkInit, Listed, Pending
<1>3. Booked({})
  <2>1. \A k \in Kinds : OfKind({}, k) = 0
    <3> TAKE k \in Kinds
    <3>1. {n \in {} : kind[n] = k} = {}
      OBVIOUS
    <3> QED
      BY <3>1, FS_EmptySet DEF OfKind
  <2>2. \A k \in Kinds : stats[k] = 0
    BY DEF WalkInit
  <2>3. output \o list = <<>>
    BY DEF WalkInit
  <2>4. Printed(<<>>) = {} /\ Len(<<>>) = 0
    BY DEF Printed
  <2> QED
    BY <2>1, <2>2, <2>3, <2>4, FS_EmptySet DEF WalkInit, Booked
<1>4. Covered({})
  BY DEF WalkInit, Covered
<1> QED
  BY <1>1, <1>2, <1>3, <1>4 DEF WalkInv, Walked

(* One more object is counted. *)
LEMMA CountOne ==
    ASSUME WalkTypes, NEW C \in SUBSET Object, \A k \in Kinds : stats[k] = OfKind(C, k),
           NEW e \in Object, e \notin C, Count(e), UNCHANGED kind
    PROVE  \A k \in Kinds : stats'[k] = OfKind(C \cup {e}, k)'
<1> TAKE k \in Kinds
<1> DEFINE S == {n \in C : kind[n] = k}
           T == {n \in C \cup {e} : kind[n] = k}
<1>1. IsFiniteSet(S)
  <2>1. IsFiniteSet(Object)
    BY WalkAssumption, FS_Interval DEF Object
  <2> QED
    BY <2>1, FS_Subset
<1>2. Cardinality(T) = Cardinality(S) + (IF kind[e] = k THEN 1 ELSE 0)
  <2>1. CASE kind[e] = k
    <3>1. T = S \cup {e} /\ e \notin S
      BY <2>1
    <3> QED
      BY <1>1, <2>1, <3>1, FS_AddElement
  <2>2. CASE kind[e] # k
    <3>1. T = S
      BY <2>2
    <3>2. Cardinality(S) \in Nat
      BY <1>1, FS_CardinalityType
    <3> QED
      BY <2>2, <3>1, <3>2
  <2> QED
    BY <2>1, <2>2
<1>3. stats'[k] = stats[k] + (IF kind[e] = k THEN 1 ELSE 0)
  <2>1. stats \in [Kinds -> Nat] /\ kind[e] \in Kinds
    BY DEF WalkTypes, WalkTypeOK
  <2> QED
    BY <2>1 DEF Count
<1>4. OfKind(C, k) = Cardinality(S) /\ OfKind(C \cup {e}, k)' = Cardinality(T)
  BY DEF OfKind
<1> QED
  BY <1>2, <1>3, <1>4

(* One more line, in the output or in the list. *)
LEMMA LongerOutput ==
    ASSUME NEW s \in Seq(Object), NEW e \in Object, e \notin Printed(s),
           Cardinality(Printed(s)) = Len(s)
    PROVE  /\ Printed(Append(s, e)) = Printed(s) \cup {e}
           /\ Cardinality(Printed(Append(s, e))) = Len(Append(s, e))
<1> DEFINE r == Append(s, e)
<1>1. Len(r) = Len(s) + 1 /\ DOMAIN r = 1..Len(s)+1 /\ r[Len(s)+1] = e
      /\ \A i \in 1..Len(s) : r[i] = s[i]
  BY AppendProperties
<1>2. Len(s) \in Nat /\ DOMAIN s = 1..Len(s)
  OBVIOUS
<1>3. Printed(r) = Printed(s) \cup {e}
  <2>1. \A i \in DOMAIN r : i \in DOMAIN s \/ i = Len(s) + 1
    BY <1>1, <1>2
  <2>2. Printed(r) \subseteq Printed(s) \cup {e}
    BY <1>1, <1>2, <2>1 DEF Printed
  <2>3. Printed(s) \subseteq Printed(r)
    <3>1. \A i \in DOMAIN s : i \in DOMAIN r /\ r[i] = s[i]
      BY <1>1, <1>2
    <3> QED
      BY <3>1 DEF Printed
  <2>4. e \in Printed(r)
    <3>1. Len(s) + 1 \in DOMAIN r
      BY <1>1, <1>2
    <3> QED
      BY <1>1, <3>1 DEF Printed
  <2> QED
    BY <2>2, <2>3, <2>4
<1>4. IsFiniteSet(Printed(s))
  <2>1. Printed(s) \subseteq Object
    BY DEF Printed
  <2>2. IsFiniteSet(Object)
    BY WalkAssumption, FS_Interval DEF Object
  <2> QED
    BY <2>1, <2>2, FS_Subset
<1> QED
  BY <1>1, <1>3, <1>4, FS_AddElement

LEMMA BookOne ==
    ASSUME WalkTypes, NEW C \in SUBSET Object, Booked(C), NEW e \in Object, e \notin C,
           at # "done", Count(e), PrintOrKeep(e), UNCHANGED <<tree, short>>
    PROVE  Booked(C \cup {e})'
<1>0. UNCHANGED <<kind, show, sort>> /\ \A n : ShouldPrint(n)' = ShouldPrint(n)
  BY DEF tree, ShouldPrint
<1>1. \A k \in Kinds : stats'[k] = OfKind(C \cup {e}, k)'
  BY <1>0, CountOne DEF Booked
<1>2. list \in Seq(Object) /\ output \in Seq(Object) /\ sort \in BOOLEAN
  BY DEF WalkTypes, WalkTypeOK
<1>3. ~sort => list = <<>> /\ list' = <<>>
  BY <1>2 DEF Booked, PrintOrKeep
<1>4. output' \o list' = IF ShouldPrint(e) THEN Append(output \o list, e) ELSE output \o list
  <2>1. CASE ~ShouldPrint(e)
    BY <2>1 DEF PrintOrKeep
  <2>2. CASE ShouldPrint(e) /\ sort
    <3>1. output' = output /\ list' = Append(list, e)
      BY <2>2 DEF PrintOrKeep
    <3>2. output \o Append(list, e) = Append(output \o list, e)
      BY <1>2
    <3> QED
      BY <2>2, <3>1, <3>2
  <2>3. CASE ShouldPrint(e) /\ ~sort
    <3>1. output' = Append(output, e) /\ list' = <<>> /\ list = <<>>
      BY <1>3, <2>3 DEF PrintOrKeep
    <3>2. output \o <<>> = output /\ Append(output, e) \o <<>> = Append(output, e)
      BY <1>2
    <3> QED
      BY <2>3, <3>1, <3>2
  <2> QED
    BY <2>1, <2>2, <2>3
<1>5. sort => output = <<>> /\ output' = <<>>
  BY <1>2 DEF Booked, PrintOrKeep
<1>6. /\ Printed(output' \o list') \subseteq {n \in C \cup {e} : ShouldPrint(n)}
      /\ Cardinality(Printed(output' \o list')) = Len(output' \o list')
      /\ ~short => Printed(output' \o list') = {n \in C \cup {e} : ShouldPrint(n)}
  <2>1. /\ Printed(output \o list) \subseteq {n \in C : ShouldPrint(n)}
        /\ Cardinality(Printed(output \o list)) = Len(output \o list)
        /\ ~short => Printed(output \o list) = {n \in C : ShouldPrint(n)}
    BY DEF Booked
  <2>2. output \o list \in Seq(Object) /\ e \notin Printed(output \o list)
    BY <1>2, <2>1
  <2>3. CASE ShouldPrint(e)
    <3>1. Printed(output' \o list') = Printed(output \o list) \cup {e}
          /\ Cardinality(Printed(output' \o list')) = Len(output' \o list')
      BY <1>4, <2>1, <2>2, <2>3, LongerOutput
    <3> QED
      BY <2>1, <2>3, <3>1
  <2>4. CASE ~ShouldPrint(e)
    BY <1>4, <2>1, <2>4
  <2> QED
    BY <2>3, <2>4
<1> QED
  BY <1>0, <1>1, <1>3, <1>6, <1>5 DEF Booked, Printed
(* What is left of a sequence without its last element. *)
LEMMA FrontFacts ==
    ASSUME NEW S, NEW s \in Seq(S), s # <<>>
    PROVE  /\ Len(s) - 1 \in Nat
           /\ SubSeq(s, 1, Len(s) - 1) \in Seq(S)
           /\ Len(SubSeq(s, 1, Len(s) - 1)) = Len(s) - 1
           /\ \A i \in 1..Len(s) - 1 : SubSeq(s, 1, Len(s) - 1)[i] = s[i]
<1>1. ASSUME NEW m \in Nat, m <= Len(s)
      PROVE  /\ SubSeq(s, 1, m) \in Seq(S) /\ Len(SubSeq(s, 1, m)) = m
             /\ \A i \in 1..m : SubSeq(s, 1, m)[i] = s[i]
  <2>1. \A i \in 1..m : s[i] \in S
    BY <1>1
  <2>2. /\ SubSeq(s, 1, m) \in Seq(S)
        /\ Len(SubSeq(s, 1, m)) = IF 1 <= m THEN m - 1 + 1 ELSE 0
        /\ \A i \in 1..m - 1 + 1 : SubSeq(s, 1, m)[i] = s[1 + i - 1]
    BY <2>1, SubSeqProperties
  <2> QED
    BY <2>2
<1>2. Len(s) - 1 \in Nat /\ Len(s) - 1 <= Len(s)
  OBVIOUS
<1> QED
  BY <1>1, <1>2, Zenon

(* The types are inductive. *)
LEMMA WalkTypesStep == WalkTypes /\ [WalkNext]_walkVars => WalkTypes'
<1> SUFFICES ASSUME WalkTypes, [WalkNext]_walkVars PROVE WalkTypes'
  OBVIOUS
<1> DEFINE Rest == /\ gone \subseteq 1..Last
                   /\ at \in {"start", "open", "walk", "done", "refused"}
                   /\ dir \in Object
                   /\ errors \in Nat
                   /\ uncounted \cup unwalked \subseteq Object /\ short \in BOOLEAN
           Written == list \in Seq(Object) /\ output \in Seq(Object)
           Stats == stats \in [Kinds -> Nat]
           Calls == stack \in Seq(SUBSET (1..Last)) /\ Len(stack) <= MaxDepth + 1
<1>0. UNCHANGED tree
  BY DEF WalkNext, walkVars, StartWalk, Open, Close, Finish, Skip, Fail, Visit,
         VisitWithoutMemory, Remove, tree
<1>1. Rest /\ Written /\ Stats /\ Calls
  BY DEF WalkTypes, WalkTypeOK
<1>2. Last \in Nat /\ MaxDepth \in Nat /\ 1..Last \subseteq Object /\ 0 \in Object
  BY WalkAssumption DEF Object
<1>3. Rest'
  <2>1. CASE StartWalk
    BY <1>1, <1>2, <2>1 DEF StartWalk
  <2>2. CASE Open
    BY <1>1, <1>2, <2>2 DEF Open, Error, NoError
  <2>3. CASE Close \/ Finish
    BY <1>1, <1>2, <2>3 DEF Close, Finish, NoError
  <2>4. ASSUME NEW e \in 1..Last, Skip(e) \/ Fail(e) PROVE Rest'
    <3>1. UNCHANGED <<gone, at, dir, unwalked, short>>
      BY <2>4 DEF Skip, Fail, NoError
    <3>2. uncounted' \subseteq uncounted \cup {e} /\ errors' \in {errors, errors + 1}
      BY <2>4 DEF Skip, Fail, NoError, Error
    <3> QED
      BY <1>1, <1>2, <3>1, <3>2
  <2>5. ASSUME NEW e \in 1..Last, Visit(e) PROVE Rest'
    BY <1>1, <1>2, <2>5 DEF Visit, Descend, NoError
  <2>6. ASSUME NEW e \in 1..Last, VisitWithoutMemory(e) PROVE Rest'
    BY <1>1, <1>2, <2>6 DEF VisitWithoutMemory
  <2>7. ASSUME NEW e \in 1..Last, Remove(e) PROVE Rest'
    BY <1>1, <1>2, <2>7 DEF Remove, history
  <2>8. CASE UNCHANGED walkVars
    BY <1>1, <2>8 DEF walkVars, history
  <2> QED
    BY <2>1, <2>2, <2>3, <2>4, <2>5, <2>6, <2>7, <2>8 DEF WalkNext
<1>4. ASSUME NEW e \in Object, Count(e) PROVE Stats'
  <2>1. kind[e] \in Kinds /\ stats \in [Kinds -> Nat]
    BY DEF WalkTypes, WalkTypeOK
  <2>2. stats[kind[e]] + 1 \in Nat
    BY <2>1
  <2> QED
    BY <1>4, <2>1, <2>2 DEF Count
<1>5. ASSUME NEW e \in Object, PrintOrKeep(e) PROVE Written'
  <2>1. Append(list, e) \in Seq(Object) /\ Append(output, e) \in Seq(Object)
    BY <1>1, AppendProperties
  <2> QED
    BY <1>1, <1>5, <2>1 DEF PrintOrKeep
<1>6. ASSUME NEW e, Read(e), stack # <<>> PROVE Calls'
  <2>1. Len(stack) \in 1..Len(stack) /\ stack[Len(stack)] \in SUBSET (1..Last)
    BY <1>1, <1>6
  <2>2. stack[Len(stack)] \ {e} \in SUBSET (1..Last)
    BY <2>1
  <2> QED
    BY <1>1, <1>6, <2>1, <2>2, ExceptSeq DEF Read
<1>7. Written' /\ Stats' /\ Calls'
  <2>1. CASE StartWalk
    BY <1>1, <1>2, <1>4, <1>5, <2>1 DEF StartWalk
  <2>2. CASE Open
    <3>1. Entries(dir) \in SUBSET (1..Last)
      BY DEF Entries
    <3>2. ASSUME Len(stack) <= MaxDepth, stack' = Append(stack, Entries(dir)) PROVE Calls'
      <4>1. stack' \in Seq(SUBSET (1..Last)) /\ Len(stack') = Len(stack) + 1
        BY <1>1, <3>1, <3>2, AppendProperties
      <4>2. Len(stack) \in Nat
        BY <1>1
      <4> QED
        BY <1>2, <3>2, <4>1, <4>2
    <3> QED
      BY <1>1, <2>2, <3>2 DEF Open
  <2>3. CASE Close
    <3>1. stack # <<>> /\ stack' = SubSeq(stack, 1, Len(stack) - 1)
      BY <2>3 DEF Close
    <3>2. /\ SubSeq(stack, 1, Len(stack) - 1) \in Seq(SUBSET (1..Last))
          /\ Len(SubSeq(stack, 1, Len(stack) - 1)) = Len(stack) - 1
      BY <1>1, <3>1, FrontFacts
    <3>3. Calls'
      <4>1. Len(stack) \in Nat
        BY <1>1
      <4> QED
        BY <1>1, <1>2, <3>1, <3>2, <4>1
    <3> QED
      BY <1>1, <2>3, <3>3 DEF Close
  <2>4. CASE Finish
    <3>1. output \o list \in Seq(Object) /\ <<>> \in Seq(Object)
      BY <1>1, ConcatProperties, EmptySeq
    <3> QED
      BY <1>1, <2>4, <3>1 DEF Finish
  <2>5. ASSUME NEW e \in 1..Last, Skip(e) \/ Fail(e) PROVE Written' /\ Stats' /\ Calls'
    <3>1. stack # <<>> /\ Read(e) /\ UNCHANGED <<list, output, stats>>
      BY <2>5 DEF Skip, Fail
    <3> QED
      BY <1>1, <1>6, <3>1
  <2>6. ASSUME NEW e \in 1..Last, Visit(e) PROVE Written' /\ Stats' /\ Calls'
    BY <1>2, <1>4, <1>5, <1>6, <2>6 DEF Visit
  <2>7. ASSUME NEW e \in 1..Last, VisitWithoutMemory(e) PROVE Written' /\ Stats' /\ Calls'
    <3>1. stack # <<>> /\ Read(e) /\ Count(e) /\ list' = <<>> /\ output' = output
      BY <2>7 DEF VisitWithoutMemory
    <3>2. <<>> \in Seq(Object)
      BY EmptySeq
    <3> QED
      BY <1>1, <1>2, <1>4, <1>6, <3>1, <3>2
  <2>8. CASE UNCHANGED walkVars \/ \E e \in 1..Last : Remove(e)
    BY <1>1, <2>8 DEF walkVars, Remove
  <2> QED
    BY <2>1, <2>2, <2>3, <2>4, <2>5, <2>6, <2>7, <2>8 DEF WalkNext
<1>8. \A i \in DOMAIN stack' : stack'[i] \subseteq 1..Last
  BY <1>7
<1> QED
  BY <1>0, <1>3, <1>7, <1>8 DEF WalkTypes, WalkTypeOK, tree, Object, IsTree
-----------------------------------------------------------------------------
(* An entry is read: it is pending no longer. *)
LEMMA ReadOne ==
    ASSUME WalkTypes, NEW C, NEW O, Listed(C, O), stack # <<>>, NEW e \in Top, Read(e)
    PROVE  /\ e \in Pending /\ Pending' = Pending \ {e}
           /\ \A i, j \in DOMAIN stack' : i # j => stack'[i] \cap stack'[j] = {}
<1> DEFINE l == Len(stack)
<1>1. l \in DOMAIN stack /\ e \in stack[l] /\ \A i \in DOMAIN stack : stack[i] \subseteq 1..Last
  BY DEF WalkTypes, Top
<1>2. DOMAIN stack' = DOMAIN stack
      /\ \A i \in DOMAIN stack : stack'[i] = IF i = l THEN stack[i] \ {e} ELSE stack[i]
  BY <1>1 DEF Read
<1>3. \A i, j \in DOMAIN stack : i # j => stack[i] \cap stack[j] = {}
  BY DEF Listed
<1>4. \A i \in DOMAIN stack : e \in stack[i] => i = l
  BY <1>1, <1>3
<1>5. \A i \in DOMAIN stack : stack'[i] = stack[i] \ {e}
  BY <1>2, <1>4
<1>6. Pending' = Pending \ {e}
  <2>1. Pending' = {b \in 1..Last : \E i \in DOMAIN stack : b \in stack[i] \ {e}}
    BY <1>2, <1>5 DEF Pending
  <2> QED
    BY <2>1 DEF Pending
<1>7. e \in Pending
  BY <1>1 DEF Pending
<1> QED
  BY <1>2, <1>3, <1>5, <1>6, <1>7

(* Nothing new is written down. *)
LEMMA BookKept ==
    ASSUME NEW C, Booked(C), UNCHANGED <<tree, stats, list, output, short>>,
           at # "done" \/ UNCHANGED at
    PROVE  Booked(C)'
BY DEF Booked, tree, OfKind, Printed, ShouldPrint

(* The program is still where it was above n, or n has become out of reach.*)
LEMMA StillCovered ==
    ASSUME NEW C \in SUBSET Object, NEW D, C \subseteq D, Covered(C), at \notin {"start", "refused"},
           UNCHANGED parent, gone \subseteq gone', uncounted \subseteq uncounted',
           unwalked \subseteq unwalked',
           ASSUME NEW n \in Object, Reached(n)', n \notin D, Ahead(n) PROVE Ahead(n)'
    PROVE  Covered(D)'
<1> SUFFICES ASSUME NEW n \in Object, Reached(n)', n \notin D PROVE Ahead(n)'
  BY DEF Covered
<1>1. Reached(n)
  BY ReachedBefore
<1> QED
  BY <1>1 DEF Covered

LEMMA AboveKept == ASSUME UNCHANGED parent, NEW n PROVE Above(n)' = Above(n)
BY DEF Above, Closed

(* main begins. *)
LEMMA StartKeeps ==
    ASSUME WalkTypes, NEW C \in SUBSET Object, NEW O \in SUBSET Object, Walked(C, O), StartWalk
    PROVE  \E D \in SUBSET Object : Walked(D, O)'
<1>0. /\ C = {} /\ O = {} /\ stack = <<>> /\ dir = 0 /\ Booked({}) /\ UNCHANGED tree
      /\ 0 \in Object /\ at = "start" /\ at' \in {"open", "refused"}
      /\ UNCHANGED <<stack, dir, gone, unwalked>>
  <2>1. C = {} /\ O = {} /\ stack = <<>> /\ dir = 0
    BY DEF StartWalk, Walked, Listed
  <2>2. Booked({})
    BY <2>1 DEF Walked
  <2>3. 0 \in Object
    BY WalkAssumption DEF Object
  <2>4. /\ at = "start" /\ at' \in {"open", "refused"}
        /\ UNCHANGED tree /\ UNCHANGED <<stack, dir, gone, unwalked>>
    BY DEF StartWalk
  <2> QED
    BY <2>1, <2>2, <2>3, <2>4
<1>1. UNCHANGED <<parent, kind, sort>>
  BY <1>0 DEF tree
<1>2. Pending' = {}
  BY <1>0 DEF Pending
<1>3. ASSUME NEW D \in SUBSET {0} PROVE Listed(D, O)'
  BY <1>0, <1>1, <1>2, <1>3 DEF Listed
<1>4. ASSUME NEW D \in SUBSET {0}, 0 \in D \/ at' = "refused" \/ 0 \in uncounted'
      PROVE  Covered(D)'
  <2> SUFFICES ASSUME at' = "open", NEW n \in Object, Reached(n)', n \notin D PROVE Ahead(n)'
    BY <1>0 DEF Covered
  <2>1. CASE n = 0
    BY <1>4, <2>1 DEF Reached
  <2>2. CASE n # 0
    <3>1. n \in 1..Last /\ 0 \in Above(n)
      <4>1. n \in 1..Last
        BY <2>2, WalkAssumption DEF Object
      <4> QED
        BY <4>1, RootAbove DEF WalkTypes
    <3> QED
      BY <1>0, <1>1, <3>1, AboveKept DEF Ahead
  <2> QED
    BY <2>1, <2>2
<1>5. CASE at' = "refused" /\ UNCHANGED <<stats, list, output, short>>
  BY <1>0, <1>3, <1>4, <1>5, BookKept DEF Walked
<1>6. CASE uncounted' = {0} /\ UNCHANGED <<stats, list, output, short>>
  BY <1>0, <1>3, <1>4, <1>6, BookKept DEF Walked
<1>7. CASE Count(0) /\ PrintOrKeep(0) /\ UNCHANGED short
  <2>1. Booked({} \cup {0})'
    BY <1>0, <1>7, BookOne
  <2> QED
    BY <1>0, <1>3, <1>4, <2>1 DEF Walked
<1>8. CASE Count(0) /\ sort /\ short' = TRUE /\ UNCHANGED <<list, output>>
  <2>1. \A k \in Kinds : stats'[k] = OfKind({} \cup {0}, k)'
    BY <1>0, <1>1, <1>8, CountOne DEF Booked
  <2>2. Booked({} \cup {0})'
    <3>1. /\ ~sort => list = <<>>
          /\ sort => output = <<>>
          /\ Printed(output \o list) = {}
          /\ Cardinality(Printed(output \o list)) = Len(output \o list)
      BY <1>0 DEF Booked
    <3>2. UNCHANGED <<sort, list, output>> /\ short' = TRUE
      BY <1>1, <1>8
    <3> QED
      BY <2>1, <3>1, <3>2 DEF Booked, Printed
  <2> QED
    BY <1>0, <1>3, <1>4, <2>2 DEF Walked
<1> QED
  BY <1>5, <1>6, <1>7, <1>8 DEF StartWalk
(* walk_dir begins, or returns at once with an error. *)
LEMMA OpenKeeps ==
    ASSUME WalkTypes, NEW C \in SUBSET Object, NEW O \in SUBSET Object, Walked(C, O), Open
    PROVE  \E P \in SUBSET Object : Walked(C, P)'
<1>0. /\ at = "open" /\ at' = "walk" /\ dir \in (C \cup {0}) \ O /\ dir \notin Pending
      /\ UNCHANGED <<tree, gone, dir, stats, list, output, short>> /\ UNCHANGED <<parent, kind, sort>>
  BY DEF Open, Walked, Listed, tree
<1>1. Booked(C)'
  BY <1>0, BookKept DEF Walked
<1>2. CASE unwalked' = unwalked \cup {dir} /\ UNCHANGED <<stack, uncounted>>
  <2>1. Pending' = Pending
    BY <1>2 DEF Pending
  <2>2. Listed(C, O)'
    BY <1>0, <1>2, <2>1 DEF Walked, Listed
  <2>3. Covered(C)'
    <3>1. ASSUME NEW n \in Object, Reached(n)', n \notin C, Ahead(n) PROVE Ahead(n)'
      <4>1. dir \notin Above(n)
        BY <1>0, <1>2, <3>1, AboveKept DEF Reached
      <4> QED
        BY <1>0, <2>1, <3>1, <4>1, AboveKept DEF Ahead
    <3> QED
      BY <1>0, <1>2, <3>1, StillCovered DEF Walked
  <2> QED
    BY <1>1, <2>2, <2>3 DEF Walked
<1>3. CASE stack' = Append(stack, Entries(dir)) /\ UNCHANGED <<uncounted, unwalked>>
  <2> DEFINE l == Len(stack)
  <2>0. PICK P \in SUBSET Object : P = O \cup {dir}
    <3>1. dir \in Object
      BY DEF WalkTypes, WalkTypeOK
    <3> QED
      BY <3>1
  <2>1. /\ Entries(dir) \in SUBSET (1..Last)
        /\ \A b \in Entries(dir) : parent[b] = dir
        /\ \A b \in 1..Last : parent[b] = dir /\ b \notin gone => b \in Entries(dir)
    BY DEF Entries
  <2>2. /\ l \in Nat /\ DOMAIN stack = 1..l /\ DOMAIN stack' = 1..l+1
        /\ stack'[l+1] = Entries(dir) /\ \A i \in 1..l : stack'[i] = stack[i]
    BY <1>3, <2>1, AppendProperties DEF WalkTypes
  <2>3. Pending' = Pending \cup Entries(dir)
    <3>1. \A b \in Entries(dir) : b \in 1..Last /\ b \in stack'[l+1] /\ l+1 \in DOMAIN stack'
      BY <2>1, <2>2
    <3>2. \A b \in Pending : b \in Pending'
      <4> TAKE b \in Pending
      <4>1. PICK i \in DOMAIN stack : b \in stack[i]
        BY DEF Pending
      <4>2. i \in DOMAIN stack' /\ b \in stack'[i]
        BY <2>2, <4>1
      <4> QED
        BY <4>2 DEF Pending
    <3>3. \A b \in Pending' : b \in Pending \cup Entries(dir)
      <4> TAKE b \in Pending'
      <4>1. PICK i \in DOMAIN stack' : b \in stack'[i]
        BY DEF Pending
      <4>2. CASE i = l+1
        BY <2>2, <4>1, <4>2
      <4>3. CASE i # l+1
        <5>1. i \in DOMAIN stack /\ b \in stack[i]
          BY <2>2, <4>1, <4>3
        <5> QED
          BY <5>1 DEF Pending
      <4> QED
        BY <4>2, <4>3
    <3>4. Entries(dir) \subseteq Pending'
      BY <3>1 DEF Pending
    <3> QED
      BY <3>2, <3>3, <3>4
  <2>4. \A b \in Pending : parent[b] # dir
    BY <1>0 DEF Walked, Listed
  <2>5. \A i, j \in DOMAIN stack' : i # j => stack'[i] \cap stack'[j] = {}
    <3>1. \A i \in 1..l : stack[i] \cap Entries(dir) = {}
      <4>1. \A i \in 1..l : stack[i] \subseteq Pending
        BY <2>2 DEF Pending, WalkTypes
      <4> QED
        BY <2>1, <2>4, <4>1
    <3>2. \A i, j \in 1..l : i # j => stack[i] \cap stack[j] = {}
      BY <2>2 DEF Walked, Listed
    <3> QED
      BY <2>2, <3>1, <3>2
  <2>6. \A b \in Entries(dir) : b \notin C /\ b # 0
    <3>1. \A b \in Entries(dir) : b # 0
      BY <2>1, WalkAssumption
    <3> QED
      BY <1>0, <2>1, <3>1 DEF Walked, Listed
  <2>7. Listed(C, P)'
    BY <1>0, <2>0, <2>1, <2>3, <2>5, <2>6 DEF Walked, Listed
  <2>8. Covered(C)'
    <3>1. ASSUME NEW n \in Object, Reached(n)', n \notin C, Ahead(n) PROVE Ahead(n)'
      <4>1. CASE \E a \in Above(n) \cup {n} : a \in Pending
        BY <1>0, <2>3, <4>1, AboveKept DEF Ahead
      <4>2. CASE dir \in Above(n)
        <5>1. PICK b \in (Above(n) \cup {n}) \ {0} : b \in 1..Last /\ parent[b] = dir
          BY <4>2, ChildBelow DEF WalkTypes
        <5>2. b \notin gone
          BY <1>0, <3>1, <5>1, AboveKept DEF Reached
        <5>3. b \in Pending'
          BY <2>1, <2>3, <5>1, <5>2
        <5> QED
          BY <1>0, <5>1, <5>3, AboveKept DEF Ahead
      <4> QED
        BY <3>1, <4>1, <4>2 DEF Ahead
    <3> QED
      BY <1>0, <1>3, <3>1, StillCovered DEF Walked
  <2> QED
    BY <1>1, <2>7, <2>8 DEF Walked
<1> QED
  BY <1>2, <1>3 DEF Open, NoError

(* An entry is read, and the program goes on with the next one: it has     *)
(* been removed, or lstat has failed.                                      *)
LEMMA PassKeeps ==
    ASSUME WalkTypes, NEW C \in SUBSET Object, NEW O \in SUBSET Object, Walked(C, O),
           NEW e \in 1..Last, Skip(e) \/ Fail(e)
    PROVE  Walked(C, O)'
<1>0. /\ at = "walk" /\ stack # <<>> /\ e \in Top /\ Read(e) /\ e \in gone \cup uncounted'
      /\ UNCHANGED <<tree, gone, at, dir, stats, list, output, short, unwalked>>
      /\ uncounted \subseteq uncounted'
  BY DEF Skip, Fail, NoError
<1>1. UNCHANGED <<parent, kind, sort>>
  BY <1>0 DEF tree
<1>2. /\ e \in Pending /\ Pending' = Pending \ {e}
      /\ \A i, j \in DOMAIN stack' : i # j => stack'[i] \cap stack'[j] = {}
  BY <1>0, ReadOne DEF Walked
<1>3. Listed(C, O)'
  BY <1>0, <1>1, <1>2 DEF Walked, Listed
<1>4. Booked(C)'
  BY <1>0, BookKept DEF Walked
<1>5. Covered(C)'
  <2>1. ASSUME NEW n \in Object, Reached(n)', n \notin C, Ahead(n) PROVE Ahead(n)'
    <3>1. e # 0
      BY WalkAssumption
    <3>2. e \notin Above(n) \cup {n}
      BY <1>0, <1>1, <2>1, <3>1, AboveKept DEF Reached
    <3> QED
      BY <1>0, <1>1, <1>2, <2>1, <3>2, AboveKept DEF Ahead
  <2>2. gone \subseteq gone' /\ unwalked \subseteq unwalked' /\ at \notin {"start", "refused"}
    BY <1>0
  <2> QED
    BY <1>0, <1>1, <2>1, <2>2, StillCovered DEF Walked
<1> QED
  BY <1>3, <1>4, <1>5 DEF Walked
(* An entry is read and counted; if it is a directory, and there is memory *)
(* for its path, it is walked next.                                        *)
LEMMA VisitKeeps ==
    ASSUME WalkTypes, NEW C \in SUBSET Object, NEW O \in SUBSET Object, Walked(C, O),
           NEW e \in 1..Last, Visit(e) \/ VisitWithoutMemory(e)
    PROVE  Walked(C \cup {e}, O)'
<1> DEFINE D == C \cup {e}
<1>0. /\ at = "walk" /\ stack # <<>> /\ e \in Top /\ Read(e) /\ Count(e)
      /\ UNCHANGED <<tree, gone, uncounted>> /\ unwalked \subseteq unwalked'
      /\ \/ PrintOrKeep(e) /\ Descend(e) /\ UNCHANGED short
         \/ /\ sort /\ list' = <<>> /\ short' = TRUE /\ e \in unwalked'
            /\ UNCHANGED <<at, dir, output>>
  BY DEF Visit, VisitWithoutMemory, NoError
<1>1. UNCHANGED <<parent, kind, sort>>
  BY <1>0 DEF tree
<1>2. /\ e \in Pending /\ Pending' = Pending \ {e}
      /\ \A i, j \in DOMAIN stack' : i # j => stack'[i] \cap stack'[j] = {}
  BY <1>0, ReadOne DEF Walked
<1>3. e \in Object /\ e # 0 /\ e \notin C /\ parent[e] \in O /\ e \notin O
  <2>1. e \in Object /\ e # 0
    BY WalkAssumption DEF Object
  <2> QED
    BY <1>2, <2>1 DEF Walked, Listed
<1>4. \/ at' = "walk" /\ (kind[e] = "dir" => e \in unwalked')
      \/ at' = "open" /\ dir' = e
  BY <1>0 DEF Descend
<1>5. Listed(D, O)'
  <2>1. D = C \cup {e}
    OBVIOUS
  <2> HIDE DEF D
  <2> QED
    BY <1>0, <1>1, <1>2, <1>3, <1>4, <2>1 DEF Walked, Listed
<1>6. Booked(D)'
  <2>1. CASE PrintOrKeep(e) /\ UNCHANGED short
    BY <1>0, <1>3, <2>1, BookOne DEF Walked
  <2>2. CASE sort /\ list' = <<>> /\ short' = TRUE /\ UNCHANGED <<at, output>>
    <3>1. \A k \in Kinds : stats'[k] = OfKind(D, k)'
      BY <1>0, <1>1, <1>3, CountOne DEF Walked, Booked
    <3>2. output' = <<>>
      BY <1>0, <2>2 DEF Walked, Booked
    <3>3. /\ output' \o list' = <<>>
          /\ Printed(<<>>) = {} /\ Cardinality(Printed(<<>>)) = Len(<<>>)
      BY <2>2, <3>2, FS_EmptySet DEF Printed
    <3> QED
      BY <2>2, <3>1, <3>2, <3>3 DEF Booked, Printed
  <2> QED
    BY <1>0, <2>1, <2>2
<1>7. Covered(D)'
  <2>1. ASSUME NEW n \in Object, Reached(n)', n \notin D, Ahead(n) PROVE Ahead(n)'
    <3>1. PICK a \in Above(n) \cup {n} : a \in Pending
      BY <1>0, <2>1 DEF Ahead
    <3>2. CASE a # e
      BY <1>1, <1>2, <3>1, <3>2, AboveKept DEF Ahead
    <3>3. CASE a = e
      <4>1. e \in Above(n)
        BY <2>1, <3>1, <3>3
      <4>2. PICK b \in (Above(n) \cup {n}) \ {0} : b \in 1..Last /\ parent[b] = e
        BY <4>1, ChildBelow DEF WalkTypes
      <4>3. kind[e] = "dir"
        BY <1>3, <4>2 DEF WalkTypes, IsTree
      <4>4. e \notin unwalked'
        BY <1>1, <2>1, <4>1, AboveKept DEF Reached
      <4> QED
        BY <1>1, <1>4, <4>1, <4>3, <4>4, AboveKept DEF Ahead
    <3> QED
      BY <3>2, <3>3
  <2>2. gone \subseteq gone' /\ uncounted \subseteq uncounted' /\ at \notin {"start", "refused"}
    BY <1>0
  <2> QED
    BY <1>0, <1>1, <2>1, <2>2, StillCovered DEF Walked
<1> QED
  BY <1>5, <1>6, <1>7 DEF Walked

(* A directory is at its end. *)
LEMMA CloseKeeps ==
    ASSUME WalkTypes, NEW C \in SUBSET Object, NEW O \in SUBSET Object, Walked(C, O), Close
    PROVE  Walked(C, O)'
<1> DEFINE l == Len(stack)
<1>0. /\ at = "walk" /\ stack # <<>> /\ stack[l] = {} /\ stack' = SubSeq(stack, 1, l - 1)
      /\ UNCHANGED <<tree, gone, at, dir, stats, list, output, short, unwalked, uncounted>>
  BY DEF Close, NoError, Top
<1>1. UNCHANGED <<parent, kind, sort>>
  BY <1>0 DEF tree
<1>2. stack \in Seq(SUBSET (1..Last))
  BY DEF WalkTypes
<1>3. /\ l \in Nat /\ l - 1 \in Nat /\ DOMAIN stack = 1..l /\ DOMAIN stack' = 1..l-1
      /\ \A i \in 1..l-1 : stack'[i] = stack[i]
  <2>1. stack' \in Seq(SUBSET (1..Last)) /\ Len(stack') = l - 1
        /\ l - 1 \in Nat /\ \A i \in 1..l-1 : stack'[i] = stack[i]
    BY <1>0, <1>2, FrontFacts
  <2>2. l \in Nat /\ DOMAIN stack' = 1..Len(stack') /\ DOMAIN stack = 1..l
    BY <1>2, <2>1
  <2> QED
    BY <2>1, <2>2
<1>4. Pending' = Pending
  <2>1. \A i \in 1..l : i \in 1..l-1 \/ i = l
    <3>1. ASSUME NEW m \in Nat PROVE \A i \in 1..m : i \in 1..m-1 \/ i = m
      BY <3>1
    <3>2. l \in Nat
      BY <1>3
    <3> QED
      BY <3>1, <3>2
  <2>2. 1..l-1 \subseteq 1..l
    BY <1>3
  <2>3. ASSUME NEW b \in 1..Last
        PROVE  (\E i \in DOMAIN stack : b \in stack[i]) <=> (\E i \in DOMAIN stack' : b \in stack'[i])
    BY <1>0, <1>3, <2>1, <2>2
  <2> QED
    BY <2>3 DEF Pending
<1>5. \A i, j \in DOMAIN stack' : i # j => stack'[i] \cap stack'[j] = {}
  <2>1. 1..l-1 \subseteq 1..l
    BY <1>3
  <2> QED
    BY <1>3, <2>1 DEF Walked, Listed
<1>6. Listed(C, O)'
  BY <1>0, <1>1, <1>4, <1>5 DEF Walked, Listed
<1>7. Booked(C)'
  BY <1>0, BookKept DEF Walked
<1>8. Covered(C)'
  <2>1. ASSUME NEW n \in Object, Ahead(n) PROVE Ahead(n)'
    BY <1>0, <1>1, <1>4, <2>1, AboveKept DEF Ahead
  <2>2. /\ gone \subseteq gone' /\ uncounted \subseteq uncounted' /\ unwalked \subseteq unwalked'
        /\ at \notin {"start", "refused"}
    BY <1>0
  <2> QED
    BY <1>1, <2>1, <2>2, StillCovered DEF Walked
<1> QED
  BY <1>6, <1>7, <1>8 DEF Walked

(* print_sorted writes what is in the list. *)
LEMMA FinishKeeps ==
    ASSUME WalkTypes, NEW C \in SUBSET Object, NEW O \in SUBSET Object, Walked(C, O), Finish
    PROVE  Walked(C, O)'
<1>0. /\ at = "walk" /\ at' = "done" /\ stack = <<>> /\ output' = output \o list /\ list' = <<>>
      /\ UNCHANGED <<tree, gone, dir, stack, stats, short, unwalked, uncounted>>
  BY DEF Finish, NoError
<1>1. UNCHANGED <<parent, kind, sort, show>>
  BY <1>0 DEF tree
<1>2. Pending = {} /\ Pending' = {}
  BY <1>0 DEF Pending
<1>3. Listed(C, O)'
  BY <1>0, <1>1, <1>2 DEF Walked, Listed
<1>4. output' \o list' = output \o list
  <2>1. output \o list \in Seq(Object)
    BY ConcatProperties DEF WalkTypes, WalkTypeOK
  <2> QED
    BY <1>0, <2>1
<1>5. Booked(C)'
  <2>1. \A k \in Kinds : stats'[k] = OfKind(C, k)'
    BY <1>0, <1>1 DEF Walked, Booked, OfKind
  <2>2. /\ Printed(output' \o list') \subseteq {n \in C : ShouldPrint(n)}
        /\ Cardinality(Printed(output' \o list')) = Len(output' \o list')
        /\ ~short' => Printed(output' \o list') = {n \in C : ShouldPrint(n)}
    BY <1>0, <1>4 DEF Walked, Booked
  <2>3. {n \in C : ShouldPrint(n)} = {n \in C : ShouldPrint(n)'}
    BY <1>1 DEF ShouldPrint
  <2> QED
    BY <1>0, <2>1, <2>2, <2>3 DEF Booked, Printed
<1>6. Covered(C)'
  <2>1. ASSUME NEW n \in Object, Ahead(n) PROVE FALSE
    BY <1>0, <1>2, <2>1 DEF Ahead
  <2>2. /\ gone \subseteq gone' /\ uncounted \subseteq uncounted' /\ unwalked \subseteq unwalked'
        /\ at \notin {"start", "refused"}
    BY <1>0
  <2> QED
    BY <1>1, <2>1, <2>2, StillCovered DEF Walked
<1> QED
  BY <1>3, <1>5, <1>6 DEF Walked

(* Another process removes something, or nothing happens. *)
LEMMA OthersKeep ==
    ASSUME WalkTypes, NEW C \in SUBSET Object, NEW O \in SUBSET Object, Walked(C, O),
           UNCHANGED walkVars \/ \E e \in 1..Last : Remove(e)
    PROVE  Walked(C, O)'
<1>0. /\ UNCHANGED <<tree, at, dir, stack, stats, list, output, uncounted, unwalked, short>>
      /\ gone \subseteq gone'
  BY DEF walkVars, history, Remove
<1>1. UNCHANGED <<parent, kind, sort>>
  BY <1>0 DEF tree
<1>2. Pending' = Pending
  BY <1>0 DEF Pending
<1>3. Listed(C, O)'
  BY <1>0, <1>1, <1>2 DEF Walked, Listed
<1>4. Booked(C)'
  BY <1>0, BookKept DEF Walked
<1>5. Covered(C)'
  <2>1. ASSUME NEW n \in Object, Ahead(n) PROVE Ahead(n)'
    BY <1>0, <1>1, <1>2, <2>1, AboveKept DEF Ahead
  <2>2. CASE at \in {"start", "refused"}
    BY <1>0, <2>2 DEF Covered
  <2>3. CASE at \notin {"start", "refused"}
    BY <1>0, <1>1, <2>1, <2>3, StillCovered DEF Walked
  <2> QED
    BY <2>2, <2>3
<1> QED
  BY <1>3, <1>4, <1>5 DEF Walked

LEMMA WalkStep == WalkInv /\ [WalkNext]_walkVars => WalkInv'
<1> SUFFICES ASSUME WalkInv, [WalkNext]_walkVars PROVE WalkInv'
  OBVIOUS
<1>1. WalkTypes /\ WalkTypes'
  BY WalkTypesStep DEF WalkInv
<1>2. PICK C \in SUBSET Object, O \in SUBSET Object : Walked(C, O)
  BY DEF WalkInv
<1>3. \E D, P \in SUBSET Object : Walked(D, P)'
  <2>1. CASE StartWalk
    BY <1>1, <1>2, <2>1, StartKeeps
  <2>2. CASE Open
    BY <1>1, <1>2, <2>2, OpenKeeps
  <2>3. CASE Close
    BY <1>1, <1>2, <2>3, CloseKeeps
  <2>4. CASE Finish
    BY <1>1, <1>2, <2>4, FinishKeeps
  <2>5. ASSUME NEW e \in 1..Last, Skip(e) \/ Fail(e) PROVE \E D, P \in SUBSET Object : Walked(D, P)'
    BY <1>1, <1>2, <2>5, PassKeeps
  <2>6. ASSUME NEW e \in 1..Last, Visit(e) \/ VisitWithoutMemory(e)
        PROVE  \E D, P \in SUBSET Object : Walked(D, P)'
    <3>1. C \cup {e} \in SUBSET Object
      BY WalkAssumption DEF Object
    <3> QED
      BY <1>1, <1>2, <2>6, <3>1, VisitKeeps
  <2>7. CASE UNCHANGED walkVars \/ \E e \in 1..Last : Remove(e)
    BY <1>1, <1>2, <2>7, OthersKeep
  <2> QED
    BY <2>1, <2>2, <2>3, <2>4, <2>5, <2>6, <2>7 DEF WalkNext
<1> QED
  BY <1>1, <1>3 DEF WalkInv, Object

THEOREM WalkInvariance == WalkSpec => []WalkInv
BY WalkInitInv, WalkStep, PTL DEF WalkSpec

(* Type correctness, the depth of the recursion included. *)
THEOREM WalkTypeCorrect == WalkSpec => []WalkTypeOK
<1>1. WalkInv => WalkTypeOK
  BY DEF WalkInv, WalkTypes
<1> QED
  BY <1>1, WalkInvariance, PTL

(* What is counted and printed at the end is each object at most once, and *)
(* nothing is printed that is not counted; what nothing stood before is    *)
(* counted, and printed unless memory was short.                           *)
THEOREM ReportIsComplete == WalkSpec => []ReportComplete
<1>1. ASSUME WalkInv, at = "done" PROVE ReportComplete
  <2>1. PICK C \in SUBSET Object, O \in SUBSET Object : Walked(C, O)
    BY <1>1 DEF WalkInv
  <2>2. stack = <<>> /\ list = <<>> /\ \A k \in Kinds : stats[k] = OfKind(C, k)
    BY <1>1, <2>1 DEF Walked, Listed, Booked
  <2>3. \A n \in Object : Reached(n) => n \in C
    <3>1. Pending = {}
      BY <2>2 DEF Pending
    <3> QED
      BY <1>1, <2>1, <3>1 DEF Walked, Covered, Ahead
  <2>4. IsFiniteSet(Object)
    BY WalkAssumption, FS_Interval DEF Object
  <2>5. ASSUME NEW S, NEW T \in SUBSET Object, S \subseteq T, NEW k PROVE OfKind(S, k) <= OfKind(T, k)
    <3>1. {n \in S : kind[n] = k} \subseteq {n \in T : kind[n] = k}
      BY <2>5
    <3>2. IsFiniteSet({n \in T : kind[n] = k})
      BY <2>4, FS_Subset
    <3> QED
      BY <3>1, <3>2, FS_Subset DEF OfKind
  <2>6. \A k \in Kinds : /\ stats[k] <= OfKind(Object, k)
                         /\ stats[k] >= OfKind({n \in Object : Reached(n)}, k)
    <3> TAKE k \in Kinds
    <3>1. OfKind(C, k) <= OfKind(Object, k)
      BY <2>5
    <3>2. OfKind({n \in Object : Reached(n)}, k) <= OfKind(C, k)
      BY <2>3, <2>5
    <3> QED
      BY <2>2, <3>1, <3>2
  <2>7. output \o list = output
    BY <1>1, <2>2 DEF WalkInv, WalkTypes, WalkTypeOK
  <2>8. /\ Cardinality(Printed(output)) = Len(output)
        /\ \A n \in Printed(output) : ShouldPrint(n)
        /\ \A k \in Kinds : OfKind(Printed(output), k) <= stats[k]
    <3>1. /\ Printed(output) \subseteq {n \in C : ShouldPrint(n)}
          /\ Cardinality(Printed(output)) = Len(output)
      BY <2>1, <2>7 DEF Walked, Booked
    <3>2. \A k \in Kinds : OfKind(Printed(output), k) <= OfKind(C, k)
      BY <2>5, <3>1
    <3> QED
      BY <2>2, <3>1, <3>2
  <2>9. ASSUME ~short
        PROVE  /\ \A n \in Object : Reached(n) /\ ShouldPrint(n) => n \in Printed(output)
               /\ \A k \in Kinds : show = {} \/ k \in show => stats[k] = OfKind(Printed(output), k)
    <3>2. Printed(output) = {n \in C : ShouldPrint(n)}
      BY <2>1, <2>7, <2>9 DEF Walked, Booked
    <3>3. ASSUME NEW k \in Kinds, show = {} \/ k \in show PROVE OfKind(C, k) = OfKind(Printed(output), k)
      <4>1. {n \in C : kind[n] = k} = {n \in Printed(output) : kind[n] = k}
        BY <3>2, <3>3 DEF ShouldPrint
      <4> QED
        BY <4>1 DEF OfKind
    <3> QED
      BY <2>2, <2>3, <3>2, <3>3
  <2> QED
    BY <2>6, <2>9, <2>8 DEF ReportComplete, Printed
<1>2. WalkInv => ReportComplete
  BY <1>1 DEF ReportComplete
<1> QED
  BY <1>2, WalkInvariance, PTL
=============================================================================
