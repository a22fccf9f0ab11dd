-------------------------- MODULE PrintTurnsProofs --------------------------
(***************************************************************************)
(* Proofs about PrintTurns, for any number of children and cycles.         *)
(*                                                                         *)
(* A request is open from the SIGUSR1 until the SIGUSR2 that answers it,   *)
(* or until it is lost.  Of every child at most one request is open, in    *)
(* one place at a time (Single), and it has not been granted yet (Open).   *)
(* That holds since a child does not ask again before it has printed       *)
(* (Turns), for which it needs a permission of its own (Permits).          *)
(***************************************************************************)
EXTENDS PrintTurns, TLAPS

(* The places where an open request of c can be; what ready_to_print_pid   *)
(* holds while main is about to clear it is not looked at any more.        *)
InSignal(c) == pending = c
InReady(c) == ready = c /\ main # "clear"
InGrant(c) == main = "grant" /\ pid = c

Single == \A c \in Child : InSignal(c) => ~InReady(c) /\ ~InGrant(c)

Open == \A c \in Child :
          /\ InSignal(c) \/ InReady(c) \/ InGrant(c) =>
               granted[c] < cycles[c] /\ pc[c] # "ask"
          /\ pc[c] = "ask" => granted[c] < cycles[c]

(* In a turn a child asks first and prints then. *)
Turns == \A c \in Child :
           /\ pc[c] \in {"unborn", "forked", "cycle", "sleep"} => printed[c] = cycles[c]
           /\ pc[c] \in {"ask", "reset", "test", "drowsy", "pause", "print"} =>
                printed[c] + 1 = cycles[c]

(* can_print is set for a report that has not been printed yet. *)
Permits == \A c \in Child :
             \/ pc[c] \in {"test", "drowsy", "pause"} /\ canPrint[c]
             \/ pc[c] = "print"
             => printed[c] < granted[c]

(* The parent is about to grant something to a child, and it has a child   *)
(* to wait for.                                                            *)
HasPid == main \in {"grant", "waitpid"} => pid \in Child

Inv == /\ TypeOK /\ HasPid /\ OnePrintPerPermission
       /\ Single /\ Open /\ Turns /\ Permits

-----------------------------------------------------------------------------
(* The initial state satisfies the invariant. *)
LEMMA InitInv == Init => Inv
<1> SUFFICES ASSUME Init PROVE Inv
  OBVIOUS
<1>0. MaxCycles \in Nat /\ NoChild \notin Child
  BY TurnAssumption
<1>1. /\ cycles \in [Child -> 0..MaxCycles] /\ printed \in [Child -> 0..MaxCycles]
      /\ granted \in [Child -> 0..MaxCycles]
  BY <1>0 DEF Init
<1>2. TypeOK
  <2>1. {cycles, printed, granted} \subseteq [Child -> 0..MaxCycles]
    BY <1>1
  <2>2. pc \in [Child -> Places] /\ {canPrint, terminate} \subseteq [Child -> BOOLEAN]
    BY DEF Init, Places
  <2>3. table \in Seq(Child) /\ lost \subseteq Child
    BY DEF Init
  <2> QED
    BY <2>1, <2>2, <2>3 DEF Init, TypeOK
<1>3. HasPid /\ OnePrintPerPermission /\ Single /\ Open
  BY <1>0 DEF Init, HasPid, OnePrintPerPermission, Single, Open, InSignal, InReady, InGrant
<1>4. Turns /\ Permits
  BY DEF Init, Turns, Permits
<1> QED
  BY <1>2, <1>3, <1>4 DEF Inv

(* What delete_last_child takes from the table and leaves in it. *)
LEMMA ShorterTable ==
    ASSUME NEW S, NEW s \in Seq(S), s # <<>>
    PROVE  s[Len(s)] \in S /\ SubSeq(s, 1, Len(s) - 1) \in Seq(S)
<1>1. s[Len(s)] \in S
  OBVIOUS
<1>2. SubSeq(s, 1, Len(s) - 1) \in Seq(S)
  OBVIOUS
<1> QED
  BY <1>1, <1>2

LEMMA OneReplaced ==
    ASSUME NEW S, NEW D, NEW f \in [S -> D], NEW x, NEW d \in D
    PROVE  [f EXCEPT ![x] = d] \in [S -> D]
OBVIOUS

(* Every step keeps the types, given the bounds on granted. *)
LEMMA TypeStep == Inv /\ [Next]_vars => TypeOK' /\ HasPid'
<1> SUFFICES ASSUME Inv, [Next]_vars PROVE TypeOK' /\ HasPid'
  OBVIOUS
<1>0. TypeOK /\ HasPid /\ OnePrintPerPermission /\ Open /\ Turns /\ Permits /\ MaxCycles \in Nat
  BY TurnAssumption DEF Inv
<1> USE DEF TypeOK, HasPid, Places
<1>1. ASSUME NEW c \in Child, Begin(c) \/ Test(c) \/ Pause(c) \/ Sleep(c)
      PROVE TypeOK' /\ HasPid'
  <2>1. CASE Begin(c)
    BY <1>0, <2>1 DEF Begin, At, Goto, UnchangedByChild, parentVars
  <2>2. CASE Test(c)
    BY <1>0, <2>2 DEF Test, At, Goto, UnchangedByChild, parentVars
  <2>3. CASE Pause(c)
    BY <1>0, <2>3 DEF Pause, At, Goto, UnchangedByChild, parentVars
  <2>4. CASE Sleep(c)
    BY <1>0, <2>4 DEF Sleep, At, Goto, UnchangedByChild, parentVars
  <2> QED
    BY <1>1, <2>1, <2>2, <2>3, <2>4
<1>2. ASSUME NEW c \in Child, Cycle(c) PROVE TypeOK' /\ HasPid'
  <2>1. cycles' \in [Child -> 0..MaxCycles]
    <3>1. cycles \in [Child -> 0..MaxCycles]
      BY <1>0
    <3>2. CASE UNCHANGED cycles
      BY <3>1, <3>2
    <3>3. CASE cycles[c] < MaxCycles /\ cycles' = [cycles EXCEPT ![c] = @ + 1]
      <4>1. cycles[c] + 1 \in 0..MaxCycles
        <5>1. cycles[c] \in 0..MaxCycles /\ cycles[c] < MaxCycles
          BY <3>1, <3>3
        <5>2. ASSUME NEW n \in 0..MaxCycles, n < MaxCycles PROVE n + 1 \in 0..MaxCycles
          BY <5>2, TurnAssumption
        <5> QED
          BY <5>1, <5>2
      <4>2. cycles' = [cycles EXCEPT ![c] = cycles[c] + 1]
        BY <3>3
      <4> QED
        BY <3>1, <4>1, <4>2, OneReplaced
    <3>4. cycles[c] \in 0..MaxCycles
      BY <3>1
    <3>5. CASE terminate[c] \/ cycles[c] >= MaxCycles
      <4>1. UNCHANGED cycles
        BY <1>2, <3>5 DEF Cycle
      <4> QED
        BY <3>2, <4>1
    <3>6. CASE ~ (terminate[c] \/ cycles[c] >= MaxCycles)
      <4>1. cycles' = [cycles EXCEPT ![c] = @ + 1]
        BY <1>2, <3>6 DEF Cycle
      <4>2. cycles[c] < MaxCycles
        BY <1>0, <3>4, <3>6
      <4> QED
        BY <3>3, <4>1, <4>2
    <3> QED
      BY <3>5, <3>6
  <2> QED
    BY <1>0, <1>2, <2>1 DEF Cycle, At, Goto, UnchangedByChild, parentVars
<1>3. ASSUME NEW c \in Child, Ask(c) PROVE TypeOK' /\ HasPid'
  BY <1>0, <1>3 DEF Ask, At, Goto, UnchangedByChild, parentVars
<1>4. ASSUME NEW c \in Child, Reset(c) PROVE TypeOK' /\ HasPid'
  BY <1>0, <1>4 DEF Reset, At, Goto, UnchangedByChild, parentVars
<1>5. ASSUME NEW c \in Child, PrintStats(c) PROVE TypeOK' /\ HasPid'
  <2>1. printed' \in [Child -> 0..MaxCycles]
    <3>1. printed[c] + 1 = cycles[c] /\ cycles[c] \in 0..MaxCycles /\ printed[c] \in Nat
      BY <1>0, <1>5 DEF PrintStats, At, Turns
    <3> QED
      BY <1>0, <1>5, <3>1 DEF PrintStats
  <2> QED
    BY <1>0, <1>5, <2>1 DEF PrintStats, At, Goto, UnchangedByChild, parentVars
<1>6. CASE Usr1Handler
  BY <1>0, <1>6 DEF Usr1Handler, Interrupted, Unanswered, childVars
<1>7. CASE SigintHandler \/ NoCommand \/ DeleteCommand
  BY <1>0, <1>7 DEF SigintHandler, NoCommand, DeleteCommand, Interrupted, childVars, UnchangedByParent
<1>8. ASSUME NEW c \in Child, CreateChild(c) PROVE TypeOK' /\ HasPid'
  <2>1. Append(table, c) \in Seq(Child)
    BY <1>0
  <2>2. pc' \in [Child -> Places]
    BY <1>0, <1>8 DEF CreateChild, Goto
  <2> QED
    BY <1>0, <1>8, <2>1, <2>2 DEF CreateChild
<1>9. CASE Top \/ Clear \/ Reap \/ Deleted
  BY <1>0, <1>9 DEF Top, Clear, Reap, Deleted, Unanswered, childVars, UnchangedByParent
<1>10. CASE Grant
  <2>1. pid \in Child /\ granted[pid] < cycles[pid]
    BY <1>0, <1>10 DEF Grant, Open, InGrant
  <2>2. granted' \in [Child -> 0..MaxCycles]
    <3>1. granted[pid] + 1 \in 0..MaxCycles
      BY <1>0, <2>1
    <3> QED
      BY <1>0, <1>10, <3>1 DEF Grant
  <2>3. pc' \in [Child -> Places]
    BY <1>0, <1>10, <2>1 DEF Grant, Wakes, Goto, At
  <2>4. canPrint' \in [Child -> BOOLEAN] /\ lost' \subseteq Child
    BY <1>0, <1>10, <2>1 DEF Grant
  <2> QED
    BY <1>0, <1>10, <2>2, <2>3, <2>4 DEF Grant
<1>11. CASE DeleteLast
  <2>1. CASE table = <<>>
    BY <1>0, <1>11, <2>1 DEF DeleteLast, Leave
  <2>2. CASE table # <<>>
    <3> DEFINE last == table[Len(table)]
    <3>1. last \in Child /\ SubSeq(table, 1, Len(table) - 1) \in Seq(Child)
      <4>1. table \in Seq(Child)
        BY <1>0
      <4> QED
        BY <2>2, <4>1, ShorterTable
    <3>2. pc' \in [Child -> Places]
      <4>1. pc \in [Child -> Places] /\ {"dead", "test", pc[last]} \subseteq Places
        <5>1. pc \in [Child -> Places]
          BY <1>0
        <5>2. pc[last] \in Places
          BY <3>1, <5>1, Zenon
        <5>3. "dead" \in Places /\ "test" \in Places
          OBVIOUS
        <5> QED
          BY <5>1, <5>2, <5>3, Zenon
      <4>2. PICK place \in {"dead", "test", pc[last]} : pc' = [pc EXCEPT ![last] = place]
        <5>1. Goto(last, CASE At(last, "forked") -> "dead"
                           [] At(last, "pause")  -> "test"
                           [] OTHER              -> pc[last])
          BY <1>11, <2>2 DEF DeleteLast
        <5>2. \E place \in {"dead", "test", pc[last]} : Goto(last, place)
          BY <5>1
        <5> QED
          BY <5>2 DEF Goto
      <4> QED
        BY <4>1, <4>2, OneReplaced
    <3>3. table' \in Seq(Child) /\ pid' \in Child
      BY <1>11, <2>2, <3>1 DEF DeleteLast
    <3>4. terminate' \in [Child -> BOOLEAN]
      BY <1>0, <1>11, <2>2, <3>1 DEF DeleteLast
    <3>5. main' = "waitpid" /\ UNCHANGED after
      BY <1>11, <2>2 DEF DeleteLast
    <3>6. UNCHANGED <<cycles, canPrint, printed, granted, lost, pending, ready, sigint>>
      BY <1>11 DEF DeleteLast
    <3> HIDE DEF last
    <3> QED
      BY <1>0, <3>2, <3>3, <3>4, <3>5, <3>6
  <2> QED
    BY <2>1, <2>2
<1>12. CASE UNCHANGED vars
  BY <1>0, <1>12 DEF vars, childVars, parentVars
<1> QED
  BY <1>1, <1>2, <1>3, <1>4, <1>5, <1>6, <1>7, <1>8, <1>9, <1>10, <1>11, <1>12 DEF Next, UserStep, ParentStep, ChildStep, Gone

(* Every step keeps the requests and permissions in order. *)
LEMMA TurnStep ==
  Inv /\ [Next]_vars => (OnePrintPerPermission /\ Single /\ Open /\ Turns /\ Permits)'
<1> DEFINE Kept == OnePrintPerPermission /\ Single /\ Open /\ Turns /\ Permits
<1> SUFFICES ASSUME Inv, [Next]_vars PROVE Kept'
  OBVIOUS
<1>0. TypeOK /\ HasPid /\ Kept
  BY DEF Inv
<1> USE DEF OnePrintPerPermission, Single, Open, InSignal, InReady, InGrant, Turns, Permits
<1>a. /\ pc \in [Child -> Places] /\ NoChild \notin Child
      /\ cycles \in [Child -> Nat] /\ printed \in [Child -> Nat] /\ granted \in [Child -> Nat]
      /\ canPrint \in [Child -> BOOLEAN]
  BY <1>0, TurnAssumption DEF TypeOK
<1>1. ASSUME NEW c \in Child, Begin(c) \/ Test(c) \/ Pause(c) \/ Sleep(c) PROVE Kept'
  BY <1>0, <1>a, <1>1 DEF Begin, Test, Pause, Sleep, At, Goto, UnchangedByChild, parentVars
<1>2. ASSUME NEW c \in Child, Cycle(c) PROVE Kept'
  BY <1>0, <1>a, <1>2 DEF Cycle, At, Goto, UnchangedByChild, parentVars
<1>3. ASSUME NEW c \in Child, Ask(c) PROVE Kept'
  <2>1. /\ pc[c] = "ask" /\ pc' = [pc EXCEPT ![c] = pc'[c]] /\ pc'[c] \in {"dead", "reset"}
        /\ pending' \in {pending, c}
        /\ UNCHANGED <<cycles, canPrint, printed, granted, ready, main, pid>>
    BY <1>a, <1>3 DEF Ask, At, Goto, UnchangedByChild, parentVars
  <2>2. granted[c] < cycles[c]
    BY <1>0, <1>a, <2>1
  <2>3. ~InSignal(c) /\ ~InReady(c) /\ ~InGrant(c)
    BY <1>0, <2>1
  <2>4. Single' /\ Open'
    BY <1>0, <1>a, <2>1, <2>2, <2>3
  <2>5. OnePrintPerPermission' /\ Turns' /\ Permits'
    BY <1>0, <1>a, <2>1
  <2> QED
    BY <2>4, <2>5
<1>4. ASSUME NEW c \in Child, Reset(c) PROVE Kept'
  BY <1>0, <1>a, <1>4 DEF Reset, At, Goto, UnchangedByChild, parentVars
<1>5. ASSUME NEW c \in Child, PrintStats(c) PROVE Kept'
  BY <1>0, <1>a, <1>5 DEF PrintStats, At, Goto, UnchangedByChild, parentVars
<1>6. CASE Usr1Handler
  BY <1>0, <1>a, <1>6 DEF Usr1Handler, Interrupted, childVars
<1>7. CASE SigintHandler \/ NoCommand \/ DeleteCommand
  BY <1>0, <1>a, <1>7 DEF SigintHandler, NoCommand, DeleteCommand, Interrupted, childVars, UnchangedByParent
<1>8. ASSUME NEW c \in Child, CreateChild(c) PROVE Kept'
  BY <1>0, <1>a, <1>8 DEF CreateChild, Goto
<1>9. CASE Top
  BY <1>0, <1>a, <1>9 DEF Top, childVars, UnchangedByParent
<1>10. CASE Clear \/ Reap \/ Deleted
  BY <1>0, <1>a, <1>10 DEF Clear, Reap, Deleted, childVars, UnchangedByParent
<1>11. CASE Grant
  <2>1. pid \in Child /\ granted[pid] < cycles[pid] /\ main = "grant" /\ main' = "clear"
    BY <1>0, <1>11 DEF Grant, HasPid
  <2>2. granted' = [granted EXCEPT ![pid] = @ + 1] /\ UNCHANGED <<cycles, printed, pending, ready, pid>>
    BY <1>11 DEF Grant
  <2>3. \A c \in Child : pc'[c] = pc[c] \/ (pc[c] = "pause" /\ pc'[c] = "test")
    <3>1. CASE pc[pid] = "dead"
      BY <1>11, <3>1 DEF Grant
    <3>2. CASE pc[pid] # "dead"
      BY <1>a, <1>11, <2>1, <3>2 DEF Grant, Wakes, Goto, At
    <3> QED
      BY <3>1, <3>2
  <2>4. canPrint' = canPrint \/ canPrint' = [canPrint EXCEPT ![pid] = TRUE]
    BY <1>11 DEF Grant
  <2>5. \A c \in Child : c # pid => canPrint'[c] = canPrint[c]
    BY <1>a, <2>1, <2>4
  <2> QED
    BY <1>0, <1>a, <2>1, <2>2, <2>3, <2>5
<1>12. CASE DeleteLast
  <2>1. /\ \A c \in Child : \/ pc'[c] = pc[c]
                            \/ pc[c] = "pause" /\ pc'[c] = "test"
                            \/ pc'[c] = "dead"
        /\ main = "delete" /\ main' \notin {"grant", "clear"}
        /\ UNCHANGED <<cycles, canPrint, printed, granted, pending, ready>>
    BY <1>0, <1>a, <1>12 DEF DeleteLast, Goto, At, Leave
  <2> QED
    BY <1>0, <1>a, <2>1
<1>13. CASE UNCHANGED vars
  BY <1>0, <1>13 DEF vars, childVars, parentVars
<1> QED
  BY <1>1, <1>2, <1>3, <1>4, <1>5, <1>6, <1>7, <1>8, <1>9, <1>10, <1>11, <1>12, <1>13 DEF Next, UserStep, ParentStep, ChildStep, Gone

(* The invariant holds in every reachable state. *)
LEMMA Invariance == Spec => []Inv
<1>1. Inv /\ [Next]_vars => Inv'
  BY TypeStep, TurnStep DEF Inv
<1> QED
  BY InitInv, <1>1, PTL DEF Spec

(* A child leaves the table with a SIGTERM, or dead. *)
LEMMA DropStep == TypeOK /\ DroppedOnlyWhenTold /\ [Next]_vars => DroppedOnlyWhenTold'
<1> SUFFICES ASSUME TypeOK, DroppedOnlyWhenTold, [Next]_vars PROVE DroppedOnlyWhenTold'
  OBVIOUS
<1>a. pc \in [Child -> Places] /\ terminate \in [Child -> BOOLEAN] /\ table \in Seq(Child)
  BY DEF TypeOK
<1> USE DEF DroppedOnlyWhenTold
<1>1. ASSUME NEW c \in Child, ChildStep(c) PROVE DroppedOnlyWhenTold'
  <2>1. /\ \A d \in Child : pc'[d] \notin {"unborn", "dead"} => pc[d] \notin {"unborn", "dead"}
        /\ UNCHANGED <<terminate, table>>
    BY <1>a, <1>1 DEF ChildStep, Begin, Cycle, Ask, Reset, Test, Pause, PrintStats, Sleep, At, Goto, UnchangedByChild, parentVars
  <2> QED
    BY <2>1
<1>2. CASE Usr1Handler \/ SigintHandler \/ NoCommand \/ DeleteCommand \/ Top \/ Clear \/ Reap \/ Deleted \/ Gone \/ UNCHANGED vars
  BY <1>2 DEF Usr1Handler, SigintHandler, NoCommand, DeleteCommand, Top, Clear, Reap, Deleted, Gone, vars, childVars, parentVars, UnchangedByParent
<1>3. ASSUME NEW c \in Child, CreateChild(c) PROVE DroppedOnlyWhenTold'
  <2>1. /\ table' = Append(table, c)
        /\ \A d \in Child : d # c => pc'[d] = pc[d]
        /\ UNCHANGED terminate
    BY <1>a, <1>3 DEF CreateChild, Goto
  <2>2. table'[Len(table) + 1] = c /\ Len(table) + 1 \in DOMAIN table'
    BY <1>a, <2>1
  <2>3. \A i \in DOMAIN table : i \in DOMAIN table' /\ table'[i] = table[i]
    BY <1>a, <2>1
  <2> QED
    BY <2>1, <2>2, <2>3
<1>4. CASE Grant
  <2>1. /\ \A d \in Child : pc'[d] \notin {"unborn", "dead"} => pc[d] \notin {"unborn", "dead"}
        /\ UNCHANGED <<terminate, table>>
    BY <1>a, <1>4 DEF Grant, Wakes, Goto, At
  <2> QED
    BY <2>1
<1>5. CASE DeleteLast
  <2>1. CASE table = <<>>
    BY <1>5, <2>1 DEF DeleteLast
  <2>2. CASE table # <<>>
    <3> DEFINE last == table[Len(table)]
    <3>1. Len(table) \in Nat /\ Len(table) > 0 /\ last \in Child
      BY <1>a, <2>2
    <3>2. /\ table' = SubSeq(table, 1, Len(table) - 1)
          /\ terminate' = [terminate EXCEPT ![last] = TRUE]
          /\ \A d \in Child : d # last => pc'[d] = pc[d]
      BY <1>a, <1>5, <2>2, <3>1 DEF DeleteLast, Goto
    <3>3. \A i \in DOMAIN table : i # Len(table) => i \in DOMAIN table' /\ table'[i] = table[i]
      BY <1>a, <3>1, <3>2
    <3> HIDE DEF last
    <3>4. terminate'[last] /\ \A d \in Child : d # last => terminate'[d] = terminate[d]
      BY <1>a, <3>1, <3>2
    <3>5. \A i \in DOMAIN table : table[i] # last => i # Len(table)
      BY DEF last
    <3>6. ASSUME NEW d \in Child, pc'[d] \notin {"unborn", "dead"}, d # last
          PROVE  terminate'[d] \/ \E i \in DOMAIN table' : table'[i] = d
      <4>1. terminate[d] \/ \E i \in DOMAIN table : table[i] = d
        BY <3>2, <3>6
      <4> QED
        BY <3>3, <3>4, <3>5, <3>6, <4>1
    <3> QED
      BY <3>4, <3>6
  <2> QED
    BY <2>1, <2>2
<1> QED
  BY <1>1, <1>2, <1>3, <1>4, <1>5 DEF Next, UserStep, ParentStep

(* Type correctness of LAB_3: no counter outgrows the number of cycles.    *)
THEOREM TypeCorrect == Spec => []TypeOK
<1>1. Inv => TypeOK
  BY DEF Inv
<1> QED
  BY <1>1, Invariance, PTL

(* A child reports once for each permission, and gets one permission for   *)
(* each request, though ready_to_print_pid and can_print are overwritten   *)
(* and cleared behind the other side's back (parent.c:184, child.c:64).    *)
THEOREM PermissionsAreRequested == Spec => []OnePrintPerPermission
<1>1. Inv => OnePrintPerPermission
  BY DEF Inv
<1> QED
  BY <1>1, Invariance, PTL

(* No running child is forgotten that has not been sent SIGTERM, though    *)
(* delete_last_child drops the entry whatever waitpid said (parent.c:113). *)
THEOREM NobodyForgotten == Spec => []DroppedOnlyWhenTold
<1>1. Init => DroppedOnlyWhenTold
  BY DEF Init, DroppedOnlyWhenTold
<1>2. Spec => []TypeOK
  BY TypeCorrect
<1> QED
  BY <1>1, <1>2, DropStep, PTL DEF Spec
=============================================================================
