------------------------------ MODULE DirWalk ------------------------------
(***************************************************************************)
(* LAB_1: dirwalk prints and counts what lies below a directory.  While it *)
(* walks, other processes remove files and directories; opendir and lstat  *)
(* may fail, and so may the allocations for the list that -s sorts.        *)
(*                                                                         *)
(* The objects are the numbers 0..Last, 0 the directory to start from; the *)
(* tree is chosen at the start.  The order of the output is left out.      *)
(***************************************************************************)
EXTENDS Naturals, Sequences, FiniteSets

CONSTANTS Last,         \* bound: how many objects lie below the first one
          MaxDepth,     \* MAX_DEPTH
          Filters       \* the combinations of -l, -d and -f that are used

ASSUME WalkAssumption == /\ Last \in Nat /\ MaxDepth \in Nat
                         /\ Filters \subseteq SUBSET {"link", "dir", "file"}

Object == 0..Last
Kinds == {"file", "dir", "link", "other"}

VARIABLES
    parent, kind,   \* the tree
    gone,           \* the objects that have been removed
    show, sort,     \* only_links, only_dirs, only_files; sort_output
    at,             \* where the program is
    dir,            \* the argument of the walk_dir about to begin
    stack,          \* the walk_dir calls under way, innermost last
    stats,          \* total_files, total_dirs, total_links, total_others
    errors,         \* stats.errors
    list,           \* file_list
    output,         \* what has been printed
    uncounted,      \* history: the objects lstat failed for
    unwalked,       \* history: the directories that were not walked
    short           \* history: memory was short

tree == <<parent, kind, show, sort>>
history == <<uncounted, unwalked, short>>
walkVars == <<tree, gone, at, dir, stack, stats, errors, list, output, history>>

(* Only directories have something below them.  The first object is a      *)
(* directory or a link to one: stat follows it, lstat does not.            *)
IsTree(p, k) == /\ k[0] \in {"dir", "link"}
                /\ \A n \in 1..Last : p[n] < n /\ (p[n] # 0 => k[p[n]] = "dir")

WalkInit == /\ parent \in [1..Last -> Object] /\ kind \in [Object -> Kinds]
            /\ IsTree(parent, kind)
            /\ show \in Filters /\ sort \in BOOLEAN
            /\ gone = {}
            /\ at = "start" /\ dir = 0 /\ stack = <<>>
            /\ stats = [k \in Kinds |-> 0] /\ errors = 0
            /\ list = <<>> /\ output = <<>>
            /\ uncounted = {} /\ unwalked = {} /\ short = FALSE

-----------------------------------------------------------------------------
ShouldPrint(n) == show = {} \/ kind[n] \in show

(* update_stats, and the line for n: printed, or kept for the sort. *)
Count(n) == stats' = [stats EXCEPT ![kind[n]] = @ + 1]

PrintOrKeep(n) ==
    /\ list' = IF ShouldPrint(n) /\ sort THEN Append(list, n) ELSE list
    /\ output' = IF ShouldPrint(n) /\ ~sort THEN Append(output, n) ELSE output

Error == errors' = errors + 1
NoError == UNCHANGED <<errors, uncounted, unwalked>>

(* main: an argument that is no directory ends the program; one that is    *)
(* gone by the time of lstat is walked all the same; a list without memory *)
(* lacks the first line.                                                   *)
StartWalk ==
    /\ at = "start"
    /\ \/ /\ at' = "refused"
          /\ UNCHANGED <<stats, list, output, uncounted, short>>
       \/ /\ at' = "open"
          /\ uncounted' = {0}
          /\ UNCHANGED <<stats, list, output, short>>
       \/ /\ at' = "open"
          /\ Count(0)
          /\ \/ PrintOrKeep(0) /\ UNCHANGED short
             \/ /\ ShouldPrint(0) /\ sort /\ short' = TRUE
                /\ UNCHANGED <<list, output>>
          /\ UNCHANGED uncounted
    /\ UNCHANGED <<errors, unwalked, tree, gone, dir, stack>>

Entries(n) == {e \in 1..Last : parent[e] = n} \ gone

(* Mutant: the depth is not tested. *)
OpenDeep ==
    /\ at = "open" /\ at' = "walk"
    /\ dir \notin gone
    /\ stack' = Append(stack, Entries(dir))
    /\ NoError
    /\ UNCHANGED <<tree, gone, dir, stats, list, output, short>>

(* The first steps of walk_dir. *)
Open ==
    /\ at = "open" /\ at' = "walk"
    /\ \/ /\ Error
          /\ unwalked' = unwalked \cup {dir}
          /\ UNCHANGED <<stack, uncounted>>
       \/ /\ Len(stack) <= MaxDepth /\ dir \notin gone
          /\ stack' = Append(stack, Entries(dir))
          /\ NoError
    /\ UNCHANGED <<tree, gone, dir, stats, list, output, short>>

Top == stack[Len(stack)]
Read(e) == stack' = [stack EXCEPT ![Len(stack)] = @ \ {e}]

(* readdir need not return what has been removed since opendir. *)
Skip(e) ==
    /\ at = "walk" /\ stack # <<>> /\ e \in Top \cap gone
    /\ Read(e)
    /\ NoError
    /\ UNCHANGED <<tree, gone, at, dir, stats, list, output, short>>

(* The path is too long, or lstat fails. *)
Fail(e) ==
    /\ at = "walk" /\ stack # <<>> /\ e \in Top
    /\ Read(e)
    /\ Error
    /\ uncounted' = uncounted \cup {e} /\ UNCHANGED unwalked
    /\ UNCHANGED <<tree, gone, at, dir, stats, list, output, short>>

(* A directory is walked next, and that a link is none is lstat's word. *)
Descend(e) == IF kind[e] = "dir" THEN at' = "open" /\ dir' = e
                                 ELSE UNCHANGED <<at, dir>>

(* Mutant: a directory that is not shown is not walked either. *)
VisitShown(e) ==
    /\ at = "walk" /\ stack # <<>> /\ e \in Top \ gone
    /\ Read(e)
    /\ Count(e)
    /\ PrintOrKeep(e)
    /\ IF ShouldPrint(e) THEN Descend(e) ELSE UNCHANGED <<at, dir>>
    /\ NoError
    /\ UNCHANGED <<tree, gone, short>>

Visit(e) ==
    /\ at = "walk" /\ stack # <<>> /\ e \in Top \ gone
    /\ Read(e)
    /\ Count(e)
    /\ PrintOrKeep(e)
    /\ Descend(e)
    /\ NoError
    /\ UNCHANGED <<tree, gone, short>>

(* Without memory for the path, the list is emptied, and continue leaves   *)
(* the directory unwalked.                                                 *)
VisitWithoutMemory(e) ==
    /\ at = "walk" /\ stack # <<>> /\ e \in Top \ gone
    /\ ShouldPrint(e) /\ sort
    /\ Read(e)
    /\ Count(e)
    /\ list' = <<>>
    /\ unwalked' = unwalked \cup {e} /\ short' = TRUE
    /\ UNCHANGED <<errors, uncounted>>
    /\ UNCHANGED <<tree, gone, at, dir, output>>

Close ==
    /\ at = "walk" /\ stack # <<>> /\ Top = {}
    /\ stack' = SubSeq(stack, 1, Len(stack) - 1)
    /\ NoError
    /\ UNCHANGED <<tree, gone, at, dir, stats, list, output, short>>

(* print_sorted, and the end of main. *)
Finish ==
    /\ at = "walk" /\ stack = <<>>
    /\ at' = "done"
    /\ output' = output \o list /\ list' = <<>>
    /\ NoError
    /\ UNCHANGED <<tree, gone, dir, stack, stats, short>>

(* External: another process removes a file or an empty directory. *)
Remove(n) ==
    /\ n \in 1..Last \ gone /\ Entries(n) = {}
    /\ at \notin {"done", "refused"}
    /\ gone' = gone \cup {n}
    /\ UNCHANGED <<tree, at, dir, stack, stats, errors, list, output, history>>

WalkNext == \/ StartWalk \/ Open \/ Close \/ Finish
            \/ \E e \in 1..Last : \/ Skip(e) \/ Fail(e) \/ Visit(e) \/ VisitWithoutMemory(e)
                                  \/ Remove(e)

WalkSpec == WalkInit /\ [][WalkNext]_walkVars

-----------------------------------------------------------------------------
(* Properties. *)

(* Type correctness of every variable that changes. *)
WalkTypeOK ==
    /\ gone \subseteq 1..Last
    /\ at \in {"start", "open", "walk", "done", "refused"}
    /\ dir \in Object
    /\ Len(stack) <= MaxDepth + 1
    /\ \A i \in DOMAIN stack : stack[i] \subseteq 1..Last
    /\ stats \in [Kinds -> Nat] /\ errors \in Nat
    /\ list \in Seq(Object) /\ output \in Seq(Object)
    /\ uncounted \cup unwalked \subseteq Object /\ short \in BOOLEAN

(* The objects above n: what is in every set that holds the parent of n    *)
(* and, with each object, the parent of that.                              *)
Closed(S) == \A m \in S \ {0} : parent[m] \in S

Above(n) == {a \in Object : /\ n # 0
                           /\ \A S \in SUBSET Object : parent[n] \in S /\ Closed(S) => a \in S}

(* Nothing stood between the program and n: neither n nor what lies above  *)
(* it was removed or gave an error, or was left for want of memory.        *)
Reached(n) == /\ (Above(n) \cup {n}) \cap gone = {}
              /\ n \notin uncounted
              /\ Above(n) \cap ((uncounted \ {0}) \cup unwalked) = {}

OfKind(objects, k) == Cardinality({n \in objects : kind[n] = k})

(* However the directories are read and whatever is removed meanwhile,     *)
(* each object is counted once, every object nothing stood before is       *)
(* counted, and what is printed is what the options ask for, each object   *)
(* once, and no more than is counted.  Unless memory was short for the     *)
(* list of -s, every object nothing stood before is printed, and the       *)
(* counters agree with the lines; otherwise lines are missing.             *)
ReportComplete ==
    at = "done" =>
      LET printed == {output[i] : i \in DOMAIN output}
      IN  /\ \A k \in Kinds : /\ stats[k] <= OfKind(Object, k)
                              /\ stats[k] >= OfKind({n \in Object : Reached(n)}, k)
                              /\ stats[k] >= OfKind(printed, k)
          /\ Cardinality(printed) = Len(output)
          /\ \A n \in printed : ShouldPrint(n)
          /\ ~short =>
               /\ \A n \in Object : Reached(n) /\ ShouldPrint(n) => n \in printed
               /\ \A k \in Kinds : show = {} \/ k \in show =>
                                     stats[k] = OfKind(printed, k)
=============================================================================
