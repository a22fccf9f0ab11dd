---------------------------- MODULE RecordStore ----------------------------
(***************************************************************************)
(* What LAB_7 promises the users of one file of records: a record changes  *)
(* only by a compare-and-write, from exactly the content the user who      *)
(* changes it has seen last, and the file changes otherwise only by        *)
(* growing at its end.                                                     *)
(***************************************************************************)
EXTENDS Integers, Sequences

CONSTANTS Client,   \* the users
          Rec,      \* the contents a record can have
          Unseen    \* what a user knows of a record not yet shown

VARIABLES store,    \* the records
          at,       \* the number of the record each user works on
          seen      \* the content each user has seen last

storeVars == <<store, at, seen>>

StoreInit == /\ store \in Seq(Rec)
             /\ at = [c \in Client |-> 0]
             /\ seen = [c \in Client |-> Unseen]

(* The user turns to another record, or away from all of them. *)
Turn(c, n) == /\ at' = [at EXCEPT ![c] = n]
              /\ seen' = [seen EXCEPT ![c] = Unseen]
              /\ UNCHANGED store

See(c) == /\ at[c] \in DOMAIN store
          /\ seen' = [seen EXCEPT ![c] = store[at[c]]]
          /\ UNCHANGED <<store, at>>

CompareAndWrite(c, r) == /\ at[c] \in DOMAIN store
                         /\ store[at[c]] = seen[c]
                         /\ store' = [store EXCEPT ![at[c]] = r]
                         /\ UNCHANGED <<at, seen>>

Extend(r) == /\ store' = Append(store, r)
             /\ UNCHANGED <<at, seen>>

StoreNext == \/ \E c \in Client : \/ See(c)
                                  \/ \E n \in 0..Len(store)+1 : Turn(c, n)
                                  \/ \E r \in Rec : CompareAndWrite(c, r)
             \/ \E r \in Rec : Extend(r)

StoreSpec == StoreInit /\ [][StoreNext]_storeVars
=============================================================================
