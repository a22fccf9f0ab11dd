---------------------------- MODULE MessageRing ----------------------------
(***************************************************************************)
(* The ring buffer of messages that LAB_4, LAB_5.1 and LAB_5.2 share: the  *)
(* data fields of their SharedQueue and what queue_init, queue_push,       *)
(* queue_pop and queue_resize do to them.  A message is a value of Msg;    *)
(* what its bytes are does not matter to the queue.  Garbage is what a     *)
(* slot of a malloc'ed buffer holds before it is first written.            *)
(***************************************************************************)
EXTENDS Integers, Sequences

CONSTANTS Msg,      \* the messages create_random_message may make
          Garbage   \* the content of a slot nobody has written

ASSUME RingAssumption == Garbage \notin Msg

(* A freshly allocated ring of n slots. *)
NewRing(n) == [buffer    |-> [i \in 0..n-1 |-> Garbage],
               head      |-> 0,
               tail      |-> 0,
               added     |-> 0,
               extracted |-> 0,
               load      |-> 0,
               size      |-> n]

(* The slot of the message that is i places behind the oldest one. *)
Slot(q, i) == (q.head + i) % q.size

(* Stores m in the slot tail points at.  A tail beyond the last slot       *)
(* writes past the allocated block, so that no slot receives m.            *)
RingPush(q, m) ==
    [q EXCEPT !.buffer = [i \in DOMAIN q.buffer |->
                            IF i = q.tail THEN m ELSE q.buffer[i]],
              !.tail   = (q.tail + 1) % q.size,
              !.added  = q.added + 1,
              !.load   = q.load + 1]

(* The message queue_pop copies out, and the ring it leaves. *)
RingFront(q) == q.buffer[q.head]

RingPop(q) == [q EXCEPT !.head      = (q.head + 1) % q.size,
                        !.extracted = q.extracted + 1,
                        !.load      = q.load - 1]

(* The messages move to the first slots of a new block of n slots; tail    *)
(* becomes the load, whatever n is.                                        *)
RingResize(q, n) ==
    [q EXCEPT !.buffer = [i \in 0..n-1 |->
                            IF i < q.load
                              THEN q.buffer[Slot(q, i)]
                              ELSE Garbage],
              !.head   = 0,
              !.tail   = q.load,
              !.size   = n]

(* The ring after its block has been freed. *)
RingFree(q) == [buffer    |-> <<>>,
                head      |-> 0,
                tail      |-> 0,
                added     |-> q.added,
                extracted |-> q.extracted,
                load      |-> 0,
                size      |-> 0]

-----------------------------------------------------------------------------
(* The queue of messages a ring stands for, oldest first. *)
Contents(q) == [i \in 1..q.load |-> q.buffer[Slot(q, i - 1)]]

Buffers(max) == UNION {[0..n-1 -> Msg \cup {Garbage}] : n \in 0..max}

(* The fields of SharedQueue that hold data, for rings of up to max slots. *)
RingType(max) == [buffer : Buffers(max), head : Nat, tail : Nat, added : Nat,
                  extracted : Nat, load : Int, size : 0..max]

(* A ring whose indices agree with its load and whose live slots hold      *)
(* messages: what push, pop and resize rely on and must keep.              *)
RingOK(q) == /\ q.size > 0
             /\ q.buffer \in [0..q.size-1 -> Msg \cup {Garbage}]
             /\ q.head \in 0..q.size-1
             /\ q.load \in 0..q.size
             /\ q.tail = Slot(q, q.load)
             /\ q.added - q.extracted = q.load
             /\ \A i \in 0..q.load-1 : q.buffer[Slot(q, i)] \in Msg
=============================================================================
