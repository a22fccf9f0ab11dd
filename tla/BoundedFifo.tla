---------------------------- MODULE BoundedFifo ----------------------------
(***************************************************************************)
(* What the message queue of LAB_5.2 promises its users: a first-in        *)
(* first-out channel of bounded capacity.  A message enters only while     *)
(* there is room, leaves in the order it entered and goes to one consumer. *)
(* The capacity may change while no accepted message is lost, and closing  *)
(* the channel is final.                                                   *)
(***************************************************************************)
EXTENDS Integers, Sequences

CONSTANTS Prod,     \* the senders
          Cons,     \* the receivers
          Msg,      \* what is sent
          Nothing,  \* what a sender or receiver holds before its first message
          InitCap,  \* the capacity at the start
          MaxCap    \* the largest capacity

VARIABLES chan,     \* the messages accepted and not yet received
          cap,      \* the capacity, 0 once closed
          offer,    \* the message each sender made last
          got       \* the last message each receiver took

fifoVars == <<chan, cap, offer, got>>

FifoInit == /\ chan = <<>>
            /\ cap = InitCap
            /\ offer = [p \in Prod |-> Nothing]
            /\ got = [c \in Cons |-> Nothing]

Offer(p, m) == /\ offer' = [offer EXCEPT ![p] = m]
               /\ UNCHANGED <<chan, cap, got>>

Send(p) == /\ Len(chan) < cap
           /\ offer[p] \in Msg
           /\ chan' = Append(chan, offer[p])
           /\ UNCHANGED <<cap, offer, got>>

Receive(c) == /\ chan # <<>>
              /\ got' = [got EXCEPT ![c] = Head(chan)]
              /\ chan' = Tail(chan)
              /\ UNCHANGED <<cap, offer>>

SetCapacity(n) == /\ cap > 0
                  /\ n >= Len(chan)
                  /\ cap' = n
                  /\ UNCHANGED <<chan, offer, got>>

Close == /\ cap > 0
         /\ chan' = <<>>
         /\ cap' = 0
         /\ UNCHANGED <<offer, got>>

FifoNext == \/ \E p \in Prod : Send(p) \/ \E m \in Msg : Offer(p, m)
            \/ \E c \in Cons : Receive(c)
            \/ \E n \in 1..MaxCap : SetCapacity(n)
            \/ Close

FifoSpec == FifoInit /\ [][FifoNext]_fifoVars
=============================================================================
