------------------------ MODULE MessageRingProofs ------------------------
(***************************************************************************)
(* What push, pop and resize do to the queue of messages a ring stands     *)
(* for.  The arithmetic of the indices is settled first, on plain          *)
(* integers, so that the lemmas on rings only cite it.                     *)
(***************************************************************************)
EXTENDS MessageRing, TLAPS

(* An index taken modulo the size is a slot of the buffer. *)
LEMMA WrapRange ==
  ASSUME NEW n \in Nat, n > 0, NEW h \in 0..n-1, NEW i \in 0..n
  PROVE  (h + i) % n \in 0..n-1
BY SMT

(* Two offsets below the size are different slots: a push cannot hit a
   live message of a ring that is not full. *)
LEMMA WrapDistinct ==
  ASSUME NEW n \in Nat, n > 0, NEW h \in 0..n-1, NEW j \in 0..n-1, NEW i \in 0..j-1
  PROVE  (h + i) % n # (h + j) % n
BY SMT

(* Advancing tail by one is advancing the offset by one. *)
LEMMA WrapNext ==
  ASSUME NEW n \in Nat, n > 0, NEW h \in 0..n-1, NEW j \in 0..n-1
  PROVE  (((h + j) % n) + 1) % n = (h + (j + 1)) % n
BY SMT

(* Advancing head by one shifts every offset by one. *)
LEMMA WrapShift ==
  ASSUME NEW n \in Nat, n > 0, NEW h \in 0..n-1, NEW j \in 0..n-1
  PROVE  (((h + 1) % n) + j) % n = (h + (j + 1)) % n
BY SMT

(* The oldest message is in the slot head points at. *)
LEMMA WrapZero ==
  ASSUME NEW n \in Nat, n > 0, NEW h \in 0..n-1
  PROVE  (h + 0) % n = h
BY SMT

(* In a compacted ring the offset is the slot. *)
LEMMA WrapNone ==
  ASSUME NEW n \in Nat, n > 0, NEW j \in 0..n-1
  PROVE  (0 + j) % n = j
BY SMT

(* Sequences of the same length with the same elements are equal. *)
LEMMA SameQueue ==
  ASSUME NEW S, NEW s \in Seq(S), NEW t \in Seq(S), Len(s) = Len(t),
         \A i \in 1..Len(s) : s[i] = t[i]
  PROVE  s = t
OBVIOUS

(* A ring is a record of these fields and of no others. *)
Fields(q) == [buffer |-> q.buffer, head |-> q.head, tail |-> q.tail,
              added |-> q.added, extracted |-> q.extracted,
              load |-> q.load, size |-> q.size]

(* What the fields of a ring are. *)
LEMMA RingFields ==
  ASSUME NEW max, NEW q \in RingType(max)
  PROVE  /\ q.buffer \in Buffers(max) /\ q.size \in 0..max /\ q.load \in Int
         /\ q.head \in Nat /\ q.tail \in Nat /\ q.added \in Nat /\ q.extracted \in Nat
         /\ q = Fields(q)
BY DEF RingType, Fields

(* A record of the right fields is a ring. *)
LEMMA IsRing ==
  ASSUME NEW max, NEW r, r.buffer \in Buffers(max), r.size \in 0..max, r.load \in Int,
         r.head \in Nat, r.tail \in Nat, r.added \in Nat, r.extracted \in Nat,
         r = Fields(r)
  PROVE  r \in RingType(max)
BY DEF RingType, Fields

(* The fields of a record that is given by them. *)
LEMMA RecordFields ==
  ASSUME NEW r, NEW b, NEW h, NEW t, NEW a, NEW e, NEW l, NEW s,
         r = [buffer |-> b, head |-> h, tail |-> t, added |-> a, extracted |-> e,
              load |-> l, size |-> s]
  PROVE  /\ r.buffer = b /\ r.head = h /\ r.tail = t /\ r.added = a
         /\ r.extracted = e /\ r.load = l /\ r.size = s
         /\ r = Fields(r)
BY DEF Fields

(* What a push leaves in the fields. *)
LEMMA PushFields ==
  ASSUME NEW q, q = Fields(q), NEW m
  PROVE  /\ RingPush(q, m).buffer = [i \in DOMAIN q.buffer |->
                                       IF i = q.tail THEN m ELSE q.buffer[i]]
         /\ RingPush(q, m).head = q.head
         /\ RingPush(q, m).tail = (q.tail + 1) % q.size
         /\ RingPush(q, m).added = q.added + 1
         /\ RingPush(q, m).extracted = q.extracted
         /\ RingPush(q, m).load = q.load + 1
         /\ RingPush(q, m).size = q.size
         /\ RingPush(q, m) = Fields(RingPush(q, m))
<1> DEFINE b == [i \in DOMAIN q.buffer |-> IF i = q.tail THEN m ELSE q.buffer[i]]
           t == (q.tail + 1) % q.size
           a == q.added + 1
           l == q.load + 1
           r == RingPush(q, m)
<1>1. r = [q EXCEPT !.buffer = b, !.tail = t, !.added = a, !.load = l]
  BY DEF RingPush
<1> HIDE DEF b, t, a, l, r
<1>2. r = [buffer |-> b, head |-> q.head, tail |-> t, added |-> a,
           extracted |-> q.extracted, load |-> l, size |-> q.size]
  BY <1>1, Zenon DEF Fields
<1>3. /\ r.buffer = b /\ r.head = q.head /\ r.tail = t /\ r.added = a
      /\ r.extracted = q.extracted /\ r.load = l /\ r.size = q.size
      /\ r = Fields(r)
  BY <1>2, RecordFields
<1> QED
  BY <1>3 DEF b, t, a, l, r

(* What a pop leaves in the fields. *)
LEMMA PopFields ==
  ASSUME NEW q, q = Fields(q)
  PROVE  /\ RingPop(q).buffer = q.buffer
         /\ RingPop(q).head = (q.head + 1) % q.size
         /\ RingPop(q).tail = q.tail
         /\ RingPop(q).added = q.added
         /\ RingPop(q).extracted = q.extracted + 1
         /\ RingPop(q).load = q.load - 1
         /\ RingPop(q).size = q.size
         /\ RingPop(q) = Fields(RingPop(q))
<1> DEFINE h == (q.head + 1) % q.size
           e == q.extracted + 1
           l == q.load - 1
           r == RingPop(q)
<1>1. r = [q EXCEPT !.head = h, !.extracted = e, !.load = l]
  BY DEF RingPop
<1> HIDE DEF h, e, l, r
<1>2. r = [buffer |-> q.buffer, head |-> h, tail |-> q.tail, added |-> q.added,
           extracted |-> e, load |-> l, size |-> q.size]
  BY <1>1, Zenon DEF Fields
<1>3. /\ r.buffer = q.buffer /\ r.head = h /\ r.tail = q.tail /\ r.added = q.added
      /\ r.extracted = e /\ r.load = l /\ r.size = q.size
      /\ r = Fields(r)
  BY <1>2, RecordFields
<1> QED
  BY <1>3 DEF h, e, l, r

(* What a resize leaves in the fields. *)
LEMMA ResizeFields ==
  ASSUME NEW q, q = Fields(q), NEW n
  PROVE  /\ RingResize(q, n).buffer = [i \in 0..n-1 |-> IF i < q.load THEN q.buffer[Slot(q, i)] ELSE Garbage]
         /\ RingResize(q, n).head = 0
         /\ RingResize(q, n).tail = q.load
         /\ RingResize(q, n).added = q.added
         /\ RingResize(q, n).extracted = q.extracted
         /\ RingResize(q, n).load = q.load
         /\ RingResize(q, n).size = n
         /\ RingResize(q, n) = Fields(RingResize(q, n))
<1> DEFINE b == [i \in 0..n-1 |-> IF i < q.load THEN q.buffer[Slot(q, i)] ELSE Garbage]
           h == 0
           t == q.load
           s == n
           r == RingResize(q, n)
<1>1. r = [q EXCEPT !.buffer = b, !.head = h, !.tail = t, !.size = s]
  BY DEF RingResize
<1> HIDE DEF b, h, t, s, r
<1>2. r = [buffer |-> b, head |-> h, tail |-> t, added |-> q.added,
           extracted |-> q.extracted, load |-> q.load, size |-> s]
  BY <1>1, Zenon DEF Fields
<1>3. /\ r.buffer = b /\ r.head = h /\ r.tail = t /\ r.added = q.added
      /\ r.extracted = q.extracted /\ r.load = q.load /\ r.size = s
      /\ r = Fields(r)
  BY <1>2, RecordFields
<1> QED
  BY <1>3 DEF b, h, t, s, r

(* A block of at most max slots is one of the buffers. *)
LEMMA IsBuffer ==
  ASSUME NEW max \in Nat, NEW n \in 0..max, NEW b \in [0..n-1 -> Msg \cup {Garbage}]
  PROVE  b \in Buffers(max)
BY DEF Buffers

(* The messages of a ring are a sequence as long as its load. *)
LEMMA ContentsIsQueue ==
  ASSUME NEW max \in Nat, NEW q \in RingType(max), RingOK(q)
  PROVE  /\ Contents(q) \in Seq(Msg)
         /\ Len(Contents(q)) = q.load
         /\ DOMAIN Contents(q) = 1..q.load
<1>1. q.load \in Nat
  BY DEF RingOK, RingType
<1>2. \A i \in 1..q.load : i - 1 \in 0..q.load-1
  BY <1>1
<1>3. \A i \in 1..q.load : q.buffer[Slot(q, i - 1)] \in Msg
  BY <1>2 DEF RingOK
<1> QED BY <1>1, <1>3 DEF Contents

(* A push into a ring that is not full keeps it a ring and appends m to    *)
(* the messages it holds (queue_push of LAB_4, LAB_5.1 and LAB_5.2).       *)
LEMMA PushKeepsRing ==
  ASSUME NEW max \in Nat, NEW q \in RingType(max), RingOK(q), q.load < q.size, NEW m \in Msg
  PROVE  /\ RingPush(q, m) \in RingType(max)
         /\ RingOK(RingPush(q, m))
         /\ Contents(RingPush(q, m)) = Append(Contents(q), m)
<1> DEFINE r == RingPush(q, m)
<1>0. /\ q.size \in 0..max /\ q.added \in Nat /\ q.extracted \in Nat
      /\ q = Fields(q)
  BY RingFields
<1>1. /\ r.size = q.size /\ r.head = q.head /\ r.load = q.load + 1
      /\ r.added = q.added + 1 /\ r.extracted = q.extracted
      /\ r.tail = (q.tail + 1) % q.size
      /\ r.buffer = [i \in DOMAIN q.buffer |->
                            IF i = q.tail THEN m ELSE q.buffer[i]]
      /\ r = Fields(r)
  BY <1>0, PushFields
<1> HIDE DEF r
<1>a. /\ q.size \in Nat /\ q.size > 0 /\ q.size \in 1..max
      /\ q.head \in 0..q.size-1 /\ q.load \in 0..q.size-1 /\ q.load \in Nat
  BY <1>0 DEF RingOK
<1>b. q.tail = (q.head + q.load) % q.size
  BY DEF RingOK, Slot
<1>2. /\ q.added - q.extracted = q.load
      /\ q.buffer \in [0..q.size-1 -> Msg \cup {Garbage}]
      /\ \A i \in 0..q.load-1 : q.buffer[(q.head + i) % q.size] \in Msg
  BY DEF RingOK, Slot
<1>3. q.tail \in 0..q.size-1
  <2>1. q.load \in 0..q.size
    BY <1>a
  <2> QED BY <2>1, <1>a, <1>b, WrapRange
<1>4. \A i \in 0..q.load-1 : /\ (q.head + i) % q.size \in 0..q.size-1
                             /\ (q.head + i) % q.size # q.tail
  <2> SUFFICES ASSUME NEW i \in 0..q.load-1
               PROVE  /\ (q.head + i) % q.size \in 0..q.size-1
                      /\ (q.head + i) % q.size # q.tail
    OBVIOUS
  <2>1. i \in 0..q.size
    BY <1>a
  <2>2. (q.head + i) % q.size \in 0..q.size-1
    BY <2>1, <1>a, WrapRange
  <2>3. (q.head + i) % q.size # (q.head + q.load) % q.size
    BY <1>a, WrapDistinct
  <2> QED BY <2>2, <2>3, <1>b
<1>5. r.tail = (q.head + (q.load + 1)) % q.size
  <2>1. (((q.head + q.load) % q.size) + 1) % q.size = (q.head + (q.load + 1)) % q.size
    BY <1>a, WrapNext
  <2> QED BY <2>1, <1>1, <1>b
<1>6. r.tail \in 0..q.size-1
  <2>1. q.load + 1 \in 0..q.size
    BY <1>a
  <2> QED BY <2>1, <1>5, <1>a, WrapRange
<1>7. r.buffer \in [0..q.size-1 -> Msg \cup {Garbage}]
  BY <1>1, <1>2
<1>8. \A i \in 0..q.load-1 : r.buffer[(q.head + i) % q.size] = q.buffer[(q.head + i) % q.size]
  BY <1>1, <1>2, <1>4
<1>9. r.buffer[(q.head + q.load) % q.size] = m
  BY <1>1, <1>2, <1>3, <1>b
<1>10. r \in RingType(max)
  <2>1. r.buffer \in Buffers(max)
    BY <1>7, <1>0, IsBuffer
  <2>2. r.tail \in Nat /\ r.head \in Nat /\ r.size \in 0..max
    BY <1>1, <1>6, <1>0, <1>a
  <2>3. r.added \in Nat /\ r.load \in Int /\ r.extracted \in Nat
    BY <1>0, <1>1, <1>a
  <2> QED BY <2>1, <2>2, <2>3, <1>1, IsRing
<1>11. RingOK(r)
  <2>1. \A i \in 0..(q.load+1)-1 : i \in 0..q.load-1 \/ i = q.load
    BY <1>a
  <2>2. \A i \in 0..(q.load+1)-1 : r.buffer[(q.head + i) % q.size] \in Msg
    <3> SUFFICES ASSUME NEW i \in 0..(q.load+1)-1
                 PROVE  r.buffer[(q.head + i) % q.size] \in Msg
      OBVIOUS
    <3>1. CASE i \in 0..q.load-1
      BY <3>1, <1>2, <1>8
    <3>2. CASE i = q.load
      BY <3>2, <1>9
    <3> QED BY <2>1, <3>1, <3>2
  <2>3. q.load + 1 \in 0..q.size /\ (q.added + 1) - q.extracted = q.load + 1
    <3>1. q.load + 1 \in 0..q.size
      BY <1>a
    <3>2. q.added \in Nat /\ q.extracted \in Nat
      BY <1>0
    <3>3. q.added - q.extracted = q.load
      BY <1>2
    <3>4. (q.added + 1) - q.extracted = q.load + 1
      BY <3>2, <3>3
    <3> QED
      BY <3>1, <3>4
  <2>4. r.size > 0 /\ r.head \in 0..r.size-1 /\ r.load \in 0..r.size
    BY <2>3, <1>1, <1>a
  <2>5. r.tail = Slot(r, r.load) /\ r.added - r.extracted = r.load
    BY <2>3, <1>1, <1>5 DEF Slot
  <2>6. \A i \in 0..r.load-1 : r.buffer[Slot(r, i)] \in Msg
    BY <2>2, <1>1 DEF Slot
  <2>7. r.buffer \in [0..r.size-1 -> Msg \cup {Garbage}]
    BY <1>1, <1>7
  <2> QED BY <2>4, <2>5, <2>6, <2>7 DEF RingOK
<1>12. Contents(r) = Append(Contents(q), m)
  <2>1. /\ Contents(q) \in Seq(Msg) /\ Len(Contents(q)) = q.load
        /\ Contents(r) \in Seq(Msg) /\ Len(Contents(r)) = q.load + 1
    BY <1>1, <1>10, <1>11, ContentsIsQueue
  <2>2. \A i \in 1..q.load : i - 1 \in 0..q.load-1 /\ i \in 1..q.load+1
    BY <1>a
  <2>3. /\ \A i \in 1..q.load : Contents(q)[i] = q.buffer[(q.head + (i - 1)) % q.size]
        /\ \A i \in 1..q.load+1 : Contents(r)[i] = r.buffer[(q.head + (i - 1)) % q.size]
    BY <1>1 DEF Contents, Slot
  <2>4. \A i \in 1..q.load : Contents(r)[i] = Contents(q)[i]
    BY <2>2, <2>3, <1>8
  <2>5. (q.load + 1) - 1 = q.load /\ q.load + 1 \in 1..q.load+1
    BY <1>a
  <2>6. Contents(r)[q.load + 1] = m
    BY <2>3, <2>5, <1>9
  <2>7. Append(Contents(q), m) \in Seq(Msg)
    BY <2>1
  <2>8. /\ Len(Append(Contents(q), m)) = q.load + 1
        /\ \A i \in 1..q.load : Append(Contents(q), m)[i] = Contents(q)[i]
        /\ Append(Contents(q), m)[q.load + 1] = m
    BY <2>1, <1>a
  <2>9. \A i \in 1..q.load+1 : Contents(r)[i] = Append(Contents(q), m)[i]
    <3>1. \A i \in 1..q.load+1 : i \in 1..q.load \/ i = q.load + 1
      BY <1>a
    <3> QED BY <3>1, <2>4, <2>6, <2>8
  <2> QED BY <2>1, <2>7, <2>8, <2>9, SameQueue
<1> QED BY <1>10, <1>11, <1>12 DEF r

(* A pop from a ring that is not empty keeps it a ring, returns the oldest *)
(* message and leaves the others in order (queue_pop of the three labs).   *)
LEMMA PopKeepsRing ==
  ASSUME NEW max \in Nat, NEW q \in RingType(max), RingOK(q), q.load > 0
  PROVE  /\ RingPop(q) \in RingType(max)
         /\ RingOK(RingPop(q))
         /\ RingFront(q) \in Msg
         /\ Contents(q) # <<>>
         /\ RingFront(q) = Head(Contents(q))
         /\ Contents(RingPop(q)) = Tail(Contents(q))
<1> DEFINE r == RingPop(q)
<1>0. /\ q.buffer \in Buffers(max) /\ q.size \in 0..max
      /\ q.added \in Nat /\ q.extracted \in Nat /\ q.tail \in Nat
      /\ q = Fields(q)
  BY RingFields
<1>1. /\ r.size = q.size /\ r.buffer = q.buffer /\ r.tail = q.tail
      /\ r.added = q.added /\ r.extracted = q.extracted + 1
      /\ r.load = q.load - 1 /\ r.head = (q.head + 1) % q.size
      /\ r = Fields(r)
  BY <1>0, PopFields
<1> HIDE DEF r
<1>a. /\ q.size \in Nat /\ q.size > 0 /\ q.size \in 1..max
      /\ q.head \in 0..q.size-1 /\ q.load \in 1..q.size /\ q.load \in Nat
  BY <1>0 DEF RingOK
<1>b. q.tail = (q.head + q.load) % q.size
  BY DEF RingOK, Slot
<1>2. /\ q.added - q.extracted = q.load
      /\ q.buffer \in [0..q.size-1 -> Msg \cup {Garbage}]
      /\ \A i \in 0..q.load-1 : q.buffer[(q.head + i) % q.size] \in Msg
  BY DEF RingOK, Slot
<1>3. r.head \in 0..q.size-1
  <2>1. 1 \in 0..q.size
    BY <1>a
  <2> QED BY <2>1, <1>1, <1>a, WrapRange
<1>4. r \in RingType(max)
  <2>1. r.head \in Nat
    BY <1>3, <1>a
  <2>2. r.extracted \in Nat /\ r.load \in Int
    BY <1>0, <1>1, <1>a
  <2> QED BY <2>1, <2>2, <1>0, <1>1, IsRing
<1>5. RingFront(q) = q.buffer[(q.head + 0) % q.size]
  <2>1. (q.head + 0) % q.size = q.head
    BY <1>a, WrapZero
  <2> QED BY <2>1 DEF RingFront
<1>6. \A j \in 0..q.size-1 : (r.head + j) % q.size = (q.head + (j + 1)) % q.size
  BY <1>1, <1>a, WrapShift
<1>7. RingOK(r)
  <2>1. \A i \in 0..(q.load-1)-1 : i \in 0..q.size-1 /\ i + 1 \in 0..q.load-1
    BY <1>a
  <2>2. \A i \in 0..(q.load-1)-1 : r.buffer[(r.head + i) % q.size] \in Msg
    BY <2>1, <1>1, <1>2, <1>6
  <2>3. q.load - 1 \in 0..q.size /\ q.load - 1 \in 0..q.size-1 /\ (q.load - 1) + 1 = q.load
    BY <1>a
  <2>4. q.tail = (r.head + (q.load - 1)) % q.size
    BY <2>3, <1>b, <1>6
  <2>5. q.added - (q.extracted + 1) = q.load - 1
    BY <1>0, <1>a, <1>2
  <2>6. r.size > 0 /\ r.head \in 0..r.size-1 /\ r.load \in 0..r.size
    BY <2>3, <1>1, <1>3, <1>a
  <2>7. r.tail = Slot(r, r.load) /\ r.added - r.extracted = r.load
    BY <2>4, <2>5, <1>1 DEF Slot
  <2>8. \A i \in 0..r.load-1 : r.buffer[Slot(r, i)] \in Msg
    BY <2>2, <1>1 DEF Slot
  <2>9. r.buffer \in [0..r.size-1 -> Msg \cup {Garbage}]
    BY <1>1, <1>2
  <2> QED BY <2>6, <2>7, <2>8, <2>9 DEF RingOK
<1>8. /\ Contents(q) \in Seq(Msg) /\ Len(Contents(q)) = q.load
      /\ Contents(r) \in Seq(Msg) /\ Len(Contents(r)) = q.load - 1
  BY <1>1, <1>4, <1>7, ContentsIsQueue
<1>9. /\ \A i \in 1..q.load : Contents(q)[i] = q.buffer[(q.head + (i - 1)) % q.size]
      /\ \A i \in 1..q.load-1 : Contents(r)[i] = q.buffer[(r.head + (i - 1)) % q.size]
  BY <1>1 DEF Contents, Slot
<1>10. Contents(q) # <<>> /\ RingFront(q) = Head(Contents(q)) /\ RingFront(q) \in Msg
  <2>1. 1 \in 1..q.load /\ 1 - 1 = 0 /\ 0 \in 0..q.load-1
    BY <1>a
  <2>2. RingFront(q) = Contents(q)[1] /\ RingFront(q) \in Msg
    BY <2>1, <1>2, <1>5, <1>9
  <2> QED BY <2>1, <2>2, <1>8
<1>11. Contents(r) = Tail(Contents(q))
  <2>1. \A i \in 1..q.load-1 : /\ i - 1 \in 0..q.size-1 /\ (i - 1) + 1 = (i + 1) - 1
                               /\ i + 1 \in 1..q.load
    BY <1>a
  <2>2. \A i \in 1..q.load-1 : Contents(r)[i] = Contents(q)[i + 1]
    BY <2>1, <1>6, <1>9
  <2>3. /\ Tail(Contents(q)) \in Seq(Msg)
        /\ Len(Tail(Contents(q))) = q.load - 1
        /\ \A i \in 1..q.load-1 : Tail(Contents(q))[i] = Contents(q)[i + 1]
    BY <1>a, <1>8, <1>10
  <2>4. \A i \in 1..q.load-1 : Contents(r)[i] = Tail(Contents(q))[i]
    BY <2>2, <2>3
  <2> QED BY <2>3, <2>4, <1>8, SameQueue
<1> QED BY <1>4, <1>7, <1>10, <1>11 DEF r

(* A resize to a size above the load keeps the messages and their order    *)
(* (queue_resize of LAB_5.1 and LAB_5.2).  At a size equal to the load the *)
(* new tail is no slot of the new block, and the ring is one no more.      *)
LEMMA ResizeKeepsRing ==
  ASSUME NEW max \in Nat, NEW q \in RingType(max), RingOK(q), NEW n \in 1..max, n > q.load
  PROVE  /\ RingResize(q, n) \in RingType(max)
         /\ RingOK(RingResize(q, n))
         /\ Contents(RingResize(q, n)) = Contents(q)
<1> DEFINE r == RingResize(q, n)
<1>1. /\ r.size = n /\ r.head = 0 /\ r.tail = q.load
      /\ r.added = q.added /\ r.extracted = q.extracted /\ r.load = q.load
      /\ r.buffer = [i \in 0..n-1 |-> IF i < q.load THEN q.buffer[Slot(q, i)]
                                                   ELSE Garbage]
      /\ r = Fields(r)
  BY RingFields, ResizeFields
<1> HIDE DEF r
<1>2. /\ q.load \in Nat /\ q.load \in 0..n-1 /\ n > 0 /\ q.added \in Nat /\ q.extracted \in Nat
      /\ q.added - q.extracted = q.load
      /\ \A i \in 0..q.load-1 : q.buffer[Slot(q, i)] \in Msg
  BY DEF RingOK, RingType
<1>3. \A j \in 0..n-1 : Slot(r, j) = j
  BY <1>1, <1>2, WrapNone DEF Slot
<1>4. r.buffer \in [0..n-1 -> Msg \cup {Garbage}]
  <2>1. \A i \in 0..n-1 : i < q.load => i \in 0..q.load-1
    BY <1>2
  <2> QED BY <2>1, <1>1, <1>2
<1>5. r \in RingType(max)
  <2>1. n \in 0..max
    OBVIOUS
  <2>2. r.buffer \in Buffers(max)
    BY <1>4, <2>1, IsBuffer
  <2>3. r.load \in Int /\ r.head \in Nat /\ r.tail \in Nat /\ r.size \in 0..max
    BY <2>1, <1>1, <1>2
  <2>4. r.added \in Nat /\ r.extracted \in Nat
    BY <1>1, RingFields
  <2> QED BY <2>2, <2>3, <2>4, <1>1, IsRing
<1>6. \A i \in 0..q.load-1 : r.buffer[Slot(r, i)] = q.buffer[Slot(q, i)]
  <2>1. \A i \in 0..q.load-1 : i \in 0..n-1 /\ i < q.load
    BY <1>2
  <2> QED BY <2>1, <1>1, <1>3
<1>7. RingOK(r)
  <2>1. r.head \in 0..r.size-1 /\ r.load \in 0..r.size
    BY <1>1, <1>2
  <2>2. r.tail = Slot(r, r.load)
    BY <1>1, <1>2, <1>3
  <2> QED BY <2>1, <2>2, <1>1, <1>2, <1>4, <1>6 DEF RingOK
<1>8. Contents(r) = Contents(q)
  <2>1. \A i \in 1..q.load : i - 1 \in 0..q.load-1
    BY <1>2
  <2> QED BY <2>1, <1>1, <1>6 DEF Contents
<1> QED BY <1>5, <1>7, <1>8 DEF r
=============================================================================
