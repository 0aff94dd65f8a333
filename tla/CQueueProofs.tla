---------------------------- MODULE CQueueProofs ----------------------------
(***************************************************************************)
(* Machine-checked proof that the circular queue is a bounded FIFO, for    *)
(* every length and every set of items.                                    *)
(***************************************************************************)
EXTENDS CQueue, Sequences, SequenceTheorems, TLAPS

USE LengthAssumption

(* An index less than two lengths wraps at most once.                      *)
LEMMA Wrap ==
  ASSUME NEW x \in Nat, x < Length + Length
  PROVE  x % Length = IF x < Length THEN x ELSE x - Length
<1>1. CASE x < Length
  BY <1>1
<1>2. CASE ~(x < Length)
  BY <1>2
<1> QED BY <1>1, <1>2

(* One more step from an index that may have wrapped, before or after.     *)
LEMMA WrapNext ==
  ASSUME NEW t \in Nat, t < Length, NEW c \in Nat, c < Length
  PROVE  /\ (((t + c) % Length) + 1) % Length = (t + (c + 1)) % Length
         /\ (((t + 1) % Length) + c) % Length = (t + (c + 1)) % Length
<1> DEFINE W(x) == IF x < Length THEN x ELSE x - Length
<1>1. (t + c) % Length = W(t + c)
  <2>1. t + c \in Nat /\ t + c < Length + Length
    OBVIOUS
  <2> QED BY <2>1, Wrap
<1>2. (t + 1) % Length = W(t + 1)
  <2>1. t + 1 \in Nat /\ t + 1 < Length + Length
    OBVIOUS
  <2> QED BY <2>1, Wrap
<1>3. (t + (c + 1)) % Length = W(t + (c + 1))
  <2>1. t + (c + 1) \in Nat /\ t + (c + 1) < Length + Length
    OBVIOUS
  <2> QED BY <2>1, Wrap
<1>4. (W(t + c) + 1) % Length = W(W(t + c) + 1)
  <2>1. W(t + c) \in Nat /\ W(t + c) + 1 < Length + Length
    OBVIOUS
  <2> HIDE DEF W
  <2>2. (W(t + c) + 1) % Length =
          IF W(t + c) + 1 < Length THEN W(t + c) + 1 ELSE W(t + c) + 1 - Length
    BY <2>1, Wrap
  <2> QED BY <2>2 DEF W
<1>5. (W(t + 1) + c) % Length = W(W(t + 1) + c)
  <2>1. W(t + 1) \in Nat /\ W(t + 1) + c < Length + Length
    OBVIOUS
  <2> HIDE DEF W
  <2>2. (W(t + 1) + c) % Length =
          IF W(t + 1) + c < Length THEN W(t + 1) + c ELSE W(t + 1) + c - Length
    BY <2>1, Wrap
  <2> QED BY <2>2 DEF W
<1>6. W(W(t + c) + 1) = W(t + (c + 1)) /\ W(W(t + 1) + c) = W(t + (c + 1))
  OBVIOUS
<1> HIDE DEF W
<1> QED BY <1>1, <1>2, <1>3, <1>4, <1>5, <1>6

(* Fewer than Length elements apart is another element.                    *)
LEMMA WrapApart ==
  ASSUME NEW t \in Nat, t < Length, NEW c \in Nat, c < Length, NEW d \in Nat, d < c
  PROVE  (t + d) % Length # (t + c) % Length
<1>1. t + d \in Nat /\ t + d < Length + Length /\ t + c \in Nat /\ t + c < Length + Length
  OBVIOUS
<1>2. (t + d) % Length = IF t + d < Length THEN t + d ELSE t + d - Length
  BY <1>1, Wrap
<1>3. (t + c) % Length = IF t + c < Length THEN t + c ELSE t + c - Length
  BY <1>1, Wrap
<1> QED BY <1>2, <1>3

(* The fields of a queue, one by one.                                      *)
LEMMA Fields ==
  ASSUME NEW q \in Queues
  PROVE  /\ q.buff \in [0..Length - 1 -> Item \cup {NoItem}]
         /\ q.head \in Nat /\ q.head < Length
         /\ q.tail \in Nat /\ q.tail < Length
         /\ q.count \in Nat /\ q.count <= Length
         /\ q = [buff |-> q.buff, head |-> q.head, tail |-> q.tail, count |-> q.count]
BY DEF Queues

(* The fields after a send.                                                *)
LEMMA SentFields ==
  ASSUME NEW q \in Queues, NEW item \in Item
  PROVE  /\ Sent(q, item).buff = [q.buff EXCEPT ![q.head] = item]
         /\ Sent(q, item).head = (q.head + 1) % Length
         /\ Sent(q, item).tail = q.tail
         /\ Sent(q, item).count = q.count + 1
BY DEF Sent, Queues

(* The fields after a receive.                                             *)
LEMMA ReceivedFields ==
  ASSUME NEW q \in Queues
  PROVE  /\ Received(q).buff = q.buff
         /\ Received(q).head = q.head
         /\ Received(q).tail = (q.tail + 1) % Length
         /\ Received(q).count = q.count - 1
BY DEF Received, Queues

(* A send keeps the type and the agreement of the indices.                 *)
LEMMA SentKeeps ==
  ASSUME NEW q \in Queues, NEW item \in Item, Agree(q), ~IsFull(q)
  PROVE  Sent(q, item) \in Queues /\ Agree(Sent(q, item))
<1>1. (q.head + 1) % Length \in 0..Length - 1
  BY Fields
<1>2. q.count + 1 \in 0..Length
  BY Fields DEF IsFull
<1>3. [q.buff EXCEPT ![q.head] = item] \in [0..Length - 1 -> Item \cup {NoItem}]
  BY Fields
<1>4. Sent(q, item) \in Queues
  BY <1>1, <1>2, <1>3 DEF Sent, Queues
<1>5. (q.head + 1) % Length = (q.tail + (q.count + 1)) % Length
  <2>1. q.tail \in Nat /\ q.tail < Length /\ q.count \in Nat /\ q.count < Length
    BY Fields DEF IsFull
  <2> QED BY <2>1, WrapNext DEF Agree
<1> QED BY <1>4, <1>5, SentFields DEF Agree

(* So does a receive.                                                      *)
LEMMA ReceivedKeeps ==
  ASSUME NEW q \in Queues, Agree(q), ~IsEmpty(q)
  PROVE  Received(q) \in Queues /\ Agree(Received(q))
<1>1. (q.tail + 1) % Length \in 0..Length - 1
  BY Fields
<1>2. q.count - 1 \in 0..Length
  BY Fields DEF IsEmpty
<1>3. Received(q) \in Queues
  BY <1>1, <1>2 DEF Received, Queues
<1>4. q.head = (((q.tail + 1) % Length) + (q.count - 1)) % Length
  <2>1. q.tail \in Nat /\ q.tail < Length /\ q.count - 1 \in Nat /\ q.count - 1 < Length
    BY Fields DEF IsEmpty
  <2>2. (((q.tail + 1) % Length) + (q.count - 1)) % Length = (q.tail + (q.count - 1 + 1)) % Length
    BY <2>1, WrapNext
  <2>3. q.count - 1 + 1 = q.count
    BY Fields
  <2> QED BY <2>2, <2>3 DEF Agree
<1> QED BY <1>3, <1>4, ReceivedFields DEF Agree

(* The items that wait form a sequence as long as the count says.          *)
LEMMA ContentsSeq ==
  ASSUME NEW q \in Queues
  PROVE  /\ Contents(q) \in Seq(Item \cup {NoItem})
         /\ Len(Contents(q)) = q.count
         /\ \A i \in 1..q.count : Contents(q)[i] = q.buff[(q.tail + i - 1) % Length]
<1>1. ASSUME NEW i \in 1..q.count
      PROVE  q.buff[(q.tail + i - 1) % Length] \in Item \cup {NoItem}
  <2>1. q.tail + i - 1 \in Nat
    BY Fields
  <2>2. (q.tail + i - 1) % Length \in 0..Length - 1
    BY <2>1
  <2> QED BY <2>2, Fields
<1>2. q.count \in Nat
  BY Fields
<1> QED BY <1>1, <1>2 DEF Contents

(* A send appends.                                                         *)
LEMMA SentAppends ==
  ASSUME NEW q \in Queues, NEW item \in Item, Agree(q), ~IsFull(q)
  PROVE  Contents(Sent(q, item)) = Append(Contents(q), item)
<1> DEFINE r == Sent(q, item)
<1>1. r \in Queues /\ r.tail = q.tail /\ r.count = q.count + 1
      /\ r.buff = [q.buff EXCEPT ![q.head] = item]
  BY SentKeeps, SentFields
<1>2. /\ q.tail \in Nat /\ q.tail < Length /\ q.count \in Nat /\ q.count < Length
      /\ q.buff \in [0..Length - 1 -> Item \cup {NoItem}]
  BY Fields DEF IsFull
<1>3. ASSUME NEW i \in 1..q.count
      PROVE  r.buff[(q.tail + i - 1) % Length] = q.buff[(q.tail + i - 1) % Length]
  <2>1. i - 1 \in Nat /\ i - 1 < q.count
    BY <1>2
  <2>2. (q.tail + (i - 1)) % Length # (q.tail + q.count) % Length
    BY <2>1, <1>2, WrapApart
  <2>3. q.tail + (i - 1) = q.tail + i - 1
    BY <2>1, <1>2
  <2>5. (q.tail + i - 1) % Length # q.head
    BY <2>2, <2>3 DEF Agree
  <2>6. (q.tail + (i - 1)) % Length \in 0..Length - 1
    BY <2>1, <1>2
  <2> QED BY <1>1, <1>2, <2>3, <2>5, <2>6
<1>4. r.buff[(q.tail + (q.count + 1) - 1) % Length] = item
  <2>1. q.tail + (q.count + 1) - 1 = q.tail + q.count
    BY <1>2
  <2>2. (q.tail + q.count) % Length \in 0..Length - 1
    BY <1>2
  <2> QED BY <1>1, <1>2, <2>1, <2>2 DEF Agree
<1> HIDE DEF r
<1>5. ASSUME NEW i \in 1..q.count + 1
      PROVE  r.buff[(q.tail + i - 1) % Length] = Append(Contents(q), item)[i]
  <2>1. CASE i \in 1..q.count
    BY <2>1, <1>3, ContentsSeq, AppendProperties
  <2>2. CASE i = q.count + 1
    BY <2>2, <1>4, ContentsSeq, AppendProperties
  <2>3. i \in 1..q.count \/ i = q.count + 1
    BY <1>2
  <2> QED BY <2>1, <2>2, <2>3
<1>6. /\ Contents(r) \in Seq(Item \cup {NoItem}) /\ Len(Contents(r)) = q.count + 1
      /\ \A i \in 1..q.count + 1 : Contents(r)[i] = Append(Contents(q), item)[i]
  <2>1. /\ Contents(r) \in Seq(Item \cup {NoItem}) /\ Len(Contents(r)) = r.count
        /\ \A i \in 1..r.count : Contents(r)[i] = r.buff[(r.tail + i - 1) % Length]
    BY <1>1, ContentsSeq
  <2> QED BY <1>1, <1>5, <2>1
<1>7. Append(Contents(q), item) \in Seq(Item \cup {NoItem})
      /\ Len(Append(Contents(q), item)) = q.count + 1
  BY ContentsSeq, AppendProperties
<1>8. Contents(r) = Append(Contents(q), item)
  BY <1>6, <1>7, SeqEqual
<1> QED BY <1>8 DEF r

(* A receive delivers the head and leaves the tail.                        *)
LEMMA ReceivedTails ==
  ASSUME NEW q \in Queues, Agree(q), ~IsEmpty(q)
  PROVE  /\ Contents(q) # <<>>
         /\ Front(q) = Head(Contents(q))
         /\ Contents(Received(q)) = Tail(Contents(q))
<1> DEFINE r == Received(q)
<1>1. r \in Queues /\ r.tail = (q.tail + 1) % Length /\ r.count = q.count - 1 /\ r.buff = q.buff
  BY ReceivedKeeps, ReceivedFields
<1>2. q.tail \in Nat /\ q.tail < Length /\ q.count \in Nat /\ 1 <= q.count /\ q.count <= Length
  BY Fields DEF IsEmpty
<1>3. Contents(q) # <<>>
  BY <1>2, ContentsSeq
<1>4. Front(q) = Head(Contents(q))
  <2>1. (q.tail + 1 - 1) % Length = q.tail
    BY <1>2
  <2>2. Contents(q)[1] = q.buff[(q.tail + 1 - 1) % Length]
    BY <1>2, ContentsSeq
  <2> QED BY <2>1, <2>2, <1>3, ContentsSeq DEF Front
<1>5. ASSUME NEW i \in 1..q.count - 1
      PROVE  (r.tail + i - 1) % Length = (q.tail + (i + 1) - 1) % Length
  <2>1. i - 1 \in Nat /\ i - 1 < Length
    BY <1>2
  <2>2. (((q.tail + 1) % Length) + (i - 1)) % Length = (q.tail + (i - 1 + 1)) % Length
    BY <2>1, <1>2, WrapNext
  <2>3. r.tail \in Nat
    BY <1>1, Fields
  <2>4. r.tail + i - 1 = r.tail + (i - 1) /\ q.tail + (i + 1) - 1 = q.tail + (i - 1 + 1)
    BY <2>3, <1>2
  <2> QED BY <1>1, <2>2, <2>4
<1> HIDE DEF r
<1>6. Tail(Contents(q)) \in Seq(Item \cup {NoItem}) /\ Len(Tail(Contents(q))) = q.count - 1
      /\ \A i \in 1..q.count - 1 : Tail(Contents(q))[i] = Contents(q)[i + 1]
  BY <1>2, <1>3, ContentsSeq, HeadTailProperties
<1>7. ASSUME NEW i \in 1..q.count - 1
      PROVE  Tail(Contents(q))[i] = r.buff[(r.tail + i - 1) % Length]
  <2>1. i + 1 \in 1..q.count
    BY <1>2
  <2>2. Contents(q)[i + 1] = q.buff[(q.tail + (i + 1) - 1) % Length]
    BY <2>1, ContentsSeq
  <2> QED BY <1>1, <1>5, <1>6, <2>2
<1>8. /\ Contents(r) \in Seq(Item \cup {NoItem}) /\ Len(Contents(r)) = q.count - 1
      /\ \A i \in 1..q.count - 1 : Contents(r)[i] = Tail(Contents(q))[i]
  BY <1>1, <1>7, ContentsSeq
<1>9. Contents(r) = Tail(Contents(q))
  BY <1>6, <1>8, SeqEqual
<1> QED BY <1>3, <1>4, <1>9 DEF r

(* The indices stay inside the buffer and agree with the count, across any *)
(* number of wrap-arounds (cqueue.c 28-50).                                *)
THEOREM IndicesCorrect == Spec => [](TypeOK /\ IndicesAgree)
<1>1. Init => TypeOK /\ IndicesAgree
  <2> SUFFICES ASSUME queue = Fresh
               PROVE  TypeOK /\ IndicesAgree
    BY DEF Init
  <2>1. Fresh \in Queues
    BY DEF Fresh, Queues
  <2>2. Fresh.head = 0 /\ Fresh.tail = 0 /\ Fresh.count = 0 /\ 0 + 0 = 0 /\ 0 % Length = 0
    BY DEF Fresh
  <2> QED BY <2>1, <2>2 DEF TypeOK, IndicesAgree, Agree
<1>2. TypeOK /\ IndicesAgree /\ [Next]_vars => (TypeOK /\ IndicesAgree)'
  <2> SUFFICES ASSUME queue \in Queues, Agree(queue), [Next]_vars
               PROVE  queue' \in Queues /\ Agree(queue')
    BY DEF TypeOK, IndicesAgree, Agree
  <2>1. ASSUME NEW item \in Item, Send(item)
        PROVE  queue' \in Queues /\ Agree(queue')
    BY <2>1, SentKeeps DEF Send
  <2>2. CASE Receive
    BY <2>2, ReceivedKeeps DEF Receive
  <2>3. CASE UNCHANGED vars
    BY <2>3 DEF vars
  <2> QED BY <2>1, <2>2, <2>3 DEF Next
<1> QED BY <1>1, <1>2, PTL DEF Spec

(* The count never exceeds the buffer and both indices stay inside it      *)
(* (cqueue.c 28-50).                                                       *)
THEOREM TypeCorrect == Spec => []TypeOK
BY IndicesCorrect, PTL

(* The circular queue implements the bounded FIFO: every call does what    *)
(* the FIFO's does, and returns what it returns (cqueue.c 28-56).          *)
THEOREM QueueIsFifo == Spec => IsFifo
<1>1. Init => Fifo!Init
  <2> SUFFICES ASSUME Init
               PROVE  Contents(queue) = <<>>
    BY DEF Init, Fifo!Init
  <2>1. queue.count = 0
    BY DEF Init, Fresh
  <2> QED BY <2>1 DEF Contents
<1>2. TypeOK /\ IndicesAgree /\ [Next]_vars => [Fifo!Next]_<<Contents(queue), answer>>
  <2> SUFFICES ASSUME queue \in Queues, Agree(queue), [Next]_vars
               PROVE  [Fifo!Next]_<<Contents(queue), answer>>
    BY DEF TypeOK, IndicesAgree
  <2>1. ASSUME NEW item \in Item, Send(item)
        PROVE  Fifo!Send(item)
    <3>1. CASE ~IsFull(queue)
      <4>1. Len(Contents(queue)) < Length
        BY <3>1, ContentsSeq, Fields DEF IsFull
      <4>2. queue' = Sent(queue, item) /\ answer' = [ok |-> TRUE, item |-> NoItem]
        BY <2>1, <3>1 DEF Send, Answer
      <4>3. Contents(queue)' = Append(Contents(queue), item)
        BY <3>1, <4>2, SentAppends
      <4> QED BY <4>1, <4>2, <4>3 DEF Fifo!Send
    <3>2. CASE IsFull(queue)
      <4>1. Len(Contents(queue)) = Length
        BY <3>2, ContentsSeq DEF IsFull
      <4> QED BY <2>1, <3>2, <4>1 DEF Send, Answer, Fifo!Send
    <3> QED BY <3>1, <3>2
  <2>2. CASE Receive
    <3>1. CASE ~IsEmpty(queue)
      <4>1. queue' = Received(queue) /\ answer' = [ok |-> TRUE, item |-> Front(queue)]
        BY <2>2, <3>1 DEF Receive, Answer
      <4>2. Contents(queue)' = Tail(Contents(queue))
        BY <3>1, <4>1, ReceivedTails
      <4> QED BY <3>1, <4>1, <4>2, ReceivedTails DEF Fifo!Receive, Fifo!Next
    <3>2. CASE IsEmpty(queue)
      <4>1. Contents(queue) = <<>>
        BY <3>2, ContentsSeq, EmptySeq DEF IsEmpty
      <4> QED BY <2>2, <3>2, <4>1 DEF Receive, Answer, Fifo!Receive, Fifo!Next
    <3> QED BY <3>1, <3>2
  <2>3. CASE UNCHANGED vars
    BY <2>3 DEF vars
  <2> QED BY <2>1, <2>2, <2>3 DEF Next, Fifo!Next
<1> QED BY <1>1, <1>2, IndicesCorrect, PTL DEF Spec, IsFifo, Fifo!Spec
=============================================================================
