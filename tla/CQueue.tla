------------------------------- MODULE CQueue -------------------------------
(***************************************************************************)
(* The circular queue of synaptix/utils/cqueue: a buffer of len elements,  *)
(* two indices and a count.  The operations are operators on a queue, a    *)
(* record with the fields of CQueue_t, so that the modules of its users    *)
(* can apply them to theirs; the actions below are one caller's sequence   *)
(* of calls.  A queue has no lock: its callers are one task.               *)
(***************************************************************************)
EXTENDS Naturals

CONSTANTS
  Item,     (* what the elements hold                                      *)
  Length,   (* len: the number of elements the buffer can hold             *)
  NoItem    (* the content of an element never written                     *)

ASSUME LengthAssumption == Length \in Nat \ {0}

VARIABLES
  queue,    (* the CQueue_t                                                *)
  answer    (* what the last call returned, and the item it delivered      *)

vars == <<queue, answer>>

(* cqueue_init_static.                                                     *)
Fresh == [buff |-> [i \in 0..Length - 1 |-> NoItem], head |-> 0, tail |-> 0, count |-> 0]

IsEmpty(q) == q.count = 0

(* Mutant: one element is kept free.                                       *)
IsFullEarly(q) == q.count + 1 = Length

IsFull(q) == q.count = Length

Front(q) == q.buff[q.tail]

(* Mutant: the index wraps one element late.                               *)
ReceivedLateWrap(q) ==
  [q EXCEPT !.tail = (q.tail + 1) % (Length + 1), !.count = q.count - 1]

(* The queue after an item has been taken.                                 *)
Received(q) ==
  [q EXCEPT !.tail = (q.tail + 1) % Length, !.count = q.count - 1]

(* Mutant: the count is not kept.                                          *)
SentUncounted(q, item) ==
  [q EXCEPT !.buff = [q.buff EXCEPT ![q.head] = item],
            !.head = (q.head + 1) % Length]

(* The queue after an item has been added.                                 *)
Sent(q, item) ==
  [q EXCEPT !.buff = [q.buff EXCEPT ![q.head] = item],
            !.head = (q.head + 1) % Length,
            !.count = q.count + 1]

-----------------------------------------------------------------------------
Answer(ok, item) == answer' = [ok |-> ok, item |-> item]

Send(item) ==
  \/ ~IsFull(queue) /\ queue' = Sent(queue, item) /\ Answer(TRUE, NoItem)
  \/ IsFull(queue) /\ UNCHANGED queue /\ Answer(FALSE, NoItem)

Receive ==
  \/ ~IsEmpty(queue) /\ queue' = Received(queue) /\ Answer(TRUE, Front(queue))
  \/ IsEmpty(queue) /\ UNCHANGED queue /\ Answer(FALSE, NoItem)

Init == queue = Fresh /\ answer = [ok |-> TRUE, item |-> NoItem]

Next == Receive \/ \E item \in Item : Send(item)

Spec == Init /\ [][Next]_vars

-----------------------------------------------------------------------------
(* Properties.                                                             *)

(* The type of a queue: its indices are inside its buffer.                 *)
Queues ==
  [buff : [0..Length - 1 -> Item \cup {NoItem}],
   head : 0..Length - 1, tail : 0..Length - 1, count : 0..Length]

TypeOK == queue \in Queues

(* The count and the two indices say the same: head is count elements      *)
(* after tail (cqueue.c 28-50, three fields written one by one).           *)
Agree(q) == q.head = (q.tail + q.count) % Length

IndicesAgree == Agree(queue)

(* The items that wait, oldest first.                                      *)
Contents(q) == [i \in 1..q.count |-> q.buff[(q.tail + i - 1) % Length]]

(* A circular queue is a bounded FIFO of its whole buffer: nothing is      *)
(* lost, doubled or reordered across any number of wrap-arounds, all       *)
(* Length elements can be used, and a call fails exactly when the queue is *)
(* full or empty (cqueue.c 28-56).                                         *)
Fifo ==
  INSTANCE BoundedFifo WITH items <- Contents(queue)

IsFifo == Fifo!Spec
=============================================================================
