---------------------------- MODULE BoundedFifo ----------------------------
(***************************************************************************)
(* What a bounded queue promises its callers (cqueue.h): items come out    *)
(* once and in the order they went in, a send is refused exactly when Len  *)
(* items wait, and a receive exactly when none does.                       *)
(***************************************************************************)
EXTENDS Naturals, Sequences

CONSTANTS Item, Length, NoItem

VARIABLES items, answer

Init == items = <<>> /\ answer = [ok |-> TRUE, item |-> NoItem]

Send(item) ==
  \/ /\ Len(items) < Length /\ items' = Append(items, item)
     /\ answer' = [ok |-> TRUE, item |-> NoItem]
  \/ /\ Len(items) = Length /\ UNCHANGED items
     /\ answer' = [ok |-> FALSE, item |-> NoItem]

Receive ==
  \/ /\ items # <<>> /\ items' = Tail(items)
     /\ answer' = [ok |-> TRUE, item |-> Head(items)]
  \/ /\ items = <<>> /\ UNCHANGED items
     /\ answer' = [ok |-> FALSE, item |-> NoItem]

Next == Receive \/ \E item \in Item : Send(item)

Spec == Init /\ [][Next]_<<items, answer>>
=============================================================================
