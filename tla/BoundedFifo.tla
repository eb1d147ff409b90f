---------------------------- MODULE BoundedFifo ----------------------------
(***************************************************************************)
(* What the queues of swoole promise: elements leave in the order they     *)
(* came, none is lost, changed or delivered twice, and there are never     *)
(* more than Capacity of them.                                             *)
(***************************************************************************)
EXTENDS Naturals, Sequences

CONSTANTS Elements, Capacity

VARIABLE items

Init == items = <<>>

Put == /\ Len(items) < Capacity
       /\ \E x \in Elements : items' = Append(items, x)

Take == items # <<>> /\ items' = Tail(items)

Next == Put \/ Take

Spec == Init /\ [][Next]_items
=============================================================================
