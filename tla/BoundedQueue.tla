---------------------------- MODULE BoundedQueue ----------------------------
(* What a buffer promises: a queue of at most Capacity elements. *)
EXTENDS Naturals, Sequences

CONSTANTS Capacity, Elem

VARIABLE queue

Init == queue = <<>>

Put(e) == Len(queue) < Capacity /\ queue' = Append(queue, e)

Get == queue # <<>> /\ queue' = Tail(queue)

Next == Get \/ \E e \in Elem : Put(e)

Spec == Init /\ [][Next]_queue
=============================================================================
