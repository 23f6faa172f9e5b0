----------------------------- MODULE FifoQueue ------------------------------
(***************************************************************************)
(* What the hand-off between the two threads promises: a bounded sequence  *)
(* from which elements leave in the order they entered, each once.         *)
(***************************************************************************)
EXTENDS Naturals, Sequences

CONSTANTS Capacity, Values

VARIABLES
  queue,
  delivered   \* by the last pop that returned something

vars == <<queue, delivered>>

Init == queue = <<>>

Push(v) == Len(queue) < Capacity /\ queue' = Append(queue, v) /\ UNCHANGED delivered
Pop == queue # <<>> /\ delivered' = Head(queue) /\ queue' = Tail(queue)

Next == Pop \/ \E v \in Values : Push(v)

Spec == Init /\ [][Next]_vars
=============================================================================
