--------------------------- MODULE InsertionOrder ---------------------------
(***************************************************************************)
(* What TokenLifecycleManager expects of its insertion-order buffer: a     *)
(* bounded first-in first-out queue from whose middle an element can be    *)
(* withdrawn.  StaticCircularBuffer implements it.                         *)
(***************************************************************************)
EXTENDS Fifo

CONSTANTS
  N,         \* the capacity of the queue
  Elems      \* the elements that can be queued

VARIABLES
  queue,     \* the elements, oldest first
  result     \* the outcome of the last operation

vars == <<queue, result>>

\* Outcomes: an operation that reports nothing, Push's verdict, Pop's element.
Silent == [ok |-> TRUE, elems |-> <<>>]

Init == queue = <<>> /\ result = Silent

Push(x) ==
  /\ queue' = Pushed(queue, N, x)
  /\ result' = [ok |-> Len(queue) < N, elems |-> <<>>]

Pop ==
  \/ /\ queue # <<>>
     /\ queue' = Tail(queue)
     /\ result' = [ok |-> TRUE, elems |-> <<Head(queue)>>]
  \/ /\ queue = <<>>
     /\ result' = [ok |-> FALSE, elems |-> <<>>]
     /\ UNCHANGED queue

Remove(x) ==
  /\ queue' = Without(queue, {x})
  /\ result' = Silent

Next == Pop \/ \E x \in Elems : Push(x) \/ Remove(x)

Spec == Init /\ [][Next]_vars
=============================================================================
