-------------------------------- MODULE Fifo --------------------------------
(***************************************************************************)
(* Operators on the queue of slot indices that TokenLifecycleManager keeps *)
(* in its StaticCircularBuffer, seen as a sequence, oldest entry first.    *)
(* The module declares no variable: InsertionOrder states the queue as a   *)
(* specification, StaticCircularBuffer implements it with a ring, and      *)
(* TokenLifecycleManager uses the operators directly.                      *)
(*                                                                         *)
(* Without is defined through an increasing enumeration of the positions   *)
(* that stay, not with SelectSeq, so that its properties can be proved     *)
(* (Fifo_proofs) without an induction over sequences.  The ring does not   *)
(* use it: that its compaction amounts to Without is part of what is shown *)
(* of it (StaticCircularBuffer_proofs).                                    *)
(***************************************************************************)
EXTENDS Integers, Sequences, FiniteSets

\* The increasing enumeration of a finite set of integers.
Ascending(S) ==
  CHOOSE e \in [1 .. Cardinality(S) -> S] :
    \A i, j \in 1 .. Cardinality(S) : i < j => e[i] < e[j]

\* StaticCircularBuffer::Remove: the queue q without any element of D, the
\* others in their order.
Without(q, D) ==
  LET kept == {i \in DOMAIN q : q[i] \notin D}
  IN  [j \in 1 .. Cardinality(kept) |-> q[Ascending(kept)[j]]]

\* Mutant: a new element queues in front.
PushedInFront(q, capacity, x) == IF Len(q) < capacity THEN <<x>> \o q ELSE q

\* StaticCircularBuffer::Push: a full buffer refuses the element.
Pushed(q, capacity, x) == IF Len(q) < capacity THEN Append(q, x) ELSE q

\* The elements of a queue, and whether each of them occurs once.
Elements(q) == {q[i] : i \in DOMAIN q}
Distinct(q) == \A i, j \in DOMAIN q : q[i] = q[j] => i = j
=============================================================================
