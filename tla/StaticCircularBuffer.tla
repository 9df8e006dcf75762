------------------------ MODULE StaticCircularBuffer ------------------------
(***************************************************************************)
(* The ring StaticCircularBuffer<N> of TokenLifecycleManager.hpp: storage, *)
(* read and write index and element count, with its three operations.  It  *)
(* implements InsertionOrder under the mapping Contents.                   *)
(***************************************************************************)
EXTENDS Integers, Sequences, FiniteSets

CONSTANTS
  N,         \* template parameter: the capacity
  Elems      \* the indices callers queue, 0 .. N-1 in TokenLifecycleManager

ASSUME RingAssumption == N \in Nat \ {0} /\ 0 \in Elems

VARIABLES
  buf_,      \* [0 .. N-1 -> Elems]
  head_,     \* read index
  tail_,     \* write index
  count_,    \* number of valid elements
  result     \* what the last operation returned

vars == <<buf_, head_, tail_, count_, result>>

Cells == 0 .. (N - 1)

Silent == [ok |-> TRUE, elems |-> <<>>]

TypeOK ==
  /\ buf_ \in [Cells -> Elems]
  /\ head_ \in Cells
  /\ tail_ \in Cells
  /\ count_ \in 0 .. N
  /\ result \in [ok : BOOLEAN, elems : Seq(Elems)]

Init ==
  /\ buf_ = [c \in Cells |-> 0]
  /\ head_ = 0
  /\ tail_ = 0
  /\ count_ = 0
  /\ result = Silent

\* Mutant: the write index does not wrap.
PushUnwrapped(x) ==
  /\ count_ < N
  /\ buf_' = [buf_ EXCEPT ![tail_] = x]
  /\ tail_' = tail_ + 1
  /\ count_' = count_ + 1
  /\ result' = Silent
  /\ UNCHANGED head_

Push(x) ==
  \/ /\ count_ < N
     /\ buf_' = [buf_ EXCEPT ![tail_] = x]
     /\ tail_' = (tail_ + 1) % N
     /\ count_' = count_ + 1
     /\ result' = Silent
     /\ UNCHANGED head_
  \/ /\ count_ = N
     /\ result' = [ok |-> FALSE, elems |-> <<>>]
     /\ UNCHANGED <<buf_, head_, tail_, count_>>

Pop ==
  \/ /\ count_ > 0
     /\ result' = [ok |-> TRUE, elems |-> <<buf_[head_]>>]
     /\ head_' = (head_ + 1) % N
     /\ count_' = count_ - 1
     /\ UNCHANGED <<buf_, tail_>>
  \/ /\ count_ = 0
     /\ result' = [ok |-> FALSE, elems |-> <<>>]
     /\ UNCHANGED <<buf_, head_, tail_, count_>>

\* The valid elements, oldest first.
Contents == [i \in 1 .. count_ |-> buf_[(head_ + i - 1) % N]]

\* The cell of temp that the loop of Remove copies position i to, when it keeps
\* the positions in kept: one cell for each position kept before.
Target(kept, i) == Cardinality({j \in kept : j < i})

\* What that loop leaves in temp, which starts out zeroed.
Compacted(q, kept) ==
  [c \in Cells |-> IF \E i \in kept : Target(kept, i) = c
                   THEN q[CHOOSE i \in kept : Target(kept, i) = c]
                   ELSE 0]

\* Mutant: the compaction forgets to restart the read index.
RemoveKeepingHead(x) ==
  LET kept == {i \in 1 .. count_ : Contents[i] # x} IN
  /\ buf_' = Compacted(Contents, kept)
  /\ tail_' = Cardinality(kept) % N
  /\ count_' = Cardinality(kept)
  /\ result' = Silent
  /\ UNCHANGED head_

\* Mutant: the copy starts at cell 0, not at the read index.
RemoveFromCellZero(x) ==
  LET kept == {i \in 1 .. count_ : buf_[i - 1] # x} IN
  /\ buf_' = Compacted([i \in 1 .. count_ |-> buf_[i - 1]], kept)
  /\ head_' = 0
  /\ tail_' = Cardinality(kept) % N
  /\ count_' = Cardinality(kept)
  /\ result' = Silent

\* The compaction copies what stays to the front of a zeroed array and starts
\* the ring again at index 0; tail_ wraps to 0 when everything of a full
\* buffer stays.
Remove(x) ==
  LET kept == {i \in 1 .. count_ : Contents[i] # x} IN
  /\ buf_' = Compacted(Contents, kept)
  /\ head_' = 0
  /\ tail_' = Cardinality(kept) % N
  /\ count_' = Cardinality(kept)
  /\ result' = Silent

Next == Pop \/ \E x \in Elems : Push(x) \/ Remove(x)

Spec == Init /\ [][Next]_vars

-----------------------------------------------------------------------------
\* The write index is always count_ cells after the read index, through every
\* wrap-around and compaction: Push (hpp:186-193) overwrites no queued index.
IndicesConsistent == tail_ = (head_ + count_) % N

\* The ring is a bounded FIFO queue with withdrawal: Pop returns the oldest
\* index, and Remove (hpp:217-233) leaves the order of the others alone.
Abstract == INSTANCE InsertionOrder WITH queue <- Contents
ImplementsInsertionOrder == Abstract!Spec
=============================================================================
