--------------------- MODULE StaticCircularBuffer_proofs ---------------------
(***************************************************************************)
(* Theorems about the ring, for every capacity: the indices agree with the *)
(* count, and the ring implements the queue of InsertionOrder.  Each       *)
(* operation is shown to do to Contents what that queue does, from two     *)
(* facts: cells at different distances from head_ differ, and the cell an  *)
(* element is compacted to is its place among those that stay.             *)
(***************************************************************************)
EXTENDS StaticCircularBuffer, Fifo_proofs

IInv == TypeOK /\ IndicesConsistent

-----------------------------------------------------------------------------
(* Indices modulo the capacity.                                            *)

\* Every index is a cell.
LEMMA IndexIsCell ==
  ASSUME NEW m \in Nat \ {0}
  PROVE  /\ \A k \in Int : k % m \in 0 .. m - 1
         /\ \A k \in 0 .. m - 1 : k % m = k
<1>1. \A k \in Int : k % m \in 0 .. m - 1
  OBVIOUS
<1>2. \A k \in 0 .. m - 1 : k % m = k
  OBVIOUS
<1> QED
  BY <1>1, <1>2

\* The cells at different distances from the read index are different.
LEMMA CellsApart ==
  ASSUME NEW m \in Nat \ {0}, NEW h \in 0 .. m - 1, NEW a \in 0 .. m - 1, NEW b \in 0 .. m - 1
  PROVE  (h + a) % m = (h + b) % m => a = b
<1>1. /\ (h + a) % m = IF h + a < m THEN h + a ELSE h + a - m
      /\ (h + b) % m = IF h + b < m THEN h + b ELSE h + b - m
  OBVIOUS
<1> QED
  BY <1>1

\* Advancing an index that is k cells after h.
LEMMA NextCell ==
  ASSUME NEW m \in Nat \ {0}, NEW h \in 0 .. m - 1, NEW k \in 0 .. m - 1
  PROVE  /\ (((h + k) % m) + 1) % m = (h + (k + 1)) % m
         /\ (((h + 1) % m) + k) % m = (h + (k + 1)) % m
<1>1. (h + (k + 1)) % m = IF h + (k + 1) < m THEN h + (k + 1) ELSE h + (k + 1) - m
  OBVIOUS
<1>2. (((h + 1) % m) + k) % m = (h + (k + 1)) % m
  <2>1. (h + 1) % m = IF h + 1 < m THEN h + 1 ELSE h + 1 - m
    OBVIOUS
  <2>2. CASE h + 1 = m
    <3>1. (h + 1) % m = 0 /\ k % m = k /\ 0 + k = k
      BY <2>1, <2>2
    <3>2. (h + (k + 1)) % m = k
      BY <1>1, <2>2
    <3> QED
      BY <3>1, <3>2
  <2>3. CASE h + 1 # m
    <3>1. (h + 1) % m = h + 1 /\ (h + 1) + k = h + (k + 1)
      BY <2>1, <2>3
    <3> QED
      BY <3>1
  <2> QED
    BY <2>2, <2>3
<1>3. (((h + k) % m) + 1) % m = (h + (k + 1)) % m
  <2> DEFINE j == (h + k) % m
  <2>1. j = IF h + k < m THEN h + k ELSE h + k - m
    OBVIOUS
  <2>2. j \in 0 .. m - 1
    BY <2>1
  <2> HIDE DEF j
  <2>3. (j + 1) % m = IF j + 1 < m THEN j + 1 ELSE j + 1 - m
    BY <2>2
  <2>4. (j + 1) % m = (h + (k + 1)) % m
    BY <1>1, <2>1, <2>3
  <2> QED
    BY <2>4 DEF j
<1> QED
  BY <1>2, <1>3

-----------------------------------------------------------------------------
(* The operators of the ring.                                              *)

\* What a ring of cells b holds in n cells from h on is a queue of n elements.
LEMMA WindowQueue ==
  ASSUME NEW b \in [Cells -> Elems], NEW h \in Cells, NEW n \in Nat
  PROVE  LET q == [i \in 1 .. n |-> b[(h + i - 1) % N]]
         IN  /\ q \in Seq(Elems)
             /\ Len(q) = n
             /\ \A i \in 1 .. n : q[i] = b[(h + (i - 1)) % N] /\ (h + (i - 1)) % N \in Cells
<1> DEFINE q == [i \in 1 .. n |-> b[(h + i - 1) % N]]
<1>1. N \in Nat \ {0} /\ h \in 0 .. N - 1 /\ Cells = 0 .. N - 1
  BY RingAssumption DEF Cells
<1>2. ASSUME NEW i \in 1 .. n
      PROVE  q[i] = b[(h + (i - 1)) % N] /\ (h + (i - 1)) % N \in Cells /\ q[i] \in Elems
  <2>1. h + (i - 1) \in Int /\ h + i - 1 = h + (i - 1)
    BY <1>1
  <2>2. (h + (i - 1)) % N \in Cells
    BY <1>1, <2>1, IndexIsCell
  <2> QED
    BY <2>1, <2>2
<1>3. q \in [1 .. n -> Elems]
  BY <1>2
<1>4. q \in Seq(Elems) /\ Len(q) = n
  <2> HIDE DEF q
  <2> QED
    BY <1>3
<1> QED
  BY <1>2, <1>4

\* The compaction leaves, in the first cells, the queue without D, in order,
\* and every cell filled with an element.
LEMMA CompactedIsWithout ==
  ASSUME NEW q \in Seq(Elems), Len(q) <= N, NEW D,
         NEW kept, kept = {i \in 1 .. Len(q) : q[i] \notin D}
  PROVE  /\ Cardinality(kept) \in 0 .. N
         /\ Compacted(q, kept) \in [Cells -> Elems]
         /\ \A c \in 0 .. Cardinality(kept) - 1 :
              Compacted(q, kept)[c] = Without(q, D)[c + 1]
<1> DEFINE n == Cardinality(kept)
           e == Ascending(kept)
           w == Without(q, D)
<1>1. N \in Nat \ {0} /\ Len(q) \in Nat /\ \A i \in 1 .. Len(q) : q[i] \in Elems
  BY RingAssumption
<1>2. kept \in SUBSET Int /\ kept \in SUBSET (1 .. Len(q)) /\ IsFiniteSet(kept) /\ n <= N
  <2>1. kept \in SUBSET (1 .. Len(q)) /\ kept \in SUBSET Int
    BY <1>1
  <2>2. IsFiniteSet(1 .. Len(q)) /\ Cardinality(1 .. Len(q)) = Len(q)
    <3>1. 1 \in Int /\ Len(q) \in Int /\ Len(q) \in Nat
      BY <1>1
    <3> QED
      BY <3>1, FS_Interval
  <2>3. IsFiniteSet(kept) /\ n <= Len(q)
    BY <2>1, <2>2, FS_Subset
  <2>4. n \in Nat
    BY <2>3, FS_CardinalityType
  <2> QED
    BY <1>1, <2>1, <2>3, <2>4
<1>3. /\ n \in Nat
      /\ e \in [1 .. n -> kept]
      /\ \A i \in kept : \E k \in 1 .. n : e[k] = i
  BY <1>2, AscendingEnumerates
<1>4. \A k \in 1 .. n : Target(kept, e[k]) = k - 1
  BY <1>2, AscendingCountsBefore DEF Target
<1>5. w = [k \in 1 .. n |-> q[e[k]]]
  <2>1. kept = {i \in DOMAIN q : q[i] \notin D}
    OBVIOUS
  <2> QED
    BY <2>1 DEF Without
<1> HIDE DEF n, e, w
<1>6. \A i \in 1 .. n : i - 1 \in Cells
  BY <1>1, <1>2, <1>3 DEF Cells
<1>7. ASSUME NEW c \in Cells
      PROVE  Compacted(q, kept)[c] \in Elems
  <2>1. CASE \E i \in kept : Target(kept, i) = c
    <3>1. (CHOOSE i \in kept : Target(kept, i) = c) \in kept
      BY <2>1
    <3>2. Compacted(q, kept)[c] = q[CHOOSE i \in kept : Target(kept, i) = c]
      BY <2>1 DEF Compacted
    <3> QED
      BY <1>1, <1>2, <3>1, <3>2
  <2>2. CASE ~ \E i \in kept : Target(kept, i) = c
    BY <2>2, RingAssumption DEF Compacted
  <2> QED
    BY <2>1, <2>2
<1>8. Compacted(q, kept) \in [Cells -> Elems]
  <2>1. Compacted(q, kept) = [c \in Cells |-> Compacted(q, kept)[c]]
    BY DEF Compacted
  <2> QED
    BY <1>7, <2>1
<1>9. ASSUME NEW i \in 1 .. n
      PROVE  Compacted(q, kept)[i - 1] = w[i]
  <2> DEFINE src == CHOOSE p \in kept : Target(kept, p) = i - 1
  <2>1. e[i] \in kept /\ Target(kept, e[i]) = i - 1
    BY <1>3, <1>4
  <2>2. src \in kept /\ Target(kept, src) = i - 1
    BY <2>1
  <2>3. Compacted(q, kept)[i - 1] = q[src]
    BY <1>6, <2>1 DEF Compacted
  <2> HIDE DEF src
  <2>4. PICK k \in 1 .. n : e[k] = src
    BY <1>3, <2>2
  <2>5. k - 1 = i - 1
    BY <1>4, <2>2, <2>4
  <2>6. k = i
    BY <1>3, <2>5
  <2> QED
    BY <1>5, <2>3, <2>4, <2>6
<1>10. n \in 0 .. N
  BY <1>1, <1>2, <1>3
<1>11. ASSUME NEW c \in 0 .. n - 1
       PROVE  Compacted(q, kept)[c] = w[c + 1]
  <2>1. c + 1 \in 1 .. n /\ (c + 1) - 1 = c
    BY <1>3
  <2> QED
    BY <1>9, <2>1
<1> QED
  BY <1>8, <1>10, <1>11 DEF n, w

-----------------------------------------------------------------------------
(* The invariant, and what each operation does to Contents.                *)

\* What an operation must do: keep the invariant, and turn the queue into q.
Yields(q) == IInv' /\ Contents' = q

LEMMA InitRing == Init => IInv /\ Contents = <<>>
<1> SUFFICES ASSUME Init PROVE IInv /\ Contents = <<>>
  OBVIOUS
<1>1. N \in Nat \ {0} /\ 0 \in Elems /\ 0 \in 0 .. N - 1 /\ 0 % N = 0
  BY RingAssumption
<1>2. Silent \in [ok : BOOLEAN, elems : Seq(Elems)]
  BY DEF Silent
<1>3. TypeOK /\ count_ = 0 /\ head_ = 0 /\ tail_ = 0
  BY <1>1, <1>2 DEF Init, TypeOK, Cells
<1>4. IndicesConsistent
  BY <1>1, <1>3 DEF IndicesConsistent
<1>5. Contents \in Seq(Elems) /\ Len(Contents) = 0
  BY <1>3, WindowQueue DEF TypeOK, Contents
<1> QED
  BY <1>3, <1>4, <1>5 DEF IInv

\* A push with room writes behind the last element and touches no other.
LEMMA PushStep ==
  ASSUME IInv, NEW x \in Elems, count_ < N, Push(x)
  PROVE  Yields(Append(Contents, x))
<1>1. /\ N \in Nat \ {0} /\ Cells = 0 .. N - 1
      /\ head_ \in 0 .. N - 1 /\ tail_ \in Cells /\ count_ \in 0 .. N - 1
      /\ buf_ \in [Cells -> Elems] /\ tail_ = (head_ + count_) % N
  BY RingAssumption DEF IInv, TypeOK, IndicesConsistent, Cells
<1>2. /\ buf_' = [buf_ EXCEPT ![tail_] = x] /\ tail_' = (tail_ + 1) % N
      /\ count_' = count_ + 1 /\ result' = Silent /\ head_' = head_
  BY <1>1 DEF Push
<1>3. buf_' \in [Cells -> Elems] /\ count_' \in 0 .. N /\ head_' \in Cells
  BY <1>1, <1>2
<1>4. tail_' \in Cells
  BY <1>1, <1>2, IndexIsCell
<1>5. result' \in [ok : BOOLEAN, elems : Seq(Elems)]
  BY <1>2 DEF Silent
<1>6. IndicesConsistent'
  <2>1. tail_' = (head_ + (count_ + 1)) % N
    BY <1>1, <1>2, NextCell
  <2> QED
    BY <1>2, <2>1 DEF IndicesConsistent
<1>7. TypeOK'
  BY <1>3, <1>4, <1>5 DEF TypeOK
<1>8. /\ Contents \in Seq(Elems) /\ Len(Contents) = count_
      /\ \A i \in 1 .. count_ :
           Contents[i] = buf_[(head_ + (i - 1)) % N] /\ (head_ + (i - 1)) % N \in Cells
  BY <1>1, WindowQueue DEF Cells, Contents
<1>9. /\ Contents' \in Seq(Elems) /\ Len(Contents') = count_ + 1
      /\ \A i \in 1 .. count_ + 1 : Contents'[i] = buf_'[(head_ + (i - 1)) % N]
  BY <1>1, <1>2, <1>7, WindowQueue DEF TypeOK, Contents
<1>10. \A i \in 1 .. count_ : Contents'[i] = Contents[i]
  <2> TAKE i \in 1 .. count_
  <2>1. i - 1 \in 0 .. N - 1 /\ i - 1 # count_ /\ i \in 1 .. count_ + 1
    BY <1>1
  <2>2. (head_ + (i - 1)) % N # tail_
    BY <1>1, <2>1, CellsApart
  <2> QED
    BY <1>1, <1>2, <1>8, <1>9, <2>1, <2>2
<1>11. Contents'[count_ + 1] = x
  <2>1. count_ + 1 \in 1 .. count_ + 1 /\ (count_ + 1) - 1 = count_
    BY <1>1
  <2>2. Contents'[count_ + 1] = buf_'[tail_]
    BY <1>1, <1>9, <2>1
  <2> QED
    BY <1>1, <1>2, <2>2
<1>12. Contents' = Append(Contents, x)
  BY <1>1, <1>8, <1>9, <1>10, <1>11
<1> QED
  BY <1>6, <1>7, <1>12 DEF Yields, IInv

\* A pop gives up the first element and reports it.
LEMMA PopStep ==
  ASSUME IInv, count_ > 0, Pop
  PROVE  /\ Contents # <<>>
         /\ Yields(Tail(Contents))
         /\ result' = [ok |-> TRUE, elems |-> <<Head(Contents)>>]
<1>1. /\ N \in Nat \ {0} /\ Cells = 0 .. N - 1
      /\ head_ \in 0 .. N - 1 /\ tail_ \in Cells /\ count_ \in 1 .. N
      /\ buf_ \in [Cells -> Elems] /\ tail_ = (head_ + count_) % N
  BY RingAssumption DEF IInv, TypeOK, IndicesConsistent, Cells
<1>2. /\ result' = [ok |-> TRUE, elems |-> <<buf_[head_]>>]
      /\ head_' = (head_ + 1) % N /\ count_' = count_ - 1
      /\ buf_' = buf_ /\ tail_' = tail_
  BY <1>1 DEF Pop
<1>3. buf_' \in [Cells -> Elems] /\ count_' \in 0 .. N /\ tail_' \in Cells
  BY <1>1, <1>2
<1>4. head_' \in Cells
  BY <1>1, <1>2, IndexIsCell
<1>5. result' \in [ok : BOOLEAN, elems : Seq(Elems)]
  BY <1>1, <1>2
<1>6. IndicesConsistent'
  <2>1. count_ - 1 \in 0 .. N - 1 /\ (count_ - 1) + 1 = count_
    BY <1>1
  <2>2. (((head_ + 1) % N) + (count_ - 1)) % N = (head_ + count_) % N
    BY <1>1, <2>1, NextCell
  <2> QED
    BY <1>1, <1>2, <2>2 DEF IndicesConsistent
<1>7. TypeOK'
  BY <1>3, <1>4, <1>5 DEF TypeOK
<1>8. /\ Contents \in Seq(Elems) /\ Len(Contents) = count_
      /\ \A i \in 1 .. count_ : Contents[i] = buf_[(head_ + (i - 1)) % N]
  BY <1>1, WindowQueue DEF Cells, Contents
<1>9. /\ Contents' \in Seq(Elems) /\ Len(Contents') = count_ - 1
      /\ \A i \in 1 .. count_ - 1 : Contents'[i] = buf_[(((head_ + 1) % N) + (i - 1)) % N]
  <2>1. Contents' = [i \in 1 .. count_ - 1 |-> buf_[(((head_ + 1) % N) + i - 1) % N]]
    BY <1>2 DEF Contents
  <2>2. count_ - 1 \in Nat /\ (head_ + 1) % N \in Cells
    BY <1>1, <1>2, <1>4
  <2> QED
    BY <1>1, <2>1, <2>2, WindowQueue
<1>10. \A i \in 1 .. count_ - 1 : Contents'[i] = Contents[i + 1]
  <2> TAKE i \in 1 .. count_ - 1
  <2>1. i - 1 \in 0 .. N - 1 /\ i + 1 \in 1 .. count_ /\ (i - 1) + 1 = (i + 1) - 1
    BY <1>1
  <2>2. (((head_ + 1) % N) + (i - 1)) % N = (head_ + ((i + 1) - 1)) % N
    BY <1>1, <2>1, NextCell
  <2> QED
    BY <1>8, <1>9, <2>1, <2>2
<1>11. Contents # <<>> /\ Head(Contents) = buf_[head_]
  <2>1. 1 \in 1 .. count_ /\ head_ + (1 - 1) = head_ /\ head_ % N = head_
    <3>1. head_ % N = head_
      BY <1>1, IndexIsCell
    <3> QED
      BY <1>1, <3>1
  <2>2. Contents[1] = buf_[head_]
    BY <1>8, <2>1
  <2> QED
    BY <1>1, <1>8, <2>2
<1>12. Contents' = Tail(Contents)
  BY <1>1, <1>8, <1>9, <1>10
<1> QED
  BY <1>2, <1>6, <1>7, <1>11, <1>12 DEF Yields, IInv

\* A removal compacts the others to the front.
LEMMA RemoveStep ==
  ASSUME IInv, NEW x \in Elems, Remove(x)
  PROVE  Yields(Without(Contents, {x})) /\ result' = Silent
<1> DEFINE D == {x}
           kept == {i \in 1 .. count_ : Contents[i] # x}
           n == Cardinality(kept)
           w == Without(Contents, D)
<1>1. /\ N \in Nat \ {0} /\ Cells = 0 .. N - 1 /\ count_ \in 0 .. N
      /\ Contents \in Seq(Elems) /\ Len(Contents) = count_
  BY RingAssumption, WindowQueue DEF IInv, TypeOK, Cells, Contents
<1>2. /\ buf_' = Compacted(Contents, kept) /\ head_' = 0 /\ tail_' = n % N
      /\ count_' = n /\ result' = Silent
  BY DEF Remove
<1>3. /\ n \in 0 .. N
      /\ Len(w) = n
      /\ Compacted(Contents, kept) \in [Cells -> Elems]
      /\ \A c \in 0 .. n - 1 : Compacted(Contents, kept)[c] = w[c + 1]
  <2>1. Len(Contents) <= N /\ kept = {i \in 1 .. Len(Contents) : Contents[i] \notin D}
    BY <1>1
  <2> HIDE DEF kept, D
  <2>2. n \in 0 .. N /\ Compacted(Contents, kept) \in [Cells -> Elems]
    BY <1>1, <2>1, CompactedIsWithout
  <2>3. Len(w) = n
    BY <1>1, <2>1, WithoutLength
  <2>4. ASSUME NEW c \in 0 .. n - 1
        PROVE  Compacted(Contents, kept)[c] = w[c + 1]
    BY <1>1, <2>1, CompactedIsWithout
  <2> QED
    BY <2>2, <2>3, <2>4
<1>4. w \in Seq(Elems)
  BY <1>1, WithoutElements
<1> HIDE DEF n, w, kept, D
<1>5. tail_' \in Cells /\ head_' \in Cells /\ 0 + n = n
  BY <1>1, <1>2, <1>3, IndexIsCell
<1>6. result' \in [ok : BOOLEAN, elems : Seq(Elems)]
  BY <1>2 DEF Silent
<1>7. TypeOK'
  BY <1>2, <1>3, <1>5, <1>6 DEF TypeOK
<1>8. IndicesConsistent'
  BY <1>2, <1>5 DEF IndicesConsistent
<1>9. /\ Contents' \in Seq(Elems) /\ Len(Contents') = n
      /\ \A i \in 1 .. n : Contents'[i] = buf_'[(0 + (i - 1)) % N]
  <2>1. Contents' = [i \in 1 .. n |-> buf_'[(0 + i - 1) % N]]
    BY <1>2 DEF Contents
  <2>2. buf_' \in [Cells -> Elems] /\ n \in Nat /\ 0 \in Cells
    BY <1>1, <1>2, <1>3, <1>5
  <2> QED
    BY <2>1, <2>2, WindowQueue
<1>10. \A i \in 1 .. n : Contents'[i] = w[i]
  <2> TAKE i \in 1 .. n
  <2>1. /\ i - 1 \in 0 .. N - 1 /\ i - 1 \in 0 .. n - 1
        /\ 0 + (i - 1) = i - 1 /\ (i - 1) + 1 = i
    BY <1>1, <1>3
  <2>2. (0 + (i - 1)) % N = i - 1
    BY <1>1, <2>1, IndexIsCell
  <2> QED
    BY <1>2, <1>3, <1>9, <2>1, <2>2
<1>11. Contents' = w
  BY <1>3, <1>4, <1>9, <1>10
<1> QED
  BY <1>2, <1>7, <1>8, <1>11 DEF Yields, IInv, w, D

-----------------------------------------------------------------------------
(* Every step of the ring is a step of the queue.                          *)

\* Without is the operator of the queue's specification.
LEMMA SameWithout == \A q, D : Abstract!Without(q, D) = Without(q, D)
<1>1. \A S : Abstract!Cardinality(S) = Cardinality(S)
  BY Zenon DEF Abstract!Cardinality, Cardinality
<1>2. \A S : Abstract!Ascending(S) = Ascending(S)
  BY <1>1, Zenon DEF Abstract!Ascending, Ascending
<1> QED
  BY <1>1, <1>2 DEF Abstract!Without, Without

\* A push that finds no room, a pop that finds nothing: the ring only says so.
LEMMA RefusedStep ==
  ASSUME IInv, UNCHANGED <<buf_, head_, tail_, count_>>,
         result' = [ok |-> FALSE, elems |-> <<>>]
  PROVE  Yields(Contents)
<1>1. TypeOK'
  BY DEF IInv, TypeOK
<1>2. IndicesConsistent' /\ Contents' = Contents
  BY DEF IInv, IndicesConsistent, Contents
<1> QED
  BY <1>1, <1>2 DEF Yields, IInv

LEMMA NextStep ==
  ASSUME IInv, Next
  PROVE  IInv' /\ Abstract!Next
<1>1. count_ \in 0 .. N /\ N \in Nat /\ Contents \in Seq(Elems) /\ Len(Contents) = count_
  <2>1. N \in Nat /\ count_ \in 0 .. N
    BY RingAssumption DEF IInv, TypeOK
  <2> QED
    BY <2>1, WindowQueue DEF IInv, TypeOK, Contents
<1>2. CASE Pop
  <2>1. CASE count_ > 0
    <3>1. /\ Contents # <<>> /\ IInv' /\ Contents' = Tail(Contents)
          /\ result' = [ok |-> TRUE, elems |-> <<Head(Contents)>>]
      BY <1>2, <2>1, PopStep DEF Yields
    <3> QED
      BY <3>1 DEF Abstract!Next, Abstract!Pop
  <2>2. CASE count_ = 0
    <3>1. UNCHANGED <<buf_, head_, tail_, count_>> /\ result' = [ok |-> FALSE, elems |-> <<>>]
      BY <1>2, <2>2 DEF Pop
    <3>2. IInv' /\ Contents' = Contents /\ Contents = <<>>
      BY <1>1, <2>2, <3>1, RefusedStep DEF Yields
    <3> QED
      BY <3>1, <3>2 DEF Abstract!Next, Abstract!Pop
  <2> QED
    BY <1>1, <2>1, <2>2
<1>3. ASSUME NEW x \in Elems, Push(x)
      PROVE  IInv' /\ Abstract!Next
  <2>1. CASE count_ < N
    <3>1. IInv' /\ Contents' = Append(Contents, x)
      BY <1>3, <2>1, PushStep DEF Yields
    <3>2. result' = [ok |-> TRUE, elems |-> <<>>]
      BY <1>1, <1>3, <2>1 DEF Push, Silent
    <3>3. Abstract!Push(x)
      BY <1>1, <2>1, <3>1, <3>2 DEF Abstract!Push, Abstract!Pushed
    <3> QED
      BY <3>1, <3>3 DEF Abstract!Next
  <2>2. CASE count_ = N
    <3>1. UNCHANGED <<buf_, head_, tail_, count_>> /\ result' = [ok |-> FALSE, elems |-> <<>>]
      BY <1>1, <1>3, <2>2 DEF Push
    <3>2. IInv' /\ Contents' = Contents
      BY <3>1, RefusedStep DEF Yields
    <3>3. (Len(Contents) < N) = FALSE
      BY <1>1, <2>2
    <3>4. Abstract!Push(x)
      BY <3>1, <3>2, <3>3, Zenon DEF Abstract!Push, Abstract!Pushed
    <3> QED
      BY <3>2, <3>4 DEF Abstract!Next
  <2> QED
    BY <1>1, <2>1, <2>2
<1>4. ASSUME NEW x \in Elems, Remove(x)
      PROVE  IInv' /\ Abstract!Next
  <2>1. IInv' /\ Contents' = Without(Contents, {x}) /\ result' = Silent
    BY <1>4, RemoveStep DEF Yields
  <2>2. Abstract!Remove(x)
    BY <2>1, SameWithout DEF Abstract!Remove, Abstract!Silent, Silent
  <2> QED
    BY <2>1, <2>2 DEF Abstract!Next
<1> QED
  BY <1>2, <1>3, <1>4 DEF Next

LEMMA StutterStep ==
  ASSUME IInv, UNCHANGED vars
  PROVE  IInv' /\ UNCHANGED Abstract!vars
<1>1. TypeOK' /\ IndicesConsistent'
  BY DEF IInv, TypeOK, IndicesConsistent, vars
<1>2. UNCHANGED Abstract!vars
  BY DEF vars, Abstract!vars, Contents
<1> QED
  BY <1>1, <1>2 DEF IInv

-----------------------------------------------------------------------------
(* Theorems.                                                               *)

\* The types and the relation of the indices hold in every reachable state.
THEOREM Invariance == Spec => []IInv
<1>1. Init => IInv
  BY InitRing
<1>2. IInv /\ [Next]_vars => IInv'
  BY NextStep, StutterStep
<1> QED
  BY <1>1, <1>2, PTL DEF Spec

\* The indices stay within the array, whatever the capacity (hpp:184-207).
THEOREM RingTyped == Spec => []TypeOK
<1>1. IInv => TypeOK
  BY DEF IInv
<1> QED
  BY <1>1, Invariance, PTL

\* The write index stays count_ cells after the read index, through every
\* wrap-around and compaction.
THEOREM IndicesAgree == Spec => []IndicesConsistent
<1>1. IInv => IndicesConsistent
  BY DEF IInv
<1> QED
  BY <1>1, Invariance, PTL

\* The ring of any capacity implements the bounded queue with withdrawal.
THEOREM RingImplementsQueue == Spec => ImplementsInsertionOrder
<1>1. Init => Abstract!Init
  BY InitRing DEF Init, Abstract!Init, Abstract!Silent, Silent
<1>2. IInv /\ [Next]_vars => [Abstract!Next]_Abstract!vars
  BY NextStep, StutterStep
<1> QED
  BY <1>1, <1>2, Invariance, PTL DEF Spec, ImplementsInsertionOrder, Abstract!Spec
=============================================================================
