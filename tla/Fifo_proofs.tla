----------------------------- MODULE Fifo_proofs -----------------------------
(***************************************************************************)
(* What the operators of Fifo return, for every queue and every set of     *)
(* elements.  The two existence lemmas are proved by a minimal             *)
(* counterexample: strict inclusion is well-founded on finite sets.        *)
(***************************************************************************)
EXTENDS Fifo, FiniteSetTheorems, SequenceTheorems, TLAPS

\* Whatever is true of the least finite sets that lack a property P is stated
\* through the set Bad of the sets that lack it.
LEMMA SmallestBadSet ==
  ASSUME NEW U, NEW Bad \in SUBSET FiniteSubsetsOf(U), Bad # {}
  PROVE  \E T \in Bad : \A W \in Bad : ~(W \subseteq T /\ W # T)
<1>1. IsWellFoundedOn(StrictSubsetOrdering(U), FiniteSubsetsOf(U))
  BY FS_StrictSubsetOrderingWellFounded
<1>2. PICK T \in Bad : \A W \in Bad : ~(<<W, T>> \in StrictSubsetOrdering(U))
  BY <1>1, WFMin, Zenon
<1>3. \A W \in Bad : W \in SUBSET U
  BY DEF FiniteSubsetsOf
<1>4. \A W \in Bad : W \subseteq T /\ W # T => <<W, T>> \in StrictSubsetOrdering(U)
  BY <1>3 DEF StrictSubsetOrdering
<1>5. \A W \in Bad : ~(W \subseteq T /\ W # T)
  BY <1>2, <1>4, Zenon
<1> QED
  BY <1>5, Zenon

\* A finite, nonempty set of integers has a least element.
LEMMA LeastExists ==
  ASSUME NEW S \in SUBSET Int, IsFiniteSet(S), S # {}
  PROVE  \E m \in S : \A x \in S : m <= x
<1> DEFINE Bad == {T \in FiniteSubsetsOf(Int) :
                     T # {} /\ ~ \E m \in T : \A x \in T : m <= x}
<1> SUFFICES ASSUME Bad # {} PROVE FALSE
  BY DEF FiniteSubsetsOf
<1>1. PICK T \in Bad : \A W \in Bad : ~(W \subseteq T /\ W # T)
  <2>1. Bad \in SUBSET FiniteSubsetsOf(Int)
    OBVIOUS
  <2> HIDE DEF Bad
  <2> QED
    BY <2>1, SmallestBadSet
<1>2. PICK y \in T : TRUE
  OBVIOUS
<1> DEFINE W == T \ {y}
<1>3. IsFiniteSet(W) /\ W \in SUBSET Int /\ W \subseteq T /\ W # T
  BY FS_RemoveElement DEF FiniteSubsetsOf
<1>4. W \notin Bad
  BY <1>1, <1>3
<1>5. CASE W = {}
  <2>1. T = {y} /\ y \in Int
    BY <1>5 DEF FiniteSubsetsOf
  <2> QED
    BY <2>1
<1>6. CASE W # {}
  <2>1. PICK m \in W : \A x \in W : m <= x
    BY <1>3, <1>4, <1>6 DEF FiniteSubsetsOf
  <2>2. y \in Int /\ m \in Int /\ T \in SUBSET Int
    BY <1>3 DEF FiniteSubsetsOf
  <2>3. CASE m <= y
    BY <2>1, <2>2, <2>3
  <2>4. CASE ~(m <= y)
    <3>1. \A x \in T : y <= x
      BY <2>1, <2>2, <2>4
    <3> QED
      BY <3>1
  <2> QED
    BY <2>3, <2>4
<1> QED
  BY <1>5, <1>6

\* A finite set of integers has an increasing enumeration.
LEMMA EnumerationExists ==
  ASSUME NEW S \in SUBSET Int, IsFiniteSet(S)
  PROVE  \E e \in [1 .. Cardinality(S) -> S] :
           \A i, j \in 1 .. Cardinality(S) : i < j => e[i] < e[j]
<1> DEFINE Good(T) == \E e \in [1 .. Cardinality(T) -> T] :
                        \A i, j \in 1 .. Cardinality(T) : i < j => e[i] < e[j]
           Bad == {T \in FiniteSubsetsOf(Int) : ~Good(T)}
<1> SUFFICES ASSUME Bad # {} PROVE FALSE
  BY DEF FiniteSubsetsOf
<1>1. PICK T \in Bad : \A W \in Bad : ~(W \subseteq T /\ W # T)
  <2>1. Bad \in SUBSET FiniteSubsetsOf(Int)
    OBVIOUS
  <2> HIDE DEF Bad
  <2> QED
    BY <2>1, SmallestBadSet
<1>2. IsFiniteSet(T) /\ T \in SUBSET Int /\ ~Good(T)
  BY <1>1 DEF FiniteSubsetsOf
<1>3. T # {}
  <2> SUFFICES ASSUME T = {} PROVE FALSE
    OBVIOUS
  <2>1. 1 .. Cardinality(T) = {}
    BY FS_EmptySet
  <2>2. [x \in {} |-> x] \in [1 .. Cardinality(T) -> T]
    BY <2>1
  <2> QED
    BY <1>2, <2>1, <2>2
<1>4. PICK m \in T : \A x \in T : m <= x
  BY <1>2, <1>3, LeastExists
<1> DEFINE W == T \ {m}
           n == Cardinality(W)
<1>5. /\ IsFiniteSet(W) /\ W \in SUBSET Int /\ W \subseteq T /\ W # T
      /\ n \in Nat /\ Cardinality(T) = n + 1
  <2>1. IsFiniteSet(W) /\ n = Cardinality(T) - 1
    BY <1>2, FS_RemoveElement
  <2>2. n \in Nat /\ Cardinality(T) \in Nat
    BY <1>2, <2>1, FS_CardinalityType
  <2> QED
    BY <1>2, <2>1, <2>2
<1>6. Good(W)
  BY <1>1, <1>5 DEF FiniteSubsetsOf
<1>7. PICK e \in [1 .. n -> W] : \A i, j \in 1 .. n : i < j => e[i] < e[j]
  BY <1>6
<1> DEFINE f == [i \in 1 .. n + 1 |-> IF i = 1 THEN m ELSE e[i - 1]]
<1> HIDE DEF n
<1>8. f \in [1 .. n + 1 -> T]
  BY <1>5, <1>7
<1>9. \A i, j \in 1 .. n + 1 : i < j => f[i] < f[j]
  <2> TAKE i, j \in 1 .. n + 1
  <2> HAVE i < j
  <2>1. j - 1 \in 1 .. n /\ e[j - 1] \in W /\ f[j] = e[j - 1]
    BY <1>5, <1>7
  <2>2. CASE i = 1
    <3>1. m <= e[j - 1] /\ e[j - 1] # m /\ m \in Int /\ e[j - 1] \in Int
      BY <1>2, <1>4, <1>5, <2>1
    <3> QED
      BY <2>1, <2>2, <3>1
  <2>3. CASE i # 1
    <3>1. i - 1 \in 1 .. n /\ i - 1 < j - 1 /\ f[i] = e[i - 1]
      BY <1>5, <2>3
    <3> QED
      BY <1>7, <2>1, <3>1
  <2> QED
    BY <2>2, <2>3
<1> QED
  BY <1>2, <1>5, <1>8, <1>9

\* Ascending(S) enumerates S, in increasing order, each element once.
LEMMA AscendingEnumerates ==
  ASSUME NEW S \in SUBSET Int, IsFiniteSet(S)
  PROVE  /\ Cardinality(S) \in Nat
         /\ Ascending(S) \in [1 .. Cardinality(S) -> S]
         /\ \A i, j \in 1 .. Cardinality(S) : i < j => Ascending(S)[i] < Ascending(S)[j]
         /\ \A x \in S : \E i \in 1 .. Cardinality(S) : Ascending(S)[i] = x
<1> DEFINE n == Cardinality(S)
           e == Ascending(S)
<1>1. n \in Nat
  BY FS_CardinalityType
<1>2. e \in [1 .. n -> S] /\ \A i, j \in 1 .. n : i < j => e[i] < e[j]
  BY EnumerationExists DEF Ascending
<1> HIDE DEF n, e
<1>3. e \in Injection(1 .. n, S)
  <2>1. ASSUME NEW i \in 1 .. n, NEW j \in 1 .. n, e[i] = e[j]
        PROVE  i = j
    <3>1. e[i] \in S /\ e[j] \in S
      BY <1>2
    <3>2. e[i] \in Int /\ e[j] \in Int
      BY <3>1, Zenon
    <3>3. i \in Int /\ j \in Int
      BY <1>1
    <3>4. ~(i < j) /\ ~(j < i)
      BY <1>2, <2>1, <3>2
    <3> QED
      BY <3>3, <3>4
  <2> QED
    BY <1>2, <2>1 DEF Injection, IsInjective
<1>4. IsFiniteSet(1 .. n) /\ Cardinality(1 .. n) = n
  BY <1>1, FS_Interval
<1>5. e \in Surjection(1 .. n, S)
  BY <1>3, <1>4, FS_Injection DEF n
<1>6. \A x \in S : \E i \in 1 .. n : e[i] = x
  BY <1>5 DEF Surjection
<1> QED
  BY <1>1, <1>2, <1>6 DEF n, e

\* The i-th element of the enumeration of S has i - 1 elements of S before it.
LEMMA AscendingCountsBefore ==
  ASSUME NEW S \in SUBSET Int, IsFiniteSet(S), NEW i \in 1 .. Cardinality(S)
  PROVE  Cardinality({x \in S : x < Ascending(S)[i]}) = i - 1
<1> DEFINE n == Cardinality(S)
           e == Ascending(S)
           T == {x \in S : x < e[i]}
           f == [k \in 1 .. i - 1 |-> e[k]]
<1>1. /\ n \in Nat
      /\ e \in [1 .. n -> S]
      /\ \A k, l \in 1 .. n : k < l => e[k] < e[l]
      /\ \A x \in S : \E k \in 1 .. n : e[k] = x
  BY AscendingEnumerates
<1>2. i \in 1 .. n
  OBVIOUS
<1> HIDE DEF n, e
<1>3. \A k \in 1 .. n : e[k] \in S /\ e[k] \in Int
  BY <1>1
<1>4. \A k \in 1 .. i - 1 : k \in 1 .. n /\ e[k] \in T
  BY <1>1, <1>2, <1>3
<1>5. \A x \in T : \E k \in 1 .. i - 1 : e[k] = x
  <2> TAKE x \in T
  <2>1. PICK k \in 1 .. n : e[k] = x
    BY <1>1
  <2>2. x < e[i]
    OBVIOUS
  <2>3. ~(i < k) /\ i # k
    <3>1. i < k => e[i] < e[k]
      BY <1>1, <1>2
    <3> QED
      BY <1>2, <1>3, <2>1, <2>2, <3>1
  <2>4. k \in 1 .. i - 1
    BY <1>1, <1>2, <2>3
  <2> QED
    BY <2>1, <2>4
<1>6. \A k, l \in 1 .. i - 1 : e[k] = e[l] => k = l
  <2> TAKE k, l \in 1 .. i - 1
  <2> HAVE e[k] = e[l]
  <2>1. ~(k < l) /\ ~(l < k)
    BY <1>1, <1>3, <1>4
  <2> QED
    BY <1>1, <1>2, <2>1
<1>7. IsFiniteSet(T)
  <2>1. T \in SUBSET S
    OBVIOUS
  <2> HIDE DEF T
  <2> QED
    BY <2>1, FS_Subset
<1> HIDE DEF T
<1>8. f \in Injection(1 .. i - 1, T) /\ f \in Surjection(1 .. i - 1, T)
  BY <1>4, <1>5, <1>6 DEF Injection, IsInjective, Surjection
<1> HIDE DEF f
<1>9. Cardinality(1 .. i - 1) = Cardinality(T)
  BY <1>7, <1>8, FS_Injection
<1>10. Cardinality(1 .. i - 1) = i - 1
  BY <1>1, <1>2, FS_Interval
<1> QED
  BY <1>9, <1>10 DEF T, e

\* Withdrawing the elements of D leaves a queue of the other elements of q, and
\* keeps them in their order: what StaticCircularBuffer::Remove promises.
LEMMA WithoutKeepsOrder ==
  ASSUME NEW S, NEW q \in Seq(S), NEW D
  PROVE  \E f \in [1 .. Len(Without(q, D)) -> 1 .. Len(q)] :
           /\ \A i, j \in 1 .. Len(Without(q, D)) : i < j => f[i] < f[j]
           /\ \A i \in 1 .. Len(Without(q, D)) :
                Without(q, D)[i] = q[f[i]] /\ q[f[i]] \notin D
           /\ \A p \in 1 .. Len(q) :
                q[p] \notin D => \E i \in 1 .. Len(Without(q, D)) : f[i] = p
<1> DEFINE kept == {i \in DOMAIN q : q[i] \notin D}
           n == Cardinality(kept)
           w == Without(q, D)
<1>1. Len(q) \in Nat /\ DOMAIN q = 1 .. Len(q)
  OBVIOUS
<1>2. kept \in SUBSET Int /\ IsFiniteSet(kept)
  <2>1. kept \in SUBSET (1 .. Len(q)) /\ kept \in SUBSET Int
    BY <1>1
  <2>2. IsFiniteSet(1 .. Len(q))
    BY <1>1, FS_Interval
  <2> HIDE DEF kept
  <2> QED
    BY <2>1, <2>2, FS_Subset
<1>3. /\ n \in Nat
      /\ Ascending(kept) \in [1 .. n -> kept]
      /\ \A i, j \in 1 .. n : i < j => Ascending(kept)[i] < Ascending(kept)[j]
      /\ \A x \in kept : \E i \in 1 .. n : Ascending(kept)[i] = x
  BY <1>2, AscendingEnumerates
<1>4. w = [j \in 1 .. n |-> q[Ascending(kept)[j]]]
  BY DEF Without
<1>5. Len(w) = n
  BY <1>3, <1>4
<1>6. \A x \in kept : x \in 1 .. Len(q) /\ q[x] \notin D
  BY <1>1
<1>7. \A p \in 1 .. Len(q) : q[p] \notin D => p \in kept
  BY <1>1
<1> HIDE DEF n, w, kept
<1>8. /\ Ascending(kept) \in [1 .. n -> 1 .. Len(q)]
      /\ \A i \in 1 .. n : w[i] = q[Ascending(kept)[i]] /\ q[Ascending(kept)[i]] \notin D
      /\ \A p \in 1 .. Len(q) :
           q[p] \notin D => \E i \in 1 .. n : Ascending(kept)[i] = p
  BY <1>3, <1>4, <1>6, <1>7
<1>9. \E f \in [1 .. Len(w) -> 1 .. Len(q)] :
           /\ \A i, j \in 1 .. Len(w) : i < j => f[i] < f[j]
           /\ \A i \in 1 .. Len(w) : w[i] = q[f[i]] /\ q[f[i]] \notin D
           /\ \A p \in 1 .. Len(q) : q[p] \notin D => \E i \in 1 .. Len(w) : f[i] = p
  <2>1. Ascending(kept) \in [1 .. Len(w) -> 1 .. Len(q)]
    BY <1>5, <1>8
  <2> WITNESS Ascending(kept) \in [1 .. Len(w) -> 1 .. Len(q)]
  <2> QED
    BY <1>3, <1>5, <1>8
<1> QED
  BY <1>9 DEF w

\* It is as long as there are positions of q that stay.
LEMMA WithoutLength ==
  ASSUME NEW S, NEW q \in Seq(S), NEW D
  PROVE  Len(Without(q, D)) = Cardinality({i \in 1 .. Len(q) : q[i] \notin D})
<1> DEFINE kept == {i \in DOMAIN q : q[i] \notin D}
<1>1. Len(q) \in Nat /\ DOMAIN q = 1 .. Len(q)
  OBVIOUS
<1>2. kept = {i \in 1 .. Len(q) : q[i] \notin D} /\ kept \in SUBSET (1 .. Len(q))
  BY <1>1
<1>3. Without(q, D) = [j \in 1 .. Cardinality(kept) |-> q[Ascending(kept)[j]]]
  BY DEF Without
<1> HIDE DEF kept
<1>4. Cardinality(kept) \in Nat
  <2>1. IsFiniteSet(1 .. Len(q))
    BY <1>1, FS_Interval
  <2>2. IsFiniteSet(kept)
    BY <1>2, <2>1, FS_Subset
  <2> QED
    BY <2>2, FS_CardinalityType
<1>5. Len(Without(q, D)) = Cardinality(kept)
  BY <1>3, <1>4
<1> QED
  BY <1>2, <1>5

\* Its elements are those of q outside D, and none occurs twice if none did in q.
LEMMA WithoutElements ==
  ASSUME NEW S, NEW q \in Seq(S), NEW D
  PROVE  /\ Without(q, D) \in Seq(S)
         /\ Elements(Without(q, D)) = Elements(q) \ D
         /\ Distinct(q) => Distinct(Without(q, D))
<1> DEFINE w == Without(q, D)
<1>1. PICK f \in [1 .. Len(w) -> 1 .. Len(q)] :
           /\ \A i, j \in 1 .. Len(w) : i < j => f[i] < f[j]
           /\ \A i \in 1 .. Len(w) : w[i] = q[f[i]] /\ q[f[i]] \notin D
           /\ \A p \in 1 .. Len(q) :
                q[p] \notin D => \E i \in 1 .. Len(w) : f[i] = p
  BY WithoutKeepsOrder
<1>2. Len(q) \in Nat /\ DOMAIN q = 1 .. Len(q) /\ \A i \in 1 .. Len(q) : q[i] \in S
  OBVIOUS
<1>3. \E n \in Nat : w = [j \in 1 .. n |-> w[j]]
  <2> DEFINE kept == {i \in DOMAIN q : q[i] \notin D}
  <2>1. kept \in SUBSET (1 .. Len(q)) /\ IsFiniteSet(1 .. Len(q))
    BY <1>2, FS_Interval
  <2>2. Cardinality(kept) \in Nat
    <3> HIDE DEF kept
    <3>1. IsFiniteSet(kept)
      BY <2>1, FS_Subset
    <3> QED
      BY <3>1, FS_CardinalityType
  <2>3. w = [j \in 1 .. Cardinality(kept) |-> q[Ascending(kept)[j]]]
    BY DEF Without
  <2> HIDE DEF kept, w
  <2> QED
    BY <2>2, <2>3
<1> HIDE DEF w
<1>4. Len(w) \in Nat /\ DOMAIN w = 1 .. Len(w) /\ w = [j \in 1 .. Len(w) |-> w[j]]
  BY <1>3
<1>5. w \in Seq(S)
  <2>1. \A i \in 1 .. Len(w) : w[i] \in S
    BY <1>1, <1>2
  <2> QED
    BY <1>4, <2>1
<1>6. Elements(w) = Elements(q) \ D
  BY <1>1, <1>2, <1>4 DEF Elements
<1>7. ASSUME Distinct(q) PROVE Distinct(w)
  <2>1. ASSUME NEW i \in 1 .. Len(w), NEW j \in 1 .. Len(w), w[i] = w[j]
        PROVE  i = j
    <3>1. f[i] \in 1 .. Len(q) /\ f[j] \in 1 .. Len(q) /\ q[f[i]] = q[f[j]]
      BY <1>1, <2>1
    <3>2. f[i] = f[j]
      BY <1>2, <1>7, <3>1 DEF Distinct
    <3>3. ~(i < j) /\ ~(j < i)
      BY <1>1, <1>2, <3>1, <3>2
    <3> QED
      BY <1>4, <3>3
  <2> QED
    BY <1>4, <2>1 DEF Distinct
<1> QED
  BY <1>5, <1>6, <1>7 DEF w

\* Push onto a queue with room, of an element the queue does not hold.
LEMMA PushedElements ==
  ASSUME NEW S, NEW q \in Seq(S), NEW x \in S, NEW capacity \in Nat,
         Len(q) < capacity
  PROVE  /\ Pushed(q, capacity, x) \in Seq(S)
         /\ Elements(Pushed(q, capacity, x)) = Elements(q) \cup {x}
         /\ Distinct(q) /\ x \notin Elements(q) => Distinct(Pushed(q, capacity, x))
<1> DEFINE p == Append(q, x)
<1>1. Pushed(q, capacity, x) = p
  BY DEF Pushed
<1>2. /\ Len(q) \in Nat /\ DOMAIN q = 1 .. Len(q)
      /\ p \in Seq(S) /\ DOMAIN p = 1 .. Len(q) + 1
      /\ \A i \in 1 .. Len(q) : p[i] = q[i]
      /\ p[Len(q) + 1] = x
  OBVIOUS
<1> HIDE DEF p
<1>3. Elements(p) = Elements(q) \cup {x}
  <2>1. \A i \in DOMAIN p : i \in DOMAIN q \/ i = Len(q) + 1
    BY <1>2
  <2>2. \A i \in DOMAIN q : i \in DOMAIN p
    BY <1>2
  <2>3. Len(q) + 1 \in DOMAIN p
    BY <1>2
  <2> QED
    BY <1>2, <2>1, <2>2, <2>3 DEF Elements
<1>4. ASSUME Distinct(q), x \notin Elements(q) PROVE Distinct(p)
  <2>1. \A i \in 1 .. Len(q) : q[i] # x
    BY <1>2, <1>4 DEF Elements
  <2> QED
    BY <1>2, <1>4, <2>1 DEF Distinct
<1> QED
  BY <1>1, <1>2, <1>3, <1>4

\* A queue that gives up its head.
LEMMA TailElements ==
  ASSUME NEW S, NEW q \in Seq(S), q # <<>>, Distinct(q)
  PROVE  /\ Head(q) \in Elements(q)
         /\ Tail(q) \in Seq(S)
         /\ Elements(Tail(q)) = Elements(q) \ {Head(q)}
         /\ Distinct(Tail(q))
<1>1. /\ Len(q) \in Nat \ {0} /\ DOMAIN q = 1 .. Len(q)
      /\ Tail(q) \in Seq(S) /\ DOMAIN Tail(q) = 1 .. Len(q) - 1
      /\ Head(q) = q[1]
      /\ \A i \in 1 .. Len(q) - 1 : Tail(q)[i] = q[i + 1]
  OBVIOUS
<1>2. 1 \in DOMAIN q
  BY <1>1
<1>3. Elements(Tail(q)) \subseteq Elements(q) \ {Head(q)}
  <2>1. \A i \in 1 .. Len(q) - 1 : i + 1 \in DOMAIN q /\ i + 1 # 1
    BY <1>1
  <2>2. \A i \in 1 .. Len(q) - 1 : q[i + 1] # q[1]
    BY <1>2, <2>1 DEF Distinct
  <2> QED
    BY <1>1, <2>1, <2>2 DEF Elements
<1>4. Elements(q) \ {Head(q)} \subseteq Elements(Tail(q))
  <2>1. ASSUME NEW i \in DOMAIN q, q[i] # Head(q)
        PROVE  q[i] \in Elements(Tail(q))
    <3>1. i - 1 \in 1 .. Len(q) - 1 /\ Tail(q)[i - 1] = q[i]
      BY <1>1, <2>1
    <3> QED
      BY <1>1, <3>1 DEF Elements
  <2> QED
    BY <2>1 DEF Elements
<1>5. Distinct(Tail(q))
  <2>1. ASSUME NEW i \in 1 .. Len(q) - 1, NEW j \in 1 .. Len(q) - 1,
               Tail(q)[i] = Tail(q)[j]
        PROVE  i = j
    <3>1. i + 1 \in DOMAIN q /\ j + 1 \in DOMAIN q /\ q[i + 1] = q[j + 1]
      BY <1>1, <2>1
    <3>2. i + 1 = j + 1
      BY <3>1 DEF Distinct
    <3> QED
      BY <1>1, <3>2
  <2> QED
    BY <1>1, <2>1 DEF Distinct
<1> QED
  BY <1>1, <1>2, <1>3, <1>4, <1>5 DEF Elements

\* A queue of distinct elements of S that does not hold the element x of S has
\* room in a buffer with one cell per element of S.
LEMMA RoomForOneMore ==
  ASSUME NEW S, IsFiniteSet(S), NEW q \in Seq(S), Distinct(q),
         NEW x \in S, x \notin Elements(q)
  PROVE  Len(q) < Cardinality(S)
<1>1. Len(q) \in Nat /\ DOMAIN q = 1 .. Len(q) /\ q \in [1 .. Len(q) -> S]
  OBVIOUS
<1>2. \A i \in 1 .. Len(q) : q[i] \in S \ {x}
  BY <1>1 DEF Elements
<1>3. q \in Injection(1 .. Len(q), S \ {x})
  BY <1>1, <1>2 DEF Injection, IsInjective, Distinct
<1>4. IsFiniteSet(S \ {x}) /\ Cardinality(S \ {x}) = Cardinality(S) - 1
  BY FS_RemoveElement
<1>5. Cardinality(1 .. Len(q)) <= Cardinality(S \ {x})
  BY <1>3, <1>4, FS_Injection
<1>6. Cardinality(1 .. Len(q)) = Len(q)
  BY <1>1, FS_Interval
<1>7. Cardinality(S) \in Nat
  BY FS_CardinalityType
<1> QED
  BY <1>1, <1>4, <1>5, <1>6, <1>7
=============================================================================
