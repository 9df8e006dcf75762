-------------------------- MODULE GaloisLfsr_proofs --------------------------
(***************************************************************************)
(* Of a register of any width whose feedback mask has the top bit: a step  *)
(* can be undone, and it leads neither out of the register nor to zero.    *)
(* So no nonce comes again before the register is back at its seed.        *)
(***************************************************************************)
EXTENDS GaloisLfsr, Fifo_proofs

\* A step stays within the width of the register.
LEMMA LfsrNextType ==
  ASSUME NEW w \in Word
  PROVE  LfsrNext(w) \in Word
<1>1. ShiftRight(w) \in Word
  BY WidthAssumption DEF ShiftRight, Word, Bits
<1> QED
  BY <1>1, MaskAssumption DEF LfsrNext, Xor, Word

\* Only a feedback sets the top bit, so that it tells whether there was one.
LEMMA TopBitTellsFeedback ==
  ASSUME NEW w \in Word
  PROVE  Width - 1 \in LfsrNext(w) <=> 0 \in w
<1>1. Width - 1 \notin ShiftRight(w)
  <2>1. \A b \in w : b \in 0 .. (Width - 1)
    BY DEF Word, Bits
  <2>2. \A b \in w : b - 1 # Width - 1
    BY <2>1, WidthAssumption
  <2> QED
    BY <2>2 DEF ShiftRight
<1> QED
  BY <1>1, MaskAssumption DEF LfsrNext, Xor

\* A step can be undone: two registers never merge into one, and the register
\* first repeats by coming back to where it started.
THEOREM LfsrNextInjective ==
  ASSUME NEW v \in Word, NEW w \in Word, LfsrNext(v) = LfsrNext(w)
  PROVE  v = w
<1>1. 0 \in v <=> 0 \in w
  BY TopBitTellsFeedback
<1>2. ShiftRight(v) = ShiftRight(w)
  BY <1>1 DEF LfsrNext, Xor
<1>3. \A b \in Bits : b # 0 => (b \in v <=> b - 1 \in ShiftRight(v))
  BY WidthAssumption DEF ShiftRight, Word, Bits
<1>4. \A b \in Bits : b # 0 => (b \in w <=> b - 1 \in ShiftRight(w))
  BY WidthAssumption DEF ShiftRight, Word, Bits
<1> QED
  BY <1>1, <1>2, <1>3, <1>4 DEF Word

\* Zero is the image of zero alone.
LEMMA LfsrNextNotZero ==
  ASSUME NEW w \in Word, w # {}
  PROVE  LfsrNext(w) # {}
<1>1. LfsrNext({}) = {} /\ {} \in Word
  BY DEF LfsrNext, ShiftRight, Word
<1> QED
  BY <1>1, LfsrNextInjective

\* The registers of one nonce, as far as the n-th word.
RunTo(r, w, n) ==
  /\ r \in [0 .. n -> Word]
  /\ r[0] = w
  /\ \A i \in 1 .. n : r[i] = LfsrNext(r[i - 1])

\* Every number of words can be drawn.  The words that cannot would form a set of
\* intervals with a smallest member.
LEMMA RunExists ==
  ASSUME NEW w \in Word, NEW n \in Nat
  PROVE  \E r : RunTo(r, w, n)
<1> DEFINE Bad == {I \in FiniteSubsetsOf(Nat) :
                     \E k \in Nat : I = 1 .. k /\ ~ \E r : RunTo(r, w, k)}
<1> SUFFICES ASSUME ~ \E r : RunTo(r, w, n) PROVE FALSE
  OBVIOUS
<1>1. \A k \in Nat : 1 .. k \in FiniteSubsetsOf(Nat)
  BY FS_Interval DEF FiniteSubsetsOf
<1>2. Bad # {}
  BY <1>1
<1>3. PICK I \in Bad : \A J \in Bad : ~(J \subseteq I /\ J # I)
  <2>1. Bad \in SUBSET FiniteSubsetsOf(Nat)
    OBVIOUS
  <2> HIDE DEF Bad
  <2> QED
    BY <1>2, <2>1, SmallestBadSet
<1>4. PICK k \in Nat : I = 1 .. k /\ ~ \E r : RunTo(r, w, k)
  BY <1>3
<1>5. k # 0
  <2> SUFFICES ASSUME k = 0 PROVE FALSE
    OBVIOUS
  <2>1. RunTo([i \in 0 .. 0 |-> w], w, 0)
    BY DEF RunTo
  <2> QED
    BY <1>4, <2>1
<1>6. k - 1 \in Nat
  BY <1>5
<1>7. PICK r : RunTo(r, w, k - 1)
  <2>1. 1 .. (k - 1) \subseteq I /\ 1 .. (k - 1) # I
    BY <1>4, <1>6
  <2>2. 1 .. (k - 1) \notin Bad
    BY <1>3, <2>1
  <2> QED
    BY <1>1, <1>6, <2>2
<1> DEFINE r1 == [i \in 0 .. k |-> IF i = k THEN LfsrNext(r[k - 1]) ELSE r[i]]
<1>8. RunTo(r1, w, k)
  <2>1. r[k - 1] \in Word
    BY <1>6, <1>7 DEF RunTo
  <2>2. LfsrNext(r[k - 1]) \in Word
    BY <2>1, LfsrNextType
  <2>3. r1 \in [0 .. k -> Word]
    BY <1>6, <1>7, <2>2 DEF RunTo
  <2>4. r1[0] = w
    BY <1>5, <1>6, <1>7 DEF RunTo
  <2>5. \A i \in 1 .. k : r1[i] = LfsrNext(r1[i - 1])
    BY <1>6, <1>7 DEF RunTo
  <2> QED
    BY <2>3, <2>4, <2>5 DEF RunTo
<1> QED
  BY <1>4, <1>8
-----------------------------------------------------------------------------
\* The recursive function of Registers is what its definition says.
LEMMA RegistersRun ==
  ASSUME NEW w \in Word
  PROVE  RunTo(Registers(w), w, WordsPerNonce)
<1> DEFINE N == WordsPerNonce
           R == Registers(w)
           Step(q) == [i \in 0 .. N |-> IF i = 0 THEN w ELSE LfsrNext(q[i - 1])]
<1>1. PICK r : RunTo(r, w, N)
  BY NonceAssumption, RunExists
<1>2. r = Step(r)
  BY <1>1, NonceAssumption DEF RunTo
<1>3. R = CHOOSE q : q = Step(q)
  BY DEF Registers
<1>4. R = Step(R)
  <2> HIDE DEF Step, R
  <2> QED
    BY <1>2, <1>3
<1> HIDE DEF R
<1>5. R[0] = w /\ \A i \in 1 .. N : R[i] = LfsrNext(R[i - 1])
  BY <1>4, NonceAssumption
<1> DEFINE Apart == {i \in 0 .. N : R[i] # r[i]}
<1>6. Apart = {}
  <2> SUFFICES ASSUME Apart # {} PROVE FALSE
    OBVIOUS
  <2>1. Apart \in SUBSET Int /\ IsFiniteSet(Apart)
    <3>1. IsFiniteSet(0 .. N) /\ 0 .. N \subseteq Int
      BY NonceAssumption, FS_Interval
    <3>2. Apart \in SUBSET (0 .. N)
      OBVIOUS
    <3> HIDE DEF Apart, N
    <3> QED
      BY <3>1, <3>2, FS_Subset
  <2>2. PICK m \in Apart : \A x \in Apart : m <= x
    BY <2>1, LeastExists
  <2>3. m \in 1 .. N /\ m - 1 \in 0 .. N
    BY <1>1, <1>5, NonceAssumption DEF RunTo
  <2>4. R[m - 1] = r[m - 1]
    BY <2>2, <2>3
  <2> QED
    BY <1>1, <1>5, <2>2, <2>3, <2>4 DEF RunTo
<1>7. R = r
  <2>1. R = [i \in 0 .. N |-> R[i]]
    BY <1>4
  <2>2. r = [i \in 0 .. N |-> r[i]]
    BY <1>1 DEF RunTo
  <2> QED
    BY <1>6, <2>1, <2>2
<1> QED
  BY <1>1, <1>7 DEF R

\* A run that does not start with zero does not come to zero.
LEMMA RunNotZero ==
  ASSUME NEW w \in Word, w # {}, NEW n \in Nat, NEW r, RunTo(r, w, n)
  PROVE  \A i \in 0 .. n : r[i] # {}
<1> DEFINE Zeros == {i \in 0 .. n : r[i] = {}}
<1> SUFFICES ASSUME Zeros # {} PROVE FALSE
  OBVIOUS
<1>1. Zeros \in SUBSET Int /\ IsFiniteSet(Zeros)
  <2>1. IsFiniteSet(0 .. n) /\ 0 .. n \subseteq Int
    BY FS_Interval
  <2>2. Zeros \in SUBSET (0 .. n)
    OBVIOUS
  <2> HIDE DEF Zeros
  <2> QED
    BY <2>1, <2>2, FS_Subset
<1>2. PICK m \in Zeros : \A x \in Zeros : m <= x
  BY <1>1, LeastExists
<1>3. m \in 1 .. n /\ m - 1 \in 0 .. n
  BY DEF RunTo
<1>4. r[m - 1] \in Word /\ r[m - 1] # {}
  BY <1>2, <1>3 DEF RunTo
<1>5. r[m] = LfsrNext(r[m - 1])
  BY <1>3 DEF RunTo
<1> QED
  BY <1>4, <1>5, LfsrNextNotZero

\* Two registers are not led to the same one by the words of a nonce: so the nonces of
\* a provider form a cycle as well, and the first of them to come again is the one
\* drawn first.
THEOREM DrawInjective ==
  ASSUME NEW v \in Word, NEW w \in Word,
         Registers(v)[WordsPerNonce] = Registers(w)[WordsPerNonce]
  PROVE  v = w
<1>1. PICK n \in Nat : n = WordsPerNonce
  BY NonceAssumption
<1>2. PICK p, q : /\ RunTo(p, v, n) /\ RunTo(q, w, n) /\ p[n] = q[n]
  BY <1>1, RegistersRun
<1> DEFINE Apart == {k \in 0 .. n : p[n - k] # q[n - k]}
<1>3. Apart = {}
  <2> SUFFICES ASSUME Apart # {} PROVE FALSE
    OBVIOUS
  <2>1. Apart \in SUBSET Int /\ IsFiniteSet(Apart)
    <3>1. IsFiniteSet(0 .. n) /\ 0 .. n \subseteq Int
      BY FS_Interval
    <3>2. Apart \in SUBSET (0 .. n)
      OBVIOUS
    <3> HIDE DEF Apart
    <3> QED
      BY <3>1, <3>2, FS_Subset
  <2>2. PICK k \in Apart : \A x \in Apart : k <= x
    BY <2>1, LeastExists
  <2>3. k \in 1 .. n
    BY <1>2
  <2>4. PICK i \in 1 .. n : i = n - k + 1
    BY <2>3
  <2>5. p[i] = q[i]
    <3>1. k - 1 \in 0 .. n /\ k - 1 \notin Apart /\ n - (k - 1) = i
      BY <2>2, <2>3, <2>4
    <3> QED
      BY <3>1
  <2>6. p[i] = LfsrNext(p[i - 1]) /\ q[i] = LfsrNext(q[i - 1])
    BY <1>2 DEF RunTo
  <2>7. p[i - 1] \in Word /\ q[i - 1] \in Word /\ i - 1 = n - k
    <3>1. i - 1 \in 0 .. n /\ i - 1 = n - k
      BY <2>3, <2>4
    <3> QED
      BY <1>2, <3>1 DEF RunTo
  <2>8. p[i - 1] = q[i - 1]
    BY <2>5, <2>6, <2>7, LfsrNextInjective
  <2> QED
    BY <2>7, <2>8
<1>4. n \in 0 .. n /\ n - n = 0
  OBVIOUS
<1>5. p[0] = q[0]
  BY <1>3, <1>4
<1> QED
  BY <1>2, <1>5 DEF RunTo

\* Whatever the seed and the width, the variables stay within their types.
THEOREM RegisterTyped == Spec => []TypeOK
<1>1. Init => TypeOK
  BY SeedAssumption, PeriodAssumption, WidthAssumption
  DEF Init, TypeOK, SeedState, Word, Bits
<1>2. TypeOK /\ [Next]_vars => TypeOK'
  <2> SUFFICES ASSUME TypeOK, [Next]_vars PROVE TypeOK'
    OBVIOUS
  <2>1. CASE GenerateRandomNonce
    <3>1. Registers(lfsr_state_)[WordsPerNonce] \in Word
      BY RegistersRun, NonceAssumption DEF TypeOK, RunTo
    <3>2. (drawn + 1) % FullPeriod \in 0 .. (FullPeriod - 1)
      BY PeriodAssumption DEF TypeOK
    <3>3. past' \subseteq Word
      BY <2>1 DEF GenerateRandomNonce, TypeOK
    <3> QED
      BY <2>1, <3>1, <3>2, <3>3 DEF GenerateRandomNonce, TypeOK
  <2>2. CASE UNCHANGED vars
    BY <2>2 DEF vars, TypeOK
  <2> QED
    BY <2>1, <2>2 DEF Next
<1> QED
  BY <1>1, <1>2, PTL DEF Spec

\* Whatever the seed and the width, the register never comes to zero.
THEOREM RegisterNeverZero == Spec => []NeverZero
<1>1. Init => NeverZero
  BY DEF Init, NeverZero, SeedState
<1>2. TypeOK /\ NeverZero /\ [Next]_vars => NeverZero'
  <2> SUFFICES ASSUME TypeOK, NeverZero, [Next]_vars PROVE NeverZero'
    OBVIOUS
  <2>1. CASE GenerateRandomNonce
    <3>1. RunTo(Registers(lfsr_state_), lfsr_state_, WordsPerNonce)
      BY RegistersRun DEF TypeOK
    <3>2. Registers(lfsr_state_)[WordsPerNonce] # {}
      BY <3>1, RunNotZero, NonceAssumption DEF TypeOK, NeverZero
    <3> QED
      BY <2>1, <3>2 DEF GenerateRandomNonce, NeverZero
  <2>2. CASE UNCHANGED vars
    BY <2>2 DEF vars, NeverZero
  <2> QED
    BY <2>1, <2>2 DEF Next
<1> QED
  BY <1>1, <1>2, RegisterTyped, PTL DEF Spec

\* Every register since the last time at the seed is the seed or was led to by one of them.
LedTo ==
  \A w \in past \cup {lfsr_state_} :
    w = seeded \/ \E v \in past : Registers(v)[WordsPerNonce] = w

\* A step leads to no register that was there since the last time at the seed: it would
\* have been led to before, and from no other than the present one.
LEMMA LedNowhereTwice ==
  ASSUME TypeOK, NoEarlyRepeat, LedTo, GenerateRandomNonce, lfsr_state_' # seeded
  PROVE  NoEarlyRepeat' /\ LedTo'
<1>1. /\ lfsr_state_' = Registers(lfsr_state_)[WordsPerNonce]
      /\ past' = past \cup {lfsr_state_} /\ seeded' = seeded
  BY DEF GenerateRandomNonce
<1>2. lfsr_state_' \notin past \cup {lfsr_state_}
  <2> SUFFICES ASSUME lfsr_state_' \in past \cup {lfsr_state_} PROVE FALSE
    OBVIOUS
  <2>1. PICK v \in past : Registers(v)[WordsPerNonce] = lfsr_state_'
    BY DEF LedTo
  <2>2. v \in Word /\ lfsr_state_ \in Word
    BY DEF TypeOK
  <2>3. v = lfsr_state_
    BY <1>1, <2>1, <2>2, DrawInjective
  <2> QED
    BY <2>1, <2>3 DEF NoEarlyRepeat
<1>3. NoEarlyRepeat'
  BY <1>1, <1>2 DEF NoEarlyRepeat
<1>4. ASSUME NEW w \in past' \cup {lfsr_state_'}
      PROVE  w = seeded' \/ \E v \in past' : Registers(v)[WordsPerNonce] = w
  <2>1. CASE w \in past \cup {lfsr_state_}
    BY <1>1, <2>1 DEF LedTo
  <2>2. CASE w = lfsr_state_'
    BY <1>1, <2>2
  <2> QED
    BY <1>1, <1>4, <2>1, <2>2
<1> QED
  BY <1>3, <1>4 DEF LedTo

\* Whatever the width, the mask and the seed, no nonce comes a second time before the
\* register is back at its seed.
THEOREM NoncesRepeatInTurn == Spec => []NoEarlyRepeat
<1>1. Init => NoEarlyRepeat /\ LedTo
  BY DEF Init, NoEarlyRepeat, LedTo
<1>2. TypeOK /\ NoEarlyRepeat /\ LedTo /\ [Next]_vars => NoEarlyRepeat' /\ LedTo'
  <2> SUFFICES ASSUME TypeOK, NoEarlyRepeat, LedTo, [Next]_vars
               PROVE  NoEarlyRepeat' /\ LedTo'
    OBVIOUS
  <2>1. CASE GenerateRandomNonce /\ lfsr_state_' # seeded
    BY <2>1, LedNowhereTwice
  <2>2. CASE GenerateRandomNonce /\ lfsr_state_' = seeded
    <3>1. past' = {} /\ seeded' = seeded
      BY <2>2 DEF GenerateRandomNonce
    <3> QED
      BY <2>2, <3>1 DEF NoEarlyRepeat, LedTo
  <2>3. CASE UNCHANGED vars
    BY <2>3 DEF vars, NoEarlyRepeat, LedTo
  <2> QED
    BY <2>1, <2>2, <2>3 DEF Next
<1> QED
  BY <1>1, <1>2, RegisterTyped, PTL DEF Spec
=============================================================================
