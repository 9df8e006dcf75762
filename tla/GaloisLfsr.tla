----------------------------- MODULE GaloisLfsr -----------------------------
(***************************************************************************)
(* The pseudo-random generator of SoftwareCryptoProvider: a Galois LFSR,   *)
(* of which every nonce takes kNonceLen / 4 words.  A word is the set of   *)
(* its one-bits, bit 0 the least significant, so that the register of the  *)
(* code can have any width.                                                *)
(***************************************************************************)
EXTENDS Integers

CONSTANTS
  Width,           \* bits of the register: 32
  Mask,            \* the feedback mask: the bits of 0xB4000000
  WordsPerNonce,   \* kNonceLen / 4: 8
  Seeds,           \* the seeds the constructor is called with
  FullPeriod       \* nonces are counted modulo this: 2^Width - 1, or what TLC has of it

Bits == 0 .. (Width - 1)
Word == SUBSET Bits

ASSUME WidthAssumption == Width \in Nat \ {0}
\* What makes a step of the register reversible.
ASSUME MaskAssumption == Mask \subseteq Bits /\ Width - 1 \in Mask
ASSUME NonceAssumption == WordsPerNonce \in Nat
ASSUME SeedAssumption == Seeds \subseteq Word
ASSUME PeriodAssumption == FullPeriod \in Nat \ {0}

VARIABLES
  lfsr_state_,     \* the register
  seeded,          \* history: the register the constructor left
  drawn,           \* history: nonces drawn, modulo FullPeriod
  past             \* history: the registers since it was last as the constructor left it

vars == <<lfsr_state_, seeded, drawn, past>>

Xor(a, b) == (a \ b) \cup (b \ a)

\* Mutant: zero is a seed like any other.
SeedAsGiven(seed) == seed

\* The constructor replaces a zero seed.
SeedState(seed) == IF seed = {} THEN {0} ELSE seed

Init ==
  /\ \E seed \in Seeds : lfsr_state_ = SeedState(seed)
  /\ seeded = lfsr_state_
  /\ drawn = 0
  /\ past = {}

\* Mutant: the bit shifted out is still there.
ShiftedUnbounded(w) == {b - 1 : b \in w}

ShiftRight(w) == {b - 1 : b \in w \ {0}}

\* Mutant: the least significant bit is looked at after the shift.
LfsrNextShiftedFirst(w) ==
  IF 0 \in ShiftRight(w) THEN Xor(ShiftRight(w), Mask) ELSE ShiftRight(w)

LfsrNext(w) == IF 0 \in w THEN Xor(ShiftRight(w), Mask) ELSE ShiftRight(w)

\* The register after each of the words of one nonce, which are these values.
Registers(w) ==
  LET register[i \in 0 .. WordsPerNonce] ==
        IF i = 0 THEN w ELSE LfsrNext(register[i - 1])
  IN  register

\* All words of the nonce are drawn in one call.
GenerateRandomNonce ==
  /\ lfsr_state_' = Registers(lfsr_state_)[WordsPerNonce]
  /\ drawn' = (drawn + 1) % FullPeriod
  /\ past' = IF lfsr_state_' = seeded THEN {} ELSE past \cup {lfsr_state_}
  /\ UNCHANGED seeded

Next == GenerateRandomNonce

Spec == Init /\ [][Next]_vars

-----------------------------------------------------------------------------
TypeOK ==
  /\ lfsr_state_ \in Word
  /\ seeded \in Word
  /\ drawn \in 0 .. (FullPeriod - 1)
  /\ past \subseteq Word

\* hpp:278,297 "Never returns zero", "Never zero": whatever the seed, the register
\* stays away from the zero state, in which it would remain for good.
NeverZero == lfsr_state_ # {}

\* However short the period of the mask is, no nonce comes a second time before the
\* register is back where the constructor left it: two registers never lead to one,
\* so that the sequence does not run into a cycle shorter than the seed's own
\* (cpp:166-177).
NoEarlyRepeat == lfsr_state_ \notin past

-----------------------------------------------------------------------------
(* What a comment says of the constant of the code, and is not so.         *)

\* cpp:168-169: the sequence is of maximal length.  The register, and with it the
\* nonce, is back where it started after 2^Width - 1 nonces and not before.
\* (WordsPerNonce has no factor in common with 2^Width - 1, so that counting
\* nonces instead of words makes no difference.)
MaximalLength == drawn = 0 <=> lfsr_state_ = seeded
=============================================================================
