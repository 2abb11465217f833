------------------------------ MODULE Scrambler -----------------------------
(***************************************************************************)
(* libfriidump/ecma-267.c and test_seed, bit by bit: the shift register    *)
(* that scrambles a sector and the error detection code by which test_seed *)
(* tells under which seed it was scrambled.  SeedCache takes from here     *)
(* that this is one seed at most.                                          *)
(*                                                                         *)
(* A sector is tested under several seeds at once, each with a register    *)
(* and a code of its own; beside them is the code of the cipher alone.     *)
(* Words are the sets of their bits.                                       *)
(*                                                                         *)
(* Operators whose names end in Slip are what a programming slip would     *)
(* have made of the operator they precede.                                 *)
(***************************************************************************)
EXTENDS Integers, FiniteSets

CONSTANTS
  SECTOR_SIZE,      \* 2048, the bytes that are scrambled
  Seeds,            \* those that the sector is tested under
  Header,           \* the code of the 12 bytes before them
  Sector            \* the scrambled bytes

SeedBits == 0 .. 14
OneBit(b) == {b}    \* the seed 1 << b

ASSUME ScramblerAssumption ==
  /\ SECTOR_SIZE \in Nat
  /\ Seeds \subseteq SUBSET SeedBits
  /\ Header \subseteq 0 .. 31
  /\ Sector \in [0 .. SECTOR_SIZE - 1 -> SUBSET (0 .. 7)]

VARIABLES
  LFSR,             \* under each seed
  ret,              \* the byte that LFSR_byte has got so far
  ticks,            \* its bits
  cipher,           \* the code of the cipher so far
  edc,              \* the code of the sector, unscrambled, so far
  bytes             \* of the sector so far

testVars == <<LFSR, ret, ticks, cipher, edc, bytes>>

Xor(a, b)   == (a \ b) \cup (b \ a)
Left(w, n)  == {b + n : b \in w}
Right(w, n) == {b - n : b \in {b \in w : b >= n}}
Bits(w, n)  == {b \in w : b < n}        \* the low ones

\* LFSR_tick: the register after it, and the byte with the bit that comes out.
LFSR_tick(r) ==
  Bits(Left(r, 1), 15) \cup IF (14 \in r) # (10 \in r) THEN {0} ELSE {}
Shifted(byte, r) == Left(byte, 1) \cup IF 14 \in r THEN {0} ELSE {}

\* An entry of edc_table is the remainder of its index, above 32 bits, by x^32 +
\* x^31 + x^4 + 1: for each bit, 80000011h goes into what is shifted out.
EdcShift(w) ==
  Xor(Bits(Left(w, 1), 32), IF 31 \in w THEN {31, 4, 0} ELSE {})
EdcShift2(w) == EdcShift(EdcShift(w))
EdcShift4(w) == EdcShift2(EdcShift2(w))
edc_table(index) == EdcShift4(EdcShift4(Left(index, 24)))

\* edc_calc, for one byte.
edc_calcSlip(w, byte) == edc_table(Xor(Right(w, 24), byte))
edc_calc(w, byte) ==
  Xor(edc_table(Xor(Right(w, 24), byte)), Bits(Left(w, 8), 32))

\* LFSR_init
TestInit ==
  /\ LFSR = [s \in Seeds |-> s]
  /\ ret = [s \in Seeds |-> {}]
  /\ ticks = 0
  /\ cipher = [s \in Seeds |-> {}]
  /\ edc = [s \in Seeds |-> Header]
  /\ bytes = 0

\* A round of LFSR_byte: the first bit is the highest.
Tick ==
  /\ bytes < SECTOR_SIZE
  /\ ticks < 8
  /\ LFSR' = [s \in Seeds |-> LFSR_tick(LFSR[s])]
  /\ ret' = [s \in Seeds |-> Shifted(ret[s], LFSR[s])]
  /\ ticks' = ticks + 1
  /\ UNCHANGED <<cipher, edc, bytes>>

\* Its byte is returned, and the byte of the sector unscrambled with it.
Byte ==
  /\ ticks = 8
  /\ cipher' = [s \in Seeds |-> edc_calc(cipher[s], ret[s])]
  /\ edc' = [s \in Seeds |-> edc_calc(edc[s], Xor(Sector[bytes], ret[s]))]
  /\ bytes' = bytes + 1
  /\ ticks' = 0
  /\ ret' = [s \in Seeds |-> {}]
  /\ UNCHANGED LFSR

Tested == bytes = SECTOR_SIZE /\ UNCHANGED testVars

TestNext == Tick \/ Byte \/ Tested

TestSpec == TestInit /\ [][TestNext]_testVars

-----------------------------------------------------------------------------
\* Register and code are linear (LFSR_tick and edc_calc): what the sum of two seeds
\* brings about is the sum of what they do, and the codes of the sector under them
\* differ by that of the cipher of their sum.
CodesAddUp ==
  \A a, b \in Seeds : Xor(a, b) \in Seeds =>
    /\ LFSR[Xor(a, b)] = Xor(LFSR[a], LFSR[b])
    /\ ret[Xor(a, b)] = Xor(ret[a], ret[b])
    /\ cipher[Xor(a, b)] = Xor(cipher[a], cipher[b])
    /\ cipher[Xor(a, b)] = Xor(edc[a], edc[b])

\* The sum of the codes of the ciphers of the seeds of one of these bits.
Sum(bits) ==
  {k \in 0 .. 31 : Cardinality({b \in bits : k \in cipher[OneBit(b)]}) % 2 = 1}

\* The codes of the ciphers of the 15 seeds of one bit are independent: no sum of
\* some of them is nothing.
CodesAreIndependent == \A bits \in SUBSET SeedBits : bits # {} => Sum(bits) # {}

\* test_seed accepts one of these seeds at most for a sector, whatever code is stored
\* behind it: under two of them the sector has different codes.  So it is for the other
\* seeds and sectors when the codes of the one-bit seeds, which are followed, are
\* independent.
SeedsAreToldApart ==
  bytes = SECTOR_SIZE =>
    CodesAreIndependent /\ \A a, b \in Seeds : edc[a] = edc[b] => a = b
=============================================================================
