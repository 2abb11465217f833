------------------------- MODULE UnscramblerProofs --------------------------
(***************************************************************************)
(* Theorems about the unscrambler, for any number of slots and places and  *)
(* any discs.                                                              *)
(*                                                                         *)
(* The seed cache: a seed that was found once is found in the cache ever   *)
(* after.  TypeOK and FoundSeedsStay are inductive together.  What needs a *)
(* proof of its own is that every scan stops: at the mark, at the latest.  *)
(*                                                                         *)
(* Conversions: the ISO image is that of all that was read, or the         *)
(* conversion says where it failed, for images of every length and every   *)
(* seed cache.  A conversion takes the steps of the seed cache, so that    *)
(* the invariants of the seed cache hold of it too.                        *)
(*                                                                         *)
(* The scrambler: register and error detection code are linear, so that    *)
(* what holds of the seeds of one bit tells all seeds apart.               *)
(***************************************************************************)
EXTENDS Conversion, Scrambler, Arithmetic, TLAPS, FiniteSetTheorems

\* The array has a last place, which is the mark.
LEMMA MarkFact == Mark \in Nat /\ Mark \in Places
<1>1. Slots \in Nat /\ MAX_SEEDS \in Nat
  BY SeedsAssumption
<1>2. \A a, b \in Nat : a * b \in Nat
  OBVIOUS
<1> QED
  BY <1>1, <1>2 DEF Mark, Places

\* The places of a slot begin before the mark.
LEMMA FirstFact ==
  ASSUME NEW slot \in 0 .. Slots - 1
  PROVE  First(slot) \in Nat /\ First(slot) <= Mark
<1>1. Slots \in Nat /\ MAX_SEEDS \in Nat
  BY SeedsAssumption
<1>2. \A a, b, c \in Nat : a <= b => a * c \in Nat /\ b * c \in Nat /\ a * c <= b * c
  BY SMTT(30)
<1>3. slot \in Nat /\ slot <= Slots
  BY <1>1
<1> QED
  BY <1>1, <1>2, <1>3 DEF First, Mark

\* A scan stops inside the array, at the first place that holds no seed.
LEMMA ScanStops ==
  ASSUME TypeOK, NEW slot \in 0 .. Slots - 1
  PROVE  LET e == ScanEnd(slot)
         IN  /\ e \in Places /\ e >= First(slot) /\ seeds[e] < 0
             /\ \A q \in First(slot) .. e - 1 : seeds[q] >= 0
<1> DEFINE T == {p \in Places : p >= First(slot) /\ seeds[p] < 0}
<1>1. Mark \in T
  BY MarkFact, FirstFact DEF TypeOK, End
<1>2. T \subseteq Nat
  BY MarkFact DEF Places
<1>3. PICK e \in T : \A y \in T : e <= y
  BY <1>1, <1>2, LeastNat
<1>4. \A q \in First(slot) .. e - 1 : seeds[q] >= 0
  <2> TAKE q \in First(slot) .. e - 1
  <2>1. q \in Places /\ q >= First(slot) /\ q < e
    BY <1>2, <1>3, FirstFact, MarkFact DEF Places
  <2>2. q \notin T
    BY <2>1, <1>2, <1>3 DEF Places
  <2>3. seeds[q] \in Int
    BY <2>1, SeedsAssumption DEF TypeOK, Free, End
  <2> QED
    BY <2>1, <2>2, <2>3
<1> QED
  BY <1>3, <1>4 DEF ScanEnd

-----------------------------------------------------------------------------
\* What the two invariants hold together.
SeedInv == TypeOK /\ FoundSeedsStay

\* Nothing is found at the beginning.
LEMMA SeedInit == Init => SeedInv
<1> SUFFICES ASSUME Init PROVE SeedInv
  OBVIOUS
<1>1. TypeOK
  <2>1. seeds \in [Places -> {Free, End} \cup 0 .. LastSeed]
    BY DEF Init
  <2>2. \A p \in Places : seeds[p] = End <=> p = Mark
    BY DEF Init, Free, End
  <2>3. found \in [0 .. Slots - 1 -> SUBSET (0 .. LastSeed)]
    BY DEF Init
  <2> QED
    BY <2>1, <2>2, <2>3 DEF Init, TypeOK
<1>2. FoundSeedsStay
  BY DEF Init, FoundSeedsStay
<1> QED
  BY <1>1, <1>2 DEF SeedInv

\* Steps that leave the cache alone and find only what is in it.
LEMMA CacheKept ==
  ASSUME SeedInv, UNCHANGED seeds,
         NEW b \in DiscBlocks, NEW ok \in BOOLEAN,
         ok => Cached(b.slot, b.seed),
         Unscramble(b, ok)
  PROVE  SeedInv'
<1>1. b.slot \in 0 .. Slots - 1
  BY DEF DiscBlocks, BlockType
<1>2. ok => b.seed \in 0 .. LastSeed
  <2> SUFFICES ASSUME ok PROVE b.seed # NoSeed
    BY DEF DiscBlocks, BlockType
  <2>1. PICK p \in Places : seeds[p] = b.seed
    BY DEF Cached
  <2> QED
    BY <2>1, SeedsAssumption DEF SeedInv, TypeOK, Free, End, NoSeed
<1>3. TypeOK'
  <2>1. block' \in DiscBlocks'
    BY DEF Unscramble, DiscBlocks
  <2> QED
    BY <2>1, <1>1, <1>2 DEF SeedInv, TypeOK, Unscramble
<1>4. \A slot, seed : Cached(slot, seed) => Cached(slot, seed)'
  BY DEF Cached, Scanned
<1>5. FoundSeedsStay'
  BY <1>1, <1>4 DEF SeedInv, FoundSeedsStay, TypeOK, Unscramble
<1> QED
  BY <1>3, <1>5 DEF SeedInv

\* Adding a seed disturbs no scan that found its seed, for it fills a place that
\* no such scan has reached.
LEMMA SeedAdded ==
  ASSUME SeedInv, NEW b \in DiscBlocks, AddSeed(b)
  PROVE  SeedInv'
<1> DEFINE e == ScanEnd(b.slot)
<1>1. b.slot \in 0 .. Slots - 1 /\ b.seed \in 0 .. LastSeed /\ b.whole \in BOOLEAN
  <2>1. b.slot \in 0 .. Slots - 1 /\ b.whole \in BOOLEAN
    BY DEF DiscBlocks, BlockType
  <2>2. b.seed \in 0 .. LastSeed - 1
    BY DEF AddSeed, Tried
  <2> QED
    BY <2>1, <2>2, SeedsAssumption
<1>2. /\ e \in Places /\ e >= First(b.slot) /\ seeds[e] < 0
      /\ \A q \in First(b.slot) .. e - 1 : seeds[q] >= 0
  BY <1>1, ScanStops DEF SeedInv
<1>3. e # Mark
  BY <1>2 DEF SeedInv, TypeOK, AddSeed, Room
<1>4. seeds' = [seeds EXCEPT ![e] = b.seed]
  BY DEF AddSeed
<1> HIDE DEF e
<1>5. TypeOK'
  <2>1. seeds' \in [Places -> {Free, End} \cup 0 .. LastSeed]
    BY <1>1, <1>2, <1>4 DEF SeedInv, TypeOK
  <2>2. \A p \in Places : seeds'[p] = End <=> p = Mark
    BY <1>1, <1>2, <1>3, <1>4, SeedsAssumption DEF SeedInv, TypeOK, End
  <2>3. UNCHANGED bruteforce_seeds /\ block' = b /\ out' = b.whole
    BY DEF AddSeed, Unscramble
  <2>5. SeedsOf' \in Discs /\ block' \in DiscBlocks'
    BY DEF AddSeed, Unscramble, DiscBlocks, SeedInv, TypeOK
  <2>4. found' \in [0 .. Slots - 1 -> SUBSET (0 .. LastSeed)]
    BY <1>1 DEF AddSeed, Unscramble, SeedInv, TypeOK
  <2> QED
    BY <1>1, <2>1, <2>2, <2>3, <2>4, <2>5 DEF SeedInv, TypeOK
<1>6. \A slot \in 0 .. Slots - 1, seed \in 0 .. LastSeed : Cached(slot, seed) => Cached(slot, seed)'
  <2> TAKE slot \in 0 .. Slots - 1, seed \in 0 .. LastSeed
  <2> HAVE Cached(slot, seed)
  <2>1. PICK p \in Places : Scanned(slot, p) /\ seeds[p] = seed
    BY DEF Cached
  <2>2. \A q \in First(slot) .. p : q \in Places /\ q # e /\ seeds'[q] = seeds[q]
    <3> TAKE q \in First(slot) .. p
    <3>1. q \in Places
      BY <2>1, FirstFact, MarkFact DEF Places
    <3>2. seeds[q] >= 0
      BY <2>1 DEF Scanned
    <3>3. q # e
      BY <3>2, <1>2, <3>1, SeedsAssumption DEF SeedInv, TypeOK, Free, End
    <3> QED
      BY <3>1, <3>3, <1>4 DEF SeedInv, TypeOK
  <2>3. p \in First(slot) .. p
    BY <2>1, FirstFact, MarkFact DEF Scanned, Places
  <2>4. Scanned(slot, p)' /\ seeds'[p] = seed
    BY <2>1, <2>2, <2>3 DEF Scanned, First
  <2> QED
    BY <2>1, <2>4 DEF Cached
<1>7. Cached(b.slot, b.seed)'
  <2>1. seeds'[e] = b.seed
    BY <1>2, <1>4 DEF SeedInv, TypeOK
  <2>2. \A q \in First(b.slot) .. e : seeds'[q] >= 0
    <3> TAKE q \in First(b.slot) .. e
    <3>1. CASE q = e
      BY <3>1, <2>1, <1>1
    <3>2. CASE q # e
      <4>1. q \in Places /\ q \in First(b.slot) .. e - 1
        BY <3>2, <1>1, <1>2, FirstFact, MarkFact DEF Places
      <4> QED
        BY <4>1, <3>2, <1>2, <1>4 DEF SeedInv, TypeOK
    <3> QED
      BY <3>1, <3>2
  <2> QED
    BY <1>2, <2>1, <2>2 DEF Cached, Scanned, First
<1>8. FoundSeedsStay'
  <2> SUFFICES ASSUME NEW slot \in 0 .. Slots - 1, NEW seed \in found'[slot]
               PROVE  Cached(slot, seed)'
    BY DEF FoundSeedsStay
  <2>1. CASE seed \in found[slot]
    <3>1. seed \in 0 .. LastSeed /\ Cached(slot, seed)
      BY <2>1 DEF SeedInv, TypeOK, FoundSeedsStay
    <3> QED
      BY <3>1, <1>6
  <2>2. CASE seed \notin found[slot]
    <3>1. slot = b.slot /\ seed = b.seed
      BY <2>2, <1>1 DEF AddSeed, Unscramble, SeedInv, TypeOK
    <3> QED
      BY <3>1, <1>7
  <2> QED
    BY <2>1, <2>2
<1> QED
  BY <1>5, <1>8 DEF SeedInv

\* Every step keeps both.
LEMMA SeedStep == SeedInv /\ [Next]_vars => SeedInv'
<1> SUFFICES ASSUME SeedInv, [Next]_vars PROVE SeedInv'
  OBVIOUS
<1>1. ASSUME NEW v \in BOOLEAN, SetBruteforce(v) PROVE SeedInv'
  BY <1>1 DEF SetBruteforce, SeedInv, TypeOK, FoundSeedsStay, Cached, Scanned, DiscBlocks
<1>2. ASSUME NEW b \in DiscBlocks, UseCached(b) PROVE SeedInv'
  <2>1. b.whole \in BOOLEAN
    BY DEF DiscBlocks, BlockType
  <2> QED
    BY <1>2, <2>1, CacheKept DEF UseCached
<1>3. ASSUME NEW b \in DiscBlocks, AddSeed(b) PROVE SeedInv'
  BY <1>3, SeedAdded
<1>4. ASSUME NEW b \in DiscBlocks, NoRoom(b) PROVE SeedInv'
  BY <1>4, CacheKept DEF NoRoom
<1>5. ASSUME NEW b \in DiscBlocks, NotFound(b) PROVE SeedInv'
  BY <1>5, CacheKept DEF NotFound
<1>6. CASE UNCHANGED vars
  BY <1>6 DEF vars, SeedInv, TypeOK, FoundSeedsStay, Cached, Scanned, DiscBlocks
<1> QED
  BY <1>1, <1>2, <1>3, <1>4, <1>5, <1>6 DEF Next, unscrambler_unscramble_16sectors

\* The mark is never overwritten, so that no scan leaves the array
\* (unscrambler.c:84 and :249), whatever seeds the disc needs.
THEOREM SeedsTyped == Spec => []TypeOK
<1>1. Spec => []SeedInv
  BY SeedInit, SeedStep, PTL DEF Spec
<1>2. SeedInv => TypeOK
  BY DEF SeedInv
<1> QED
  BY <1>1, <1>2, PTL

\* A seed once found for a slot stays within reach of the scans for that slot,
\* for every number of slots, places and seeds.
THEOREM SeedsStay == Spec => []FoundSeedsStay
<1>1. Spec => []SeedInv
  BY SeedInit, SeedStep, PTL DEF Spec
<1>2. SeedInv => FoundSeedsStay
  BY DEF SeedInv
<1> QED
  BY <1>1, <1>2, PTL

-----------------------------------------------------------------------------
\* Room for every seed: while no slot needs more seeds than it has places, a slot's
\* places hold different seeds of its own and then nothing, and no slot runs into the
\* next one.

NoSlotIsTooSmall == \A slot \in 0 .. Slots - 1 : Cardinality(SeedsOf[slot]) <= MAX_SEEDS

\* The first n places of a slot are taken.
Filled(slot, n) ==
  /\ \A i \in 0 .. n - 1 : seeds[First(slot) + i] \in SeedsOf[slot]
  /\ \A i, j \in 0 .. n - 1 : seeds[First(slot) + i] = seeds[First(slot) + j] => i = j
  /\ \A i \in n .. MAX_SEEDS - 1 : seeds[First(slot) + i] = Free

OwnPlaces ==
  NoSlotIsTooSmall => \A slot \in 0 .. Slots - 1 : \E n \in 0 .. MAX_SEEDS : Filled(slot, n)

\* The places of a slot come before the mark, and before those of the next slots.
LEMMA PlacesFact ==
  ASSUME NEW slot \in 0 .. Slots - 1
  PROVE  /\ First(slot) \in Nat
         /\ \A i \in 0 .. MAX_SEEDS - 1 : First(slot) + i \in Places /\ First(slot) + i < Mark
         /\ \A other \in 0 .. Slots - 1 : other > slot => First(slot) + MAX_SEEDS <= First(other)
<1>1. Slots \in Nat /\ MAX_SEEDS \in Nat /\ slot \in Nat /\ slot + 1 <= Slots
  BY SeedsAssumption
<1>2. \A a, b, c \in Nat : a <= b => a * c \in Nat /\ b * c \in Nat /\ a * c <= b * c
  BY SMTT(30)
<1>3. (slot + 1) * MAX_SEEDS = First(slot) + MAX_SEEDS /\ First(slot) \in Nat
  BY <1>1, <1>2 DEF First
<1>4. First(slot) + MAX_SEEDS <= Mark /\ Mark \in Nat
  BY <1>1, <1>2, <1>3, slot + 1 \in Nat DEF Mark
<1>5. ASSUME NEW other \in 0 .. Slots - 1, other > slot
      PROVE  First(slot) + MAX_SEEDS <= First(other)
  BY <1>1, <1>2, <1>3, <1>5, slot + 1 \in Nat, other \in Nat, slot + 1 <= other DEF First
<1> QED
  BY <1>1, <1>3, <1>4, <1>5 DEF Places

\* A scan for a slot finds what its places hold.
LEMMA FilledIsCached ==
  ASSUME TypeOK, NEW slot \in 0 .. Slots - 1, NEW n \in 0 .. MAX_SEEDS, Filled(slot, n),
         NEW i \in 0 .. n - 1
  PROVE  Cached(slot, seeds[First(slot) + i])
<1>1. n \in Nat /\ MAX_SEEDS \in Nat /\ First(slot) \in Nat
  BY SeedsAssumption, PlacesFact
<1>2. SeedsOf[slot] \subseteq 0 .. LastSeed
  BY SeedsAssumption DEF TypeOK
<1>3. \A q \in First(slot) .. First(slot) + i : seeds[q] >= 0
  <2> TAKE q \in First(slot) .. First(slot) + i
  <2>1. q - First(slot) \in 0 .. n - 1 /\ q = First(slot) + (q - First(slot))
    BY <1>1
  <2>2. seeds[q] \in SeedsOf[slot]
    BY <2>1 DEF Filled
  <2> QED
    BY <1>2, <2>2, SeedsAssumption
<1>4. First(slot) + i \in Places
  BY <1>1, PlacesFact
<1> QED
  BY <1>1, <1>3, <1>4 DEF Cached, Scanned

\* A slot whose places are all taken has all its seeds: pigeons that differ need as
\* many holes.
LEMMA FullHasAll ==
  ASSUME TypeOK, NEW slot \in 0 .. Slots - 1, Cardinality(SeedsOf[slot]) <= MAX_SEEDS,
         Filled(slot, MAX_SEEDS), NEW seed \in SeedsOf[slot]
  PROVE  Cached(slot, seed)
<1>1. MAX_SEEDS \in Nat \ {0}
  BY SeedsAssumption
<1>2. IsFiniteSet(SeedsOf[slot]) /\ Cardinality(SeedsOf[slot]) \in Nat
  <2>1. SeedsOf[slot] \in SUBSET (0 .. LastSeed)
    BY SeedsAssumption DEF TypeOK
  <2>2. IsFiniteSet(0 .. LastSeed)
    BY SeedsAssumption, FS_Interval
  <2> QED
    BY <2>1, <2>2, FS_Subset, FS_CardinalityType
<1>3. IsFiniteSet(0 .. MAX_SEEDS) /\ Cardinality(0 .. MAX_SEEDS) = MAX_SEEDS + 1
  <2>1. 0 \in Int /\ MAX_SEEDS \in Int /\ ~(0 > MAX_SEEDS) /\ MAX_SEEDS - 0 + 1 = MAX_SEEDS + 1
    BY <1>1
  <2>2. /\ IsFiniteSet(0 .. MAX_SEEDS)
        /\ Cardinality(0 .. MAX_SEEDS) = IF 0 > MAX_SEEDS THEN 0 ELSE MAX_SEEDS - 0 + 1
    BY <2>1, FS_Interval
  <2> QED
    BY <2>1, <2>2
<1> DEFINE f == [i \in 0 .. MAX_SEEDS |-> IF i = MAX_SEEDS THEN seed ELSE seeds[First(slot) + i]]
<1>4. f \in [0 .. MAX_SEEDS -> SeedsOf[slot]]
  BY <1>1 DEF Filled
<1> HIDE DEF f
<1>5. PICK i, j \in 0 .. MAX_SEEDS : i # j /\ f[i] = f[j]
  BY <1>1, <1>2, <1>3, <1>4, FS_PigeonHole
<1>6. \E k \in 0 .. MAX_SEEDS - 1 : seeds[First(slot) + k] = seed
  <2>1. CASE i = MAX_SEEDS
    BY <1>1, <1>5, <2>1 DEF f
  <2>2. CASE j = MAX_SEEDS
    BY <1>1, <1>5, <2>2 DEF f
  <2>3. CASE i # MAX_SEEDS /\ j # MAX_SEEDS
    <3>1. i \in 0 .. MAX_SEEDS - 1 /\ j \in 0 .. MAX_SEEDS - 1
      BY <1>1, <2>3
    <3>2. seeds[First(slot) + i] = seeds[First(slot) + j]
      BY <1>5, <2>3 DEF f
    <3> QED
      BY <1>5, <3>1, <3>2 DEF Filled
  <2> QED
    BY <2>1, <2>2, <2>3
<1> QED
  BY <1>1, <1>6, FilledIsCached, MAX_SEEDS \in 0 .. MAX_SEEDS

\* The scan for a slot with a free place stops at the first one.
LEMMA ScanEndsAtFree ==
  ASSUME TypeOK, NEW slot \in 0 .. Slots - 1, NEW n \in 0 .. MAX_SEEDS - 1, Filled(slot, n)
  PROVE  /\ ScanEnd(slot) = First(slot) + n /\ ScanEnd(slot) \in Places
         /\ seeds[ScanEnd(slot)] = Free
<1> DEFINE e == ScanEnd(slot)
<1>1. /\ e \in Places /\ e >= First(slot) /\ seeds[e] < 0
      /\ \A q \in First(slot) .. e - 1 : seeds[q] >= 0
  BY ScanStops
<1> HIDE DEF e
<1>2. n \in Nat /\ First(slot) \in Nat /\ MAX_SEEDS \in Nat /\ e \in Nat
  BY <1>1, SeedsAssumption, PlacesFact, MarkFact DEF Places
<1>3. SeedsOf[slot] \subseteq 0 .. LastSeed
  BY SeedsAssumption DEF TypeOK
<1>4. seeds[First(slot) + n] = Free
  BY <1>2 DEF Filled
<1>5. ~(e > First(slot) + n)
  <2> SUFFICES ASSUME e > First(slot) + n PROVE FALSE
    OBVIOUS
  <2>1. First(slot) + n \in First(slot) .. e - 1
    BY <1>2
  <2> QED
    BY <2>1, <1>1, <1>4 DEF Free
<1>6. ~(e < First(slot) + n)
  <2> SUFFICES ASSUME e < First(slot) + n PROVE FALSE
    OBVIOUS
  <2>1. e - First(slot) \in 0 .. n - 1 /\ e = First(slot) + (e - First(slot))
    BY <1>1, <1>2
  <2>2. seeds[e] \in SeedsOf[slot]
    BY <2>1 DEF Filled
  <2> QED
    BY <1>1, <1>3, <2>2, SeedsAssumption
<1> QED
  BY <1>1, <1>2, <1>4, <1>5, <1>6 DEF e

LEMMA OwnPlacesInit == Init => OwnPlaces
<1> SUFFICES ASSUME Init, NEW slot \in 0 .. Slots - 1 PROVE Filled(slot, 0)
  BY SeedsAssumption DEF OwnPlaces
<1>1. \A i \in 0 .. MAX_SEEDS - 1 : seeds[First(slot) + i] = Free
  <2> TAKE i \in 0 .. MAX_SEEDS - 1
  <2>1. First(slot) + i \in Places /\ First(slot) + i # Mark
    BY PlacesFact, MarkFact, SeedsAssumption
  <2> QED
    BY <2>1 DEF Init
<1> QED
  BY <1>1 DEF Filled

\* A seed is added to the places of its slot.
LEMMA OwnPlaceTaken ==
  ASSUME TypeOK, OwnPlaces, NEW b \in DiscBlocks, AddSeed(b)
  PROVE  OwnPlaces'
<1> SUFFICES ASSUME NoSlotIsTooSmall PROVE OwnPlaces'
  BY DEF OwnPlaces, NoSlotIsTooSmall, AddSeed, Unscramble
<1>1. b.slot \in 0 .. Slots - 1 /\ b.seed \in SeedsOf[b.slot]
  BY SeedsAssumption DEF DiscBlocks, BlockType, AddSeed, Tried, NoSeed
<1>2. PICK n \in 0 .. MAX_SEEDS : Filled(b.slot, n)
  BY <1>1 DEF OwnPlaces
<1>3. n \in 0 .. MAX_SEEDS - 1
  <2>1. n # MAX_SEEDS
    BY <1>1, <1>2, FullHasAll DEF NoSlotIsTooSmall, AddSeed
  <2> QED
    BY <2>1, SeedsAssumption
<1> DEFINE e == First(b.slot) + n
<1>4. e \in Places /\ ScanEnd(b.slot) = e
  BY <1>1, <1>2, <1>3, ScanEndsAtFree
<1>5. seeds' = [seeds EXCEPT ![e] = b.seed] /\ SeedsOf' = SeedsOf
  BY <1>4 DEF AddSeed, Unscramble
<1>6. e \in Int /\ First(b.slot) \in Nat /\ MAX_SEEDS \in Nat /\ n \in Nat
  BY <1>1, <1>3, PlacesFact, SeedsAssumption
<1> HIDE DEF e
<1>7. ASSUME NEW slot \in 0 .. Slots - 1, NEW i \in 0 .. MAX_SEEDS - 1, First(slot) + i # e
      PROVE  seeds'[First(slot) + i] = seeds[First(slot) + i]
  <2>1. First(slot) + i \in Places
    BY PlacesFact
  <2> QED
    BY <1>5, <1>7, <2>1 DEF TypeOK
<1>8. ASSUME NEW slot \in 0 .. Slots - 1, slot # b.slot
      PROVE  \E m \in 0 .. MAX_SEEDS : Filled(slot, m)'
  <2>1. PICK m \in 0 .. MAX_SEEDS : Filled(slot, m)
    BY DEF OwnPlaces
  <2>2. \A i \in 0 .. MAX_SEEDS - 1 : First(slot) + i # e
    <3>1. slot > b.slot \/ b.slot > slot
      BY <1>1, <1>8
    <3>2. First(slot) \in Nat
      BY PlacesFact
    <3>3. CASE slot > b.slot
      <4>1. First(b.slot) + MAX_SEEDS <= First(slot)
        BY <1>1, <3>3, PlacesFact
      <4> QED
        BY <4>1, <1>3, <1>6, <3>2 DEF e
    <3>4. CASE b.slot > slot
      <4>1. First(slot) + MAX_SEEDS <= First(b.slot)
        BY <1>1, <3>4, PlacesFact
      <4> QED
        BY <4>1, <1>3, <1>6, <3>2 DEF e
    <3> QED
      BY <3>1, <3>3, <3>4
  <2>3. \A i \in 0 .. MAX_SEEDS - 1 : seeds'[First(slot) + i] = seeds[First(slot) + i]
    BY <2>2, <1>7
  <2>4. 0 .. m - 1 \subseteq 0 .. MAX_SEEDS - 1 /\ m .. MAX_SEEDS - 1 \subseteq 0 .. MAX_SEEDS - 1
    BY <1>6
  <2>5. Filled(slot, m)'
    BY <1>5, <2>1, <2>3, <2>4 DEF Filled, First
  <2> QED
    BY <2>5
<1>9. Filled(b.slot, n + 1)'
  <2>1. \A i \in 0 .. MAX_SEEDS - 1 : i # n => seeds'[First(b.slot) + i] = seeds[First(b.slot) + i]
    BY <1>1, <1>6, <1>7 DEF e
  <2>2. seeds'[First(b.slot) + n] = b.seed
    BY <1>4, <1>5 DEF e, TypeOK
  <2>3. \A i \in 0 .. n - 1 : i \in 0 .. MAX_SEEDS - 1 /\ i # n
    BY <1>3, <1>6
  <2>4. \A i \in 0 .. n - 1 : seeds[First(b.slot) + i] # b.seed
    BY <1>1, <1>2, FilledIsCached DEF AddSeed
  <2>5. \A i \in 0 .. (n + 1) - 1 : i = n \/ i \in 0 .. n - 1
    BY <1>6
  <2>6. \A i \in n + 1 .. MAX_SEEDS - 1 : i \in 0 .. MAX_SEEDS - 1 /\ i # n /\ i \in n .. MAX_SEEDS - 1
    BY <1>6
  <2>7. \A i \in 0 .. (n + 1) - 1 : seeds'[First(b.slot) + i] \in SeedsOf'[b.slot]
    BY <1>1, <1>2, <1>5, <2>1, <2>2, <2>3, <2>5 DEF Filled
  <2>8. \A i, j \in 0 .. (n + 1) - 1 :
          seeds'[First(b.slot) + i] = seeds'[First(b.slot) + j] => i = j
    <3> TAKE i, j \in 0 .. (n + 1) - 1
    <3>1. CASE i = n /\ j = n
      BY <3>1
    <3>2. CASE i = n /\ j \in 0 .. n - 1
      BY <3>2, <2>1, <2>2, <2>3, <2>4
    <3>3. CASE i \in 0 .. n - 1 /\ j = n
      BY <3>3, <2>1, <2>2, <2>3, <2>4
    <3>4. CASE i \in 0 .. n - 1 /\ j \in 0 .. n - 1
      BY <3>4, <1>2, <2>1, <2>3 DEF Filled
    <3> QED
      BY <2>5, <3>1, <3>2, <3>3, <3>4
  <2>9. \A i \in n + 1 .. MAX_SEEDS - 1 : seeds'[First(b.slot) + i] = Free
    BY <1>2, <2>1, <2>6 DEF Filled
  <2> QED
    BY <2>7, <2>8, <2>9 DEF Filled, First
<1>10. n + 1 \in 0 .. MAX_SEEDS
  BY <1>3, <1>6
<1> QED
  BY <1>8, <1>9, <1>10 DEF OwnPlaces

LEMMA OwnPlacesStep == TypeOK /\ OwnPlaces /\ [Next]_vars => OwnPlaces'
<1> SUFFICES ASSUME TypeOK, OwnPlaces, [Next]_vars PROVE OwnPlaces'
  OBVIOUS
<1>1. CASE UNCHANGED <<seeds, SeedsOf>>
  BY <1>1 DEF OwnPlaces, NoSlotIsTooSmall, Filled
<1>2. ASSUME NEW b \in DiscBlocks, AddSeed(b) PROVE OwnPlaces'
  BY <1>2, OwnPlaceTaken
<1>3. ASSUME NEW b \in DiscBlocks, UseCached(b) \/ NoRoom(b) \/ NotFound(b)
      PROVE  UNCHANGED <<seeds, SeedsOf>>
  BY <1>3 DEF UseCached, NoRoom, NotFound, Unscramble
<1>4. ASSUME NEW v \in BOOLEAN, SetBruteforce(v) PROVE UNCHANGED <<seeds, SeedsOf>>
  BY <1>4 DEF SetBruteforce
<1> QED
  BY <1>1, <1>2, <1>3, <1>4 DEF Next, unscrambler_unscramble_16sectors, vars

LEMMA OwnPlacesHaveRoom == TypeOK /\ OwnPlaces => RoomForEverySeed
<1> SUFFICES ASSUME TypeOK, OwnPlaces, NoSlotIsTooSmall,
                    NEW slot \in 0 .. Slots - 1, NEW seed \in SeedsOf[slot]
             PROVE  Cached(slot, seed) \/ Room(slot)
  BY DEF RoomForEverySeed, NoSlotIsTooSmall
<1>1. PICK n \in 0 .. MAX_SEEDS : Filled(slot, n)
  BY DEF OwnPlaces
<1>2. CASE n = MAX_SEEDS
  BY <1>1, <1>2, FullHasAll DEF NoSlotIsTooSmall
<1>3. CASE n # MAX_SEEDS
  <2>1. n \in 0 .. MAX_SEEDS - 1
    BY <1>3, SeedsAssumption
  <2>2. seeds[ScanEnd(slot)] = Free
    BY <1>1, <2>1, ScanEndsAtFree
  <2> QED
    BY <2>2 DEF Room, Free, End
<1> QED
  BY <1>2, <1>3

\* The cache has room for every seed of a disc, in whatever order its blocks come,
\* as long as no slot needs more seeds than MAX_SEEDS.
THEOREM SeedsHaveRoom == Spec => []RoomForEverySeed
<1>1. Spec => []OwnPlaces
  BY SeedsTyped, OwnPlacesInit, OwnPlacesStep, PTL DEF Spec
<1> QED
  BY <1>1, SeedsTyped, OwnPlacesHaveRoom, PTL

-----------------------------------------------------------------------------
\* Conversions.

\* A padded block is one that a drive may return.
LEMMA PaddedBlock ==
  ASSUME NEW b \in DiscBlocks, NEW ends \in Ends
  PROVE  Padded(b, ends) \in DiscBlocks
BY DEF DiscBlocks, BlockType, Padded

\* Every step of a conversion is one of the seed cache, or leaves it alone.
LEMMA ConvSteps == [ConvNext]_allVars => [Next]_vars
<1> SUFFICES ASSUME [ConvNext]_allVars PROVE [Next]_vars
  OBVIOUS
<1>1. ASSUME NEW b \in DiscBlocks, NEW ends \in Ends, ConvertBlock(b, ends)
      PROVE  Next
  <2>1. unscrambler_unscramble_16sectors(Padded(b, ends))
    BY <1>1 DEF ConvertBlock
  <2> QED
    BY <2>1, PaddedBlock DEF Next
<1>2. CASE CannotOpen \/ Open \/ Leave \/ Over \/ UNCHANGED allVars
  BY <1>2 DEF CannotOpen, Open, Leave, Over, allVars
<1>3. CASE Dump
  BY <1>3 DEF Dump
<1> QED
  BY <1>1, <1>2, <1>3 DEF ConvNext

THEOREM ConversionUsesCache == ConvSpec => Spec
<1>1. ConvInit => Init
  BY DEF ConvInit
<1> QED
  BY <1>1, ConvSteps, PTL DEF ConvSpec, Spec

\* The mark of the seed cache survives dumps and conversions.
THEOREM ConversionSeedsTyped == ConvSpec => []TypeOK
BY ConversionUsesCache, SeedsTyped, PTL

\* So do the seeds that were found.
THEOREM ConversionSeedsStay == ConvSpec => []FoundSeedsStay
BY ConversionUsesCache, SeedsStay, PTL

\* And there is room for all seeds of a disc that needs no more of them than a slot has.
THEOREM ConversionHasRoom == ConvSpec => []RoomForEverySeed
BY ConversionUsesCache, SeedsHaveRoom, PTL

Entries == {BlockOut(n, rest) : n \in Int, rest \in {"image", "zeros", "nothing"}}

\* The inductive invariant: besides the property, that a conversion begins with
\* nothing, and ends with the first failure, at the block read last.
ConvInv ==
  /\ ConversionTypeOK
  /\ iso \in Seq(Entries)
  /\ pc \in {"dump", "open"} =>
       s = 0 /\ iso = <<>> /\ end = "block" /\ current_sector = Unset
  /\ current_sector # Unset => ~result /\ s = current_sector + 1
  /\ IsoIsComplete

\* IsoImage, with the number of the blocks read and the end of the last one.
Image(n, last, ends) ==
  [k \in 1 .. n |-> BlockOut(k - 1, IF k = last /\ ends # "block" THEN "zeros" ELSE "image")]

LEMMA ImageEntries ==
  ASSUME NEW n \in Nat, NEW last, NEW ends
  PROVE  Image(n, last, ends) \in Seq(Entries) /\ Len(Image(n, last, ends)) = n
<1> DEFINE Entry(k) == BlockOut(k - 1, IF k = last /\ ends # "block" THEN "zeros" ELSE "image")
<1>1. \A k \in 1 .. n : Entry(k) \in Entries
  BY DEF Entries
<1>2. Image(n, last, ends) = [k \in 1 .. n |-> Entry(k)]
  BY DEF Image
<1> HIDE DEF Entry
<1> QED
  BY <1>1, <1>2

\* Two sequences are the same if their entries are.
LEMMA SameEntries ==
  ASSUME NEW S, NEW p \in Seq(S), NEW q \in Seq(S),
         Len(p) = Len(q), \A k \in 1 .. Len(p) : p[k] = q[k]
  PROVE  p = q
OBVIOUS

\* An image does not say how its last block ends when that is behind it, or ends
\* where a block does.
LEMMA WholeImage ==
  ASSUME NEW n \in Nat, NEW last, NEW ends, last \notin 1 .. n
  PROVE  Image(n, last, ends) = Image(n, n, "block")
BY DEF Image

\* It grows by a block.
LEMMA ImageGrows ==
  ASSUME NEW n \in Nat, NEW ends \in Ends
  PROVE  Append(Image(n, n, "block"), BlockOut(n, Rest(ends))) = Image(n + 1, n + 1, ends)
<1> DEFINE p == Append(Image(n, n, "block"), BlockOut(n, Rest(ends)))
           q == Image(n + 1, n + 1, ends)
<1>1. BlockOut(n, Rest(ends)) \in Entries
  BY DEF Entries, Rest
<1>2. q \in Seq(Entries) /\ Len(q) = n + 1
  BY ImageEntries
<1>3. p \in Seq(Entries) /\ Len(p) = n + 1
  BY <1>1, ImageEntries
<1>4. p[n + 1] = BlockOut(n, Rest(ends))
  BY ImageEntries
<1>5. q[n + 1] = BlockOut(n, IF ends # "block" THEN "zeros" ELSE "image")
  BY DEF Image
<1>6. \A k \in 1 .. n : p[k] = BlockOut(k - 1, "image")
  <2> TAKE k \in 1 .. n
  <2>1. p[k] = Image(n, n, "block")[k]
    BY ImageEntries
  <2> QED
    BY <2>1 DEF Image
<1>7. \A k \in 1 .. n : q[k] = BlockOut(k - 1, "image")
  BY DEF Image
<1>8. p[n + 1] = q[n + 1]
  BY <1>4, <1>5 DEF Rest
<1> HIDE DEF p, q
<1>9. \A k \in 1 .. Len(p) : p[k] = q[k]
  <2> TAKE k \in 1 .. Len(p)
  <2>1. k \in 1 .. n \/ k = n + 1
    BY <1>3
  <2> QED
    BY <2>1, <1>6, <1>7, <1>8
<1> QED
  BY <1>2, <1>3, <1>9, SameEntries DEF p, q

-----------------------------------------------------------------------------
LEMMA ConvStart == ConvInit => ConvInv
<1> SUFFICES ASSUME ConvInit PROVE ConvInv
  OBVIOUS
<1>1. pc \in {"dump", "open", "loop", "done"} /\ pc \in {"dump", "open"}
  BY DEF ConvInit
<1>2. s \in 0 .. MaxBlocks /\ current_sector = Unset /\ end \in Ends /\ end = "block"
  BY ConversionAssumption DEF ConvInit, Ends
<1>3. result = FALSE /\ flawed = FALSE
  BY DEF ConvInit
<1>4. iso = <<>> /\ iso \in Seq(Entries) /\ s = 0
  BY DEF ConvInit
<1>5. ConversionTypeOK
  BY <1>1, <1>2, <1>3 DEF ConversionTypeOK
<1>6. IsoIsComplete
  BY <1>2, <1>3 DEF IsoIsComplete
<1> QED
  BY <1>2, <1>3, <1>4, <1>5, <1>6 DEF ConvInv

\* A block is converted.
LEMMA ConvBlock ==
  ASSUME ConvInv, NEW b \in DiscBlocks, NEW ends \in Ends, ConvertBlock(b, ends)
  PROVE  ConvInv'
<1>1. /\ s \in Nat /\ s < MaxBlocks /\ s' = s + 1 /\ s' \in 0 .. MaxBlocks
      /\ pc = "loop" /\ pc' = pc /\ end = "block" /\ end' = ends
  BY ConversionAssumption DEF ConvertBlock, ConvInv, ConversionTypeOK
<1>2. result /\ flawed' \in BOOLEAN
  BY DEF ConvertBlock
<1>3. current_sector = Unset
  BY <1>2 DEF ConvInv, ConversionTypeOK
<1>4. iso = Image(s, s, "block")
  BY <1>1, <1>2 DEF ConvInv, IsoIsComplete, IsoImage, Image
<1>5. iso \in Seq(Entries) /\ Len(iso) = s
  BY <1>1, <1>4, ImageEntries
<1>6. \/ iso' = Append(iso, BlockOut(s, Rest(ends))) /\ result' = result /\ current_sector' = Unset
      \/ iso' \in {iso, Append(iso, Part)} /\ result' = FALSE /\ current_sector' = s
  BY <1>3 DEF ConvertBlock, Write, Fail, FailedAt
<1>7. CASE iso' = Append(iso, BlockOut(s, Rest(ends))) /\ result' = result /\ current_sector' = Unset
  <2>1. iso' = Image(s', s', end')
    BY <1>1, <1>4, <1>7, ImageGrows
  <2>2. iso' \in Seq(Entries)
    BY <1>1, <2>1, ImageEntries, s' \in Nat
  <2>3. IsoIsComplete'
    BY <1>7, <2>1 DEF IsoIsComplete, IsoImage, Image
  <2>4. ConversionTypeOK'
    BY <1>1, <1>2, <1>7 DEF ConvInv, ConversionTypeOK
  <2> QED
    BY <1>1, <1>7, <2>2, <2>3, <2>4 DEF ConvInv
<1>8. CASE iso' \in {iso, Append(iso, Part)} /\ result' = FALSE /\ current_sector' = s
  <2>1. Part \in Entries
    BY DEF Entries, Part, Unset
  <2>2. /\ iso' \in Seq(Entries) /\ Len(iso') \in s .. s + 1
        /\ \A k \in 1 .. s : iso'[k] = iso[k]
    BY <1>1, <1>5, <1>8, <2>1
  <2>3. SubSeq(iso', 1, s) = iso
    <3>1. SubSeq(iso', 1, s) \in Seq(Entries) /\ Len(SubSeq(iso', 1, s)) = s
      BY <1>1, <2>2
    <3>2. \A k \in 1 .. s : SubSeq(iso', 1, s)[k] = iso[k]
      BY <1>1, <2>2
    <3> QED
      BY <1>5, <3>1, <3>2, SameEntries
  <2>4. iso = Image(s, s', end')
    BY <1>1, <1>4, WholeImage
  <2>5. IsoIsComplete'
    BY <1>8, <2>2, <2>3, <2>4 DEF IsoIsComplete, IsoImage, Image
  <2>6. ConversionTypeOK'
    BY <1>1, <1>2, <1>8 DEF ConvInv, ConversionTypeOK
  <2>7. current_sector' # Unset => ~result' /\ s' = current_sector' + 1
    BY <1>1, <1>8
  <2> QED
    BY <1>1, <2>2, <2>5, <2>6, <2>7 DEF ConvInv
<1> QED
  BY <1>6, <1>7, <1>8

LEMMA ConvStep == ConvInv /\ [ConvNext]_allVars => ConvInv'
<1> SUFFICES ASSUME ConvInv, [ConvNext]_allVars PROVE ConvInv'
  OBVIOUS
<1>1. ASSUME NEW b \in DiscBlocks, NEW ends \in Ends, ConvertBlock(b, ends)
      PROVE  ConvInv'
  BY <1>1, ConvBlock
<1>2. CASE Open
  <2>1. /\ pc' = "loop" /\ result' = TRUE
        /\ UNCHANGED <<s, iso, current_sector, end, flawed>>
        /\ s = 0 /\ iso = <<>> /\ current_sector = Unset
    BY <1>2 DEF Open, ConvInv
  <2>2. iso' = IsoImage(s)'
    BY <2>1 DEF IsoImage
  <2>3. IsoIsComplete'
    BY <2>1, <2>2 DEF IsoIsComplete
  <2>4. ConversionTypeOK'
    BY <2>1 DEF ConvInv, ConversionTypeOK
  <2> QED
    BY <2>1, <2>3, <2>4 DEF ConvInv
<1>3. CASE CannotOpen \/ Leave
  <2>1. pc' = "done" /\ UNCHANGED <<s, iso, result, current_sector, end, flawed>>
    BY <1>3 DEF CannotOpen, Leave
  <2>2. IsoIsComplete'
    BY <2>1 DEF ConvInv, IsoIsComplete, IsoImage
  <2> QED
    BY <2>1, <2>2 DEF ConvInv, ConversionTypeOK
<1>4. CASE Dump \/ Over \/ UNCHANGED allVars
  <2>1. UNCHANGED convVars
    BY <1>4 DEF Dump, Over, allVars
  <2> QED
    BY <2>1 DEF convVars, ConvInv, ConversionTypeOK, IsoIsComplete, IsoImage
<1> QED
  BY <1>1, <1>2, <1>3, <1>4 DEF ConvNext

\* What is converted without a failure is the ISO image of all that was read; otherwise
\* it is that of all before the block at which main says it failed, and no more than a
\* part of that block; for images of every length.
THEOREM ConversionCorrect == ConvSpec => []IsoIsComplete
<1>1. ConvInv => IsoIsComplete
  BY DEF ConvInv
<1> QED
  BY <1>1, ConvStart, ConvStep, PTL DEF ConvSpec

-----------------------------------------------------------------------------
\* The inductive invariant of GoodImagesConvert: the conversion uses brute force.
GoodInv ==
  /\ GoodImagesConvert
  /\ pc # "dump" => bruteforce_seeds
  /\ pc \in {"dump", "open"} => s = 0

LEMMA GoodStart == ConvInit => GoodInv
BY DEF ConvInit, Init, GoodInv, GoodImagesConvert

LEMMA GoodBlock ==
  ASSUME TypeOK, RoomForEverySeed, GoodInv,
         NEW b \in DiscBlocks, NEW ends \in Ends, ConvertBlock(b, ends)
  PROVE  GoodInv'
<1> DEFINE padded == Padded(b, ends)
<1>1. /\ pc = "loop" /\ pc' = pc /\ end' = ends /\ bruteforce_seeds
      /\ flawed' = (flawed \/ b.seed = NoSeed \/ ~b.whole \/ ends = "torn")
      /\ unscrambler_unscramble_16sectors(padded)
  BY DEF ConvertBlock, GoodInv
<1>2. /\ padded \in DiscBlocks /\ padded.slot = b.slot /\ padded.seed = b.seed
      /\ padded.whole = (b.whole /\ (ends = "block" \/ (ends = "sector" /\ b.seed = 0)))
  <2> DEFINE whole == b.whole /\ (ends = "block" \/ (ends = "sector" /\ b.seed = 0))
  <2>1. padded = [b EXCEPT !.whole = whole]
    BY DEF Padded
  <2>2. b \in BlockType
    BY DEF DiscBlocks
  <2> HIDE DEF whole
  <2>3. padded.slot = b.slot /\ padded.seed = b.seed /\ padded.whole = whole
    BY <2>1, <2>2 DEF BlockType
  <2> QED
    BY <2>3, PaddedBlock DEF whole
<1> HIDE DEF padded
<1>3. SeedsOf' = SeedsOf /\ bruteforce_seeds' = bruteforce_seeds
  BY <1>1 DEF unscrambler_unscramble_16sectors, UseCached, AddSeed, NoRoom, NotFound,
              Unscramble
<1>4. ASSUME ~flawed', SeedsFit', end' = "block" \/ Dumped'
      PROVE  out'
  <2>1. b.slot \in 0 .. Slots - 1 /\ b.seed \in SeedsOf[b.slot] /\ b.seed # NoSeed
    BY <1>1, <1>4 DEF DiscBlocks, BlockType
  <2>2. padded.whole
    <3>1. b.whole /\ ends \in {"block", "sector"}
      BY <1>1, <1>4 DEF Ends
    <3>2. ends = "block" \/ b.seed = 0
      BY <1>1, <1>3, <1>4, <2>1 DEF Dumped
    <3>3. ends = "block" \/ (ends = "sector" /\ b.seed = 0)
      BY <3>1, <3>2
    <3> QED
      BY <1>2, <3>1, <3>3, Zenon
  <2>3. Tried(b.seed)
    <3>1. b.seed \in 0 .. LastSeed /\ b.seed # LastSeed
      BY <1>3, <1>4, <2>1, SeedsAssumption DEF TypeOK, SeedsFit
    <3> QED
      BY <3>1, SeedsAssumption DEF Tried
  <2>4. Cached(b.slot, b.seed) \/ Room(b.slot)
    BY <1>3, <1>4, <2>1 DEF RoomForEverySeed, SeedsFit
  <2>5. UseCached(padded) \/ AddSeed(padded)
    BY <1>1, <1>2, <2>3, <2>4
       DEF unscrambler_unscramble_16sectors, NoRoom, NotFound
  <2> QED
    BY <2>2, <2>5 DEF UseCached, AddSeed, Unscramble
<1> QED
  BY <1>1, <1>3, <1>4 DEF GoodInv, GoodImagesConvert

LEMMA GoodStep == TypeOK /\ RoomForEverySeed /\ GoodInv /\ [ConvNext]_allVars => GoodInv'
<1> SUFFICES ASSUME TypeOK, RoomForEverySeed, GoodInv, [ConvNext]_allVars PROVE GoodInv'
  OBVIOUS
<1>1. ASSUME NEW b \in DiscBlocks, NEW ends \in Ends, ConvertBlock(b, ends)
      PROVE  GoodInv'
  BY <1>1, GoodBlock
<1>2. CASE Dump
  BY <1>2 DEF Dump, convVars, GoodInv, GoodImagesConvert
<1>3. CASE CannotOpen \/ Open
  BY <1>3 DEF CannotOpen, Open, vars, GoodInv, GoodImagesConvert
<1>4. CASE Leave \/ Over \/ UNCHANGED allVars
  BY <1>4 DEF Leave, Over, allVars, convVars, vars, GoodInv, GoodImagesConvert, SeedsFit, Dumped
<1> QED
  BY <1>1, <1>2, <1>3, <1>4 DEF ConvNext

\* A raw image without errors is unscrambled to its end, as long as its seeds fit the cache
\* and the last one is none of them: one that FriiDump dumped whatever its length, another
\* one if its last block is whole.
THEOREM GoodImagesCorrect == ConvSpec => []GoodImagesConvert
<1>1. ConvSpec => []GoodInv
  BY ConversionSeedsTyped, ConversionHasRoom, GoodStart, GoodStep, PTL DEF ConvSpec
<1>2. GoodInv => GoodImagesConvert
  BY DEF GoodInv
<1> QED
  BY <1>1, <1>2, PTL

-----------------------------------------------------------------------------
\* The scrambler: the shift register and the error detection code add up, bit by bit.
\* Sums may be taken in any order.
LEMMA XorOfSums ==
  ASSUME NEW a, NEW b, NEW c, NEW d
  PROVE  Xor(Xor(a, b), Xor(c, d)) = Xor(Xor(a, c), Xor(b, d))
BY DEF Xor

\* What is added twice is gone.
LEMMA XorTwice ==
  ASSUME NEW a, NEW b, NEW seed
  PROVE  Xor(Xor(seed, a), Xor(seed, b)) = Xor(a, b)
BY DEF Xor

\* Shifts and what is cut off are linear.
LEMMA LeftAddsUp ==
  ASSUME NEW a \in SUBSET Nat, NEW b \in SUBSET Nat, NEW n \in Nat
  PROVE  Left(Xor(a, b), n) = Xor(Left(a, n), Left(b, n))
<1>1. \A w \in SUBSET Nat : \A x \in Nat : x + n \in Left(w, n) <=> x \in w
  BY DEF Left
<1>2. \A w \in SUBSET Nat : \A x \in Left(w, n) : \E y \in Nat : x = y + n
  BY DEF Left
<1>3. Xor(a, b) \in SUBSET Nat
  BY DEF Xor
<1>4. ASSUME NEW x PROVE x \in Left(Xor(a, b), n) <=> x \in Xor(Left(a, n), Left(b, n))
  <2>1. CASE \E y \in Nat : x = y + n
    BY <1>1, <1>3, <2>1 DEF Xor
  <2>2. CASE ~ \E y \in Nat : x = y + n
    BY <1>2, <1>3, <2>2 DEF Xor
  <2> QED
    BY <2>1, <2>2
<1> QED
  BY <1>4

LEMMA RightAddsUp ==
  ASSUME NEW a \in SUBSET Nat, NEW b \in SUBSET Nat, NEW n \in Nat
  PROVE  Right(Xor(a, b), n) = Xor(Right(a, n), Right(b, n))
<1>1. \A w \in SUBSET Nat : \A x \in Nat : x \in Right(w, n) <=> x + n \in w
  BY DEF Right
<1>2. \A w \in SUBSET Nat : \A x \in Right(w, n) : x \in Nat
  BY DEF Right
<1>3. Xor(a, b) \in SUBSET Nat
  BY DEF Xor
<1>4. ASSUME NEW x PROVE x \in Right(Xor(a, b), n) <=> x \in Xor(Right(a, n), Right(b, n))
  <2>1. CASE x \in Nat
    BY <1>1, <1>3, <2>1 DEF Xor
  <2>2. CASE x \notin Nat
    BY <1>2, <1>3, <2>2 DEF Xor
  <2> QED
    BY <2>1, <2>2
<1> QED
  BY <1>4

LEMMA BitsAddUp ==
  ASSUME NEW a, NEW b, NEW n
  PROVE  Bits(Xor(a, b), n) = Xor(Bits(a, n), Bits(b, n))
BY DEF Bits, Xor

\* Words stay words.
LEMMA XorWord ==
  ASSUME NEW U, NEW a \in SUBSET U, NEW b \in SUBSET U
  PROVE  Xor(a, b) \in SUBSET U
BY DEF Xor

LEMMA LeftWord ==
  ASSUME NEW w \in SUBSET Nat, NEW n \in Nat
  PROVE  Left(w, n) \in SUBSET Nat
BY DEF Left

LEMMA RightWord ==
  ASSUME NEW w \in SUBSET Nat, NEW n \in Nat
  PROVE  Right(w, n) \in SUBSET Nat
BY DEF Right

LEMMA BitsWord ==
  ASSUME NEW w \in SUBSET Nat, NEW n \in Nat
  PROVE  Bits(w, n) \in SUBSET (0 .. n - 1)
<1>1. \A x \in Bits(w, n) : x \in Nat /\ x < n
  BY DEF Bits
<1>2. \A x \in Nat : x < n => x \in 0 .. n - 1
  OBVIOUS
<1> QED
  BY <1>1, <1>2

\* A bit that neither word has is fed into their sum if it is into one of them.
LEMMA FeedAddsUp ==
  ASSUME NEW a, NEW b, NEW x, x \notin a, x \notin b, NEW p \in BOOLEAN, NEW q \in BOOLEAN
  PROVE  Xor(a, b) \cup (IF p # q THEN {x} ELSE {}) =
           Xor(a \cup (IF p THEN {x} ELSE {}), b \cup (IF q THEN {x} ELSE {}))
<1>1. CASE p = TRUE /\ q = TRUE
  BY <1>1 DEF Xor
<1>2. CASE p = TRUE /\ q = FALSE
  BY <1>2 DEF Xor
<1>3. CASE p = FALSE /\ q = TRUE
  BY <1>3 DEF Xor
<1>4. CASE p = FALSE /\ q = FALSE
  BY <1>4 DEF Xor
<1> QED
  BY <1>1, <1>2, <1>3, <1>4

LEMMA TickAddsUp ==
  ASSUME NEW a \in SUBSET Nat, NEW b \in SUBSET Nat
  PROVE  LFSR_tick(Xor(a, b)) = Xor(LFSR_tick(a), LFSR_tick(b))
<1> DEFINE la == Bits(Left(a, 1), 15)
           lb == Bits(Left(b, 1), 15)
           p == (14 \in a) # (10 \in a)
           q == (14 \in b) # (10 \in b)
<1>1. Bits(Left(Xor(a, b), 1), 15) = Xor(la, lb)
  <2>1. Left(Xor(a, b), 1) = Xor(Left(a, 1), Left(b, 1))
    BY LeftAddsUp
  <2> QED
    BY <2>1, BitsAddUp
<1>2. 0 \notin la /\ 0 \notin lb
  BY DEF Bits, Left
<1>3. ((14 \in Xor(a, b)) # (10 \in Xor(a, b))) = (p # q)
  BY DEF Xor
<1>4. /\ LFSR_tick(a) = la \cup IF p THEN {0} ELSE {}
      /\ LFSR_tick(b) = lb \cup IF q THEN {0} ELSE {}
      /\ LFSR_tick(Xor(a, b)) = Xor(la, lb) \cup IF p # q THEN {0} ELSE {}
  BY <1>1, <1>3, Zenon DEF LFSR_tick
<1>5. p \in BOOLEAN /\ q \in BOOLEAN
  OBVIOUS
<1> HIDE DEF la, lb, p, q
<1>6. Xor(la, lb) \cup (IF p # q THEN {0} ELSE {}) =
        Xor(la \cup (IF p THEN {0} ELSE {}), lb \cup (IF q THEN {0} ELSE {}))
  BY <1>2, <1>5, FeedAddsUp
<1> QED
  BY <1>4, <1>6, Zenon

LEMMA ShiftedAddsUp ==
  ASSUME NEW a \in SUBSET Nat, NEW b \in SUBSET Nat, NEW x \in SUBSET Nat, NEW y \in SUBSET Nat
  PROVE  Shifted(Xor(x, y), Xor(a, b)) = Xor(Shifted(x, a), Shifted(y, b))
<1> DEFINE lx == Left(x, 1)
           ly == Left(y, 1)
           p == 14 \in a
           q == 14 \in b
<1>1. Left(Xor(x, y), 1) = Xor(lx, ly)
  BY LeftAddsUp
<1>2. 0 \notin lx /\ 0 \notin ly
  BY DEF Left
<1>3. (14 \in Xor(a, b)) = (p # q)
  BY DEF Xor
<1>4. /\ Shifted(x, a) = lx \cup IF p THEN {0} ELSE {}
      /\ Shifted(y, b) = ly \cup IF q THEN {0} ELSE {}
      /\ Shifted(Xor(x, y), Xor(a, b)) = Xor(lx, ly) \cup IF p # q THEN {0} ELSE {}
  BY <1>1, <1>3, Zenon DEF Shifted
<1>5. p \in BOOLEAN /\ q \in BOOLEAN
  OBVIOUS
<1> HIDE DEF lx, ly, p, q
<1>6. Xor(lx, ly) \cup (IF p # q THEN {0} ELSE {}) =
        Xor(lx \cup (IF p THEN {0} ELSE {}), ly \cup (IF q THEN {0} ELSE {}))
  BY <1>2, <1>5, FeedAddsUp
<1> QED
  BY <1>4, <1>6, Zenon

LEMMA EdcShiftAddsUp ==
  ASSUME NEW a \in SUBSET Nat, NEW b \in SUBSET Nat
  PROVE  /\ EdcShift(Xor(a, b)) = Xor(EdcShift(a), EdcShift(b))
         /\ EdcShift(a) \in SUBSET (0 .. 31)
<1> DEFINE over(w) == IF 31 \in w THEN {31, 4, 0} ELSE {}
<1>1. Bits(Left(Xor(a, b), 1), 32) = Xor(Bits(Left(a, 1), 32), Bits(Left(b, 1), 32))
  <2>1. Left(Xor(a, b), 1) = Xor(Left(a, 1), Left(b, 1))
    BY LeftAddsUp
  <2> QED
    BY <2>1, BitsAddUp
<1>2. over(Xor(a, b)) = Xor(over(a), over(b))
  BY DEF Xor
<1>3. \A w : EdcShift(w) = Xor(Bits(Left(w, 1), 32), over(w))
  BY DEF EdcShift
<1>4. Bits(Left(a, 1), 32) \in SUBSET (0 .. 31) /\ over(a) \in SUBSET (0 .. 31)
  BY LeftWord, BitsWord, 32 - 1 = 31
<1> HIDE DEF over
<1>5. EdcShift(a) \in SUBSET (0 .. 31)
  BY <1>3, <1>4 DEF Xor
<1>6. EdcShift(Xor(a, b)) = Xor(Xor(Bits(Left(a, 1), 32), Bits(Left(b, 1), 32)), Xor(over(a), over(b)))
  BY <1>1, <1>2, <1>3
<1>7. @ = Xor(Xor(Bits(Left(a, 1), 32), over(a)), Xor(Bits(Left(b, 1), 32), over(b)))
  BY XorOfSums
<1> QED
  BY <1>3, <1>5, <1>6, <1>7

\* Every entry of edc_table is the sum of those of its index's bits.
LEMMA TableAddsUp ==
  ASSUME NEW a \in SUBSET Nat, NEW b \in SUBSET Nat
  PROVE  /\ edc_table(Xor(a, b)) = Xor(edc_table(a), edc_table(b))
         /\ edc_table(a) \in SUBSET (0 .. 31)
<1>1. \A w \in SUBSET Nat : EdcShift(w) \in SUBSET Nat /\ EdcShift(w) \in SUBSET (0 .. 31)
  <2> TAKE w \in SUBSET Nat
  <2>1. EdcShift(w) \in SUBSET (0 .. 31)
    BY EdcShiftAddsUp
  <2> QED
    BY <2>1
<1>2. \A v, w \in SUBSET Nat : EdcShift(Xor(v, w)) = Xor(EdcShift(v), EdcShift(w))
  BY EdcShiftAddsUp
<1>3. \A w \in SUBSET Nat : EdcShift2(w) \in SUBSET Nat /\ EdcShift2(w) \in SUBSET (0 .. 31)
  BY <1>1, Zenon DEF EdcShift2
<1>4. \A v, w \in SUBSET Nat : EdcShift2(Xor(v, w)) = Xor(EdcShift2(v), EdcShift2(w))
  BY <1>1, <1>2, Zenon DEF EdcShift2
<1>5. \A w \in SUBSET Nat : EdcShift4(w) \in SUBSET Nat /\ EdcShift4(w) \in SUBSET (0 .. 31)
  BY <1>3, Zenon DEF EdcShift4
<1>6. \A v, w \in SUBSET Nat : EdcShift4(Xor(v, w)) = Xor(EdcShift4(v), EdcShift4(w))
  BY <1>3, <1>4, Zenon DEF EdcShift4
<1>7. Left(a, 24) \in SUBSET Nat /\ Left(b, 24) \in SUBSET Nat
  BY LeftWord
<1>8. Left(Xor(a, b), 24) = Xor(Left(a, 24), Left(b, 24))
  BY LeftAddsUp
<1> DEFINE la == Left(a, 24)
           lb == Left(b, 24)
<1>9. edc_table(Xor(a, b)) = EdcShift4(EdcShift4(Xor(la, lb)))
  BY <1>8, Zenon DEF edc_table
<1>10. edc_table(a) = EdcShift4(EdcShift4(la)) /\ edc_table(b) = EdcShift4(EdcShift4(lb))
  BY DEF edc_table
<1> HIDE DEF la, lb
<1>11. EdcShift4(Xor(la, lb)) = Xor(EdcShift4(la), EdcShift4(lb))
  BY <1>6, <1>7 DEF la, lb
<1>12. /\ EdcShift4(la) \in SUBSET Nat /\ EdcShift4(lb) \in SUBSET Nat
       /\ EdcShift4(EdcShift4(la)) \in SUBSET (0 .. 31)
  BY <1>5, <1>7, Zenon DEF la, lb
<1>13. EdcShift4(Xor(EdcShift4(la), EdcShift4(lb))) =
         Xor(EdcShift4(EdcShift4(la)), EdcShift4(EdcShift4(lb)))
  BY <1>6, <1>12, Zenon
<1> QED
  BY <1>9, <1>10, <1>11, <1>12, <1>13, Zenon

\* The code of two words that are added is the sum of their codes.
LEMMA EdcAddsUp ==
  ASSUME NEW a \in SUBSET Nat, NEW b \in SUBSET Nat, NEW x \in SUBSET Nat, NEW y \in SUBSET Nat
  PROVE  edc_calc(Xor(a, b), Xor(x, y)) = Xor(edc_calc(a, x), edc_calc(b, y))
<1> DEFINE ra == Right(a, 24)
           rb == Right(b, 24)
           la == Bits(Left(a, 8), 32)
           lb == Bits(Left(b, 8), 32)
<1>1. Right(Xor(a, b), 24) = Xor(ra, rb)
  BY RightAddsUp
<1>2. Bits(Left(Xor(a, b), 8), 32) = Xor(la, lb)
  <2>1. Left(Xor(a, b), 8) = Xor(Left(a, 8), Left(b, 8))
    BY LeftAddsUp
  <2> QED
    BY <2>1, BitsAddUp
<1>3. ra \in SUBSET Nat /\ rb \in SUBSET Nat
  BY RightWord
<1>4. /\ edc_calc(a, x) = Xor(edc_table(Xor(ra, x)), la)
      /\ edc_calc(b, y) = Xor(edc_table(Xor(rb, y)), lb)
      /\ edc_calc(Xor(a, b), Xor(x, y)) =
           Xor(edc_table(Xor(Xor(ra, rb), Xor(x, y))), Xor(la, lb))
  BY <1>1, <1>2, Zenon DEF edc_calc
<1> HIDE DEF ra, rb, la, lb
<1>5. Xor(ra, x) \in SUBSET Nat /\ Xor(rb, y) \in SUBSET Nat
  BY <1>3, XorWord
<1>6. Xor(Xor(ra, rb), Xor(x, y)) = Xor(Xor(ra, x), Xor(rb, y))
  BY XorOfSums
<1>7. edc_table(Xor(Xor(ra, x), Xor(rb, y))) =
        Xor(edc_table(Xor(ra, x)), edc_table(Xor(rb, y)))
  BY <1>5, TableAddsUp
<1> DEFINE ta == edc_table(Xor(ra, x))
           tb == edc_table(Xor(rb, y))
<1>8. edc_calc(Xor(a, b), Xor(x, y)) = Xor(Xor(ta, tb), Xor(la, lb))
  BY <1>4, <1>6, <1>7, Zenon
<1>9. Xor(Xor(ta, tb), Xor(la, lb)) = Xor(Xor(ta, la), Xor(tb, lb))
  BY XorOfSums
<1> QED
  BY <1>4, <1>8, <1>9, Zenon

LEMMA EdcWord ==
  ASSUME NEW a \in SUBSET Nat, NEW x \in SUBSET Nat
  PROVE  edc_calc(a, x) \in SUBSET (0 .. 31)
<1> DEFINE ra == Right(a, 24)
           la == Left(a, 8)
<1>1. ra \in SUBSET Nat /\ la \in SUBSET Nat
  BY RightWord, LeftWord
<1>2. edc_calc(a, x) = Xor(edc_table(Xor(ra, x)), Bits(la, 32))
  BY DEF edc_calc
<1> HIDE DEF ra, la
<1>3. Xor(ra, x) \in SUBSET Nat
  BY <1>1, XorWord
<1>4. edc_table(Xor(ra, x)) \in SUBSET (0 .. 31)
  BY <1>3, TableAddsUp
<1>5. Bits(la, 32) \in SUBSET (0 .. 31)
  <2>1. 32 \in Nat /\ 32 - 1 = 31
    OBVIOUS
  <2>2. Bits(la, 32) \in SUBSET (0 .. 32 - 1)
    BY <1>1, <2>1, BitsWord
  <2> QED
    BY <2>1, <2>2
<1> QED
  BY <1>2, <1>4, <1>5 DEF Xor

\* What of the scrambler is inductive: it works on words, inside the sector, and
\* registers and codes add up.
Scrambled ==
  /\ LFSR \in [Seeds -> SUBSET (0 .. 14)]
  /\ ret \in [Seeds -> SUBSET Nat]
  /\ cipher \in [Seeds -> SUBSET (0 .. 31)]
  /\ edc \in [Seeds -> SUBSET (0 .. 31)]
  /\ ticks \in Nat /\ bytes \in Nat
  /\ ticks > 0 => bytes < SECTOR_SIZE

ScrInv == Scrambled /\ CodesAddUp

LEMMA ScrStart == TestInit => ScrInv
<1> SUFFICES ASSUME TestInit PROVE ScrInv
  OBVIOUS
<1>1. Scrambled
  BY ScramblerAssumption DEF TestInit, SeedBits, Scrambled
<1>2. \A w : Xor(w, w) = {}
  BY DEF Xor
<1>3. CodesAddUp
  BY <1>2 DEF TestInit, CodesAddUp
<1> QED
  BY <1>1, <1>3 DEF ScrInv

LEMMA ScrTick == ScrInv /\ Tick => ScrInv'
<1> SUFFICES ASSUME ScrInv, Tick PROVE ScrInv'
  OBVIOUS
<1>1. \A seed \in Seeds : LFSR[seed] \in SUBSET Nat /\ ret[seed] \in SUBSET Nat
  BY DEF ScrInv, Scrambled
<1>2. \A w \in SUBSET Nat : LFSR_tick(w) \in SUBSET (0 .. 14)
  <2> TAKE w \in SUBSET Nat
  <2>1. Left(w, 1) \in SUBSET Nat /\ 15 - 1 = 14 /\ 15 \in Nat
    BY LeftWord
  <2>2. Bits(Left(w, 1), 15) \in SUBSET (0 .. 15 - 1)
    BY <2>1, BitsWord
  <2> QED
    BY <2>1, <2>2 DEF LFSR_tick
<1>3. \A v, w \in SUBSET Nat : Shifted(v, w) \in SUBSET Nat
  BY LeftWord DEF Shifted
<1>4. /\ \A seed \in Seeds : LFSR'[seed] = LFSR_tick(LFSR[seed]) /\ ret'[seed] = Shifted(ret[seed], LFSR[seed])
      /\ cipher' = cipher /\ edc' = edc
  BY DEF Tick
<1>5. Scrambled'
  <2>1. LFSR' \in [Seeds -> SUBSET (0 .. 14)]
    BY <1>1, <1>2 DEF Tick
  <2>2. ret' \in [Seeds -> SUBSET Nat]
    BY <1>1, <1>3 DEF Tick
  <2> QED
    BY <2>1, <2>2, <1>4 DEF Tick, ScrInv, Scrambled
<1>6. ASSUME NEW a \in Seeds, NEW b \in Seeds, Xor(a, b) \in Seeds
      PROVE  /\ LFSR'[Xor(a, b)] = Xor(LFSR'[a], LFSR'[b])
             /\ ret'[Xor(a, b)] = Xor(ret'[a], ret'[b])
  <2>1. LFSR[Xor(a, b)] = Xor(LFSR[a], LFSR[b]) /\ ret[Xor(a, b)] = Xor(ret[a], ret[b])
    BY <1>6 DEF ScrInv, CodesAddUp
  <2>2. LFSR_tick(Xor(LFSR[a], LFSR[b])) = Xor(LFSR_tick(LFSR[a]), LFSR_tick(LFSR[b]))
    BY <1>1, TickAddsUp
  <2>3. Shifted(Xor(ret[a], ret[b]), Xor(LFSR[a], LFSR[b])) =
          Xor(Shifted(ret[a], LFSR[a]), Shifted(ret[b], LFSR[b]))
    BY <1>1, ShiftedAddsUp
  <2> QED
    BY <1>4, <1>6, <2>1, <2>2, <2>3, Zenon
<1>7. CodesAddUp'
  BY <1>4, <1>6 DEF ScrInv, CodesAddUp
<1> QED
  BY <1>5, <1>7 DEF ScrInv

LEMMA ScrByte == ScrInv /\ Byte => ScrInv'
<1> SUFFICES ASSUME ScrInv, Byte PROVE ScrInv'
  OBVIOUS
<1> DEFINE byte(seed) == Xor(Sector[bytes], ret[seed])
<1>1. \A seed \in Seeds : cipher[seed] \in SUBSET Nat /\ edc[seed] \in SUBSET Nat /\ ret[seed] \in SUBSET Nat
  BY DEF ScrInv, Scrambled
<1>2. \A seed \in Seeds : byte(seed) \in SUBSET Nat
  <2>1. bytes \in 0 .. SECTOR_SIZE - 1
    BY ScramblerAssumption DEF ScrInv, Scrambled, Byte
  <2>2. Sector[bytes] \in SUBSET Nat
    BY <2>1, ScramblerAssumption
  <2> QED
    BY <1>1, <2>2, XorWord
<1>3. /\ \A seed \in Seeds : /\ cipher'[seed] = edc_calc(cipher[seed], ret[seed])
                          /\ edc'[seed] = edc_calc(edc[seed], byte(seed))
                          /\ ret'[seed] = {}
      /\ LFSR' = LFSR
  BY DEF Byte
<1>4. Scrambled'
  <2>1. \A seed \in Seeds : /\ edc_calc(cipher[seed], ret[seed]) \in SUBSET (0 .. 31)
                         /\ edc_calc(edc[seed], byte(seed)) \in SUBSET (0 .. 31)
    BY <1>1, <1>2, EdcWord
  <2>2. cipher' \in [Seeds -> SUBSET (0 .. 31)] /\ edc' \in [Seeds -> SUBSET (0 .. 31)]
    BY <2>1 DEF Byte
  <2>3. ret' \in [Seeds -> SUBSET Nat]
    BY DEF Byte
  <2> QED
    BY <1>3, <2>2, <2>3 DEF Byte, ScrInv, Scrambled
<1>5. ASSUME NEW a \in Seeds, NEW b \in Seeds, Xor(a, b) \in Seeds
      PROVE  /\ ret'[Xor(a, b)] = Xor(ret'[a], ret'[b])
             /\ cipher'[Xor(a, b)] = Xor(cipher'[a], cipher'[b])
             /\ cipher'[Xor(a, b)] = Xor(edc'[a], edc'[b])
  <2>1. /\ ret[Xor(a, b)] = Xor(ret[a], ret[b])
        /\ cipher[Xor(a, b)] = Xor(cipher[a], cipher[b])
        /\ cipher[Xor(a, b)] = Xor(edc[a], edc[b])
    BY <1>5 DEF ScrInv, CodesAddUp
  <2>2. edc_calc(Xor(cipher[a], cipher[b]), Xor(ret[a], ret[b])) =
          Xor(edc_calc(cipher[a], ret[a]), edc_calc(cipher[b], ret[b]))
    BY <1>1, EdcAddsUp
  <2>3. Xor(byte(a), byte(b)) = Xor(ret[a], ret[b])
    BY XorTwice
  <2>4. edc_calc(Xor(edc[a], edc[b]), Xor(byte(a), byte(b))) =
          Xor(edc_calc(edc[a], byte(a)), edc_calc(edc[b], byte(b)))
    <3>1. /\ edc[a] \in SUBSET Nat /\ edc[b] \in SUBSET Nat
          /\ byte(a) \in SUBSET Nat /\ byte(b) \in SUBSET Nat
      BY <1>1, <1>2
    <3> HIDE DEF byte
    <3> QED
      BY <3>1, EdcAddsUp
  <2>5. Xor({}, {}) = {}
    BY DEF Xor
  <2>6. /\ cipher'[Xor(a, b)] = edc_calc(cipher[Xor(a, b)], ret[Xor(a, b)])
        /\ cipher'[a] = edc_calc(cipher[a], ret[a])
        /\ cipher'[b] = edc_calc(cipher[b], ret[b])
        /\ edc'[a] = edc_calc(edc[a], byte(a))
        /\ edc'[b] = edc_calc(edc[b], byte(b))
        /\ ret'[Xor(a, b)] = {} /\ ret'[a] = {} /\ ret'[b] = {}
    BY <1>3, <1>5, Zenon
  <2> HIDE DEF byte
  <2>7. cipher'[Xor(a, b)] = Xor(cipher'[a], cipher'[b])
    BY <2>1, <2>2, <2>6, Zenon
  <2>8. cipher'[Xor(a, b)] = Xor(edc'[a], edc'[b])
    BY <2>1, <2>3, <2>4, <2>6, Zenon
  <2> QED
    BY <2>5, <2>6, <2>7, <2>8, Zenon
<1>6. CodesAddUp'
  BY <1>3, <1>5 DEF ScrInv, CodesAddUp
<1> QED
  BY <1>4, <1>6 DEF ScrInv

LEMMA ScrStep == ScrInv /\ [TestNext]_testVars => ScrInv'
<1> SUFFICES ASSUME ScrInv, [TestNext]_testVars PROVE ScrInv'
  OBVIOUS
<1>1. CASE Tick
  BY <1>1, ScrTick
<1>2. CASE Byte
  BY <1>2, ScrByte
<1>3. CASE Tested \/ UNCHANGED testVars
  BY <1>3 DEF Tested, testVars, ScrInv, Scrambled, CodesAddUp
<1> QED
  BY <1>1, <1>2, <1>3 DEF TestNext

\* Under all seeds at once, registers and codes are linear, for sectors of every length
\* and all that may be in them.
THEOREM ScramblerAddsUp == TestSpec => []CodesAddUp
<1>1. TestInit => ScrInv
  BY ScrStart
<1>2. ScrInv /\ [TestNext]_testVars => ScrInv'
  BY ScrStep
<1>3. ScrInv => CodesAddUp
  BY DEF ScrInv
<1> QED
  BY <1>1, <1>2, <1>3, PTL DEF TestSpec

LEMMA BitsFinite == IsFiniteSet(0 .. 14)
<1>1. 0 \in Int /\ 14 \in Int
  OBVIOUS
<1> QED
  BY <1>1, FS_Interval, Zenon

\* A seed more adds the code of its cipher to the sum of the others.
LEMMA SumOfMore ==
  ASSUME NEW bits \in SUBSET (0 .. 14), NEW x \in 0 .. 14, x \notin bits,
         cipher[{x}] \in SUBSET (0 .. 31)
  PROVE  Sum(bits \cup {x}) = Xor(Sum(bits), cipher[{x}])
<1> DEFINE With(k, set) == {b \in set : k \in cipher[OneBit(b)]}
<1>1. ASSUME NEW k \in 0 .. 31
      PROVE  k \in Sum(bits \cup {x}) <=> ~(k \in Sum(bits) <=> k \in cipher[{x}])
  <2>0. \A set : k \in Sum(set) <=> Cardinality(With(k, set)) % 2 = 1
    BY Zenon DEF Sum
  <2>1. IsFiniteSet(With(k, bits)) /\ Cardinality(With(k, bits)) \in Nat /\ x \notin With(k, bits)
    <3>1. IsFiniteSet(0 .. 14)
      BY BitsFinite
    <3>2. With(k, bits) \in SUBSET (0 .. 14)
      OBVIOUS
    <3>3. IsFiniteSet(With(k, bits))
      BY <3>1, <3>2, FS_Subset
    <3> QED
      BY <3>3, FS_CardinalityType
  <2>2. CASE k \in cipher[{x}]
    <3>1. With(k, bits \cup {x}) = With(k, bits) \cup {x}
      BY <2>2 DEF OneBit
    <3>2. Cardinality(With(k, bits \cup {x})) = Cardinality(With(k, bits)) + 1
      <4> HIDE DEF With
      <4> QED
        BY <2>1, <3>1, FS_AddElement
    <3>3. \A m \in Nat : (m + 1) % 2 = 1 <=> m % 2 # 1
      OBVIOUS
    <3>4. (Cardinality(With(k, bits \cup {x})) % 2 = 1) <=> (Cardinality(With(k, bits)) % 2 # 1)
      <4> HIDE DEF With
      <4> QED
        BY <2>1, <3>2, <3>3
    <3> QED
      BY <2>0, <2>2, <3>4, Zenon
  <2>3. CASE k \notin cipher[{x}]
    <3>1. With(k, bits \cup {x}) = With(k, bits)
      BY <2>3 DEF OneBit
    <3> QED
      BY <2>0, <2>3, <3>1, Zenon
  <2> QED
    BY <2>2, <2>3
<1>2. /\ Sum(bits \cup {x}) \in SUBSET (0 .. 31)
      /\ Sum(bits) \in SUBSET (0 .. 31)
  BY DEF Sum
<1>3. ASSUME NEW k PROVE k \in Sum(bits \cup {x}) <=> k \in Xor(Sum(bits), cipher[{x}])
  <2>1. CASE k \in 0 .. 31
    <3>1. k \in Xor(Sum(bits), cipher[{x}]) <=> ~(k \in Sum(bits) <=> k \in cipher[{x}])
      BY DEF Xor
    <3> QED
      BY <1>1, <2>1, <3>1, Zenon
  <2>2. CASE k \notin 0 .. 31
    BY <1>2, <2>2 DEF Xor
  <2> QED
    BY <2>1, <2>2
<1> QED
  BY <1>3

\* The code of the cipher of a seed is the sum of those of its bits.
LEMMA CipherIsSum ==
  ASSUME Scrambled, CodesAddUp, Seeds = SUBSET (0 .. 14), NEW bits \in SUBSET (0 .. 14)
  PROVE  cipher[bits] = Sum(bits)
<1> DEFINE Wrong(n) ==
      \E set \in SUBSET (0 .. 14) : Cardinality(set) = n /\ cipher[set] # Sum(set)
           T == {n \in Nat : Wrong(n)}
<1>1. \A set \in SUBSET (0 .. 14) : IsFiniteSet(set) /\ Cardinality(set) \in Nat
  <2> TAKE set \in SUBSET (0 .. 14)
  <2>1. IsFiniteSet(set)
    BY BitsFinite, FS_Subset, Zenon
  <2> QED
    BY <2>1, FS_CardinalityType
<1>2. cipher[{}] = {} /\ Sum({}) = {}
  <2>1. Xor({}, {}) = {} /\ \A w : Xor(w, w) = {}
    BY DEF Xor
  <2>2. cipher[{}] = {}
    <3>1. {} \in Seeds /\ Xor({}, {}) \in Seeds
      BY <2>1
    <3>2. cipher[Xor({}, {})] = Xor(cipher[{}], cipher[{}])
      BY <3>1 DEF CodesAddUp
    <3> QED
      BY <2>1, <3>2, Zenon
  <2>3. \A k : {b \in {} : k \in cipher[OneBit(b)]} = {}
    OBVIOUS
  <2>4. Cardinality({}) % 2 # 1
    <3>1. Cardinality({}) = 0
      BY FS_EmptySet
    <3> QED
      BY <3>1
  <2>5. ASSUME NEW k \in Sum({}) PROVE FALSE
    <3>1. Cardinality({b \in {} : k \in cipher[OneBit(b)]}) % 2 = 1
      BY <2>5, Zenon DEF Sum
    <3> QED
      BY <2>3, <2>4, <3>1, Zenon
  <2> QED
    BY <2>2, <2>5
<1>3. ASSUME T # {} PROVE FALSE
  <2>1. PICK n \in T : \A m \in T : n <= m
    BY <1>3, LeastNat
  <2>2. PICK set \in SUBSET (0 .. 14) : Cardinality(set) = n /\ cipher[set] # Sum(set)
    BY <2>1
  <2>3. PICK x \in set : TRUE
    BY <1>2, <2>2
  <2> DEFINE less == set \ {x}
  <2>4. less \in SUBSET (0 .. 14) /\ x \in 0 .. 14 /\ x \notin less /\ set = less \cup {x}
    BY <2>3
  <2>5. Cardinality(less) \in Nat /\ Cardinality(less) < n
    BY <1>1, <2>2, <2>3, <2>4, FS_RemoveElement
  <2> HIDE DEF less
  <2>6. cipher[less] = Sum(less)
    BY <2>1, <2>4, <2>5
  <2>7. set = Xor(less, {x}) /\ {x} \in SUBSET (0 .. 14)
    BY <2>4 DEF Xor
  <2>8. cipher[set] = Xor(cipher[less], cipher[{x}])
    <3>1. less \in Seeds /\ {x} \in Seeds /\ Xor(less, {x}) \in Seeds
      BY <2>2, <2>4, <2>7
    <3> QED
      BY <2>7, <3>1, Zenon DEF CodesAddUp
  <2>9. cipher[{x}] \in SUBSET (0 .. 31)
    BY <2>7 DEF Scrambled
  <2>10. Sum(set) = Xor(Sum(less), cipher[{x}])
    BY <2>4, <2>9, SumOfMore
  <2> QED
    BY <2>2, <2>6, <2>8, <2>10
<1> QED
  BY <1>1, <1>3

\* What the run finds of the 15 seeds of one bit says all of the 32768: when the codes of
\* their ciphers are independent, test_seed accepts one seed at most for any sector.
THEOREM OneSeedIsAccepted ==
  ASSUME Seeds = SUBSET SeedBits
  PROVE  TestSpec => []((bytes = SECTOR_SIZE => CodesAreIndependent) => SeedsAreToldApart)
<1>1. TestInit => ScrInv
  BY ScrStart
<1>2. ScrInv /\ [TestNext]_testVars => ScrInv'
  BY ScrStep
<1>3. ScrInv => ((bytes = SECTOR_SIZE => CodesAreIndependent) => SeedsAreToldApart)
  <2> SUFFICES ASSUME ScrInv, CodesAreIndependent,
                      NEW a \in Seeds, NEW b \in Seeds, edc[a] = edc[b]
               PROVE  a = b
    BY Zenon DEF SeedsAreToldApart
  <2> DEFINE c == Xor(a, b)
  <2>1. c \in SUBSET (0 .. 14) /\ Seeds = SUBSET (0 .. 14)
    BY XorWord DEF SeedBits
  <2>2. cipher[c] = Xor(edc[a], edc[b])
    BY <2>1 DEF ScrInv, CodesAddUp
  <2>3. cipher[c] = {}
    BY <2>2 DEF Xor
  <2>4. Sum(c) = {}
    BY <2>1, <2>3, CipherIsSum DEF ScrInv
  <2>5. c = {}
    BY <2>1, <2>4 DEF CodesAreIndependent, SeedBits
  <2> QED
    BY <2>5 DEF Xor
<1> QED
  BY <1>1, <1>2, <1>3, PTL DEF TestSpec
=============================================================================
