--------------------------- MODULE DiscReadProofs ---------------------------
(***************************************************************************)
(* Theorems about DiscRead for every size of a block, every set of setups  *)
(* and every number of attempts.                                           *)
(*                                                                         *)
(* StepCases and the lemmas before it say what every step may do, in few   *)
(* words: call, look up, retry, give up, cache blocks, answer, end an      *)
(* attempt.  Invariants rest on those and on each other: ReadInv (types,   *)
(* who may be where, blocks at their places), AtDrive, Seamed and Gathered *)
(* (what the RAM and the buffer of a run hold), RightInv, SpoiltBehind.    *)
(***************************************************************************)
EXTENDS DiscRead, SequenceTheorems, Arithmetic, TLAPS

-----------------------------------------------------------------------------
\* What is known of the setup and of the numbers worked out from it.

Number == Nat \cup {Garbage}
Sector == Number \cup {Spoilt}

Positions == 0 .. cache_size - 1
Aligned(s) == s % SECTORS_PER_BLOCK = 0

LEMMA SetupTypes ==
  ASSUME setup \in Setups
  PROVE  /\ setup.methods \in Seq(0 .. 9) /\ Len(setup.methods) \in Nat \ {0}
         /\ DOMAIN setup.methods = 1 .. Len(setup.methods)
         /\ \A a \in DOMAIN setup.methods : setup.methods[a] \in 0 .. 9
         /\ sec_disc \in Nat /\ sec_mem \in Nat /\ sec_mem >= SECTORS_PER_BLOCK
         /\ cache_size \in Nat \ {0} /\ sectors_no \in Nat /\ DiscEnd \in Nat
         /\ LayerBreak \in Nat /\ Scratched \subseteq Nat /\ Seeds \in Nat \ {0}
         /\ IsWii \in BOOLEAN /\ IsDVD \in BOOLEAN /\ CrackBlocks \in Nat
         /\ UpdateSector \in Nat /\ StartSectors \subseteq Nat
         /\ PieceSectors \in Nat \ {0} /\ LazyDrive \in BOOLEAN
         /\ MemdumpFaults \in BOOLEAN /\ SequenceChecked \in BOOLEAN
         /\ Hashing \in BOOLEAN /\ LongBytes \in {4, 8}
         /\ Aligned(UpdateSector) /\ \A s \in StartSectors : Aligned(s)
<1>1. setup \in SetupType /\ setup.sec_mem >= SECTORS_PER_BLOCK /\ setup.methods # <<>>
  BY DiscAssumption
<1>2. setup.methods \in Seq(0 .. 9) /\ setup.methods # <<>>
  BY <1>1 DEF SetupType
<1>3. Len(setup.methods) \in Nat \ {0} /\ DOMAIN setup.methods = 1 .. Len(setup.methods)
  BY <1>2, EmptySeq, LenProperties
<1>4. \A a \in DOMAIN setup.methods : setup.methods[a] \in 0 .. 9
  BY <1>2, <1>3, ElementOfSeq
<1>5. Aligned(UpdateSector) /\ \A s \in StartSectors : Aligned(s)
  BY AlignmentAssumption DEF Aligned, UpdateSector, StartSectors
<1>6. /\ sec_disc \in Nat /\ sec_mem \in Nat /\ sec_mem >= SECTORS_PER_BLOCK
      /\ cache_size \in Nat \ {0} /\ sectors_no \in Nat /\ DiscEnd \in Nat
      /\ LayerBreak \in Nat /\ Scratched \subseteq Nat /\ Seeds \in Nat \ {0}
  BY <1>1 DEF SetupType, sec_disc, sec_mem, cache_size, sectors_no, DiscEnd,
              LayerBreak, Scratched, Seeds
<1>7. /\ IsWii \in BOOLEAN /\ IsDVD \in BOOLEAN /\ CrackBlocks \in Nat
      /\ UpdateSector \in Nat /\ StartSectors \subseteq Nat
      /\ PieceSectors \in Nat \ {0} /\ LazyDrive \in BOOLEAN
      /\ MemdumpFaults \in BOOLEAN /\ SequenceChecked \in BOOLEAN
      /\ Hashing \in BOOLEAN /\ LongBytes \in {4, 8}
  BY <1>1 DEF SetupType, IsWii, IsDVD, CrackBlocks, UpdateSector, StartSectors,
              PieceSectors, LazyDrive, MemdumpFaults, SequenceChecked, Hashing, LongBytes
<1> QED
  BY <1>2, <1>3, <1>4, <1>5, <1>6, <1>7

\* As many reads as a block has sectors end with a block.
LEMMA WholeBlocks ==
  ASSUME NEW mem \in Nat
  PROVE  EndsNearBlock(mem, SECTORS_PER_BLOCK - 1)
<1> DEFINE d == Deviation(mem)
           w == SECTORS_PER_BLOCK
<1>1. w \in Nat \ {0} /\ d \in Nat
  BY BlockAssumption, DivMod DEF Deviation
<1> HIDE DEF d, w
<1>2. (w - 1) + 1 = w /\ d * w = w * d + 0 /\ d * w \in Nat
  BY <1>1
<1>3. (d * w) % w = 0
  BY <1>1, <1>2, Unique
<1> QED
  BY <1>2, <1>3 DEF EndsNearBlock, d, w

\* There is a shortest run.
LEMMA MoreReadsType ==
  ASSUME NEW mem \in Nat
  PROVE  MoreReads(mem) \in Nat
<1>1. CASE Deviation(mem) <= 3
  BY <1>1 DEF MoreReads
<1>2. CASE ~(Deviation(mem) <= 3)
  <2> DEFINE P(c) == /\ EndsNearBlock(mem, c)
                     /\ \A b \in 0 .. c - 1 : ~EndsNearBlock(mem, b)
             T == {c \in Nat : EndsNearBlock(mem, c)}
  <2>1. SECTORS_PER_BLOCK - 1 \in T
    BY WholeBlocks, BlockAssumption
  <2>2. PICK c \in T : \A b \in T : c <= b
    <3>1. T \subseteq Nat /\ T # {}
      BY <2>1
    <3> HIDE DEF T
    <3> QED
      BY <3>1, LeastNat
  <2>3. c \in 0 .. SECTORS_PER_BLOCK /\ P(c)
    BY <2>1, <2>2, BlockAssumption
  <2>4. MoreReads(mem) = CHOOSE n \in 0 .. SECTORS_PER_BLOCK : P(n)
    BY <1>2 DEF MoreReads
  <2> HIDE DEF P
  <2> QED
    BY <2>3, <2>4, BlockAssumption
<1> QED
  BY <1>1, <1>2

\* A run has at least one block, and its blocks were read.
LEMMA RunFacts ==
  ASSUME setup \in Setups
  PROVE  /\ max_cnt \in Nat /\ max_blk \in Nat \ {0}
         /\ sec_mem * (max_cnt + 1) \in Nat
         /\ SECTORS_PER_BLOCK * max_blk <= sec_mem * (max_cnt + 1)
<1> DEFINE n == sec_mem * (max_cnt + 1)
           w == SECTORS_PER_BLOCK
<1>1. sec_mem \in Nat /\ sec_mem >= w /\ w \in Nat \ {0}
  BY SetupTypes, BlockAssumption
<1>2. max_cnt \in Nat
  BY <1>1, MoreReadsType DEF max_cnt
<1>3. n \in Nat /\ n >= sec_mem
  BY <1>1, <1>2, Multiple
<1> HIDE DEF n, w
<1>4. n \div w \in Nat /\ n % w \in Nat /\ n % w < w /\ n = w * (n \div w) + (n % w)
  BY <1>1, <1>3, DivMod
<1>5. n \div w # 0
  <2> SUFFICES ASSUME n \div w = 0 PROVE FALSE
    OBVIOUS
  <2> QED
    BY <1>1, <1>3, <1>4
<1>6. w * (n \div w) <= n
  <2>1. w * (n \div w) \in Nat
    BY <1>1, <1>4
  <2> QED
    BY <1>3, <1>4, <2>1
<1> QED
  BY <1>2, <1>3, <1>4, <1>5, <1>6 DEF max_blk, Blocks, n, w

\* The RAM holds what a memory dump may take of it; a dump in one piece is as long
\* as it is meant to be.
LEMMA RamFacts ==
  ASSUME setup \in Setups
  PROVE  /\ Pieces \in Nat /\ Piece \in Nat /\ Pieces * Piece \in Nat
         /\ RamSize \in Nat /\ Pieces * Piece <= RamSize
         /\ Ahead * SECTORS_PER_BLOCK <= RamSize
         /\ sec_mem <= PieceSectors => Pieces = 1 /\ Piece = sec_mem
<1>1. /\ sec_mem \in Nat /\ sec_mem >= 1 /\ PieceSectors \in Nat \ {0}
      /\ SECTORS_PER_BLOCK \in Nat
  BY SetupTypes, BlockAssumption
<1>2. Pieces \in Nat
  BY <1>1, DivMod DEF Pieces
<1>3. Piece \in Nat
  BY <1>1 DEF Piece, Lesser
<1>4. Pieces * Piece \in Nat
  BY <1>2, <1>3
<1>5. RamSize \in Nat /\ Pieces * Piece <= RamSize /\ Ahead * SECTORS_PER_BLOCK <= RamSize
  BY <1>1, <1>4 DEF RamSize, Greater, Ahead
<1>6. sec_mem <= PieceSectors => Pieces = 1 /\ Piece = sec_mem
  <2> SUFFICES ASSUME sec_mem <= PieceSectors PROVE Pieces = 1 /\ Piece = sec_mem
    OBVIOUS
  <2>1. /\ sec_mem + PieceSectors - 1 = PieceSectors * 1 + (sec_mem - 1)
        /\ sec_mem - 1 \in Nat /\ sec_mem - 1 < PieceSectors
        /\ sec_mem + PieceSectors - 1 \in Nat
    BY <1>1
  <2>2. Pieces = 1
    BY <1>1, <2>1, Unique DEF Pieces
  <2> QED
    BY <1>1, <2>2 DEF Piece, Lesser
<1> QED
  BY <1>2, <1>3, <1>4, <1>5, <1>6

-----------------------------------------------------------------------------
\* The RAM after a READ.

LEMMA LoadedFacts ==
  ASSUME setup \in Setups, NEW r \in [Ram -> Number], NEW s \in Nat, NEW n \in Nat,
         NEW q \in Loaded(r, s, n)
  PROVE  /\ q \in [Ram -> Number]
         /\ \A k \in Ram : k < n /\ s + k < DiscEnd => q[k] = s + k
<1>1. PICK further \in BOOLEAN :
        q = [k \in Ram |-> IF (k < n \/ further) /\ s + k < DiscEnd THEN s + k ELSE r[k]]
  BY DEF Loaded
<1>2. Ram \subseteq Nat
  BY DEF Ram
<1> QED
  BY <1>1, <1>2 DEF Number

\* A drive that does what it is told has the sectors that it was told to read.
LEMMA AfterReadFacts ==
  ASSUME setup \in Setups, NEW r \in [Ram -> Number], NEW s \in Nat, NEW n \in Nat,
         NEW q \in AfterRead(r, s, n)
  PROVE  /\ q \in [Ram -> Number]
         /\ ~LazyDrive => \A k \in Ram : k < n /\ s + k < DiscEnd => q[k] = s + k
<1>1. s - (s % SECTORS_PER_BLOCK) \in Nat
  <2>1. /\ s \div SECTORS_PER_BLOCK \in Nat /\ s % SECTORS_PER_BLOCK \in Nat
        /\ s = SECTORS_PER_BLOCK * (s \div SECTORS_PER_BLOCK) + (s % SECTORS_PER_BLOCK)
    BY BlockAssumption, DivMod
  <2>2. SECTORS_PER_BLOCK * (s \div SECTORS_PER_BLOCK) \in Nat
    BY <2>1, BlockAssumption
  <2> QED
    BY <2>1, <2>2
<1>2. CASE q \in Loaded(r, s, n)
  BY <1>2, LoadedFacts
<1>3. CASE q \notin Loaded(r, s, n)
  <2>1. LazyDrive /\ (q = r \/ q \in Loaded(r, s - (s % SECTORS_PER_BLOCK), n))
    BY <1>3 DEF AfterRead
  <2> QED
    BY <1>1, <2>1, LoadedFacts
<1> QED
  BY <1>2, <1>3

LEMMA AfterSeekType ==
  ASSUME setup \in Setups, NEW r \in [Ram -> Number], NEW s \in Nat,
         NEW q \in AfterSeek(r, s)
  PROVE  q \in [Ram -> Number]
<1>1. Distance \in Nat /\ SECTORS_PER_BLOCK \in Nat /\ s + Distance \in Nat
  BY DiscAssumption, BlockAssumption
<1>2. CASE q = r
  BY <1>2
<1>3. CASE q \in AfterRead(r, s + Distance, SECTORS_PER_BLOCK)
  BY <1>1, <1>3, AfterReadFacts
<1>4. CASE s >= Distance /\ q \in AfterRead(r, s - Distance, SECTORS_PER_BLOCK)
  <2>1. s - Distance \in Nat
    BY <1>1, <1>4
  <2> QED
    BY <1>1, <1>4, <2>1, AfterReadFacts
<1> QED
  BY <1>2, <1>3, <1>4 DEF AfterSeek

LEMMA AfterFarReadType ==
  ASSUME setup \in Setups, want \in Nat, NEW r \in [Ram -> Number],
         NEW q \in AfterFarRead(r)
  PROVE  q \in [Ram -> Number]
<1> DEFINE s == IF sectors_no >= Distance /\ want > sectors_no - Distance
                THEN want - 2 * Ahead * SECTORS_PER_BLOCK
                ELSE want + Ahead * SECTORS_PER_BLOCK
<1>1. SECTORS_PER_BLOCK \in Nat /\ s \in Int
  BY BlockAssumption DEF Ahead
<1>2. q = r \/ (s >= 0 /\ q \in AfterRead(r, s, SECTORS_PER_BLOCK))
  BY DEF AfterFarRead
<1> HIDE DEF s
<1>3. CASE s >= 0 /\ q \in AfterRead(r, s, SECTORS_PER_BLOCK)
  <2>1. s \in Nat
    BY <1>1, <1>3
  <2> QED
    BY <1>1, <1>3, <2>1, AfterReadFacts
<1> QED
  BY <1>2, <1>3

-----------------------------------------------------------------------------
\* The cache after disc_cache_add_block.

\* Two blocks with the same position are the same or a whole cache apart.
LEMMA SamePosition ==
  ASSUME setup \in Setups, NEW a \in Nat, NEW b \in Nat, a <= b, b < a + cache_size,
         Position(a) = Position(b)
  PROVE  a = b
<1> DEFINE w == cache_size
           p == a \div w
           q == b \div w
           m == a % w
<1>1. w \in Nat \ {0}
  BY SetupTypes
<1>2. p \in Nat /\ m \in Nat /\ a = w * p + m
  BY <1>1, DivMod
<1>3. q \in Nat /\ b = w * q + m
  BY <1>1, DivMod DEF Position
<1> HIDE DEF w, p, q, m
<1>4. w * p \in Nat /\ w * q \in Nat
  BY <1>1, <1>2, <1>3
<1>5. ASSUME p < q PROVE FALSE
  <2>1. PICK d \in Nat : q = p + d /\ d >= 1
    BY <1>2, <1>3, <1>5, q - p \in Nat, q = p + (q - p)
  <2>2. w * q = w * p + w * d /\ w * d >= w /\ w * d \in Nat
    BY <1>1, <1>2, <2>1, Multiple
  <2> QED
    BY <1>1, <1>2, <1>3, <1>4, <2>2 DEF w
<1>6. ASSUME q < p PROVE FALSE
  <2>1. PICK d \in Nat : p = q + d /\ d >= 1
    BY <1>2, <1>3, <1>6, p - q \in Nat, p = q + (p - q)
  <2>2. w * p = w * q + w * d /\ w * d >= w /\ w * d \in Nat
    BY <1>1, <1>3, <2>1, Multiple
  <2> QED
    BY <1>1, <1>2, <1>3, <1>4, <2>2
<1>7. p = q
  BY <1>2, <1>3, <1>5, <1>6
<1> QED
  BY <1>2, <1>3, <1>7

\* The block that stays at a position is the first or the last put there.
LEMMA AddedLastFacts ==
  ASSUME NEW p, NEW first \in Nat, NEW n \in Nat, NEW d \in BOOLEAN,
         \E b \in first .. first + n - 1 : Position(b) = p
  PROVE  /\ AddedLast(p, first, n, d) \in first .. first + n - 1
         /\ Position(AddedLast(p, first, n, d)) = p
         /\ \A c \in first .. first + n - 1 :
              Position(c) = p =>
                IF d THEN AddedLast(p, first, n, d) <= c ELSE AddedLast(p, first, n, d) >= c
<1> DEFINE here == {b \in first .. first + n - 1 : Position(b) = p}
           Stays(b) == \A c \in here : IF d THEN b <= c ELSE b >= c
<1>1. here # {} /\ here \subseteq Nat /\ here \subseteq first .. first + n - 1
  OBVIOUS
<1>2. \E b \in here : Stays(b)
  <2>1. CASE d
    <3> HIDE DEF here
    <3> QED
      BY <1>1, <2>1, LeastNat
  <2>2. CASE ~d
    <3> DEFINE T == {first + n - b : b \in here}
    <3>1. T \subseteq Nat /\ T # {}
      BY <1>1
    <3>2. PICK x \in T : \A y \in T : x <= y
      <4> HIDE DEF T
      <4> QED
        BY <3>1, LeastNat
    <3>3. PICK b \in here : x = first + n - b
      BY <3>2
    <3>4. \A c \in here : b >= c
      <4> TAKE c \in here
      <4>1. first + n - c \in T
        OBVIOUS
      <4>2. first + n - b <= first + n - c
        BY <3>2, <3>3, <4>1
      <4>3. b \in Nat /\ c \in Nat
        BY <1>1
      <4> HIDE DEF here, T
      <4> QED
        BY <4>2, <4>3
    <3> QED
      BY <2>2, <3>4
  <2> QED
    BY <2>1, <2>2
<1>3. AddedLast(p, first, n, d) = CHOOSE b \in here : Stays(b)
  BY DEF AddedLast
<1>4. AddedLast(p, first, n, d) \in here /\ Stays(AddedLast(p, first, n, d))
  <2> HIDE DEF here, Stays
  <2> QED
    BY <1>2, <1>3
<1> QED
  BY <1>4

\* The types of the cache.
CacheTyped ==
  /\ cache_map \in [Positions -> Nat \cup {CACHE_ENTRY_INVALID}]
  /\ cache \in [Positions -> [InBlock -> Sector]]
  /\ \A p \in Positions :
       cache_map[p] # CACHE_ENTRY_INVALID => Position(cache_map[p]) = p

\* Every place of the cache is left alone or gets one of the blocks; the first of
\* them is there afterwards, if it comes last or the others go elsewhere.
LEMMA AddBlocksFacts ==
  ASSUME setup \in Setups, UNCHANGED setup, CacheTyped,
         NEW first \in Nat, NEW n \in Nat, NEW d \in BOOLEAN, NEW content,
         \A j \in 0 .. n - 1 : content[j] \in [InBlock -> Sector],
         AddBlocks(first, n, d, content)
  PROVE  /\ CacheTyped'
         /\ \A p \in Positions :
              \/ cache_map'[p] = cache_map[p] /\ cache'[p] = cache[p]
              \/ \E j \in 0 .. n - 1 :
                   Position(first + j) = p /\ cache_map'[p] = first + j /\ cache'[p] = content[j]
         /\ n >= 1 /\ (d \/ n <= cache_size) => cache_map'[Position(first)] = first
<1> DEFINE touched == {Position(b) : b \in first .. first + n - 1}
           last(p) == AddedLast(p, first, n, d)
<1>1. /\ cache_map' = [p \in Positions |-> IF p \in touched THEN last(p) ELSE cache_map[p]]
      /\ cache' = [p \in Positions |-> IF p \in touched THEN content[last(p) - first] ELSE cache[p]]
  BY DEF AddBlocks, CacheTyped
<1>2. ASSUME NEW p \in touched
      PROVE  /\ last(p) \in first .. first + n - 1 /\ Position(last(p)) = p
             /\ last(p) - first \in 0 .. n - 1 /\ first + (last(p) - first) = last(p)
             /\ \A c \in first .. first + n - 1 :
                  Position(c) = p => IF d THEN last(p) <= c ELSE last(p) >= c
  <2>1. \E b \in first .. first + n - 1 : Position(b) = p
    OBVIOUS
  <2>2. /\ last(p) \in first .. first + n - 1 /\ Position(last(p)) = p
        /\ \A c \in first .. first + n - 1 :
             Position(c) = p => IF d THEN last(p) <= c ELSE last(p) >= c
    BY <2>1, AddedLastFacts
  <2> HIDE DEF last
  <2> QED
    BY <2>2
<1>3. cache_size' = cache_size /\ Positions' = Positions /\ InBlock' = InBlock
  BY DEF cache_size, Positions, InBlock
<1> HIDE DEF touched, last
<1>4. \A p \in Positions :
        \/ cache_map'[p] = cache_map[p] /\ cache'[p] = cache[p]
        \/ \E j \in 0 .. n - 1 :
             Position(first + j) = p /\ cache_map'[p] = first + j /\ cache'[p] = content[j]
  <2> TAKE p \in Positions
  <2>1. CASE p \in touched
    BY <1>1, <1>2, <2>1
  <2>2. CASE p \notin touched
    BY <1>1, <2>2
  <2> QED
    BY <2>1, <2>2
<1>5. CacheTyped'
  <2>1. \A p \in Positions :
          /\ cache_map[p] \in Nat \cup {CACHE_ENTRY_INVALID}
          /\ cache[p] \in [InBlock -> Sector]
    BY DEF CacheTyped
  <2>2. ASSUME NEW p \in Positions
        PROVE  /\ cache_map'[p] \in Nat \cup {CACHE_ENTRY_INVALID}
               /\ cache'[p] \in [InBlock -> Sector]
    <3>1. CASE cache_map'[p] = cache_map[p] /\ cache'[p] = cache[p]
      BY <2>1, <3>1
    <3>2. ASSUME NEW j \in 0 .. n - 1, cache_map'[p] = first + j, cache'[p] = content[j]
          PROVE  /\ cache_map'[p] \in Nat \cup {CACHE_ENTRY_INVALID}
                 /\ cache'[p] \in [InBlock -> Sector]
      BY <3>2
    <3> QED
      BY <1>4, <3>1, <3>2
  <2>3. /\ cache_map' \in [Positions -> Nat \cup {CACHE_ENTRY_INVALID}]
        /\ cache' \in [Positions -> [InBlock -> Sector]]
    BY <1>1, <2>2
  <2>4. \A p \in Positions :
          cache_map'[p] # CACHE_ENTRY_INVALID => cache_map'[p] % cache_size = p
    BY <1>4 DEF CacheTyped, Position
  <2> QED
    BY <1>3, <2>3, <2>4 DEF CacheTyped, Position
<1>6. n >= 1 /\ (d \/ n <= cache_size) => cache_map'[Position(first)] = first
  <2> SUFFICES ASSUME n >= 1, d \/ n <= cache_size
               PROVE  cache_map'[Position(first)] = first
    OBVIOUS
  <2> DEFINE p == Position(first)
  <2>1. first \in first .. first + n - 1 /\ p \in touched
    BY DEF touched
  <2>2. cache_size \in Nat \ {0}
    BY SetupTypes
  <2>3. p \in Positions
    BY <2>2, DivMod DEF Positions, Position
  <2>4. cache_map'[p] = last(p)
    BY <1>1, <2>1, <2>3
  <2>5. /\ last(p) \in first .. first + n - 1 /\ Position(last(p)) = Position(first)
        /\ IF d THEN last(p) <= first ELSE last(p) >= first
    BY <1>2, <2>1
  <2>6. last(p) = first
    <3>1. CASE d
      BY <2>5, <3>1
    <3>2. CASE n <= cache_size
      BY <2>2, <2>5, <3>2, SamePosition
    <3> QED
      BY <3>1, <3>2
  <2> QED
    BY <2>4, <2>6
<1> QED
  BY <1>4, <1>5, <1>6

-----------------------------------------------------------------------------
\* What always holds: the types, what each place of the control goes with, and
\* that a read method is only called for the first sector of a block.  The last
\* needs that a sector that was answered is in the cache, so that the next one is
\* found there or begins a block.

Phases == {"crack", "analyze", "update", "dump"}
PCs == {"lookup", "read", "dump", "unscramble", "returned", "answered", "done", "aborted"}

Typed ==
  /\ setup \in Setups /\ attempt \in DOMAIN setup.methods /\ start \in Nat
  /\ phase \in Phases /\ want \in Nat /\ pc \in PCs
  /\ retry \in 0 .. MAX_READ_RETRIES /\ cnt \in 0 .. max_cnt + 1 /\ out \in BOOLEAN
  /\ ram \in [Ram -> Number] /\ buf \in [Buf -> Number] /\ readbuf \in [InBlock -> Number]
  /\ CacheTyped
  /\ answer \in Sector \cup {Failed, None}

Control ==
  /\ pc \in {"read", "dump", "unscramble"} => retry < MAX_READ_RETRIES
  /\ pc \in {"read", "dump"} => cnt <= max_cnt
  /\ pc = "unscramble" => Streaming
  /\ pc \notin {"answered", "done"} => answer = None

Cached(s) == cache[Position(BlockOf(s))][s % SECTORS_PER_BLOCK]

Places ==
  /\ Aligned(start)
  /\ phase # "dump" => Aligned(want)
  /\ pc \in {"read", "dump", "unscramble", "returned"} => Aligned(want)
  /\ pc = "lookup" => Aligned(want) \/ InCache(BlockOf(want))
  /\ pc = "answered" => \/ answer = Failed /\ Aligned(want)
                        \/ answer \in Sector /\ InCache(BlockOf(want)) /\ answer = Cached(want)

ReadInv == Typed /\ Control /\ Places

\* What depends on the setup alone stays as it is.
LEMMA SameSetup ==
  ASSUME UNCHANGED setup
  PROVE  /\ max_cnt' = max_cnt /\ Ram' = Ram /\ Buf' = Buf /\ InBlock' = InBlock
         /\ Positions' = Positions
<1>1. sec_mem' = sec_mem /\ PieceSectors' = PieceSectors /\ cache_size' = cache_size
  BY DEF sec_mem, PieceSectors, cache_size
<1>2. max_cnt' = max_cnt /\ Pieces' = Pieces /\ Piece' = Piece
  BY <1>1 DEF max_cnt, Pieces, Piece
<1>3. RamSize' = RamSize
  BY <1>2 DEF RamSize
<1> QED
  BY <1>1, <1>2, <1>3 DEF Ram, Buf, InBlock, Positions

LEMMA SectorFacts ==
  ASSUME setup \in Setups, NEW s \in Nat
  PROVE  /\ BlockOf(s) \in Nat /\ s % SECTORS_PER_BLOCK \in InBlock
         /\ s = SECTORS_PER_BLOCK * BlockOf(s) + (s % SECTORS_PER_BLOCK)
         /\ Position(BlockOf(s)) \in Positions
         /\ Aligned(s) => s = SECTORS_PER_BLOCK * BlockOf(s)
<1>1. /\ BlockOf(s) \in Nat /\ s % SECTORS_PER_BLOCK \in Nat
      /\ s % SECTORS_PER_BLOCK < SECTORS_PER_BLOCK
      /\ s = SECTORS_PER_BLOCK * BlockOf(s) + (s % SECTORS_PER_BLOCK)
  BY BlockAssumption, DivMod DEF BlockOf
<1>2. cache_size \in Nat \ {0}
  BY SetupTypes
<1>3. Position(BlockOf(s)) \in Positions
  BY <1>1, <1>2, DivMod DEF Position, Positions
<1>4. SECTORS_PER_BLOCK * BlockOf(s) \in Nat
  BY <1>1, BlockAssumption
<1> QED
  BY <1>1, <1>3, <1>4, BlockAssumption DEF InBlock, Aligned

\* The sector after one that does not end its block is in the same block.
LEMMA NextInBlock ==
  ASSUME NEW s \in Nat
  PROVE  Aligned(s + 1) \/ BlockOf(s + 1) = BlockOf(s)
<1> DEFINE w == SECTORS_PER_BLOCK
           q == s \div w
           m == s % w
<1>1. w \in Nat \ {0} /\ q \in Nat /\ m \in Nat /\ m < w /\ s = w * q + m
  BY BlockAssumption, DivMod
<1> HIDE DEF w, q, m
<1>2. w * q \in Nat /\ w * (q + 1) = w * q + w
  BY <1>1
<1>3. CASE m + 1 < w
  <2>1. s + 1 = w * q + (m + 1)
    BY <1>1, <1>2
  <2>2. (s + 1) \div w = q
    BY <1>1, <1>3, <2>1, Unique
  <2> QED
    BY <2>2 DEF BlockOf, w, q
<1>4. CASE ~(m + 1 < w)
  <2>1. s + 1 = w * (q + 1) + 0
    BY <1>1, <1>2, <1>4
  <2>2. (s + 1) % w = 0
    BY <1>1, <2>1, Unique
  <2> QED
    BY <2>2 DEF Aligned, w
<1> QED
  BY <1>3, <1>4

\* The first sector of a block, and the block after it.
LEMMA BlockBegins ==
  ASSUME NEW s \in Nat
  PROVE  /\ Aligned(0) /\ Resumes(s) \in Nat /\ Aligned(Resumes(s)) /\ Resumes(s) <= s
         /\ Aligned(s) => Aligned(s + SECTORS_PER_BLOCK) /\ Resumes(s) = s
<1> DEFINE w == SECTORS_PER_BLOCK
           q == s \div w
           m == s % w
<1>1. w \in Nat \ {0} /\ q \in Nat /\ m \in Nat /\ m < w /\ s = w * q + m
  BY BlockAssumption, DivMod
<1>2. Resumes(s) = q * w
  BY DEF Resumes, BlockOf
<1> HIDE DEF w, q, m
<1>3. w * q \in Nat /\ w * (q + 1) = w * q + w /\ q * w = w * q + 0 /\ 0 = w * 0 + 0
  BY <1>1
<1>4. 0 % w = 0 /\ (w * q) % w = 0 /\ (w * (q + 1)) % w = 0
  <2>1. 0 % w = 0
    BY <1>1, <1>3, Unique
  <2>2. \A n \in Nat : (w * n) % w = 0
    <3> TAKE n \in Nat
    <3>1. w * n = w * n + 0 /\ w * n \in Nat
      BY <1>1
    <3> QED
      BY <1>1, <3>1, Unique
  <2> QED
    BY <1>1, <2>1, <2>2
<1>5. Aligned(0) /\ Aligned(q * w)
  BY <1>3, <1>4 DEF Aligned, w
<1>6. Aligned(s) => m = 0
  BY DEF Aligned, m, w
<1>7. m = 0 => Aligned(s + w) /\ q * w = s
  BY <1>1, <1>3, <1>4 DEF Aligned, w
<1>8. q * w <= s /\ q * w \in Nat
  BY <1>1, <1>3
<1> QED
  BY <1>2, <1>5, <1>6, <1>7, <1>8 DEF w

LEMMA ReadInit == Init => ReadInv
<1> SUFFICES ASSUME Init PROVE ReadInv
  OBVIOUS
<1>1. setup \in Setups /\ start \in StartSectors
  BY DEF Init
<1>2. /\ 1 \in DOMAIN setup.methods /\ start \in Nat /\ Aligned(start)
      /\ cache_size \in Nat \ {0}
  BY <1>1, SetupTypes
<1>3. max_cnt \in Nat /\ MAX_READ_RETRIES \in Nat \ {0}
  BY <1>1, RunFacts, DiscAssumption
<1>4. CacheTyped
  BY <1>2 DEF Init, CacheTyped, Positions, CACHE_ENTRY_INVALID, Sector, Number, Garbage
<1>5. Typed
  <2>1. /\ ram \in [Ram -> Number] /\ buf \in [Buf -> Number] /\ readbuf \in [InBlock -> Number]
        /\ answer = None
    BY DEF Init, Number
  <2>2. attempt \in DOMAIN setup.methods /\ start \in Nat
    BY <1>2 DEF Init
  <2>3. /\ phase = FirstPhase /\ want = 0 /\ pc = "lookup" /\ retry = 0 /\ cnt = 0
        /\ out = FALSE
    BY DEF Init
  <2>4. phase \in Phases /\ want \in Nat /\ pc \in PCs
    BY <2>3 DEF FirstPhase, Phases, PCs
  <2>5. retry \in 0 .. MAX_READ_RETRIES /\ cnt \in 0 .. max_cnt + 1
    BY <1>3, <2>3
  <2>6. out \in BOOLEAN
    BY <2>3, Zenon
  <2> QED
    BY <1>1, <1>4, <2>1, <2>2, <2>4, <2>5, <2>6 DEF Typed
<1>6. Aligned(want)
  BY BlockBegins DEF Init
<1> QED
  BY <1>2, <1>5, <1>6 DEF Init, ReadInv, Control, Places, FirstPhase

\* A caller that asks for a sector of a cached block, or for the first of a block.
LEMMA AskKeeps ==
  ASSUME ReadInv, NEW p \in Phases, NEW s \in Nat, Ask(p, s),
         attempt' \in DOMAIN setup.methods, start' \in Nat, Aligned(start'), CacheTyped',
         p # "dump" => Aligned(s), Aligned(s) \/ InCache(BlockOf(s))
  PROVE  ReadInv'
<1>1. Typed /\ UNCHANGED <<setup, retry, cnt, out, ram, buf, readbuf, cache_map>>
  BY DEF ReadInv, Ask
<1>2. phase' = p /\ want' = s /\ pc' = "lookup" /\ answer' = None
  BY DEF Ask
<1>3. Typed'
  BY <1>1, <1>2, SameSetup DEF Typed, PCs
<1>4. InCache(BlockOf(s)) => InCache(BlockOf(want))'
  BY <1>1, <1>2 DEF InCache, BlockOf, Position, cache_size
<1>5. Control' /\ Places'
  BY <1>2, <1>4 DEF Control, Places, Aligned
<1> QED
  BY <1>3, <1>5 DEF ReadInv

LEMMA QuitKeeps ==
  ASSUME ReadInv, Quit
  PROVE  ReadInv'
<1>1. /\ UNCHANGED <<setup, attempt, start, phase, want, retry, cnt, out, ram, buf, readbuf,
                     cache_map, cache, answer>>
      /\ pc' = "done"
  BY DEF Quit, trying, asking, store
<1>2. Typed'
  BY <1>1, SameSetup DEF ReadInv, Typed, PCs, CacheTyped, Position, cache_size
<1>3. Control' /\ Places'
  BY <1>1 DEF ReadInv, Control, Places, Aligned
<1> QED
  BY <1>2, <1>3 DEF ReadInv

\* Hashing overwrites sectors of one cached block, and no other part of the cache.
LEMMA HashedFacts ==
  ASSUME setup \in Setups, CacheTyped, NEW s \in Nat
  PROVE  /\ Hashed(s) \in [Positions -> [InBlock -> Sector]]
         /\ \A p \in Positions : p # Position(BlockOf(s)) => Hashed(s)[p] = cache[p]
         /\ \A k \in InBlock :
              Hashed(s)[Position(BlockOf(s))][k] =
                IF BlockOf(s) * SECTORS_PER_BLOCK + k \in Spoils(s)
                THEN Spoilt ELSE cache[Position(BlockOf(s))][k]
<1> DEFINE q == Position(BlockOf(s))
           b == [k \in InBlock |-> IF BlockOf(s) * SECTORS_PER_BLOCK + k \in Spoils(s)
                                  THEN Spoilt ELSE cache[q][k]]
<1>1. q \in Positions
  BY SectorFacts
<1>2. cache \in [Positions -> [InBlock -> Sector]]
  BY DEF CacheTyped
<1>3. Hashed(s) = [cache EXCEPT ![q] = b]
  BY DEF Hashed
<1>4. b \in [InBlock -> Sector]
  BY <1>1, <1>2 DEF Sector
<1> HIDE DEF b, q
<1>5. /\ Hashed(s) \in [Positions -> [InBlock -> Sector]] /\ Hashed(s)[q] = b
      /\ \A p \in Positions : p # q => Hashed(s)[p] = cache[p]
  BY <1>1, <1>2, <1>3, <1>4
<1> QED
  BY <1>5 DEF b, q

LEMMA CallerKeeps ==
  ASSUME ReadInv, Caller
  PROVE  ReadInv'
<1>1. /\ setup \in Setups /\ want \in Nat /\ start \in Nat /\ Aligned(start) /\ CacheTyped
      /\ attempt \in DOMAIN setup.methods /\ SECTORS_PER_BLOCK \in Nat
      /\ phase # "dump" => Aligned(want)
  BY BlockAssumption DEF ReadInv, Typed, Places
<1>2. ASSUME Keep, UNCHANGED <<setup, cache_map>>
      PROVE  attempt' \in DOMAIN setup.methods /\ start' \in Nat /\ Aligned(start') /\ CacheTyped'
  BY <1>1, <1>2, SameSetup DEF Keep, CacheTyped, Position, cache_size
<1>3. CASE CrackSeeds
  <2>1. want + SECTORS_PER_BLOCK \in Nat /\ Aligned(want + SECTORS_PER_BLOCK)
    BY <1>1, <1>3, BlockBegins DEF CrackSeeds
  <2> QED
    BY <1>1, <1>2, <1>3, <2>1, AskKeeps DEF CrackSeeds, Ask, Phases
<1>4. CASE Analyze
  BY <1>1, <1>2, <1>4, BlockBegins, AskKeeps DEF Analyze, Ask, Phases
<1>5. CASE CheckUpdate
  <2>1. UpdateSector \in Nat /\ Aligned(UpdateSector)
    BY <1>1, SetupTypes
  <2> QED
    BY <1>1, <1>2, <1>5, <2>1, AskKeeps DEF CheckUpdate, Ask, Phases
<1>6. CASE StartDump
  <2>1. CASE Ask("dump", start) /\ Keep
    BY <1>1, <1>2, <2>1, AskKeeps DEF Ask, Phases
  <2> QED
    BY <1>6, <2>1, QuitKeeps DEF StartDump
<1>7. CASE NextSector
  <2>1. pc = "answered" /\ answer # Failed /\ UNCHANGED <<setup, attempt, start, cache_map>>
    BY <1>7 DEF NextSector, Ask
  <2>2. InCache(BlockOf(want))
    BY <2>1 DEF ReadInv, Places
  <2>3. want + 1 \in Nat /\ (Aligned(want + 1) \/ InCache(BlockOf(want + 1)))
    BY <1>1, <2>2, NextInBlock
  <2>4. CacheTyped'
    <3>1. cache' = Hashed(want) \/ cache' = cache
      BY <1>7 DEF NextSector
    <3>2. cache' \in [Positions -> [InBlock -> Sector]]
      BY <1>1, <3>1, HashedFacts DEF CacheTyped
    <3> QED
      BY <1>1, <2>1, <3>2, SameSetup DEF CacheTyped, Position, cache_size
  <2> QED
    <3>1. Ask("dump", want + 1) /\ "dump" \in Phases
      BY <1>7 DEF NextSector, Phases
    <3>2. attempt' \in DOMAIN setup.methods /\ start' \in Nat /\ Aligned(start')
      BY <1>1, <2>1
    <3> DEFINE s == want + 1
    <3>3. s \in Nat /\ Ask("dump", s) /\ (Aligned(s) \/ InCache(BlockOf(s)))
      BY <2>3, <3>1
    <3> HIDE DEF s
    <3> QED
      BY <2>4, <3>1, <3>2, <3>3, AskKeeps, Zenon
<1>8. CASE Again
  <2>1. /\ Ask(FirstPhase, 0) /\ UNCHANGED <<setup, cache, cache_map>> /\ attempt' = attempt + 1
        /\ attempt < Len(setup.methods)
        /\ start' = IF phase = "dump" THEN Resumes(want) ELSE start
    BY <1>8 DEF Again, Ask
  <2>2. attempt' \in DOMAIN setup.methods
    <3>1. Len(setup.methods) \in Nat /\ DOMAIN setup.methods = 1 .. Len(setup.methods)
      BY <1>1, SetupTypes
    <3> QED
      BY <1>1, <2>1, <3>1
  <2>3. start' \in Nat /\ Aligned(start')
    BY <1>1, <2>1, BlockBegins
  <2>4. CacheTyped'
    BY <1>1, <2>1, SameSetup DEF CacheTyped, Position, cache_size
  <2> QED
    BY <2>1, <2>2, <2>3, <2>4, BlockBegins, AskKeeps DEF FirstPhase, Phases
<1>9. CASE Stop
  BY <1>9, QuitKeeps DEF Stop
<1> QED
  BY <1>3, <1>4, <1>5, <1>6, <1>7, <1>8, <1>9 DEF Caller

\* disc_read_sector itself.
LEMMA LookupKeeps ==
  ASSUME ReadInv, Hit \/ Miss \/ Return
  PROVE  ReadInv'
<1>1. /\ Typed /\ setup \in Setups /\ want \in Nat /\ CacheTyped
      /\ UNCHANGED <<setup, attempt, start, phase, want, ram, buf, readbuf, cache_map, cache>>
  BY DEF ReadInv, Typed, Hit, Miss, Return, trying, asking, store
<1>2. /\ CacheTyped' /\ Cached(want) \in Sector
      /\ InCache(BlockOf(want)) => InCache(BlockOf(want))'
      /\ Cached(want)' = Cached(want)
  <2>1. Position(BlockOf(want)) \in Positions /\ want % SECTORS_PER_BLOCK \in InBlock
    BY <1>1, SectorFacts
  <2>2. Cached(want) \in Sector
    BY <1>1, <2>1 DEF CacheTyped, Cached
  <2> QED
    BY <1>1, <2>2, SameSetup DEF CacheTyped, InCache, BlockOf, Position, cache_size, Cached
<1>3. /\ MAX_READ_RETRIES \in Nat \ {0} /\ max_cnt \in Nat
      /\ None \notin Sector \cup {Failed} /\ Failed \notin Sector
  BY <1>1, DiscAssumption, RunFacts DEF None, Failed, Sector, Number, Garbage, Spoilt
<1>4. CASE Hit
  <2>1. /\ pc' = "answered" /\ answer' = Cached(want) /\ UNCHANGED <<retry, cnt, out>>
        /\ InCache(BlockOf(want))
    BY <1>4 DEF Hit, Cached
  <2>2. Typed'
    BY <1>1, <1>2, <2>1, SameSetup DEF Typed, PCs
  <2>3. Control' /\ Places'
    BY <1>1, <1>2, <1>3, <2>1 DEF ReadInv, Control, Places, Aligned
  <2> QED
    BY <2>2, <2>3 DEF ReadInv
<1>5. CASE Miss
  <2>1. /\ pc' = "read" /\ retry' = 0 /\ cnt' = 0 /\ out' = TRUE /\ answer' = answer
        /\ pc = "lookup" /\ ~InCache(BlockOf(want))
    BY <1>5 DEF Miss
  <2>2. out' \in BOOLEAN
    BY <2>1, Zenon
  <2>3. Typed'
    BY <1>1, <1>2, <1>3, <2>1, <2>2, SameSetup DEF Typed, PCs
  <2>4. Control' /\ Places'
    BY <1>1, <1>3, <2>1, SameSetup DEF ReadInv, Control, Places, Aligned
  <2> QED
    BY <2>3, <2>4 DEF ReadInv
<1>6. CASE Return
  <2>1. /\ pc = "returned" /\ UNCHANGED <<retry, cnt, out>>
        /\ answer' = IF ~out THEN Failed
                     ELSE IF InCache(BlockOf(want)) THEN Cached(want) ELSE None
        /\ pc' = IF out /\ ~InCache(BlockOf(want)) THEN "aborted" ELSE "answered"
    BY <1>6 DEF Return, Cached
  <2>2. Typed'
    BY <1>1, <1>2, <2>1, SameSetup DEF Typed, PCs
  <2>3. Control' /\ Places'
    BY <1>1, <1>2, <1>3, <2>1 DEF ReadInv, Control, Places, Aligned
  <2> QED
    BY <2>2, <2>3 DEF ReadInv
<1> QED
  BY <1>4, <1>5, <1>6

-----------------------------------------------------------------------------
\* The read methods.  What they do to the cache at the end of an attempt is one
\* of three things (AttemptEnds), whatever the method.

Uses(s, methods) == \E a \in DOMAIN s.methods : s.methods[a] \in methods

\* How many sectors one command reads.
ReadSizes(s) ==
  {SECTORS_PER_BLOCK, s.sec_disc}
    \cup (IF Uses(s, 7 .. 9) THEN {Ahead * SECTORS_PER_BLOCK} ELSE {})

\* A memory dump in several pieces is checked piece by piece.  One piece follows the
\* other if neither the sectors of a READ nor those of the disc, which has one layer,
\* end between two pieces.
PiecesFollow(s) ==
  /\ s.DiscEnd <= s.LayerBreak
  /\ \A n \in ReadSizes(s) : n < s.sec_mem => n % s.PieceSectors # 0
  /\ \A b \in Nat, c \in 0 .. MoreReads(s.sec_mem), m \in Nat \ {0} :
       m * s.PieceSectors < s.sec_mem =>
         b * SECTORS_PER_BLOCK + c * s.sec_mem + m * s.PieceSectors # s.DiscEnd

\* What protects a dump, where it is in force: methods 0 to 6 check the number of
\* the first sector of a dump, from which a sequence check carries it to the
\* others of its piece; methods 7 to 9 check no numbers and rely on a drive that
\* does what it is told, and method 7 on a disc that ends with a block.
Checked(s) ==
  /\ Uses(s, 0 .. 6) =>
       s.SequenceChecked /\ (s.sec_mem <= s.PieceSectors \/ PiecesFollow(s))
  /\ Uses(s, 7 .. 9) => ~s.LazyDrive
  /\ Uses(s, {7}) =>
       SECTORS_PER_BLOCK * ((s.sectors_no + SECTORS_PER_BLOCK - 1) \div SECTORS_PER_BLOCK)
         <= s.DiscEnd

\* The places of the RAM before n that are on the disc hold it from sector s on.
HoldsDisc(s, n) == \A k \in Ram : k < n /\ s + k < DiscEnd => ram[k] = s + k

\* The reads of a run so far have filled buf with the right sectors.
Gathered ==
  /\ Streaming /\ (pc \in {"read", "dump"} \/ (pc = "unscramble" /\ out)) =>
       \A p \in Buf : p < cnt * sec_mem => buf[p] = want + p \/ buf[p] >= LayerBreak
  /\ pc = "unscramble" /\ out => cnt = max_cnt + 1

\* An honest drive has read what it was told.
AtDrive ==
  /\ pc = "dump" /\ Simple /\ ~LazyDrive => HoldsDisc(want, SECTORS_PER_BLOCK)
  /\ pc = "dump" /\ read_method = 7 /\ ~LazyDrive => HoldsDisc(want, Ahead * SECTORS_PER_BLOCK)
  /\ pc = "dump" /\ read_method \in {8, 9} /\ ~LazyDrive => readbuf = UserData(0)

GoodData == Gathered /\ AtDrive

RightBlocks(n, content) ==
  \A j \in 0 .. n - 1, k \in InBlock :
    /\ content[j][k] \in Nat \ Scratched
    /\ \/ content[j][k] = want + j * SECTORS_PER_BLOCK + k
       \/ content[j][k] >= LayerBreak

CachesBlocks(n, d, content) ==
  /\ \A j \in 0 .. n - 1 : content[j] \in [InBlock -> Number]
  /\ IF d THEN n >= 1 ELSE n = BlocksAhead /\ read_method \in 7 .. 9
  /\ Checked(setup) /\ GoodData => RightBlocks(n, content)
  /\ AddBlocks(BlockOf(want), n, d, content) /\ EndRead(TRUE)

\* The block of a sector is scratched or not all on the disc.
Deserved(s) ==
  \E k \in InBlock :
    \/ BlockOf(s) * SECTORS_PER_BLOCK + k \in Scratched
    \/ BlockOf(s) * SECTORS_PER_BLOCK + k >= DiscEnd

\* Methods 8 and 9 go on reading until the end of an attempt.
Rereads == ram' = ram \/ \E s \in Nat : ram' \in Loaded(ram, s, SECTORS_PER_BLOCK)

AttemptEnds ==
  /\ pc \in {"dump", "unscramble"}
  /\ UNCHANGED <<setup, attempt, start, phase, want, answer>>
  /\ Rereads
  /\ ram' \in [Ram -> Number] /\ buf' \in [Buf -> Number] /\ readbuf' \in [InBlock -> Number]
  /\ \/ Retry /\ (Simple /\ ~LazyDrive /\ ~MemdumpFaults /\ AtDrive => Deserved(want))
     \/ EndRead(FALSE) /\ UNCHANGED store /\ read_method \in 7 .. 9
     \/ \E n \in Nat, d \in BOOLEAN : \E content : CachesBlocks(n, d, content)

LEMMA ReadMethod ==
  ASSUME ReadInv
  PROVE  /\ read_method \in 0 .. 9 /\ retry \in Nat
         /\ read_method \in 0 .. 6 => Uses(setup, 0 .. 6)
         /\ read_method \in 7 .. 9 => Uses(setup, 7 .. 9)
         /\ read_method = 7 => Uses(setup, {7})
         /\ ~(Streaming /\ Simple) /\ (Streaming \/ Simple => read_method \in 0 .. 6)
<1>1. /\ attempt \in DOMAIN setup.methods /\ retry \in Nat
      /\ \A a \in DOMAIN setup.methods : setup.methods[a] \in 0 .. 9
  BY SetupTypes, DiscAssumption DEF ReadInv, Typed
<1>2. read_method \in 0 .. 9 /\ read_method = setup.methods[attempt]
  BY <1>1 DEF read_method
<1> QED
  BY <1>1, <1>2 DEF Uses, Streaming, Simple

\* A place of one of n blocks is one of the first n blocks' places.
LEMMA PlaceInBlock ==
  ASSUME NEW n \in Nat, NEW j \in 0 .. n - 1, NEW k \in InBlock, NEW size \in Nat,
         SECTORS_PER_BLOCK * n <= size
  PROVE  j * SECTORS_PER_BLOCK + k \in 0 .. size - 1
<1> DEFINE w == SECTORS_PER_BLOCK
<1>1. w \in Nat \ {0} /\ k \in 0 .. w - 1
  BY BlockAssumption DEF InBlock
<1> HIDE DEF w
<1>2. PICK e \in Nat : n = j + 1 + e
  BY n - (j + 1) \in Nat, n = (j + 1) + (n - (j + 1))
<1>3. w * n = j * w + w + w * e /\ j * w \in Nat /\ w * e \in Nat
  BY <1>1, <1>2
<1> QED
  BY <1>1, <1>3 DEF w

\* The same in the RAM, of the five blocks that are read ahead.
LEMMA PlaceInRam ==
  ASSUME setup \in Setups, ram \in [Ram -> Number], NEW j \in 0 .. Ahead - 1
  PROVE  /\ \A k \in InBlock : j * SECTORS_PER_BLOCK + k \in Ram
         /\ \A k \in InBlock : j * SECTORS_PER_BLOCK + k < Ahead * SECTORS_PER_BLOCK
         /\ InRam(j) \in [InBlock -> Number]
         /\ \A k \in InBlock : InRam(j)[k] = ram[j * SECTORS_PER_BLOCK + k]
<1> DEFINE size == Ahead * SECTORS_PER_BLOCK
<1>1. /\ Ahead \in Nat /\ size \in Nat /\ SECTORS_PER_BLOCK * Ahead <= size
      /\ RamSize \in Nat /\ size <= RamSize
  BY RamFacts, BlockAssumption DEF Ahead
<1> HIDE DEF size
<1>2. \A k \in InBlock : j * SECTORS_PER_BLOCK + k \in 0 .. size - 1
  BY <1>1, PlaceInBlock
<1>3. \A k \in InBlock : j * SECTORS_PER_BLOCK + k \in Ram
  BY <1>1, <1>2 DEF Ram
<1>4. \A k \in InBlock : j * SECTORS_PER_BLOCK + k < size
  BY <1>1, <1>2
<1> QED
  BY <1>3, <1>4 DEF InRam, size

-----------------------------------------------------------------------------
\* A read method at the drive: reads, and the dumps of a run.

\* A memory dump that went well takes no more than the RAM holds.
LEMMA PiecesInRam ==
  ASSUME setup \in Setups, NEW good \in 0 .. Pieces
  PROVE  /\ good * Piece \in Nat
         /\ \A k \in 0 .. good * Piece - 1 : k \in Ram
<1>1. Pieces \in Nat /\ Piece \in Nat /\ RamSize \in Nat /\ Pieces * Piece <= RamSize
  BY RamFacts
<1> DEFINE m == Pieces
           w == Piece
           size == RamSize
<1> HIDE DEF m, w, size
<1>2. PICK e \in Nat : m = good + e
  BY <1>1, m - good \in Nat, m = good + (m - good) DEF m
<1>3. w \in Nat /\ size \in Nat /\ m * w <= size /\ good \in Nat
  BY <1>1 DEF m, w, size
<1>4. m * w = good * w + e * w /\ good * w \in Nat /\ e * w \in Nat
  BY <1>2, <1>3
<1>5. good * w <= size
  BY <1>3, <1>4
<1>6. \A k \in 0 .. good * w - 1 : k \in 0 .. size - 1
  BY <1>3, <1>4, <1>5
<1> QED
  BY <1>4, <1>6 DEF w, size, Ram

\* Of sector s + k, when s begins a block.
LEMMA AlignedBlock ==
  ASSUME NEW s \in Nat, Aligned(s), NEW k \in InBlock
  PROVE  /\ BlockOf(s) * SECTORS_PER_BLOCK = s /\ BlockOf(s + k) = BlockOf(s)
         /\ SeedOf(s + k) = SeedOf(s)
<1> DEFINE w == SECTORS_PER_BLOCK
           q == s \div w
<1>1. w \in Nat \ {0} /\ q \in Nat /\ s = w * q + (s % w) /\ k \in Nat /\ k < w
  BY BlockAssumption, DivMod DEF InBlock
<1>2. s % w = 0
  BY DEF Aligned
<1> HIDE DEF w, q
<1>3. w * q \in Nat /\ q * w = w * q
  BY <1>1
<1>4. s = q * w /\ s + k = w * q + k /\ s + k \in Nat
  BY <1>1, <1>2, <1>3
<1>5. (s + k) \div w = q
  BY <1>1, <1>4, Unique
<1>6. BlockOf(s) = q /\ BlockOf(s + k) = q
  BY <1>5 DEF BlockOf, w, q
<1>7. s + k < w <=> s < w
  <2>1. CASE q = 0
    <3>1. s = 0
      BY <1>1, <1>4, <2>1
    <3> QED
      BY <1>1, <3>1
  <2>2. CASE q # 0
    <3>1. w * q >= w /\ s = w * q
      BY <1>1, <1>3, <1>4, <2>2, Multiple
    <3> QED
      BY <1>1, <1>3, <3>1
  <2> QED
    BY <2>1, <2>2
<1> QED
  BY <1>4, <1>6, <1>7 DEF SeedOf, w

\* The steps within an attempt.
DriveRuns == StreamingRead \/ StreamingDump \/ SimpleRead \/ AheadRead

LEMMA DriveTypes ==
  ASSUME ReadInv, DriveRuns
  PROVE  /\ UNCHANGED <<setup, attempt, start, phase, want, retry, answer, cache_map, cache>>
         /\ ram' \in [Ram -> Number] /\ buf' \in [Buf -> Number]
         /\ readbuf' \in [InBlock -> Number]
         /\ pc \in {"read", "dump"} /\ pc' \in {"read", "dump", "unscramble"}
         /\ cnt' \in 0 .. max_cnt + 1 /\ out' \in BOOLEAN
         /\ pc' \in {"read", "dump"} => cnt' <= max_cnt
         /\ pc' = "unscramble" => Streaming
<1>1. /\ setup \in Setups /\ want \in Nat /\ cnt \in 0 .. max_cnt + 1 /\ out \in BOOLEAN
      /\ ram \in [Ram -> Number] /\ buf \in [Buf -> Number] /\ readbuf \in [InBlock -> Number]
      /\ pc \in {"read", "dump"} => cnt <= max_cnt
  BY DEF ReadInv, Typed, Control
<1>2. /\ sec_disc \in Nat /\ sec_mem \in Nat /\ max_cnt \in Nat /\ SECTORS_PER_BLOCK \in Nat
      /\ cnt * sec_mem \in Nat /\ Ahead * SECTORS_PER_BLOCK \in Nat
  <2>1. /\ sec_disc \in Nat /\ sec_mem \in Nat /\ max_cnt \in Nat /\ SECTORS_PER_BLOCK \in Nat
        /\ cnt \in Nat
    BY <1>1, SetupTypes, RunFacts, BlockAssumption
  <2> QED
    BY <2>1 DEF Ahead
<1>3. CASE StreamingRead
  <2>1. PICK r \in (IF read_method \in {0, 1, 4} THEN AfterSeek(ram, want + cnt * sec_mem)
                    ELSE {ram}) :
          ram' \in AfterRead(r, want + cnt * sec_mem, sec_disc)
    BY <1>3 DEF StreamingRead
  <2>2. want + cnt * sec_mem \in Nat
    BY <1>1, <1>2
  <2>3. r \in [Ram -> Number]
    BY <1>1, <2>1, <2>2, AfterSeekType
  <2>4. ram' \in [Ram -> Number]
    BY <1>1, <1>2, <2>1, <2>2, <2>3, AfterReadFacts
  <2>5. /\ UNCHANGED <<setup, attempt, start, phase, want, retry, answer, cache_map, cache, cnt,
                       out, buf, readbuf>>
        /\ pc = "read" /\ pc' = "dump"
    BY <1>3 DEF StreamingRead, trying, asking, store
  <2> QED
    BY <1>1, <2>4, <2>5
<1>4. CASE StreamingDump
  <2>1. PICK good \in 0 .. Pieces :
          /\ buf' = [p \in Buf |-> IF p - cnt * sec_mem \in 0 .. good * Piece - 1
                                  THEN ram[p - cnt * sec_mem] ELSE buf[p]]
          /\ \E taken \in BOOLEAN :
               /\ out' = taken /\ cnt' = IF taken THEN cnt + 1 ELSE cnt
               /\ pc' = IF taken /\ cnt < max_cnt THEN "read" ELSE "unscramble"
    <3>1. PICK good \in 0 .. Pieces :
            LET at == cnt * sec_mem
                taken == good = Pieces /\ ~WrongId(ram[0], want + at)
            IN  /\ buf' = [p \in Buf |-> IF p - at \in 0 .. good * Piece - 1
                                        THEN ram[p - at] ELSE buf[p]]
                /\ out' = taken
                /\ cnt' = IF taken THEN cnt + 1 ELSE cnt
                /\ pc' = IF taken /\ cnt < max_cnt THEN "read" ELSE "unscramble"
      BY <1>4 DEF StreamingDump
    <3> QED
      BY <3>1
  <2>2. buf' \in [Buf -> Number]
    <3>1. \A k \in 0 .. good * Piece - 1 : k \in Ram
      BY <1>1, PiecesInRam
    <3> QED
      BY <1>1, <2>1, <3>1
  <2>3. /\ UNCHANGED <<setup, attempt, start, phase, want, retry, answer, cache_map, cache, ram,
                       readbuf>>
        /\ pc = "dump" /\ Streaming
    BY <1>4 DEF StreamingDump, trying, asking, store
  <2>4. /\ cnt' \in 0 .. max_cnt + 1 /\ pc' \in {"read", "unscramble"}
        /\ pc' = "read" => cnt' <= max_cnt
    BY <1>1, <1>2, <2>1, <2>3
  <2> QED
    BY <1>1, <2>1, <2>2, <2>3, <2>4
<1>5. CASE SimpleRead
  <2>1. PICK r \in AfterSeek(ram, want) : ram' \in AfterRead(r, want, SECTORS_PER_BLOCK)
    BY <1>5 DEF SimpleRead
  <2>2. r \in [Ram -> Number]
    BY <1>1, <2>1, AfterSeekType
  <2>3. ram' \in [Ram -> Number]
    BY <1>1, <1>2, <2>1, <2>2, AfterReadFacts
  <2>4. /\ UNCHANGED <<setup, attempt, start, phase, want, retry, answer, cache_map, cache, cnt,
                       out, buf, readbuf>>
        /\ pc = "read" /\ pc' = "dump"
    BY <1>5 DEF SimpleRead, trying, asking, store
  <2> QED
    BY <1>1, <2>3, <2>4
<1>6. CASE AheadRead
  <2>1. PICK q \in (IF retry > 0 THEN AfterSeek(ram, want) ELSE {ram}) :
          \E r \in (IF read_method = 7 THEN {q} ELSE AfterFarRead(q)) :
            ram' \in AfterRead(r, want, Ahead * SECTORS_PER_BLOCK)
    <3>1. LET seeks == IF retry > 0 THEN AfterSeek(ram, want) ELSE {ram}
              fars == IF read_method = 7 THEN seeks ELSE UNION {AfterFarRead(r) : r \in seeks}
          IN  ram' \in UNION {AfterRead(r, want, Ahead * SECTORS_PER_BLOCK) : r \in fars}
      BY <1>6 DEF AheadRead
    <3> QED
      BY <3>1
  <2>2. PICK r \in (IF read_method = 7 THEN {q} ELSE AfterFarRead(q)) :
          ram' \in AfterRead(r, want, Ahead * SECTORS_PER_BLOCK)
    BY <2>1
  <2>3. q \in [Ram -> Number]
    BY <1>1, <2>1, AfterSeekType
  <2>4. r \in [Ram -> Number]
    BY <1>1, <2>2, <2>3, AfterFarReadType
  <2>5. ram' \in [Ram -> Number]
    BY <1>1, <1>2, <2>2, <2>4, AfterReadFacts
  <2>6. /\ UNCHANGED <<setup, attempt, start, phase, want, retry, answer, cache_map, cache, cnt,
                       out, buf>>
        /\ pc = "read" /\ pc' = "dump" /\ readbuf' \in {readbuf, UserData(0)}
    BY <1>6 DEF AheadRead, trying, asking, store
  <2>7. UserData(0) \in [InBlock -> Number]
    BY <1>1, BlockAssumption DEF UserData, Number, InBlock
  <2> QED
    BY <1>1, <2>5, <2>6, <2>7
<1> QED
  BY <1>3, <1>4, <1>5, <1>6 DEF DriveRuns

LEMMA DriveKeeps ==
  ASSUME ReadInv, DriveRuns
  PROVE  ReadInv'
<1>1. /\ UNCHANGED <<setup, attempt, start, phase, want, retry, answer, cache_map, cache>>
      /\ ram' \in [Ram -> Number] /\ buf' \in [Buf -> Number]
      /\ readbuf' \in [InBlock -> Number]
      /\ pc \in {"read", "dump"} /\ pc' \in {"read", "dump", "unscramble"}
      /\ cnt' \in 0 .. max_cnt + 1 /\ out' \in BOOLEAN
      /\ pc' \in {"read", "dump"} => cnt' <= max_cnt
      /\ pc' = "unscramble" => Streaming
  BY DriveTypes
<1>2. CacheTyped'
  BY <1>1, SameSetup DEF ReadInv, Typed, CacheTyped, Position, cache_size
<1>3. Typed'
  BY <1>1, <1>2, SameSetup DEF ReadInv, Typed, PCs
<1>4. Control' /\ Places'
  BY <1>1, SameSetup DEF ReadInv, Control, Places, Aligned, Streaming, read_method
<1> QED
  BY <1>3, <1>4 DEF ReadInv

-----------------------------------------------------------------------------
\* The end of an attempt.

\* The blocks that are read ahead begin before the end of the disc.
LEMMA BlocksAheadFacts ==
  ASSUME setup \in Setups, want \in Nat
  PROVE  /\ BlocksAhead \in 0 .. Ahead
         /\ want < sectors_no => BlocksAhead >= 1
         /\ Aligned(want) =>
              \A j \in 0 .. BlocksAhead - 1, k \in InBlock :
                want + j * SECTORS_PER_BLOCK + k
                  < SECTORS_PER_BLOCK * ((sectors_no + SECTORS_PER_BLOCK - 1) \div SECTORS_PER_BLOCK)
<1> DEFINE w == SECTORS_PER_BLOCK
           n == sectors_no
           x == n - want + w - 1
           c == x \div w
           b == BlocksAhead
<1>1. w \in Nat \ {0} /\ n \in Nat
  BY SetupTypes, BlockAssumption
<1>2. CASE want >= n
  <2>1. b = 0
    BY <1>2 DEF BlocksAhead
  <2> QED
    BY <1>1, <1>2, <2>1 DEF Ahead
<1>3. CASE want < n
  <2>1. x \in Nat /\ x >= w
    BY <1>1, <1>3
  <2>2. c \in Nat /\ x % w \in Nat /\ x % w < w /\ x = w * c + (x % w)
    BY <1>1, <2>1, DivMod
  <2>3. b = Lesser(Ahead, c)
    BY <1>1, <1>3 DEF BlocksAhead
  <2>7. n + w - 1 = x + want
    BY <1>1
  <2> DEFINE r == x % w
  <2> HIDE DEF w, n, c, b, r, x
  <2>4. c >= 1
    BY <1>1, <2>1, <2>2
  <2>5. b \in 0 .. Ahead /\ b >= 1 /\ b <= c
    BY <2>2, <2>3, <2>4 DEF Lesser, Ahead
  <2>6. ASSUME Aligned(want), NEW j \in 0 .. b - 1, NEW k \in InBlock
        PROVE  want + j * w + k < w * ((n + w - 1) \div w)
    <3> DEFINE q == want \div w
               e == c - (j + 1)
    <3>1. q \in Nat /\ want = w * q + (want % w) /\ want % w = 0
      BY <1>1, <2>6, DivMod DEF Aligned, w
    <3>2. e \in Nat /\ c = (j + 1) + e /\ j \in Nat
      BY <2>2, <2>5, <2>6
    <3> HIDE DEF q, e
    <3>3. /\ w * q \in Nat /\ w * c \in Nat /\ w * (c + q) = w * c + w * q
          /\ w * c = j * w + w + w * e /\ w * e \in Nat /\ j * w \in Nat
      BY <1>1, <2>2, <3>1, <3>2
    <3>4. n + w - 1 = w * (c + q) + r /\ n + w - 1 \in Nat /\ r \in Nat /\ r < w
      BY <1>1, <2>1, <2>2, <2>7, <3>1, <3>3 DEF r
    <3>5. (n + w - 1) \div w = c + q
      <4>1. c + q \in Nat
        BY <2>2, <3>1
      <4> HIDE DEF r
      <4> QED
        BY <1>1, <3>4, <4>1, Unique
    <3>6. k \in Nat /\ k < w
      BY <1>1, <2>6 DEF InBlock, w
    <3> QED
      BY <1>1, <3>1, <3>3, <3>5, <3>6
  <2> QED
    BY <2>5, <2>6 DEF w, n, b
<1> QED
  BY <1>1, <1>2, <1>3

\* What disc_unscramble_16sectors accepts has no sector with a wrong EDC.
LEMMA UnscramblesFacts ==
  ASSUME NEW b \in [InBlock -> Number], Unscrambles(b)
  PROVE  \A k \in InBlock : b[k] \in Nat \ Scratched
BY DEF Unscrambles, Number

LEMMA EndOfRun ==
  ASSUME ReadInv, StreamingUnscramble
  PROVE  AttemptEnds
<1>1. /\ setup \in Setups /\ want \in Nat /\ cnt \in 0 .. max_cnt + 1
      /\ ram \in [Ram -> Number] /\ buf \in [Buf -> Number] /\ readbuf \in [InBlock -> Number]
  BY DEF ReadInv, Typed
<1>2. /\ pc = "unscramble" /\ Streaming
      /\ UNCHANGED <<setup, attempt, start, phase, want, ram, buf, readbuf, answer>>
  BY DEF StreamingUnscramble, trying, asking
<1>3. /\ ram' \in [Ram -> Number] /\ buf' \in [Buf -> Number] /\ readbuf' \in [InBlock -> Number]
      /\ Rereads
  BY <1>1, <1>2, SameSetup DEF Rereads
<1>4. CASE RunIsGood
  <2> DEFINE content == [j \in 0 .. max_blk - 1 |-> InBuf(j)]
             size == sec_mem * (max_cnt + 1)
  <2>1. max_blk \in Nat \ {0} /\ size \in Nat /\ SECTORS_PER_BLOCK * max_blk <= size
    BY <1>1, RunFacts
  <2>2. AddBlocks(BlockOf(want), max_blk, TRUE, content) /\ EndRead(TRUE)
    BY <1>4 DEF StreamingUnscramble
  <2>3. ASSUME NEW j \in 0 .. max_blk - 1
        PROVE  /\ content[j] \in [InBlock -> Number]
               /\ \A k \in InBlock : /\ j * SECTORS_PER_BLOCK + k \in 0 .. size - 1
                                     /\ content[j][k] = buf[j * SECTORS_PER_BLOCK + k]
    <3> HIDE DEF size
    <3>1. \A k \in InBlock : j * SECTORS_PER_BLOCK + k \in 0 .. size - 1
      BY <2>1, PlaceInBlock
    <3>2. \A k \in InBlock : j * SECTORS_PER_BLOCK + k \in Buf
      BY <3>1 DEF Buf, size
    <3> QED
      BY <1>1, <3>1, <3>2 DEF InBuf
  <2>4. ASSUME Checked(setup), GoodData PROVE RightBlocks(max_blk, content)
    <3>1. \A p \in Buf : p < size => buf[p] = want + p \/ buf[p] >= LayerBreak
      <4>1. out /\ cnt = max_cnt + 1 /\ max_cnt \in Nat /\ sec_mem \in Nat
        BY <1>1, <1>2, <1>4, <2>4, SetupTypes, RunFacts DEF GoodData, Gathered, RunIsGood
      <4>2. cnt * sec_mem = size
        BY <4>1
      <4> QED
        BY <1>2, <2>4, <4>1, <4>2 DEF GoodData, Gathered
    <3> SUFFICES ASSUME NEW j \in 0 .. max_blk - 1, NEW k \in InBlock
                 PROVE  /\ content[j][k] \in Nat \ Scratched
                        /\ \/ content[j][k] = want + j * SECTORS_PER_BLOCK + k
                           \/ content[j][k] >= LayerBreak
      BY DEF RightBlocks
    <3>2. Unscrambles(content[j])
      BY <1>4 DEF RunIsGood
    <3>3. content[j][k] \in Nat \ Scratched
      BY <2>3, <3>2, UnscramblesFacts
    <3> DEFINE p == j * SECTORS_PER_BLOCK + k
    <3>4. p \in 0 .. size - 1 /\ content[j][k] = buf[p] /\ p \in Buf
      BY <2>3 DEF Buf
    <3>5. SECTORS_PER_BLOCK \in Nat /\ j \in Nat /\ k \in Nat
      BY BlockAssumption DEF InBlock
    <3>6. want + p = want + j * SECTORS_PER_BLOCK + k /\ p < size
      BY <1>1, <2>1, <3>4, <3>5
    <3> HIDE DEF content, p, size
    <3> QED
      BY <3>1, <3>3, <3>4, <3>6
  <2>5. CachesBlocks(max_blk, TRUE, content)
    <3>1. \A j \in 0 .. max_blk - 1 : content[j] \in [InBlock -> Number]
      BY <2>3
    <3>2. max_blk >= 1
      BY <2>1
    <3> HIDE DEF content
    <3> QED
      BY <2>2, <2>4, <3>1, <3>2 DEF CachesBlocks
  <2> HIDE DEF content
  <2> QED
    BY <1>2, <1>3, <2>1, <2>5 DEF AttemptEnds
<1>5. CASE ~RunIsGood
  <2>1. Retry
    BY <1>5 DEF StreamingUnscramble
  <2> QED
    BY <1>2, <1>3, <2>1, ReadMethod DEF AttemptEnds
<1> QED
  BY <1>4, <1>5

\* The last attempts of methods 0 to 6.  With an honest drive the block is in the
\* RAM, so that it was asked for in vain only if it is not all good.
LEMMA EndOfSimple ==
  ASSUME ReadInv, SimpleDump
  PROVE  AttemptEnds
<1>1. /\ setup \in Setups /\ want \in Nat /\ Aligned(want)
      /\ ram \in [Ram -> Number] /\ buf \in [Buf -> Number] /\ readbuf \in [InBlock -> Number]
  BY DEF ReadInv, Typed, Places, SimpleDump
<1>2. /\ pc = "dump" /\ Simple
      /\ UNCHANGED <<setup, attempt, start, phase, want, ram, readbuf, answer>>
  BY DEF SimpleDump, trying, asking
<1>3. PICK dumped \in BOOLEAN :
        /\ IF dumped THEN InSequence(0, SECTORS_PER_BLOCK)
           ELSE MemdumpFaults \/ ~InSequence(0, SECTORS_PER_BLOCK)
        /\ buf' = [p \in Buf |-> IF dumped /\ p \in InBlock THEN ram[p] ELSE buf[p]]
        /\ IF dumped /\ ~WrongId(ram[0], want) /\ Unscrambles(InRam(0))
           THEN AddBlocks(BlockOf(want), 1, TRUE, [j \in {0} |-> InRam(0)]) /\ EndRead(TRUE)
           ELSE Retry
  BY DEF SimpleDump
<1>4. /\ \A k \in InBlock : k \in Ram /\ k < SECTORS_PER_BLOCK /\ InRam(0)[k] = ram[k]
      /\ InRam(0) \in [InBlock -> Number] /\ 0 \in InBlock
      /\ 0 .. 0 + SECTORS_PER_BLOCK - 1 = InBlock
  <2>1. SECTORS_PER_BLOCK \in Nat \ {0} /\ 0 \in 0 .. Ahead - 1
    BY BlockAssumption DEF Ahead
  <2>2. \A k \in InBlock : 0 * SECTORS_PER_BLOCK + k = k
    BY <2>1 DEF InBlock
  <2>3. 0 * SECTORS_PER_BLOCK + 0 = 0 /\ 0 \in InBlock
    BY <2>1 DEF InBlock
  <2>4. /\ \A k \in InBlock : 0 * SECTORS_PER_BLOCK + k \in Ram
        /\ InRam(0) \in [InBlock -> Number]
        /\ \A k \in InBlock : InRam(0)[k] = ram[0 * SECTORS_PER_BLOCK + k]
    BY <1>1, <2>1, PlaceInRam
  <2>5. 0 .. 0 + SECTORS_PER_BLOCK - 1 = InBlock /\ \A k \in InBlock : k < SECTORS_PER_BLOCK
    BY <2>1 DEF InBlock
  <2> QED
    BY <2>2, <2>3, <2>4, <2>5
<1>5. /\ ram' \in [Ram -> Number] /\ buf' \in [Buf -> Number] /\ readbuf' \in [InBlock -> Number]
      /\ Rereads
  BY <1>1, <1>2, <1>3, <1>4, SameSetup DEF Rereads
<1>6. CASE dumped /\ ~WrongId(ram[0], want) /\ Unscrambles(InRam(0))
  <2> DEFINE content == [j \in {0} |-> InRam(0)]
  <2>1. AddBlocks(BlockOf(want), 1, TRUE, content) /\ EndRead(TRUE)
    BY <1>3, <1>6
  <2>2. \A j \in 0 .. 1 - 1 : j = 0 /\ content[j] = InRam(0)
    OBVIOUS
  <2> HIDE DEF content
  <2>3. ASSUME Checked(setup) PROVE RightBlocks(1, content)
    <3> SUFFICES ASSUME NEW k \in InBlock
                 PROVE  /\ InRam(0)[k] \in Nat \ Scratched
                        /\ \/ InRam(0)[k] = want + 0 * SECTORS_PER_BLOCK + k
                           \/ InRam(0)[k] >= LayerBreak
      BY <2>2 DEF RightBlocks
    <3>1. InRam(0)[k] \in Nat \ Scratched /\ InRam(0)[0] \in Nat
      BY <1>4, <1>6, UnscramblesFacts
    <3>2. SequenceChecked
      <4>1. setup.SequenceChecked
        BY <1>2, <2>3, ReadMethod DEF Checked
      <4> QED
        BY <4>1 DEF SequenceChecked
    <3>3. ram[k] = ram[0] + (k - 0)
      BY <1>3, <1>4, <1>6, <3>2 DEF InSequence
    <3>4. ram[0] < LayerBreak => ram[0] = want
      BY <1>6 DEF WrongId
    <3>5. k \in Nat /\ LayerBreak \in Nat /\ 0 * SECTORS_PER_BLOCK = 0
      BY <1>1, SetupTypes, BlockAssumption DEF InBlock
    <3>6. ram[0] \in Nat /\ InRam(0)[k] = ram[k]
      BY <1>4, <3>1
    <3> QED
      BY <1>1, <3>1, <3>3, <3>4, <3>5, <3>6
  <2>4. CachesBlocks(1, TRUE, content)
    <3>1. \A j \in 0 .. 1 - 1 : content[j] \in [InBlock -> Number]
      BY <1>4, <2>2
    <3>2. 1 >= 1
      OBVIOUS
    <3> QED
      BY <2>1, <2>3, <3>1, <3>2 DEF CachesBlocks
  <2> QED
    BY <1>2, <1>5, <2>4 DEF AttemptEnds
<1>7. CASE ~(dumped /\ ~WrongId(ram[0], want) /\ Unscrambles(InRam(0)))
  <2>1. Retry
    BY <1>3, <1>7
  <2>2. ASSUME ~LazyDrive, ~MemdumpFaults, AtDrive, ~Deserved(want)
        PROVE  FALSE
    <3>1. /\ BlockOf(want) * SECTORS_PER_BLOCK = want
          /\ \A k \in InBlock : SeedOf(want + k) = SeedOf(want)
      BY <1>1, <1>4, AlignedBlock
    <3>2. \A k \in InBlock : /\ want + k \notin Scratched /\ ~(want + k >= DiscEnd)
                             /\ want + k \in Nat /\ k \in Nat
      <4>1. \A k \in InBlock : k \in Nat
        BY BlockAssumption DEF InBlock
      <4>2. \A k \in InBlock :
              /\ BlockOf(want) * SECTORS_PER_BLOCK + k \notin Scratched
              /\ ~(BlockOf(want) * SECTORS_PER_BLOCK + k >= DiscEnd)
        BY <2>2 DEF Deserved
      <4>3. \A k \in InBlock : want + k \notin Scratched /\ ~(want + k >= DiscEnd)
        BY <3>1, <4>2
      <4> QED
        BY <1>1, <4>1, <4>3
    <3>3. HoldsDisc(want, SECTORS_PER_BLOCK)
      BY <1>2, <2>2 DEF AtDrive
    <3>4. DiscEnd \in Nat
      BY <1>1, SetupTypes
    <3>5. \A k \in InBlock : ram[k] = want + k
      BY <1>4, <3>2, <3>3, <3>4 DEF HoldsDisc
    <3>6. ram[0] = want
      BY <1>1, <1>4, <3>5
    <3>7. InSequence(0, SECTORS_PER_BLOCK)
      <4>1. \A k \in InBlock : ram[k] = ram[0] + (k - 0)
        BY <1>1, <3>2, <3>5, <3>6
      <4> QED
        BY <1>4, <4>1 DEF InSequence
    <3>8. ~WrongId(ram[0], want)
      BY <3>6 DEF WrongId
    <3>9. Unscrambles(InRam(0))
      BY <1>4, <3>1, <3>2, <3>5, <3>6 DEF Unscrambles, Garbage
    <3> QED
      BY <1>3, <1>7, <2>2, <3>7, <3>8, <3>9
  <2> QED
    BY <1>2, <1>5, <2>1, <2>2 DEF AttemptEnds
<1> QED
  BY <1>6, <1>7

\* Method 7.
LEMMA EndOfAhead ==
  ASSUME ReadInv, AheadDump
  PROVE  AttemptEnds
<1>1. /\ setup \in Setups /\ want \in Nat /\ Aligned(want)
      /\ ram \in [Ram -> Number] /\ buf \in [Buf -> Number] /\ readbuf \in [InBlock -> Number]
  BY DEF ReadInv, Typed, Places, AheadDump
<1>2. /\ pc = "dump" /\ read_method = 7 /\ read_method \in 7 .. 9 /\ ~Simple
      /\ UNCHANGED <<setup, attempt, start, phase, want, ram, buf, readbuf, answer>>
  BY ReadMethod DEF AheadDump, trying, asking, Simple
<1>3. /\ ram' \in [Ram -> Number] /\ buf' \in [Buf -> Number] /\ readbuf' \in [InBlock -> Number]
      /\ Rereads
  BY <1>1, <1>2, SameSetup DEF Rereads
<1>4. BlocksAhead \in 0 .. Ahead /\ 0 .. BlocksAhead - 1 \subseteq 0 .. Ahead - 1
  BY <1>1, BlocksAheadFacts DEF Ahead
<1>5. CASE Retry
  BY <1>2, <1>3, <1>5 DEF AttemptEnds
<1>6. CASE EndRead(FALSE) /\ UNCHANGED store
  BY <1>2, <1>3, <1>6 DEF AttemptEnds
<1>7. CASE ~Retry /\ ~(EndRead(FALSE) /\ UNCHANGED store)
  <2> DEFINE content == [j \in 0 .. BlocksAhead - 1 |-> InRam(j)]
  <2>1. /\ AddBlocks(BlockOf(want), BlocksAhead, FALSE, content) /\ EndRead(TRUE)
        /\ \A j \in 0 .. BlocksAhead - 1 : Unscrambles(InRam(j))
    BY <1>7 DEF AheadDump
  <2>2. \A j \in 0 .. BlocksAhead - 1 :
          /\ content[j] = InRam(j) /\ InRam(j) \in [InBlock -> Number]
          /\ \A k \in InBlock : /\ j * SECTORS_PER_BLOCK + k \in Ram
                                /\ j * SECTORS_PER_BLOCK + k < Ahead * SECTORS_PER_BLOCK
                                /\ InRam(j)[k] = ram[j * SECTORS_PER_BLOCK + k]
    BY <1>1, <1>4, PlaceInRam
  <2> HIDE DEF content
  <2>3. ASSUME Checked(setup), GoodData,
               NEW j \in 0 .. BlocksAhead - 1, NEW k \in InBlock
        PROVE  /\ content[j][k] \in Nat \ Scratched
               /\ content[j][k] = want + j * SECTORS_PER_BLOCK + k
    <3> DEFINE p == j * SECTORS_PER_BLOCK + k
               last == SECTORS_PER_BLOCK * ((sectors_no + SECTORS_PER_BLOCK - 1) \div SECTORS_PER_BLOCK)
    <3>1. HoldsDisc(want, Ahead * SECTORS_PER_BLOCK)
      <4>1. ~setup.LazyDrive
        BY <1>2, <2>3, ReadMethod DEF Checked
      <4> QED
        BY <1>2, <2>3, <4>1 DEF GoodData, AtDrive, LazyDrive
    <3>2. last <= DiscEnd
      BY <1>2, <2>3, ReadMethod DEF Checked, sectors_no, DiscEnd
    <3>3. want + j * SECTORS_PER_BLOCK + k < last
      BY <1>1, <2>3, BlocksAheadFacts
    <3>4. /\ j \in Nat /\ k \in Nat /\ SECTORS_PER_BLOCK \in Nat \ {0} /\ DiscEnd \in Nat
          /\ sectors_no \in Nat
      BY <1>1, SetupTypes, BlockAssumption DEF InBlock
    <3>5. last \in Int
      <4>1. (sectors_no + SECTORS_PER_BLOCK - 1) \div SECTORS_PER_BLOCK \in Nat
        BY <3>4, DivMod
      <4> QED
        BY <3>4, <4>1
    <3>6. p \in Nat /\ want + p = want + j * SECTORS_PER_BLOCK + k
      BY <1>1, <3>4
    <3>7. p \in Ram /\ p < Ahead * SECTORS_PER_BLOCK /\ content[j][k] = ram[p]
      BY <2>2
    <3> HIDE DEF p, last
    <3>8. want + p < DiscEnd
      BY <1>1, <3>2, <3>3, <3>4, <3>5, <3>6
    <3>9. content[j][k] = want + j * SECTORS_PER_BLOCK + k
      BY <3>1, <3>6, <3>7, <3>8 DEF HoldsDisc
    <3> QED
      BY <2>1, <2>2, <3>9, UnscramblesFacts
  <2>4. Checked(setup) /\ GoodData => RightBlocks(BlocksAhead, content)
    BY <2>3 DEF RightBlocks
  <2>5. CachesBlocks(BlocksAhead, FALSE, content)
    <3>1. \A j \in 0 .. BlocksAhead - 1 : content[j] \in [InBlock -> Number]
      BY <2>2
    <3> QED
      BY <1>2, <2>1, <2>4, <3>1 DEF CachesBlocks
  <2>6. BlocksAhead \in Nat
    BY <1>4
  <2> QED
    BY <1>2, <1>3, <2>5, <2>6 DEF AttemptEnds
<1> QED
  BY <1>5, <1>6, <1>7

LEMMA EndOfHeaders ==
  ASSUME ReadInv, HeadersFail
  PROVE  AttemptEnds
<1>1. /\ setup \in Setups
      /\ ram \in [Ram -> Number] /\ buf \in [Buf -> Number] /\ readbuf \in [InBlock -> Number]
  BY DEF ReadInv, Typed
<1>2. /\ pc = "dump" /\ read_method \in {8, 9}
      /\ UNCHANGED <<setup, attempt, start, phase, want, ram, buf, readbuf, answer>>
      /\ Retry \/ (EndRead(FALSE) /\ UNCHANGED store)
  BY DEF HeadersFail, trying, asking
<1>4. read_method \in 7 .. 9 /\ ~Simple
  BY <1>2 DEF Simple
<1>3. /\ ram' \in [Ram -> Number] /\ buf' \in [Buf -> Number] /\ readbuf' \in [InBlock -> Number]
      /\ Rereads
  BY <1>1, <1>2, SameSetup DEF Rereads
<1> QED
  BY <1>2, <1>3, <1>4 DEF AttemptEnds

\* Methods 8 and 9.  The user data of a block are those of the last READ that did
\* something; with an honest drive, of the READ of that block.
LEMMA EndOfJoin ==
  ASSUME ReadInv, JoinUserData
  PROVE  AttemptEnds
<1>1. /\ setup \in Setups /\ want \in Nat
      /\ ram \in [Ram -> Number] /\ buf \in [Buf -> Number] /\ readbuf \in [InBlock -> Number]
  BY DEF ReadInv, Typed
<1>2. /\ pc = "dump" /\ read_method \in {8, 9}
      /\ UNCHANGED <<setup, attempt, start, phase, want, buf, answer>>
  BY DEF JoinUserData, trying, asking
<1>3. /\ BlocksAhead \in Nat /\ 0 .. BlocksAhead - 1 \subseteq 0 .. Ahead - 1
      /\ read_method \in 7 .. 9 /\ ~Simple /\ SECTORS_PER_BLOCK \in Nat
  BY <1>1, <1>2, BlocksAheadFacts, BlockAssumption DEF Ahead, Simple
<1>4. PICK lost \in SUBSET (1 .. BlocksAhead - 1) :
        LET from(j) == CHOOSE i \in 0 .. j :
                         /\ i \notin lost
                         /\ \A h \in i + 1 .. j : h \in lost
            data(j) == IF from(j) = 0 THEN readbuf ELSE UserData(from(j))
            joined(j) == [k \in InBlock |-> IF InRam(j)[k] = data(j)[k]
                                          THEN data(j)[k] ELSE Garbage]
            bad == {j \in 0 .. BlocksAhead - 1 : ~Unscrambles(joined(j))}
            end == IF bad = {} THEN BlocksAhead - 1
                   ELSE CHOOSE j \in bad : \A h \in bad : j <= h
        IN  /\ lost # {} => LazyDrive
            /\ IF BlocksAhead = 0 THEN UNCHANGED <<ram, readbuf>>
               ELSE /\ readbuf' = data(end)
                    /\ ram' \in IF from(end) = 0 THEN {ram}
                               ELSE Loaded(ram, want + from(end) * SECTORS_PER_BLOCK,
                                           SECTORS_PER_BLOCK)
            /\ IF bad = {}
               THEN /\ AddBlocks(BlockOf(want), BlocksAhead, FALSE,
                                 [j \in 0 .. BlocksAhead - 1 |-> joined(j)])
                    /\ EndRead(TRUE)
               ELSE Retry
  BY DEF JoinUserData
<1> DEFINE Comes(i, j) == i \notin lost /\ \A h \in i + 1 .. j : h \in lost
           from(j) == CHOOSE i \in 0 .. j : Comes(i, j)
           data(j) == IF from(j) = 0 THEN readbuf ELSE UserData(from(j))
           joined(j) == [k \in InBlock |-> IF InRam(j)[k] = data(j)[k]
                                         THEN data(j)[k] ELSE Garbage]
           bad == {j \in 0 .. BlocksAhead - 1 : ~Unscrambles(joined(j))}
           end == IF bad = {} THEN BlocksAhead - 1
                  ELSE CHOOSE j \in bad : \A h \in bad : j <= h
           content == [j \in 0 .. BlocksAhead - 1 |-> joined(j)]
<1>5. /\ lost # {} => LazyDrive
      /\ IF BlocksAhead = 0 THEN UNCHANGED <<ram, readbuf>>
         ELSE /\ readbuf' = data(end)
              /\ ram' \in IF from(end) = 0 THEN {ram}
                         ELSE Loaded(ram, want + from(end) * SECTORS_PER_BLOCK, SECTORS_PER_BLOCK)
      /\ IF bad = {}
         THEN AddBlocks(BlockOf(want), BlocksAhead, FALSE, content) /\ EndRead(TRUE)
         ELSE Retry
  BY <1>4
<1>6. ASSUME NEW j \in Nat PROVE from(j) \in 0 .. j /\ Comes(from(j), j)
  <2> DEFINE T == {j - i : i \in {h \in 0 .. j : h \notin lost}}
  <2>1. T \subseteq Nat /\ j - 0 \in T
    BY <1>6
  <2>2. PICK x \in T : \A y \in T : x <= y
    <3> HIDE DEF T
    <3> QED
      BY <2>1, LeastNat
  <2>3. PICK i \in 0 .. j : x = j - i /\ i \notin lost
    BY <2>2
  <2>4. ASSUME NEW h \in i + 1 .. j, h \notin lost PROVE FALSE
    <3>1. h \in 0 .. j
      BY <1>6, <2>3
    <3>2. j - h \in T
      BY <2>4, <3>1
    <3>3. j - i <= j - h
      BY <2>2, <2>3, <3>2
    <3> HIDE DEF T
    <3> QED
      BY <1>6, <2>3, <3>1, <3>3
  <2>5. \E g \in 0 .. j : Comes(g, j)
    BY <2>3, <2>4
  <2> HIDE DEF Comes
  <2> QED
    BY <2>5
<1>7. ASSUME ~LazyDrive, NEW j \in Nat PROVE from(j) = j
  <2>1. from(j) \in 0 .. j /\ \A h \in from(j) + 1 .. j : h \in lost
    BY <1>6
  <2>2. lost = {}
    BY <1>5, <1>7
  <2> HIDE DEF from
  <2>3. from(j) # j => j \in from(j) + 1 .. j
    BY <1>7, <2>1
  <2> QED
    BY <2>1, <2>2, <2>3
<1> HIDE DEF from
<1>8. ASSUME NEW j \in Nat
      PROVE  data(j) \in [InBlock -> Number]
  <2>1. from(j) \in Nat
    BY <1>6
  <2>2. \A k \in InBlock : want + from(j) * SECTORS_PER_BLOCK + k \in Nat
    BY <1>1, <1>3, <2>1 DEF InBlock
  <2>3. UserData(from(j)) \in [InBlock -> Number]
    BY <2>2 DEF UserData, Number
  <2> QED
    BY <1>1, <2>3
<1> HIDE DEF data
<1>9. ASSUME NEW j \in Nat
      PROVE  /\ joined(j) \in [InBlock -> Number]
             /\ \A k \in InBlock : joined(j)[k] = data(j)[k] \/ joined(j)[k] = Garbage
  BY <1>8 DEF Number
<1> HIDE DEF joined
<1>10. /\ ram' \in [Ram -> Number] /\ buf' \in [Buf -> Number] /\ readbuf' \in [InBlock -> Number]
       /\ Rereads
  <2>1. UNCHANGED setup /\ buf' = buf
    BY <1>2
  <2>2. CASE BlocksAhead = 0
    BY <1>1, <1>5, <2>1, <2>2, SameSetup DEF Rereads
  <2>3. CASE BlocksAhead # 0
    <3>1. end \in Nat
      <4>1. CASE bad = {}
        BY <1>3, <2>3, <4>1
      <4>2. CASE bad # {}
        <5>1. bad \subseteq Nat
          BY <1>3
        <5> HIDE DEF bad
        <5>2. \E j \in bad : \A h \in bad : j <= h
          BY <4>2, <5>1, LeastNat
        <5> QED
          BY <4>2, <5>1, <5>2
      <4> QED
        BY <4>1, <4>2
    <3> HIDE DEF end
    <3>2. from(end) \in Nat
      BY <1>6, <3>1
    <3>3. want + from(end) * SECTORS_PER_BLOCK \in Nat
      BY <1>1, <1>3, <3>2
    <3> DEFINE s == want + from(end) * SECTORS_PER_BLOCK
    <3>6. ram' = ram \/ ram' \in Loaded(ram, s, SECTORS_PER_BLOCK)
      BY <1>5, <2>3
    <3> HIDE DEF s
    <3>4. ram' \in [Ram -> Number]
      BY <1>1, <1>3, <3>3, <3>6, LoadedFacts DEF s
    <3>7. Rereads
      BY <3>3, <3>6 DEF Rereads, s
    <3>5. readbuf' \in [InBlock -> Number]
      BY <1>5, <1>8, <2>3, <3>1
    <3> QED
      BY <1>1, <2>1, <3>4, <3>5, <3>7, SameSetup
  <2> QED
    BY <2>2, <2>3
<1>11. CASE bad # {}
  BY <1>2, <1>3, <1>5, <1>10, <1>11 DEF AttemptEnds
<1>12. CASE bad = {}
  <2>1. AddBlocks(BlockOf(want), BlocksAhead, FALSE, content) /\ EndRead(TRUE)
    BY <1>5, <1>12
  <2>2. \A j \in 0 .. BlocksAhead - 1 :
          /\ j \in Nat /\ content[j] = joined(j) /\ Unscrambles(joined(j))
          /\ content[j] \in [InBlock -> Number]
    BY <1>3, <1>9, <1>12
  <2>3. ASSUME Checked(setup), GoodData,
               NEW j \in 0 .. BlocksAhead - 1, NEW k \in InBlock
        PROVE  /\ content[j][k] \in Nat \ Scratched
               /\ content[j][k] = want + j * SECTORS_PER_BLOCK + k
    <3>1. ~LazyDrive
      <4>1. ~setup.LazyDrive
        BY <1>2, <1>3, <2>3, ReadMethod DEF Checked
      <4> QED
        BY <4>1 DEF LazyDrive
    <3>2. readbuf = UserData(0)
      BY <1>2, <2>3, <3>1 DEF GoodData, AtDrive
    <3>3. data(j) = UserData(j)
      <4>1. from(j) = j
        BY <1>7, <2>2, <3>1
      <4> QED
        BY <3>2, <4>1 DEF data
    <3>4. joined(j)[k] \in Nat \ Scratched
      BY <1>9, <2>2, UnscramblesFacts
    <3>5. joined(j)[k] = data(j)[k]
      BY <1>9, <2>2, <3>4 DEF Garbage
    <3> QED
      BY <2>2, <3>3, <3>4, <3>5 DEF UserData
  <2> HIDE DEF content
  <2>4. Checked(setup) /\ GoodData => RightBlocks(BlocksAhead, content)
    BY <2>3 DEF RightBlocks
  <2>5. CachesBlocks(BlocksAhead, FALSE, content)
    <3>1. \A j \in 0 .. BlocksAhead - 1 : content[j] \in [InBlock -> Number]
      BY <2>2
    <3> QED
      BY <1>3, <2>1, <2>4, <3>1 DEF CachesBlocks
  <2> QED
    BY <1>2, <1>3, <1>10, <2>5 DEF AttemptEnds
<1> QED
  BY <1>11, <1>12

EndsAttempt ==
  StreamingUnscramble \/ SimpleDump \/ AheadDump \/ HeadersFail \/ JoinUserData

LEMMA EndsOfAttempts ==
  ASSUME ReadInv, EndsAttempt
  PROVE  AttemptEnds
BY EndOfRun, EndOfSimple, EndOfAhead, EndOfHeaders, EndOfJoin DEF EndsAttempt

\* The blocks that an attempt puts into the cache, position by position.
LEMMA CachedByAttempt ==
  ASSUME ReadInv, UNCHANGED <<setup, want>>, NEW n \in Nat, NEW d \in BOOLEAN, NEW content,
         CachesBlocks(n, d, content)
  PROVE  /\ CacheTyped'
         /\ \A p \in Positions :
              \/ cache_map'[p] = cache_map[p] /\ cache'[p] = cache[p]
              \/ \E j \in 0 .. n - 1 :
                   cache_map'[p] = BlockOf(want) + j /\ cache'[p] = content[j]
         /\ n >= 1 /\ (d \/ n <= cache_size) => InCache(BlockOf(want))'
<1>1. setup \in Setups /\ CacheTyped /\ BlockOf(want) \in Nat
  BY SectorFacts DEF ReadInv, Typed
<1>2. AddBlocks(BlockOf(want), n, d, content)
  BY DEF CachesBlocks
<1>3. \A j \in 0 .. n - 1 : content[j] \in [InBlock -> Sector]
  <2>1. \A j \in 0 .. n - 1 : content[j] \in [InBlock -> Number]
    BY DEF CachesBlocks
  <2>2. Number \subseteq Sector
    BY DEF Sector
  <2> QED
    BY <2>1, <2>2
<1> DEFINE first == BlockOf(want)
<1>4. /\ CacheTyped'
      /\ \A p \in Positions :
           \/ cache_map'[p] = cache_map[p] /\ cache'[p] = cache[p]
           \/ \E j \in 0 .. n - 1 :
                Position(first + j) = p /\ cache_map'[p] = first + j /\ cache'[p] = content[j]
      /\ n >= 1 /\ (d \/ n <= cache_size) => cache_map'[Position(first)] = first
  <2> HIDE DEF first
  <2> QED
    BY <1>1, <1>2, <1>3, AddBlocksFacts DEF first
<1>5. InCache(BlockOf(want))' <=> cache_map'[Position(first)] = first
  BY DEF InCache, Position, BlockOf, cache_size
<1> QED
  BY <1>4, <1>5

LEMMA AttemptKeeps ==
  ASSUME ReadInv, AttemptEnds
  PROVE  ReadInv'
<1>1. /\ pc \in {"dump", "unscramble"}
      /\ UNCHANGED <<setup, attempt, start, phase, want, answer>>
      /\ ram' \in [Ram -> Number] /\ buf' \in [Buf -> Number] /\ readbuf' \in [InBlock -> Number]
  BY DEF AttemptEnds
<1>2. /\ setup \in Setups /\ attempt \in DOMAIN setup.methods /\ start \in Nat
      /\ phase \in Phases /\ want \in Nat /\ retry \in 0 .. MAX_READ_RETRIES
      /\ cnt \in 0 .. max_cnt + 1 /\ CacheTyped /\ answer \in Sector \cup {Failed, None}
      /\ retry < MAX_READ_RETRIES /\ answer = None /\ Aligned(start) /\ Aligned(want)
      /\ max_cnt \in Nat /\ MAX_READ_RETRIES \in Nat
      /\ phase # "dump" => Aligned(want)
  BY <1>1, RunFacts, DiscAssumption DEF ReadInv, Typed, Control, Places
<1>3. ASSUME retry' \in 0 .. MAX_READ_RETRIES, cnt' \in 0 .. max_cnt + 1, out' \in BOOLEAN,
             CacheTyped',
             \/ pc' = "returned"
             \/ pc' = "read" /\ retry' < MAX_READ_RETRIES /\ cnt' <= max_cnt
      PROVE  ReadInv'
  <2>1. Typed'
    BY <1>1, <1>2, <1>3, SameSetup DEF Typed, PCs
  <2>2. Control'
    BY <1>1, <1>2, <1>3, SameSetup DEF Control
  <2>3. Places'
    BY <1>1, <1>2, <1>3 DEF Places, Aligned
  <2> QED
    BY <2>1, <2>2, <2>3 DEF ReadInv
<1>4. CASE Retry
  <2>1. UNCHANGED <<cache_map, cache>>
    BY <1>4 DEF Retry, store
  <2>2. CacheTyped'
    BY <1>1, <1>2, <2>1, SameSetup DEF CacheTyped, Position, cache_size
  <2>3. /\ retry' = retry + 1 /\ cnt' = 0
        /\ \/ retry + 1 < MAX_READ_RETRIES /\ out' = TRUE /\ pc' = "read"
           \/ out' = FALSE /\ pc' = "returned"
    BY <1>4 DEF Retry
  <2>4. out' \in BOOLEAN
    BY <2>3, Zenon
  <2>5. /\ retry' \in 0 .. MAX_READ_RETRIES /\ cnt' \in 0 .. max_cnt + 1 /\ cnt' <= max_cnt
        /\ retry + 1 < MAX_READ_RETRIES => retry' < MAX_READ_RETRIES
    BY <1>2, <2>3
  <2> QED
    BY <1>3, <2>2, <2>3, <2>4, <2>5
<1>5. CASE EndRead(FALSE) /\ UNCHANGED store
  <2>1. /\ UNCHANGED <<cache_map, cache, retry, cnt>> /\ out' = FALSE /\ pc' = "returned"
    BY <1>5 DEF EndRead, store
  <2>2. CacheTyped'
    BY <1>1, <1>2, <2>1, SameSetup DEF CacheTyped, Position, cache_size
  <2>3. out' \in BOOLEAN
    BY <2>1, Zenon
  <2> QED
    BY <1>2, <1>3, <2>1, <2>2, <2>3
<1>6. ASSUME NEW n \in Nat, NEW d \in BOOLEAN, NEW content, CachesBlocks(n, d, content)
      PROVE  ReadInv'
  <2>1. CacheTyped'
    BY <1>1, <1>6, CachedByAttempt
  <2>2. UNCHANGED <<retry, cnt>> /\ out' = TRUE /\ pc' = "returned"
    BY <1>6 DEF CachesBlocks, EndRead
  <2>3. out' \in BOOLEAN
    BY <2>2, Zenon
  <2> QED
    BY <1>2, <1>3, <2>1, <2>2, <2>3
<1> QED
  BY <1>4, <1>5, <1>6 DEF AttemptEnds

-----------------------------------------------------------------------------
\* What always holds.

\* What a step can be; the lemmas above say what it does.
LEMMA StepCases ==
  ASSUME [Next]_vars
  PROVE  \/ Caller
         \/ Hit \/ Miss \/ Return
         \/ DriveRuns
         \/ EndsAttempt
         \/ UNCHANGED vars
BY DEF Next, DriveRuns, EndsAttempt, Over

LEMMA ReadNext == ReadInv /\ [Next]_vars => ReadInv'
<1> SUFFICES ASSUME ReadInv, [Next]_vars PROVE ReadInv'
  OBVIOUS
<1>1. CASE UNCHANGED vars
  <2>1. /\ UNCHANGED <<setup, attempt, start, phase, want, pc, retry, cnt, out, ram, buf>>
        /\ UNCHANGED <<readbuf, cache_map, cache, answer>>
    BY <1>1 DEF vars, trying
  <2>2. Typed'
    BY <2>1, SameSetup DEF ReadInv, Typed, CacheTyped, Position, cache_size
  <2>3. Control'
    BY <2>1, SameSetup DEF ReadInv, Control, Streaming, read_method
  <2>4. Places'
    BY <2>1 DEF ReadInv, Places, Aligned, InCache, BlockOf, Position, cache_size, Cached
  <2> QED
    BY <2>2, <2>3, <2>4 DEF ReadInv
<1> QED
  BY <1>1, StepCases, CallerKeeps, LookupKeeps, DriveKeeps, EndsOfAttempts, AttemptKeeps

LEMMA ReadInvHolds == Spec => []ReadInv
BY ReadInit, ReadNext, PTL DEF Spec

\* All variables keep their types: above all the read methods stay within the RAM
\* of the drive and the buffer of a run, a failed attempt is one of the allowed
\* ones, and a block is in the cache at its own place.
THEOREM TypesHold == Spec => []TypeOK
<1>1. ReadInv => TypeOK
  <2> SUFFICES ASSUME ReadInv PROVE TypeOK
    OBVIOUS
  <2>1. Number \subseteq Int /\ Sector \subseteq Int /\ Failed \in Int /\ None \in Int
    BY DEF Number, Sector, Garbage, Spoilt, Failed, None
  <2>2. /\ DOMAIN cache_map = Positions /\ DOMAIN cache = Positions
        /\ \A p \in Positions :
             /\ cache_map[p] # CACHE_ENTRY_INVALID => Position(cache_map[p]) = p
             /\ cache[p] \in [InBlock -> Int]
    BY <2>1 DEF ReadInv, Typed, CacheTyped
  <2>3. /\ ram \in [Ram -> Int] /\ buf \in [Buf -> Int] /\ readbuf \in [InBlock -> Int]
        /\ answer \in Int
    BY <2>1 DEF ReadInv, Typed
  <2> QED
    BY <2>2, <2>3 DEF ReadInv, Typed, TypeOK, Phases, PCs
<1> QED
  BY <1>1, ReadInvHolds, PTL

\* The read methods, which take the sector they are called for to be the first of
\* its block, are only called for such sectors: whoever goes on with the next
\* sector finds it in the cache or has come to the end of a block.
THEOREM AlignedMisses == Spec => []MissesAreAligned
<1>1. ReadInv => MissesAreAligned
  BY DEF ReadInv, Places, MissesAreAligned, Aligned
<1> QED
  BY <1>1, ReadInvHolds, PTL

-----------------------------------------------------------------------------
\* How far a read is from its end.  An attempt reads and dumps max_cnt + 1 times and
\* unscrambles at last; there are MAX_READ_RETRIES attempts.
Reading == pc \in {"read", "dump", "unscramble"}

AttemptSteps == 2 * max_cnt + 5
StepsOfAttempt == 2 * cnt + (IF pc = "read" THEN 0 ELSE IF pc = "dump" THEN 1 ELSE 2)

ReadStepsLeft ==
  IF Reading THEN (MAX_READ_RETRIES - retry) * AttemptSteps - StepsOfAttempt ELSE 0

\* Products of small and of large factors.
LEMMA Products ==
  ASSUME NEW a \in Nat, NEW m \in Nat, NEW r \in Nat, r < m
  PROVE  /\ (m - r) * a \in Nat /\ m * a \in Nat
         /\ a <= (m - r) * a /\ (m - r) * a <= m * a
         /\ (m - (r + 1)) * a = (m - r) * a - a
<1>1. PICK d \in Nat : m = r + d + 1
  BY m - r - 1 \in Nat
<1>2. (d + 1) * a = d * a + a /\ d * a \in Nat
  BY <1>1
<1>3. m * a = r * a + (d + 1) * a /\ r * a \in Nat
  BY <1>1
<1>4. m - r = d + 1 /\ m - (r + 1) = d
  BY <1>1
<1> QED
  BY <1>2, <1>3, <1>4

LEMMA ReadStepsCounted ==
  ASSUME ReadInv
  PROVE  /\ MAX_READ_RETRIES \in Nat /\ AttemptSteps \in Nat
         /\ ReadStepsLeft \in 0 .. MAX_READ_RETRIES * AttemptSteps
         /\ Reading => /\ retry \in Nat /\ retry < MAX_READ_RETRIES
                       /\ StepsOfAttempt \in Nat /\ StepsOfAttempt < AttemptSteps
                       /\ ReadStepsLeft > 0
<1>1. /\ max_cnt \in Nat /\ MAX_READ_RETRIES \in Nat /\ cnt \in 0 .. max_cnt + 1
      /\ retry \in 0 .. MAX_READ_RETRIES /\ AttemptSteps \in Nat
  BY RunFacts, DiscAssumption DEF ReadInv, Typed, AttemptSteps
<1>2. CASE Reading
  <2>1. retry \in Nat /\ retry < MAX_READ_RETRIES
    BY <1>1, <1>2 DEF ReadInv, Control, Reading
  <2>2. StepsOfAttempt \in Nat /\ StepsOfAttempt < AttemptSteps
    BY <1>1 DEF StepsOfAttempt, AttemptSteps
  <2> DEFINE p == (MAX_READ_RETRIES - retry) * AttemptSteps
             q == MAX_READ_RETRIES * AttemptSteps
  <2>3. p \in Nat /\ q \in Nat /\ AttemptSteps <= p /\ p <= q
    BY <1>1, <2>1, Products
  <2>4. ReadStepsLeft = p - StepsOfAttempt
    BY <1>2 DEF ReadStepsLeft
  <2> HIDE DEF p, q
  <2>5. ReadStepsLeft \in 0 .. q /\ ReadStepsLeft > 0
    BY <1>1, <2>2, <2>3, <2>4
  <2> QED
    BY <1>1, <2>1, <2>2, <2>5 DEF q
<1>3. CASE ~Reading
  <2>1. MAX_READ_RETRIES * AttemptSteps \in Nat
    BY <1>1
  <2> QED
    BY <1>1, <1>3, <2>1 DEF ReadStepsLeft
<1> QED
  BY <1>2, <1>3

\* The drive's part of an attempt goes on with it.
LEMMA AttemptGoesOn ==
  ASSUME ReadInv, DriveRuns
  PROVE  StepsOfAttempt' > StepsOfAttempt
<1>1. cnt \in Nat
  BY RunFacts DEF ReadInv, Typed
<1>2. CASE StreamingRead \/ SimpleRead \/ AheadRead
  <2>1. pc = "read" /\ pc' = "dump" /\ cnt' = cnt
    BY <1>2 DEF StreamingRead, SimpleRead, AheadRead
  <2> QED
    BY <1>1, <2>1 DEF StepsOfAttempt
<1>3. CASE StreamingDump
  <2>1. /\ pc = "dump" /\ cnt' \in {cnt, cnt + 1} /\ pc' \in {"read", "unscramble"}
        /\ pc' = "read" => cnt' = cnt + 1
    BY <1>3 DEF StreamingDump
  <2>2. StepsOfAttempt = 2 * cnt + 1
    BY <2>1 DEF StepsOfAttempt
  <2>3. CASE pc' = "read"
    BY <1>1, <2>1, <2>2, <2>3 DEF StepsOfAttempt
  <2>4. CASE pc' = "unscramble"
    <3>1. StepsOfAttempt' = 2 * cnt' + 2
      BY <2>4 DEF StepsOfAttempt
    <3>2. cnt' \in Nat /\ cnt' >= cnt
      BY <1>1, <2>1
    <3>3. \A c, d \in Nat : d >= c => 2 * d + 2 > 2 * c + 1
      OBVIOUS
    <3> QED
      BY <1>1, <2>2, <3>1, <3>2, <3>3
  <2> QED
    BY <2>1, <2>3, <2>4
<1> QED
  BY <1>2, <1>3 DEF DriveRuns

\* Every step of a read comes nearer to its end.
LEMMA ReadStepCounts == ReadInv /\ [Next]_vars => [Reading => ReadStepsLeft' < ReadStepsLeft]_vars
<1> SUFFICES ASSUME ReadInv, [Next]_vars, ~UNCHANGED vars, Reading
             PROVE  ReadStepsLeft' < ReadStepsLeft
  OBVIOUS
<1>1. /\ MAX_READ_RETRIES \in Nat /\ AttemptSteps \in Nat /\ retry \in Nat
      /\ retry < MAX_READ_RETRIES /\ StepsOfAttempt \in Nat /\ StepsOfAttempt < AttemptSteps
      /\ ReadStepsLeft > 0
  BY ReadStepsCounted
<1> DEFINE left(r) == (MAX_READ_RETRIES - r) * AttemptSteps
<1>2. left(retry) \in Nat /\ left(retry + 1) = left(retry) - AttemptSteps
  BY <1>1, Products
<1>3. ReadStepsLeft = left(retry) - StepsOfAttempt
  BY DEF ReadStepsLeft
<1>4. ASSUME UNCHANGED setup
      PROVE  AttemptSteps' = AttemptSteps
  BY <1>4, SameSetup DEF AttemptSteps
<1>5. ASSUME UNCHANGED setup, Reading'
      PROVE  ReadStepsLeft' = left(retry') - StepsOfAttempt'
  BY <1>4, <1>5 DEF ReadStepsLeft
<1>6. CASE pc' = "returned"
  <2>1. ReadStepsLeft' = 0
    BY <1>6 DEF ReadStepsLeft, Reading
  <2> QED
    BY <1>1, <2>1
<1>7. CASE DriveRuns
  <2>1. UNCHANGED <<setup, retry>> /\ Reading' /\ cnt' \in 0 .. max_cnt + 1
    BY <1>7, DriveTypes DEF Reading
  <2>2. StepsOfAttempt' > StepsOfAttempt
    BY <1>7, AttemptGoesOn
  <2>3. ReadStepsLeft' = left(retry) - StepsOfAttempt'
    <3>1. ReadStepsLeft' = left(retry') - StepsOfAttempt'
      BY <1>5, <2>1
    <3>2. retry' = retry
      BY <2>1
    <3> QED
      BY <3>1, <3>2
  <2>4. StepsOfAttempt' \in Nat
    <3>1. cnt' \in Nat
      BY <2>1, RunFacts DEF ReadInv, Typed
    <3>2. \E k \in 0 .. 2 : StepsOfAttempt' = 2 * cnt' + k
      BY DEF StepsOfAttempt
    <3>3. \A d \in Nat, k \in 0 .. 2 : 2 * d + k \in Nat
      OBVIOUS
    <3> QED
      BY <3>1, <3>2, <3>3
  <2> HIDE DEF left
  <2> QED
    BY <1>1, <1>2, <1>3, <2>2, <2>3, <2>4
<1>8. CASE EndsAttempt
  <2>1. AttemptEnds /\ UNCHANGED setup
    BY <1>8, EndsOfAttempts DEF AttemptEnds
  <2>2. CASE Retry /\ pc' # "returned"
    <3>1. pc' = "read" /\ retry' = retry + 1 /\ cnt' = 0
      BY <2>2 DEF Retry
    <3>2. StepsOfAttempt' = 0 /\ Reading'
      BY <3>1 DEF StepsOfAttempt, Reading
    <3>3. ReadStepsLeft' = left(retry + 1)
      <4>1. ReadStepsLeft' = left(retry + 1) - 0
        BY <1>5, <2>1, <3>1, <3>2
      <4> HIDE DEF left
      <4> QED
        BY <1>1, <1>2, <4>1
    <3> HIDE DEF left
    <3> QED
      BY <1>1, <1>2, <1>3, <3>3
  <2>3. CASE EndRead(FALSE)
    BY <1>6, <2>3 DEF EndRead
  <2>4. ASSUME NEW n \in Nat, NEW d \in BOOLEAN, NEW content, CachesBlocks(n, d, content)
        PROVE  pc' = "returned"
    BY <2>4 DEF CachesBlocks, EndRead
  <2> QED
    BY <1>6, <2>1, <2>2, <2>3, <2>4 DEF AttemptEnds
<1>9. ~Caller /\ ~Hit /\ ~Miss /\ ~Return
  <2>1. pc \notin {"answered", "lookup", "returned"}
    BY DEF Reading
  <2> QED
    BY <2>1 DEF Caller, CrackSeeds, Analyze, CheckUpdate, StartDump, NextSector, Again, Stop,
                Quit, Ask, Hit, Miss, Return
<1> QED
  BY <1>7, <1>8, <1>9, StepCases

\* disc_read_sector ends, whatever the drive does: every step inside of a read method
\* leaves fewer of them, and of no read are there more than
\* MAX_READ_RETRIES * (2 * max_cnt + 5).
THEOREM ReadsAreFinite ==
  Spec => /\ [](ReadStepsLeft \in 0 .. MAX_READ_RETRIES * AttemptSteps)
          /\ [][Reading => ReadStepsLeft' < ReadStepsLeft]_vars
<1>1. ReadInv => ReadStepsLeft \in 0 .. MAX_READ_RETRIES * AttemptSteps
  BY ReadStepsCounted
<1> QED
  BY <1>1, ReadInvHolds, ReadStepCounts, PTL DEF Spec

-----------------------------------------------------------------------------
\* A block that was read is found.

\* The cache holds what is read ahead (it must hold DISC_MINIMUM_CACHE_SIZE blocks),
\* and disc_init stays within the disc.
HasRoom(s) ==
  Uses(s, 7 .. 9) =>
    /\ s.cache_size >= Ahead
    /\ s.sectors_no > 0 /\ s.CrackBlocks * SECTORS_PER_BLOCK <= s.sectors_no
    /\ s.IsWii => s.UpdateSector < s.sectors_no

FoundInv ==
  /\ HasRoom(setup)
  /\ Uses(setup, 7 .. 9) => want < sectors_no
  /\ pc = "returned" /\ out => InCache(BlockOf(want))
  /\ pc # "aborted"

LEMMA FoundNext ==
  ASSUME ReadInv, FoundInv, [Next]_vars
  PROVE  FoundInv'
<1>1. /\ setup \in Setups /\ want \in Nat /\ start \in Nat /\ SECTORS_PER_BLOCK \in Nat \ {0}
      /\ sectors_no \in Nat /\ CrackBlocks \in Nat /\ UpdateSector \in Nat
  <2>1. setup \in Setups /\ want \in Nat /\ start \in Nat
    BY DEF ReadInv, Typed
  <2> QED
    BY <2>1, SetupTypes, BlockAssumption
<1>2. Uses(setup, 7 .. 9) =>
        /\ cache_size >= Ahead /\ want < sectors_no
        /\ sectors_no > 0 /\ CrackBlocks * SECTORS_PER_BLOCK <= sectors_no
        /\ IsWii => UpdateSector < sectors_no
  BY DEF FoundInv, HasRoom, cache_size, sectors_no, CrackBlocks, IsWii, UpdateSector
<1>3. ASSUME setup' = setup, Uses(setup, 7 .. 9) => want' < sectors_no,
             pc' \notin {"returned", "aborted"}
      PROVE  FoundInv'
  BY <1>3 DEF FoundInv, HasRoom, Uses, sectors_no
<1>4. CASE Caller
  <2>1. ASSUME NEW p, NEW s \in Nat, Ask(p, s), Uses(setup, 7 .. 9) => s < sectors_no
        PROVE  FoundInv'
    BY <1>3, <2>1 DEF Ask
  <2>2. CASE Quit
    BY <1>2, <1>3, <2>2 DEF Quit, trying, asking
  <2>3. CASE CrackSeeds
    <3>1. want + SECTORS_PER_BLOCK < CrackBlocks * SECTORS_PER_BLOCK
      BY <1>1, <2>3 DEF CrackSeeds, LastSeed
    <3>2. CrackBlocks * SECTORS_PER_BLOCK \in Nat /\ want + SECTORS_PER_BLOCK \in Nat
      BY <1>1
    <3> QED
      BY <1>1, <1>2, <2>1, <2>3, <3>1, <3>2 DEF CrackSeeds
  <2>4. CASE Analyze
    BY <1>2, <2>1, <2>4 DEF Analyze
  <2>5. CASE CheckUpdate
    BY <1>1, <1>2, <2>1, <2>5 DEF CheckUpdate
  <2>6. CASE StartDump
    BY <1>1, <2>1, <2>2, <2>6 DEF StartDump
  <2>7. CASE NextSector
    BY <1>1, <2>1, <2>7 DEF NextSector
  <2>8. CASE Again
    BY <1>2, <2>1, <2>8 DEF Again
  <2>9. CASE Stop
    BY <2>2, <2>9 DEF Stop
  <2> QED
    BY <1>4, <2>3, <2>4, <2>5, <2>6, <2>7, <2>8, <2>9 DEF Caller
<1>5. CASE Hit \/ Miss
  BY <1>2, <1>3, <1>5 DEF Hit, Miss, trying, asking
<1>6. CASE Return
  <2>1. pc' = "answered"
    BY <1>6 DEF Return, FoundInv
  <2> QED
    BY <1>2, <1>3, <1>6, <2>1 DEF Return, trying, asking
<1>7. CASE DriveRuns
  BY <1>2, <1>3, <1>7, DriveTypes
<1>8. CASE EndsAttempt
  <2>1. AttemptEnds /\ UNCHANGED <<setup, want>>
    BY <1>8, EndsOfAttempts DEF AttemptEnds
  <2>2. ASSUME pc' = "returned", out' = FALSE \/ InCache(BlockOf(want))'
        PROVE  FoundInv'
    BY <2>1, <2>2 DEF FoundInv, HasRoom, Uses, sectors_no
  <2>3. CASE Retry
    <3>1. pc' = "read" \/ (pc' = "returned" /\ out' = FALSE)
      BY <2>3 DEF Retry
    <3> QED
      BY <1>2, <1>3, <2>1, <2>2, <3>1
  <2>4. CASE EndRead(FALSE)
    BY <2>2, <2>4 DEF EndRead
  <2>5. ASSUME NEW n \in Nat, NEW d \in BOOLEAN, NEW content, CachesBlocks(n, d, content)
        PROVE  FoundInv'
    <3>1. n >= 1 /\ (d \/ n <= cache_size)
      <4>1. CASE d
        BY <2>5, <4>1 DEF CachesBlocks
      <4>2. CASE ~d
        <5>1. n = BlocksAhead /\ Uses(setup, 7 .. 9)
          BY <2>5, <4>2, ReadMethod DEF CachesBlocks
        <5>2. BlocksAhead \in 0 .. Ahead /\ BlocksAhead >= 1
          BY <1>1, <1>2, <5>1, BlocksAheadFacts
        <5>3. Ahead \in Nat /\ cache_size \in Nat
          BY <1>1, SetupTypes DEF Ahead
        <5> QED
          BY <1>2, <5>1, <5>2, <5>3
      <4> QED
        BY <4>1, <4>2
    <3>2. InCache(BlockOf(want))'
      BY <2>1, <2>5, <3>1, CachedByAttempt
    <3>3. pc' = "returned"
      BY <2>5 DEF CachesBlocks, EndRead
    <3> QED
      BY <2>2, <3>2, <3>3
  <2> QED
    BY <2>1, <2>3, <2>4, <2>5 DEF AttemptEnds
<1>9. CASE UNCHANGED vars
  BY <1>9 DEF vars, trying, asking, FoundInv, HasRoom, Uses, sectors_no, InCache, BlockOf,
              Position, cache_size
<1> QED
  BY <1>4, <1>5, <1>6, <1>7, <1>8, <1>9, StepCases

\* disc.c:716: once a read method has succeeded, the block of the sector asked for
\* is in the cache, so that the assertion never stops the program.  Methods 0 to 6
\* put the blocks of a run there backwards, so that the first stays whatever the size
\* of the cache; methods 7 to 9 need a cache for the five blocks they read ahead.
THEOREM ReadBlocksAreFound == Spec /\ HasRoom(setup) => []FoundAfterRead
<1>1. Init /\ HasRoom(setup) => FoundInv
  <2> SUFFICES ASSUME Init, HasRoom(setup) PROVE FoundInv
    OBVIOUS
  <2>1. want = 0 /\ pc = "lookup"
    BY DEF Init
  <2>2. Uses(setup, 7 .. 9) => 0 < sectors_no
    <3>1. setup \in Setups
      BY DEF Init
    <3>2. sectors_no \in Nat
      BY <3>1, SetupTypes
    <3> QED
      BY <3>2 DEF HasRoom, sectors_no
  <2> QED
    BY <2>1, <2>2 DEF FoundInv
<1>2. FoundInv => FoundAfterRead
  BY DEF FoundInv, FoundAfterRead
<1> QED
  BY <1>1, <1>2, FoundNext, ReadInvHolds, PTL DEF Spec

-----------------------------------------------------------------------------
\* An honest drive.

LEMMA SameDrive ==
  ASSUME UNCHANGED <<setup, attempt, retry>>
  PROVE  /\ read_method' = read_method /\ (Streaming' <=> Streaming) /\ (Simple' <=> Simple)
         /\ LazyDrive' = LazyDrive /\ MemdumpFaults' = MemdumpFaults
         /\ LayerBreak' = LayerBreak /\ DiscEnd' = DiscEnd
         /\ sec_mem' = sec_mem /\ SequenceChecked' = SequenceChecked
<1>1. read_method' = read_method
  BY DEF read_method
<1> QED
  BY <1>1 DEF Streaming, Simple, LazyDrive, MemdumpFaults, LayerBreak, DiscEnd, sec_mem,
              SequenceChecked

\* A READ of an honest drive leaves the sectors in its RAM that it names.
LEMMA AtDriveNext ==
  ASSUME ReadInv, AtDrive, [Next]_vars
  PROVE  AtDrive'
<1>1. setup \in Setups /\ want \in Nat /\ ram \in [Ram -> Number] /\ SECTORS_PER_BLOCK \in Nat
  BY BlockAssumption DEF ReadInv, Typed
<1>2. CASE pc' # "dump"
  BY <1>2 DEF AtDrive
<1>3. CASE SimpleRead
  <2>1. PICK r \in AfterSeek(ram, want) : ram' \in AfterRead(r, want, SECTORS_PER_BLOCK)
    BY <1>3 DEF SimpleRead
  <2>2. r \in [Ram -> Number]
    BY <1>1, <2>1, AfterSeekType
  <2>3. ~LazyDrive => \A k \in Ram : k < SECTORS_PER_BLOCK /\ want + k < DiscEnd
                                       => ram'[k] = want + k
    BY <1>1, <2>1, <2>2, AfterReadFacts
  <2>4. UNCHANGED <<setup, attempt, retry, want>> /\ read_method \in 0 .. 6
    BY <1>3 DEF SimpleRead, trying, asking, Simple
  <2>5. ~LazyDrive => HoldsDisc(want, SECTORS_PER_BLOCK)'
    BY <2>3, <2>4, SameSetup, SameDrive DEF HoldsDisc
  <2>6. read_method # 7 /\ read_method \notin {8, 9}
    BY <2>4
  <2> QED
    BY <2>4, <2>5, <2>6, SameDrive DEF AtDrive
<1>4. CASE StreamingRead
  <2>1. UNCHANGED <<setup, attempt, retry, want>> /\ Streaming /\ retry \in Nat
    BY <1>4, ReadMethod DEF StreamingRead, trying, asking
  <2>2. ~Simple /\ read_method # 7 /\ read_method \notin {8, 9}
    BY <2>1 DEF Streaming, Simple
  <2> QED
    BY <2>1, <2>2, SameDrive DEF AtDrive
<1>5. CASE AheadRead
  <2> DEFINE m == Ahead * SECTORS_PER_BLOCK
  <2>1. UNCHANGED <<setup, attempt, retry, want>> /\ read_method \in 7 .. 9 /\ m \in Nat
    BY <1>1, <1>5 DEF AheadRead, trying, asking, Ahead
  <2>2. PICK q \in (IF retry > 0 THEN AfterSeek(ram, want) ELSE {ram}) :
          \E r \in (IF read_method = 7 THEN {q} ELSE AfterFarRead(q)) :
            ram' \in AfterRead(r, want, m)
    <3>1. LET seeks == IF retry > 0 THEN AfterSeek(ram, want) ELSE {ram}
              fars == IF read_method = 7 THEN seeks ELSE UNION {AfterFarRead(r) : r \in seeks}
          IN  ram' \in UNION {AfterRead(r, want, Ahead * SECTORS_PER_BLOCK) : r \in fars}
      BY <1>5 DEF AheadRead
    <3> QED
      BY <3>1
  <2>3. PICK r \in (IF read_method = 7 THEN {q} ELSE AfterFarRead(q)) :
          ram' \in AfterRead(r, want, m)
    BY <2>2
  <2>4. q \in [Ram -> Number]
    BY <1>1, <2>2, AfterSeekType
  <2>5. r \in [Ram -> Number]
    BY <1>1, <2>3, <2>4, AfterFarReadType
  <2> HIDE DEF m
  <2>6. ~LazyDrive => \A k \in Ram : k < m /\ want + k < DiscEnd => ram'[k] = want + k
    BY <1>1, <2>1, <2>3, <2>5, AfterReadFacts
  <2>7. ~LazyDrive => HoldsDisc(want, m)'
    BY <2>1, <2>6, SameSetup, SameDrive DEF HoldsDisc, m
  <2>8. ~LazyDrive /\ read_method \in {8, 9} => (readbuf = UserData(0))'
    <3>1. ~LazyDrive /\ read_method # 7 => readbuf' = UserData(0)
      BY <1>5 DEF AheadRead
    <3>2. UserData(0)' = UserData(0)
      BY <2>1 DEF UserData, InBlock
    <3> QED
      BY <2>1, <3>1, <3>2
  <2>9. ~Simple
    BY <2>1 DEF Simple
  <2> QED
    BY <2>1, <2>7, <2>8, <2>9, SameDrive DEF AtDrive, m
<1>6. CASE pc' = "dump" /\ (Caller \/ Hit \/ Miss \/ Return \/ StreamingDump \/ EndsAttempt)
  <2>1. CASE Caller
    <3>1. ASSUME NEW p, NEW s, Ask(p, s) PROVE FALSE
      BY <1>6, <3>1 DEF Ask
    <3>2. ~Quit
      BY <1>6 DEF Quit
    <3> QED
      BY <2>1, <3>1, <3>2 DEF Caller, CrackSeeds, Analyze, CheckUpdate, StartDump, NextSector,
                              Again, Stop
  <2>2. CASE Hit \/ Miss \/ Return \/ StreamingDump
    BY <1>6, <2>2 DEF Hit, Miss, Return, StreamingDump
  <2>3. CASE EndsAttempt
    <3>1. AttemptEnds
      BY <2>3, EndsOfAttempts
    <3> QED
      BY <1>6, <3>1 DEF AttemptEnds, Retry, EndRead, CachesBlocks
  <2> QED
    BY <1>6, <2>1, <2>2, <2>3
<1>7. CASE UNCHANGED vars
  <2>1. UNCHANGED <<setup, attempt, retry, want, pc, ram, readbuf>>
    BY <1>7 DEF vars, trying
  <2>2. UserData(0)' = UserData(0)
    BY <2>1 DEF UserData, InBlock
  <2>3. \A n : HoldsDisc(want, n)' <=> HoldsDisc(want, n)
    BY <2>1, SameSetup, SameDrive DEF HoldsDisc
  <2> QED
    BY <2>1, <2>2, <2>3, SameDrive DEF AtDrive
<1> QED
  BY <1>2, <1>3, <1>4, <1>5, <1>6, <1>7, StepCases DEF DriveRuns

LEMMA AtDriveHolds == Spec => [](ReadInv /\ AtDrive)
<1>1. Init => AtDrive
  BY DEF Init, AtDrive
<1> QED
  BY <1>1, AtDriveNext, ReadInvHolds, PTL DEF Spec

\* What went wrong with an honest drive was bound to.
DeservedInv ==
  read_method \in 0 .. 6 /\ ~LazyDrive /\ ~MemdumpFaults =>
    /\ pc = "returned" /\ ~out => Deserved(want)
    /\ answer = Failed => Deserved(want)

LEMMA DeservedNext ==
  ASSUME MAX_READ_RETRIES > 3, ReadInv, AtDrive, DeservedInv, [Next]_vars
  PROVE  DeservedInv'
<1>1. setup \in Setups /\ want \in Nat
  BY DEF ReadInv, Typed
<1>2. CASE pc' # "returned" /\ answer' # Failed
  BY <1>2 DEF DeservedInv
<1>3. UNCHANGED <<setup, want>> => Deserved(want)' = Deserved(want)
  BY DEF Deserved, InBlock, BlockOf, Scratched, DiscEnd
<1>4. UNCHANGED <<setup, attempt>> =>
        read_method' = read_method /\ LazyDrive' = LazyDrive /\ MemdumpFaults' = MemdumpFaults
  BY DEF read_method, LazyDrive, MemdumpFaults
<1>5. CASE Caller
  <2>1. ASSUME NEW p, NEW s, Ask(p, s) PROVE pc' # "returned" /\ answer' # Failed
    BY <2>1 DEF Ask, None, Failed
  <2>2. CASE Quit
    <3>1. UNCHANGED <<setup, attempt, want, answer>> /\ pc' = "done"
      BY <2>2 DEF Quit, trying, asking
    <3> QED
      BY <1>3, <1>4, <3>1 DEF DeservedInv
  <2> QED
    BY <1>2, <1>5, <2>1, <2>2 DEF Caller, CrackSeeds, Analyze, CheckUpdate, StartDump,
                                  NextSector, Again, Stop
<1>6. CASE Hit
  <2>1. answer' = Cached(want) /\ pc' = "answered"
    BY <1>6 DEF Hit, Cached
  <2>2. answer' # Failed
    <3>1. Position(BlockOf(want)) \in Positions /\ want % SECTORS_PER_BLOCK \in InBlock
      BY <1>1, SectorFacts
    <3>2. Cached(want) \in Sector
      BY <3>1 DEF ReadInv, Typed, CacheTyped, Cached
    <3> QED
      BY <2>1, <3>2 DEF Sector, Number, Garbage, Spoilt, Failed
  <2> QED
    BY <1>2, <2>1, <2>2
<1>7. CASE Miss
  <2>1. pc' = "read" /\ UNCHANGED answer /\ answer = None
    BY <1>7 DEF Miss, ReadInv, Control
  <2> QED
    BY <1>2, <2>1 DEF None, Failed
<1>8. CASE Return
  <2>1. UNCHANGED <<setup, attempt, want>> /\ pc = "returned" /\ pc' # "returned"
    BY <1>8 DEF Return, trying, asking
  <2>2. CASE ~out
    BY <1>3, <1>4, <2>1, <2>2 DEF DeservedInv
  <2>3. CASE out
    <3>1. answer' \in {Cached(want), None}
      BY <1>8, <2>3 DEF Return, Cached
    <3>2. Position(BlockOf(want)) \in Positions /\ want % SECTORS_PER_BLOCK \in InBlock
      BY <1>1, SectorFacts
    <3>3. Cached(want) \in Sector
      BY <3>2 DEF ReadInv, Typed, CacheTyped, Cached
    <3>4. answer' # Failed
      BY <3>1, <3>3 DEF Sector, Number, Garbage, Spoilt, Failed, None
    <3> QED
      BY <1>2, <2>1, <3>4
  <2> QED
    BY <2>2, <2>3
<1>9. CASE DriveRuns
  <2>1. pc' # "returned" /\ UNCHANGED answer /\ pc \in {"read", "dump"}
    BY <1>9, DriveTypes
  <2>2. answer' # Failed
    BY <2>1 DEF ReadInv, Control, None, Failed
  <2> QED
    BY <1>2, <2>1, <2>2
<1>10. CASE EndsAttempt
  <2>1. AttemptEnds /\ UNCHANGED <<setup, attempt, want, answer>>
    BY <1>10, EndsOfAttempts DEF AttemptEnds
  <2>2. answer' # Failed
    BY <2>1 DEF AttemptEnds, ReadInv, Control, None, Failed
  <2>3. CASE Retry /\ (Simple /\ ~LazyDrive /\ ~MemdumpFaults /\ AtDrive => Deserved(want))
    <3>1. CASE retry + 1 < MAX_READ_RETRIES
      BY <1>2, <2>2, <2>3, <3>1 DEF Retry
    <3>2. CASE ~(retry + 1 < MAX_READ_RETRIES)
      <4>1. retry >= 3
        BY <3>2, ReadMethod, DiscAssumption
      <4>2. read_method \in 0 .. 6 => Simple
        BY <4>1 DEF Simple
      <4> QED
        BY <1>3, <1>4, <2>1, <2>2, <2>3, <4>2 DEF DeservedInv
    <3> QED
      BY <3>1, <3>2
  <2>4. CASE read_method \in 7 .. 9
    <3>1. read_method \notin 0 .. 6
      BY <2>4
    <3> QED
      BY <1>4, <2>1, <3>1 DEF DeservedInv
  <2>5. CASE EndRead(TRUE)
    BY <2>2, <2>5 DEF DeservedInv, EndRead
  <2> QED
    BY <2>1, <2>3, <2>4, <2>5 DEF AttemptEnds, CachesBlocks
<1>11. CASE UNCHANGED vars
  <2>1. UNCHANGED <<setup, attempt, want, pc, out, answer>>
    BY <1>11 DEF vars, trying, asking
  <2> QED
    BY <1>3, <1>4, <2>1 DEF DeservedInv
<1> QED
  BY <1>5, <1>6, <1>7, <1>8, <1>9, <1>10, <1>11, StepCases

\* With a drive that does what it is told, methods 0 to 6 give up a sector only when
\* its own block is scratched or not all on the disc: whatever the runs of the first
\* three attempts meet, the last attempts read the block alone.
THEOREM OnlyDeservedFailures == Spec /\ MAX_READ_RETRIES > 3 => []FailuresAreDeserved
<1> SUFFICES ASSUME MAX_READ_RETRIES > 3 PROVE Spec => []FailuresAreDeserved
  OBVIOUS
<1>1. Init => DeservedInv
  BY DEF Init, DeservedInv, None, Failed
<1>2. ReadInv /\ AtDrive /\ DeservedInv /\ [Next]_vars => DeservedInv'
  BY DeservedNext
<1>3. DeservedInv => FailuresAreDeserved
  BY DEF DeservedInv, FailuresAreDeserved, Deserved
<1> QED
  BY <1>1, <1>2, <1>3, AtDriveHolds, PTL DEF Spec

-----------------------------------------------------------------------------
\* What is in the cache is right, where the checks are in force.

\* Wherever two places of the RAM are not in a row, the sectors of some READ ended,
\* or those of the disc, or nothing was read yet.
Seamed ==
  \A k \in Ram :
    /\ ram[k] < DiscEnd
    /\ k > 0 => \/ ram[k] = ram[k - 1] + 1
                \/ k \in ReadSizes(setup)
                \/ ram[k - 1] \in {Garbage, DiscEnd - 1}

\* The same of any contents of the RAM.
Seams(r) ==
  /\ r \in [Ram -> Number]
  /\ \A k \in Ram :
       /\ r[k] < DiscEnd
       /\ k > 0 => \/ r[k] = r[k - 1] + 1
                   \/ k \in ReadSizes(setup)
                   \/ r[k - 1] \in {Garbage, DiscEnd - 1}

LEMMA SeamsLoaded ==
  ASSUME setup \in Setups, NEW r, Seams(r), NEW s \in Nat, NEW n \in ReadSizes(setup),
         n \in Nat, NEW q \in Loaded(r, s, n)
  PROVE  Seams(q)
<1>1. PICK further \in BOOLEAN :
        q = [k \in Ram |-> IF (k < n \/ further) /\ s + k < DiscEnd THEN s + k ELSE r[k]]
  BY DEF Loaded
<1>2. /\ Ram \subseteq Nat /\ \A k \in Ram : k > 0 => k - 1 \in Ram
      /\ DiscEnd \in Nat /\ q \in [Ram -> Number] /\ r \in [Ram -> Number]
  <2>1. RamSize \in Nat /\ DiscEnd \in Nat
    BY RamFacts, SetupTypes
  <2> QED
    BY <2>1, LoadedFacts DEF Ram, Seams
<1>3. ASSUME NEW k \in Ram
      PROVE  q[k] < DiscEnd
  BY <1>1, <1>2, <1>3 DEF Seams
<1>4. ASSUME NEW k \in Ram, k > 0
      PROVE  q[k] = q[k - 1] + 1 \/ k \in ReadSizes(setup) \/ q[k - 1] \in {Garbage, DiscEnd - 1}
  <2>1. k - 1 \in Ram /\ k \in Nat /\ k - 1 \in Nat
    BY <1>2, <1>4
  <2>2. /\ q[k] = IF (k < n \/ further) /\ s + k < DiscEnd THEN s + k ELSE r[k]
        /\ q[k - 1] = IF (k - 1 < n \/ further) /\ s + (k - 1) < DiscEnd
                      THEN s + (k - 1) ELSE r[k - 1]
    BY <1>1, <2>1
  <2>3. CASE (k < n \/ further) /\ s + k < DiscEnd
    BY <1>2, <2>1, <2>2, <2>3
  <2>4. CASE ~((k - 1 < n \/ further) /\ s + (k - 1) < DiscEnd)
    <3>1. ~((k < n \/ further) /\ s + k < DiscEnd)
      BY <1>2, <2>1, <2>4
    <3>2. q[k] = r[k] /\ q[k - 1] = r[k - 1]
      BY <2>2, <2>4, <3>1
    <3> QED
      BY <1>4, <3>2 DEF Seams
  <2>5. CASE /\ (k - 1 < n \/ further) /\ s + (k - 1) < DiscEnd
             /\ ~((k < n \/ further) /\ s + k < DiscEnd)
    <3>1. k = n \/ s + (k - 1) = DiscEnd - 1
      BY <1>2, <2>1, <2>5
    <3>2. q[k - 1] = s + (k - 1)
      BY <2>2, <2>5
    <3> QED
      BY <3>1, <3>2
  <2> QED
    BY <2>3, <2>4, <2>5
<1> QED
  BY <1>2, <1>3, <1>4 DEF Seams

LEMMA SeamsAfterRead ==
  ASSUME setup \in Setups, NEW r, Seams(r), NEW s \in Nat, NEW n \in ReadSizes(setup),
         n \in Nat, NEW q \in AfterRead(r, s, n)
  PROVE  Seams(q)
<1>1. s - (s % SECTORS_PER_BLOCK) \in Nat
  <2>1. Resumes(s) \in Nat /\ Resumes(s) <= s /\ s % SECTORS_PER_BLOCK \in Nat
    BY BlockBegins, BlockAssumption
  <2>2. s = SECTORS_PER_BLOCK * (s \div SECTORS_PER_BLOCK) + (s % SECTORS_PER_BLOCK)
    BY BlockAssumption, DivMod
  <2>3. s \div SECTORS_PER_BLOCK \in Nat /\ SECTORS_PER_BLOCK * (s \div SECTORS_PER_BLOCK) \in Nat
    BY BlockAssumption, DivMod
  <2> QED
    BY <2>1, <2>2, <2>3
<1>2. q \in Loaded(r, s, n) \/ q = r \/ q \in Loaded(r, s - (s % SECTORS_PER_BLOCK), n)
  BY DEF AfterRead
<1> QED
  BY <1>1, <1>2, SeamsLoaded

LEMMA SeamsAfterSeek ==
  ASSUME setup \in Setups, NEW r, Seams(r), NEW s \in Nat, NEW q \in AfterSeek(r, s)
  PROVE  Seams(q)
<1>1. /\ Distance \in Nat /\ SECTORS_PER_BLOCK \in Nat /\ s + Distance \in Nat
      /\ SECTORS_PER_BLOCK \in ReadSizes(setup)
  BY DiscAssumption, BlockAssumption DEF ReadSizes
<1>2. CASE q = r
  BY <1>2
<1>3. CASE q \in AfterRead(r, s + Distance, SECTORS_PER_BLOCK)
  BY <1>1, <1>3, SeamsAfterRead
<1>4. CASE s >= Distance /\ q \in AfterRead(r, s - Distance, SECTORS_PER_BLOCK)
  <2>1. s - Distance \in Nat
    BY <1>1, <1>4
  <2> QED
    BY <1>1, <1>4, <2>1, SeamsAfterRead
<1> QED
  BY <1>2, <1>3, <1>4 DEF AfterSeek

LEMMA SeamsAfterFarRead ==
  ASSUME setup \in Setups, want \in Nat, NEW r, Seams(r), NEW q \in AfterFarRead(r)
  PROVE  Seams(q)
<1> DEFINE s == IF sectors_no >= Distance /\ want > sectors_no - Distance
                THEN want - 2 * Ahead * SECTORS_PER_BLOCK
                ELSE want + Ahead * SECTORS_PER_BLOCK
<1>1. SECTORS_PER_BLOCK \in Nat /\ s \in Int /\ SECTORS_PER_BLOCK \in ReadSizes(setup)
  BY BlockAssumption DEF Ahead, ReadSizes
<1>2. q = r \/ (s >= 0 /\ q \in AfterRead(r, s, SECTORS_PER_BLOCK))
  BY DEF AfterFarRead
<1> HIDE DEF s
<1>3. CASE s >= 0 /\ q \in AfterRead(r, s, SECTORS_PER_BLOCK)
  <2>1. s \in Nat
    BY <1>1, <1>3
  <2> QED
    BY <1>1, <1>3, <2>1, SeamsAfterRead
<1> QED
  BY <1>2, <1>3

\* The pieces are long enough for the dump.
LEMMA WholeRead ==
  ASSUME setup \in Setups
  PROVE  sec_mem <= Pieces * Piece
<1> DEFINE m == sec_mem
           w == PieceSectors
           x == m + w - 1
           q == x \div w
           r == x % w
<1>1. m \in Nat /\ w \in Nat \ {0} /\ x \in Nat
  BY SetupTypes
<1>2. q \in Nat /\ r \in Nat /\ r < w /\ x = w * q + r
  BY <1>1, DivMod
<1>3. Pieces = q /\ Piece = Lesser(m, w)
  BY DEF Pieces, Piece
<1> HIDE DEF q, r, m, w
<1>4. w * q = q * w /\ q * w \in Nat
  BY <1>1, <1>2
<1>5. m <= q * w
  BY <1>1, <1>2, <1>4
<1>6. CASE m <= w
  <2>1. Pieces = 1 /\ Piece = m
    BY <1>6, RamFacts DEF m, w
  <2> QED
    BY <1>1, <2>1 DEF m
<1>7. CASE ~(m <= w)
  <2>1. Piece = w
    BY <1>1, <1>3, <1>7 DEF Lesser
  <2> QED
    BY <1>3, <1>5, <2>1 DEF m
<1> QED
  BY <1>6, <1>7

\* All pieces in sequence, the first of them beginning with the right sector, make a
\* read in sequence.  The first sector that is out of it would begin a piece, at the
\* end of a READ or of the disc.
LEMMA InARow ==
  ASSUME ReadInv, Checked(setup), Seamed, pc = "dump", Streaming,
         \A j \in 0 .. Pieces - 1 : InSequence(j * Piece, Piece),
         ~WrongId(ram[0], want + cnt * sec_mem)
  PROVE  \A k \in 0 .. sec_mem - 1 : ram[k] = ram[0] + k
<1> DEFINE m == sec_mem
           w == Piece
           n == Pieces
           at == cnt * m
<1>1. /\ setup \in Setups /\ want \in Nat /\ cnt \in 0 .. max_cnt /\ Aligned(want)
      /\ ram \in [Ram -> Number] /\ cnt \in Nat
  BY RunFacts DEF ReadInv, Typed, Control, Places
<1>2. /\ m \in Nat \ {0} /\ w \in Nat /\ n \in Nat /\ n * w \in Nat /\ m <= n * w
      /\ LayerBreak \in Nat /\ DiscEnd \in Nat /\ PieceSectors \in Nat \ {0}
  <2>1. /\ sec_mem \in Nat /\ sec_mem >= SECTORS_PER_BLOCK /\ SECTORS_PER_BLOCK \in Nat \ {0}
    BY <1>1, SetupTypes, BlockAssumption
  <2> QED
    BY <1>1, <2>1, SetupTypes, RamFacts, WholeRead
<1>3. /\ \A k \in 0 .. m - 1 : k \in Ram /\ ram[k] \in Int
      /\ at \in Nat /\ ram[0] \in Number
  <2>1. RamSize \in Nat /\ n * w <= RamSize
    BY <1>1, RamFacts
  <2>2. \A k \in 0 .. m - 1 : k \in Ram
    BY <1>2, <2>1 DEF Ram
  <2>3. \A k \in Ram : ram[k] \in Number
    BY <1>1
  <2>4. at \in Nat
    BY <1>1, <1>2
  <2>5. 0 \in 0 .. m - 1
    BY <1>2
  <2> QED
    BY <2>2, <2>3, <2>4, <2>5 DEF Number, Garbage
<1>4. SequenceChecked /\ (m <= PieceSectors \/ PiecesFollow(setup))
  <2>1. setup.SequenceChecked /\ (setup.sec_mem <= setup.PieceSectors \/ PiecesFollow(setup))
    BY ReadMethod DEF Checked
  <2> QED
    BY <2>1 DEF SequenceChecked, sec_mem, PieceSectors
<1>5. ASSUME NEW j \in 0 .. n - 1
      PROVE  \A k \in j * w .. j * w + w - 1 : ram[k] = ram[j * w] + (k - j * w)
  BY <1>4 DEF InSequence
<1>6. CASE m <= PieceSectors
  <2>1. n = 1 /\ w = m
    BY <1>1, <1>6, RamFacts
  <2>2. 0 \in 0 .. n - 1 /\ 0 * w = 0 /\ 0 .. 0 + w - 1 = 0 .. m - 1
    BY <1>2, <2>1
  <2>3. \A k \in 0 .. m - 1 : ram[k] = ram[0] + (k - 0)
    BY <1>5, <2>2
  <2> QED
    BY <2>3
<1>7. CASE ~(m <= PieceSectors)
  <2>1. /\ PiecesFollow(setup) /\ w = PieceSectors /\ w \in Nat \ {0}
    BY <1>2, <1>4, <1>7 DEF Piece, Lesser
  <2>2. ram[0] = want + at
    <3>1. DiscEnd <= LayerBreak
      BY <2>1 DEF PiecesFollow, DiscEnd, LayerBreak
    <3>2. ram[0] < DiscEnd
      BY <1>2, <1>3 DEF Seamed
    <3>3. ram[0] \in Int
      BY <1>3 DEF Number, Garbage
    <3> QED
      BY <1>2, <3>1, <3>2, <3>3 DEF WrongId
  <2> DEFINE T == {k \in 0 .. m - 1 : ram[k] # ram[0] + k}
  <2>3. SUFFICES ASSUME T # {} PROVE FALSE
    BY <2>3
  <2>4. PICK k \in T : \A h \in T : k <= h
    <3>1. T \subseteq Nat
      BY <1>2
    <3> HIDE DEF T
    <3> QED
      BY <2>3, <3>1, LeastNat
  <2>5. /\ k \in 0 .. m - 1 /\ k \in Nat /\ ram[k] # ram[0] + k
        /\ \A h \in 0 .. m - 1 : h < k => ram[h] = ram[0] + h
    <3>1. \A h \in 0 .. m - 1 : h < k => h \notin T
      BY <2>4
    <3> QED
      BY <2>4, <3>1
  <2> DEFINE j == k \div w
             r == k % w
  <2>6. j \in Nat /\ r \in Nat /\ r < w /\ k = w * j + r
    BY <2>1, <2>5, DivMod
  <2> HIDE DEF j, r, T, m, n, w, at
  <2>7. w * j = j * w /\ j * w \in Nat
    BY <2>1, <2>6
  <2>8. j \in 0 .. n - 1
    <3>1. SUFFICES ASSUME n <= j PROVE FALSE
      BY <1>2, <2>6
    <3>2. PICK e \in Nat : j = n + e
      BY <1>2, <2>6, <3>1, j - n \in Nat, j = n + (j - n)
    <3>3. j * w = n * w + e * w /\ e * w \in Nat
      BY <1>2, <2>1, <3>2
    <3> QED
      BY <1>2, <2>5, <2>6, <2>7, <3>3
  <2>9. ram[k] = ram[j * w] + (k - j * w)
    <3>1. k \in j * w .. j * w + w - 1
      BY <2>1, <2>5, <2>6, <2>7
    <3> QED
      BY <1>5, <2>8, <3>1
  <2>10. r = 0
    <3>1. SUFFICES ASSUME r # 0 PROVE FALSE
      OBVIOUS
    <3>2. j * w < k /\ j * w \in 0 .. m - 1
      BY <1>2, <2>5, <2>6, <2>7, <3>1
    <3>3. ram[j * w] = ram[0] + j * w
      BY <2>5, <3>2
    <3>4. ram[0] \in Int
      BY <1>3 DEF Number, Garbage
    <3> QED
      BY <2>5, <2>7, <2>9, <3>3, <3>4
  <2>11. k = j * w /\ k # 0 /\ k - 1 \in 0 .. m - 1 /\ ram[k - 1] = ram[0] + (k - 1)
    <3>1. k = j * w
      BY <2>6, <2>7, <2>10
    <3>2. ram[0] \in Int
      BY <1>3 DEF Number, Garbage
    <3>3. k # 0
      BY <2>5, <3>2
    <3>4. k - 1 \in 0 .. m - 1 /\ k - 1 < k
      BY <1>2, <2>5, <3>3
    <3> QED
      BY <2>5, <3>1, <3>3, <3>4
  <2>12. /\ ram[k] # ram[k - 1] + 1
         /\ ram[k - 1] # Garbage
    BY <1>1, <1>3, <2>2, <2>5, <2>11 DEF Garbage
  <2>13. k \notin ReadSizes(setup)
    <3>1. k % PieceSectors = 0 /\ k < setup.sec_mem
      BY <1>2, <2>1, <2>5, <2>10 DEF r, m, sec_mem
    <3> QED
      BY <2>1, <3>1 DEF PiecesFollow, PieceSectors
  <2>14. ram[k - 1] # DiscEnd - 1
    <3>1. SUFFICES ASSUME ram[k - 1] = DiscEnd - 1 PROVE FALSE
      OBVIOUS
    <3>2. BlockOf(want) \in Nat /\ want = BlockOf(want) * SECTORS_PER_BLOCK
      BY <1>1, <1>2, SectorFacts, BlockAssumption
    <3>3. want + at + k = DiscEnd
      BY <1>1, <1>2, <1>3, <2>2, <2>5, <2>11, <3>1
    <3>4. BlockOf(want) * SECTORS_PER_BLOCK + cnt * setup.sec_mem + j * setup.PieceSectors
            = setup.DiscEnd
      BY <2>1, <2>11, <3>2, <3>3 DEF at, m, sec_mem, PieceSectors, DiscEnd
    <3>5. /\ j \in Nat \ {0} /\ j * setup.PieceSectors < setup.sec_mem
          /\ cnt \in 0 .. MoreReads(setup.sec_mem)
      <4>1. j # 0
        BY <1>2, <2>11
      <4>2. j * w < m
        BY <1>2, <2>5, <2>11
      <4> QED
        BY <1>1, <2>1, <2>6, <4>1, <4>2 DEF m, sec_mem, PieceSectors, max_cnt
    <3> QED
      BY <2>1, <3>2, <3>4, <3>5 DEF PiecesFollow
  <2> QED
    BY <1>3, <2>5, <2>11, <2>12, <2>13, <2>14 DEF Seamed
<1> QED
  BY <1>6, <1>7

LEMMA GatheredDump ==
  ASSUME ReadInv, Checked(setup), Gathered, Seamed, StreamingDump
  PROVE  Gathered'
<1> DEFINE m == sec_mem
           at == cnt * m
<1>1. /\ setup \in Setups /\ want \in Nat /\ cnt \in Nat /\ cnt <= max_cnt
      /\ ram \in [Ram -> Number] /\ buf \in [Buf -> Number] /\ max_cnt \in Nat
      /\ m \in Nat \ {0} /\ LayerBreak \in Nat
  <2>1. /\ setup \in Setups /\ want \in Nat /\ cnt \in 0 .. max_cnt + 1 /\ cnt <= max_cnt
        /\ ram \in [Ram -> Number] /\ buf \in [Buf -> Number]
    BY DEF ReadInv, Typed, Control, StreamingDump
  <2>2. /\ sec_mem \in Nat /\ sec_mem >= SECTORS_PER_BLOCK /\ LayerBreak \in Nat
        /\ max_cnt \in Nat /\ SECTORS_PER_BLOCK \in Nat \ {0}
    BY <2>1, SetupTypes, RunFacts, BlockAssumption
  <2> QED
    BY <2>1, <2>2
<1>2. /\ pc = "dump" /\ Streaming
      /\ UNCHANGED <<setup, attempt, retry, want, ram>>
  BY DEF StreamingDump, trying, asking
<1>3. Pieces \in Nat /\ Piece \in Nat /\ Pieces * Piece \in Nat /\ m <= Pieces * Piece
  BY <1>1, RamFacts, WholeRead
<1>4. PICK good \in 0 .. Pieces :
        LET taken == good = Pieces /\ ~WrongId(ram[0], want + at)
        IN  /\ \A j \in 0 .. good - 1 : InSequence(j * Piece, Piece)
            /\ buf' = [p \in Buf |-> IF p - at \in 0 .. good * Piece - 1
                                    THEN ram[p - at] ELSE buf[p]]
            /\ out' = taken
            /\ cnt' = IF taken THEN cnt + 1 ELSE cnt
            /\ pc' = IF taken /\ cnt < max_cnt THEN "read" ELSE "unscramble"
  BY DEF StreamingDump
<1>5. CASE ~(good = Pieces /\ ~WrongId(ram[0], want + at))
  <2>1. pc' = "unscramble" /\ ~out'
    BY <1>4, <1>5
  <2> QED
    BY <2>1 DEF Gathered
<1>6. CASE good = Pieces /\ ~WrongId(ram[0], want + at)
  <2>1. at \in Nat /\ (cnt + 1) * m = at + m
    BY <1>1
  <2>2. \A j \in 0 .. Pieces - 1 : InSequence(j * Piece, Piece)
    BY <1>4, <1>6
  <2>3. /\ buf' = [p \in Buf |-> IF p - at \in 0 .. Pieces * Piece - 1 THEN ram[p - at] ELSE buf[p]]
        /\ cnt' = cnt + 1
        /\ pc' = "read" \/ (pc' = "unscramble" /\ cnt' = max_cnt + 1)
    BY <1>1, <1>4, <1>6
  <2>4. /\ \A k \in 0 .. m - 1 : ram[k] = ram[0] + k
        /\ ram[0] < LayerBreak => ram[0] = want + at
    BY <1>2, <1>6, <2>2, InARow DEF WrongId
  <2>5. \A p \in Buf : p < at => buf[p] = want + p \/ buf[p] >= LayerBreak
    BY <1>2 DEF Gathered
  <2>6. Buf \subseteq Nat
    BY DEF Buf
  <2>7. ram[0] \in Int
    <3>1. 0 \in Ram
      BY <1>1, <1>3, RamFacts DEF Ram
    <3> QED
      BY <1>1, <3>1 DEF Number, Garbage
  <2> HIDE DEF at, m
  <2>8. ASSUME NEW p \in Buf, p < at + m
        PROVE  buf'[p] = want + p \/ buf'[p] >= LayerBreak
    <3>1. CASE p < at
      <4>1. p - at \notin 0 .. Pieces * Piece - 1
        BY <2>1, <2>6, <3>1
      <4> QED
        BY <2>3, <2>5, <3>1, <4>1
    <3>2. CASE ~(p < at)
      <4>1. p - at \in 0 .. m - 1
        BY <1>1, <2>1, <2>6, <2>8, <3>2
      <4>2. p - at \in 0 .. Pieces * Piece - 1
        BY <1>1, <1>3, <4>1
      <4>3. buf'[p] = ram[0] + (p - at)
        BY <2>3, <2>4, <4>1, <4>2
      <4> QED
        BY <1>1, <2>1, <2>4, <2>6, <2>7, <4>1, <4>3
    <3> QED
      BY <3>1, <3>2
  <2>9. cnt' * m = at + m
    BY <2>1, <2>3
  <2>10. \A p \in Buf' : p < (cnt * sec_mem)' => (buf[p] = want + p \/ buf[p] >= LayerBreak)'
    BY <1>2, <2>8, <2>9, SameSetup, SameDrive DEF m
  <2>11. max_cnt' = max_cnt
    BY <1>2, SameSetup
  <2> QED
    BY <2>3, <2>10, <2>11 DEF Gathered
<1> QED
  BY <1>5, <1>6

LEMMA GatheredNext ==
  ASSUME ReadInv, Checked(setup), Gathered, Seamed, [Next]_vars
  PROVE  Gathered'
<1>1. setup \in Setups
  BY DEF ReadInv, Typed
<1>2. CASE pc' \notin {"read", "dump", "unscramble"}
  BY <1>2 DEF Gathered
<1>3. ASSUME setup' = setup, pc' = "read", cnt' = 0 PROVE Gathered'
  <2>1. sec_mem' = sec_mem /\ sec_mem \in Nat /\ Buf' = Buf
    BY <1>1, <1>3, SetupTypes, SameSetup DEF sec_mem
  <2>2. cnt' * sec_mem' = 0
    BY <1>3, <2>1
  <2>3. \A p \in Buf : ~(p < 0)
    BY DEF Buf
  <2> QED
    BY <1>3, <2>1, <2>2, <2>3 DEF Gathered
<1>4. CASE StreamingDump
  BY <1>4, GatheredDump
<1>5. CASE StreamingRead
  <2>1. /\ UNCHANGED <<setup, attempt, retry, want, cnt, buf>> /\ Streaming
        /\ pc = "read" /\ pc' = "dump"
    BY <1>5 DEF StreamingRead, trying, asking
  <2> QED
    BY <2>1, SameSetup, SameDrive DEF Gathered
<1>6. CASE SimpleRead \/ AheadRead
  <2>1. /\ UNCHANGED <<setup, attempt, retry>> /\ pc' = "dump"
    BY <1>6 DEF SimpleRead, AheadRead, trying
  <2>2. ~Streaming
    <3>1. read_method \in 7 .. 9 => read_method \notin 0 .. 6
      OBVIOUS
    <3> QED
      BY <1>6, <3>1, ReadMethod DEF SimpleRead, AheadRead, Streaming
  <2> QED
    BY <2>1, <2>2, SameDrive DEF Gathered
<1>7. CASE Caller
  <2>1. ASSUME NEW p, NEW s, Ask(p, s) PROVE pc' \notin {"read", "dump", "unscramble"}
    BY <2>1 DEF Ask
  <2>2. ASSUME Quit PROVE pc' \notin {"read", "dump", "unscramble"}
    BY <2>2 DEF Quit
  <2> QED
    BY <1>2, <1>7, <2>1, <2>2 DEF Caller, CrackSeeds, Analyze, CheckUpdate, StartDump,
                                  NextSector, Again, Stop
<1>8. CASE Hit \/ Return
  BY <1>2, <1>8 DEF Hit, Return
<1>9. CASE Miss
  BY <1>3, <1>9 DEF Miss, trying
<1>10. CASE EndsAttempt
  <2>1. AttemptEnds /\ setup' = setup
    BY <1>10, EndsOfAttempts DEF AttemptEnds
  <2>2. pc' = "returned" \/ (pc' = "read" /\ cnt' = 0)
    BY <2>1 DEF AttemptEnds, Retry, EndRead, CachesBlocks
  <2> QED
    BY <1>2, <1>3, <2>1, <2>2
<1>11. CASE UNCHANGED vars
  <2>1. UNCHANGED <<setup, attempt, retry, want, cnt, buf, pc, out>>
    BY <1>11 DEF vars, trying, asking
  <2> QED
    BY <2>1, SameSetup, SameDrive DEF Gathered
<1> QED
  BY <1>4, <1>5, <1>6, <1>7, <1>8, <1>9, <1>10, <1>11, StepCases DEF DriveRuns

\* A cached block is what the map says.
Right(b, content) ==
  \A k \in InBlock :
    /\ content[k] \notin Scratched
    /\ \/ content[k] = b * SECTORS_PER_BLOCK + k
       \/ content[k] >= LayerBreak
       \/ content[k] = Spoilt

LEMMA RightByPosition ==
  ASSUME CacheTyped
  PROVE  CachedBlocksAreRight <=>
           \A p \in Positions :
             cache_map[p] # CACHE_ENTRY_INVALID => Right(cache_map[p], cache[p])
<1>1. DOMAIN cache_map = Positions
  BY DEF CacheTyped
<1> QED
  BY <1>1 DEF CachedBlocksAreRight, Right

\* What an attempt does to the cache, on top of CachedByAttempt.
LEMMA StoreSteps ==
  ASSUME ReadInv, [Next]_vars
  PROVE  /\ setup' = setup
         /\ \/ UNCHANGED <<cache_map, cache>>
            \/ /\ UNCHANGED cache_map /\ NextSector /\ Hashing
               /\ cache' = Hashed(want)
            \/ /\ UNCHANGED <<want, phase, start>> /\ Aligned(want)
               /\ \E n \in Nat, d \in BOOLEAN : \E content : CachesBlocks(n, d, content)
<1>1. CASE Caller
  <2>1. ASSUME NEW p, NEW s, Ask(p, s) PROVE UNCHANGED <<setup, cache_map>>
    BY <2>1 DEF Ask
  <2>2. ASSUME Quit PROVE UNCHANGED <<setup, cache_map, cache>>
    BY <2>2 DEF Quit, trying, store
  <2>3. CASE NextSector
    BY <2>1, <2>3 DEF NextSector
  <2>4. CASE CrackSeeds \/ Analyze \/ CheckUpdate \/ StartDump
    BY <2>1, <2>2, <2>4 DEF CrackSeeds, Analyze, CheckUpdate, StartDump, Keep
  <2>5. CASE Again \/ Stop
    BY <2>1, <2>2, <2>5 DEF Again, Stop
  <2> QED
    BY <1>1, <2>3, <2>4, <2>5 DEF Caller
<1>2. CASE Hit \/ Miss \/ Return
  BY <1>2 DEF Hit, Miss, Return, trying, store
<1>3. CASE DriveRuns
  BY <1>3, DriveTypes
<1>4. CASE EndsAttempt
  <2>1. AttemptEnds /\ UNCHANGED <<setup, want, phase, start>> /\ Aligned(want)
    BY <1>4, EndsOfAttempts DEF AttemptEnds, ReadInv, Places
  <2>2. Retry => UNCHANGED <<cache_map, cache>>
    BY DEF Retry, store
  <2>3. UNCHANGED store => UNCHANGED <<cache_map, cache>>
    BY DEF store
  <2> QED
    BY <2>1, <2>2, <2>3 DEF AttemptEnds
<1>5. CASE UNCHANGED vars
  BY <1>5 DEF vars, trying
<1> QED
  BY <1>1, <1>2, <1>3, <1>4, <1>5, StepCases

\* No step leaves a seam in the RAM where there may be none.
LEMMA SeamedNext ==
  ASSUME ReadInv, Seamed, [Next]_vars
  PROVE  Seamed'
<1>1. /\ setup \in Setups /\ want \in Nat /\ Seams(ram) /\ setup' = setup
      /\ want + cnt * sec_mem \in Nat /\ sec_disc \in Nat
  <2>1. /\ setup \in Setups /\ want \in Nat /\ ram \in [Ram -> Number]
        /\ cnt \in 0 .. max_cnt + 1
    BY DEF ReadInv, Typed
  <2>2. sec_mem \in Nat /\ max_cnt \in Nat /\ sec_disc \in Nat
    BY <2>1, SetupTypes, RunFacts
  <2>3. want + cnt * sec_mem \in Nat
    BY <2>1, <2>2
  <2> QED
    BY <2>1, <2>2, <2>3, StoreSteps DEF Seamed, Seams
<1>2. /\ SECTORS_PER_BLOCK \in Nat /\ SECTORS_PER_BLOCK \in ReadSizes(setup)
      /\ sec_disc \in ReadSizes(setup)
  BY BlockAssumption DEF ReadSizes, sec_disc
<1>3. SUFFICES Seams(ram')
  <2>1. Ram' = Ram /\ DiscEnd' = DiscEnd /\ ReadSizes(setup)' = ReadSizes(setup)
    BY <1>1, SameSetup DEF DiscEnd, ReadSizes, Uses
  <2> QED
    BY <1>3, <2>1 DEF Seams, Seamed
<1>4. CASE ram' = ram
  BY <1>1, <1>4
<1>5. CASE StreamingRead
  <2>1. PICK r \in (IF read_method \in {0, 1, 4} THEN AfterSeek(ram, want + cnt * sec_mem)
                    ELSE {ram}) :
          ram' \in AfterRead(r, want + cnt * sec_mem, sec_disc)
    BY <1>5 DEF StreamingRead
  <2>2. Seams(r)
    BY <1>1, <2>1, SeamsAfterSeek
  <2> QED
    BY <1>1, <1>2, <2>1, <2>2, SeamsAfterRead
<1>6. CASE SimpleRead
  <2>1. PICK r \in AfterSeek(ram, want) : ram' \in AfterRead(r, want, SECTORS_PER_BLOCK)
    BY <1>6 DEF SimpleRead
  <2>2. Seams(r)
    BY <1>1, <2>1, SeamsAfterSeek
  <2> QED
    BY <1>1, <1>2, <2>1, <2>2, SeamsAfterRead
<1>7. CASE AheadRead
  <2>1. PICK q \in (IF retry > 0 THEN AfterSeek(ram, want) ELSE {ram}) :
          \E r \in (IF read_method = 7 THEN {q} ELSE AfterFarRead(q)) :
            ram' \in AfterRead(r, want, Ahead * SECTORS_PER_BLOCK)
    <3>1. LET seeks == IF retry > 0 THEN AfterSeek(ram, want) ELSE {ram}
              fars == IF read_method = 7 THEN seeks ELSE UNION {AfterFarRead(r) : r \in seeks}
          IN  ram' \in UNION {AfterRead(r, want, Ahead * SECTORS_PER_BLOCK) : r \in fars}
      BY <1>7 DEF AheadRead
    <3> QED
      BY <3>1
  <2>2. PICK r \in (IF read_method = 7 THEN {q} ELSE AfterFarRead(q)) :
          ram' \in AfterRead(r, want, Ahead * SECTORS_PER_BLOCK)
    BY <2>1
  <2>3. Seams(q)
    BY <1>1, <2>1, SeamsAfterSeek
  <2>4. Seams(r)
    BY <1>1, <2>2, <2>3, SeamsAfterFarRead
  <2>5. Ahead * SECTORS_PER_BLOCK \in ReadSizes(setup) /\ Ahead * SECTORS_PER_BLOCK \in Nat
    <3>1. Uses(setup, 7 .. 9)
      BY <1>7, ReadMethod DEF AheadRead
    <3>2. Ahead * SECTORS_PER_BLOCK \in Nat
      BY <1>2 DEF Ahead
    <3> QED
      BY <3>1, <3>2 DEF ReadSizes
  <2> QED
    BY <1>1, <2>2, <2>4, <2>5, SeamsAfterRead
<1>8. CASE EndsAttempt
  <2>1. ram' = ram \/ \E s \in Nat : ram' \in Loaded(ram, s, SECTORS_PER_BLOCK)
    BY <1>8, EndsOfAttempts DEF AttemptEnds, Rereads
  <2> QED
    BY <1>1, <1>2, <1>4, <2>1, SeamsLoaded
<1>9. CASE Caller
  <2>1. ASSUME NEW p, NEW s, Ask(p, s) PROVE ram' = ram
    BY <2>1 DEF Ask
  <2>2. ASSUME Quit PROVE ram' = ram
    BY <2>2 DEF Quit
  <2>3. ram' = ram
    BY <1>9, <2>1, <2>2 DEF Caller, CrackSeeds, Analyze, CheckUpdate, StartDump,
                            NextSector, Again, Stop
  <2> QED
    BY <1>4, <2>3
<1>10. CASE Hit \/ Miss \/ Return \/ StreamingDump \/ UNCHANGED vars
  BY <1>4, <1>10 DEF Hit, Miss, Return, StreamingDump, vars
<1> QED
  BY <1>5, <1>6, <1>7, <1>8, <1>9, <1>10, StepCases DEF DriveRuns

RightInv == Checked(setup) /\ CachedBlocksAreRight /\ Gathered /\ Seamed

LEMMA RightNext ==
  ASSUME ReadInv, AtDrive, RightInv, [Next]_vars
  PROVE  RightInv'
<1>1. /\ setup \in Setups /\ want \in Nat /\ CacheTyped
      /\ Checked(setup) /\ Gathered /\ Seamed
      /\ \A p \in Positions :
           cache_map[p] # CACHE_ENTRY_INVALID => Right(cache_map[p], cache[p])
      /\ Scratched \subseteq Nat
  <2>1. setup \in Setups /\ want \in Nat /\ CacheTyped
    BY DEF ReadInv, Typed
  <2> QED
    BY <2>1, RightByPosition, SetupTypes DEF RightInv
<1>2. ReadInv' /\ setup' = setup
  BY ReadNext, StoreSteps
<1>3. CacheTyped' /\ Positions' = Positions /\ Checked(setup)' /\ Gathered' /\ Seamed'
  <2>1. Checked(setup)'
    BY <1>1, <1>2 DEF Checked, Uses, PiecesFollow, ReadSizes
  <2> QED
    BY <1>1, <1>2, <2>1, GatheredNext, SeamedNext, SameSetup DEF ReadInv, Typed
<1>4. SUFFICES \A p \in Positions :
                 cache_map'[p] # CACHE_ENTRY_INVALID => Right(cache_map'[p], cache'[p])
  <2>1. CachedBlocksAreRight' <=>
          \A p \in Positions : cache_map'[p] # CACHE_ENTRY_INVALID =>
            \A k \in InBlock :
              /\ cache'[p][k] \notin Scratched
              /\ \/ cache'[p][k] = cache_map'[p] * SECTORS_PER_BLOCK + k
                 \/ cache'[p][k] >= LayerBreak
                 \/ cache'[p][k] = Spoilt
    <3>1. DOMAIN cache_map' = Positions
      BY <1>3 DEF CacheTyped
    <3> QED
      BY <1>2, <3>1 DEF CachedBlocksAreRight, InBlock, Scratched, LayerBreak
  <2> QED
    BY <1>3, <1>4, <2>1 DEF RightInv, Right
<1> SUFFICES ASSUME NEW p \in Positions, cache_map'[p] # CACHE_ENTRY_INVALID
             PROVE  Right(cache_map'[p], cache'[p])
  OBVIOUS
<1>5. CASE UNCHANGED <<cache_map, cache>>
  BY <1>1, <1>5
<1>6. CASE UNCHANGED cache_map /\ cache' = Hashed(want)
  <2>1. Right(cache_map[p], cache[p])
    BY <1>1, <1>6
  <2>2. \A k \in InBlock : cache'[p][k] = cache[p][k] \/ cache'[p][k] = Spoilt
    BY <1>1, <1>6, HashedFacts
  <2>3. Spoilt \notin Scratched
    BY <1>1 DEF Spoilt
  <2> QED
    BY <1>6, <2>1, <2>2, <2>3 DEF Right
<1>7. ASSUME NEW n \in Nat, NEW d \in BOOLEAN, NEW content, CachesBlocks(n, d, content),
             UNCHANGED want, Aligned(want)
      PROVE  Right(cache_map'[p], cache'[p])
  <2>1. \/ cache_map'[p] = cache_map[p] /\ cache'[p] = cache[p]
        \/ \E j \in 0 .. n - 1 : cache_map'[p] = BlockOf(want) + j /\ cache'[p] = content[j]
    BY <1>2, <1>7, CachedByAttempt
  <2>2. ASSUME NEW j \in 0 .. n - 1, cache_map'[p] = BlockOf(want) + j, cache'[p] = content[j]
        PROVE  Right(cache_map'[p], cache'[p])
    <3>1. RightBlocks(n, content)
      BY <1>1, <1>7 DEF CachesBlocks, GoodData
    <3>2. ASSUME NEW k \in InBlock
          PROVE  (BlockOf(want) + j) * SECTORS_PER_BLOCK + k = want + j * SECTORS_PER_BLOCK + k
      <4>1. BlockOf(want) * SECTORS_PER_BLOCK = want
        BY <1>1, <1>7, AlignedBlock
      <4>2. BlockOf(want) \in Nat /\ SECTORS_PER_BLOCK \in Nat /\ j \in Nat /\ k \in Nat
        BY <1>1, SectorFacts, BlockAssumption DEF InBlock
      <4> QED
        BY <4>1, <4>2
    <3> QED
      BY <2>2, <3>1, <3>2 DEF Right, RightBlocks
  <2> QED
    BY <1>1, <2>1, <2>2
<1> QED
  BY <1>5, <1>6, <1>7, StoreSteps

LEMMA RightInvHolds == Spec /\ Checked(setup) => [](ReadInv /\ RightInv)
<1>1. Init /\ Checked(setup) => RightInv
  <2> SUFFICES ASSUME Init, Checked(setup) PROVE RightInv
    OBVIOUS
  <2>1. setup \in Setups /\ ram = [k \in Ram |-> Garbage]
    BY DEF Init
  <2>2. DiscEnd \in Nat /\ RamSize \in Nat
    BY <2>1, SetupTypes, RamFacts
  <2>3. Seamed
    BY <2>1, <2>2 DEF Seamed, Garbage, Ram
  <2> QED
    BY <2>3 DEF Init, RightInv, CachedBlocksAreRight, CACHE_ENTRY_INVALID, Gathered
<1> QED
  BY <1>1, RightNext, AtDriveHolds, PTL DEF Spec

\* Whatever the drive leaves in its RAM and however often disc_read_sector has to try,
\* a block in the cache was read without an error and is the block the map says, up to
\* the sectors that hashing spoilt and those of the second layer, which nothing checks.
THEOREM RightBlocksAreCached == Spec /\ Checked(setup) => []CachedBlocksAreRight
<1>1. RightInv => CachedBlocksAreRight
  BY DEF RightInv
<1> QED
  BY <1>1, RightInvHolds, PTL

-----------------------------------------------------------------------------
\* Hashed sectors are behind the dump.

\* The sectors before Front may have been hashed, by this dump or by the one before
\* it, which the next dump goes on with.
Front == IF phase = "dump" THEN want ELSE start

\* SHA1Update overwrites no more than it is given.
HashesInPlace(s) == s.LongBytes = 4 \/ ~s.Hashing

SpoiltBehind ==
  /\ HashesInPlace(setup)
  /\ \A p \in Positions, k \in InBlock :
       cache_map[p] # CACHE_ENTRY_INVALID /\ cache[p][k] = Spoilt =>
         cache_map[p] * SECTORS_PER_BLOCK + k < Front

LEMMA FrontNeverFalls ==
  ASSUME ReadInv, [Next]_vars
  PROVE  Front' >= Front /\ (NextSector => Front' = want + 1)
<1>1. want \in Nat /\ start \in Nat /\ Front \in Nat /\ Front >= Front
  BY DEF ReadInv, Typed, Front
<1>2. UNCHANGED <<phase, want, start>> => Front' = Front
  BY DEF Front
<1>3. CASE Caller
  <2>1. ASSUME NEW p, NEW s, Ask(p, s) PROVE phase' = p /\ want' = s /\ pc = "answered"
    BY <2>1 DEF Ask
  <2>2. CASE Quit /\ ~NextSector
    BY <1>1, <1>2, <2>2 DEF Quit, trying, asking
  <2>3. CASE CrackSeeds \/ Analyze \/ CheckUpdate
    <3>1. phase # "dump" /\ phase' # "dump" /\ start' = start
      BY <2>1, <2>3 DEF CrackSeeds, Analyze, CheckUpdate, Keep
    <3> QED
      BY <1>1, <3>1 DEF Front, NextSector
  <2>4. CASE StartDump
    <3>1. phase # "dump"
      BY <2>4 DEF StartDump, InitDone
    <3>2. Quit \/ (phase' = "dump" /\ want' = start)
      BY <2>1, <2>4 DEF StartDump
    <3> QED
      BY <1>1, <2>2, <3>1, <3>2 DEF Front, NextSector
  <2>5. CASE NextSector
    <3>1. phase = "dump" /\ phase' = "dump" /\ want' = want + 1
      BY <2>1, <2>5 DEF NextSector
    <3> QED
      BY <1>1, <3>1 DEF Front
  <2>6. CASE Again
    <3>1. /\ phase' # "dump" /\ pc = "answered" /\ answer = Failed
          /\ start' = IF phase = "dump" THEN Resumes(want) ELSE start
      BY <2>1, <2>6 DEF Again, AttemptFails, FirstPhase
    <3>2. Aligned(want)
      BY <3>1 DEF ReadInv, Places, Sector, Number, Garbage, Spoilt, Failed
    <3>3. Resumes(want) = want
      BY <1>1, <3>2, BlockBegins
    <3> QED
      BY <1>1, <3>1, <3>3 DEF Front, NextSector
  <2>7. CASE Stop
    <3>1. ~NextSector
      BY <2>7 DEF Stop, NextSector, Quit, Ask
    <3> QED
      BY <2>2, <2>7, <3>1 DEF Stop
  <2> QED
    BY <1>3, <2>3, <2>4, <2>5, <2>6, <2>7 DEF Caller
<1>4. CASE ~Caller
  <2>1. ~NextSector
    BY <1>4 DEF Caller
  <2>2. UNCHANGED <<phase, want, start>>
    <3>1. CASE Hit \/ Miss \/ Return
      BY <3>1 DEF Hit, Miss, Return, trying, asking
    <3>2. CASE DriveRuns
      BY <3>2, DriveTypes
    <3>3. CASE EndsAttempt
      BY <3>3, EndsOfAttempts DEF AttemptEnds
    <3>4. CASE UNCHANGED vars
      BY <3>4 DEF vars, trying, asking
    <3> QED
      BY <1>4, <3>1, <3>2, <3>3, <3>4, StepCases
  <2> QED
    BY <1>1, <1>2, <2>1, <2>2
<1> QED
  BY <1>3, <1>4

LEMMA SpoiltNext ==
  ASSUME ReadInv, SpoiltBehind, [Next]_vars
  PROVE  SpoiltBehind'
<1>1. /\ setup \in Setups /\ want \in Nat /\ start \in Nat /\ Front \in Nat /\ CacheTyped
      /\ SECTORS_PER_BLOCK \in Nat /\ InBlock \subseteq Nat
      /\ HashesInPlace(setup)
      /\ \A p \in Positions, k \in InBlock :
           cache_map[p] # CACHE_ENTRY_INVALID /\ cache[p][k] = Spoilt =>
             cache_map[p] * SECTORS_PER_BLOCK + k < Front
  BY BlockAssumption DEF ReadInv, Typed, Front, SpoiltBehind, InBlock
<1>2. /\ setup' = setup /\ Positions' = Positions /\ InBlock' = InBlock
      /\ want' \in Nat /\ start' \in Nat
  <2>1. ReadInv' /\ setup' = setup
    BY ReadNext, StoreSteps
  <2> QED
    BY <2>1, SameSetup DEF ReadInv, Typed
<1>3. Front' \in Nat /\ Front' >= Front /\ (NextSector => Front' = want + 1)
  BY <1>2, FrontNeverFalls DEF Front
<1> HIDE DEF Front
<1>4. SUFFICES ASSUME NEW p \in Positions, NEW k \in InBlock,
                      cache_map'[p] # CACHE_ENTRY_INVALID, cache'[p][k] = Spoilt
               PROVE  cache_map'[p] * SECTORS_PER_BLOCK + k < Front'
  BY <1>1, <1>2 DEF SpoiltBehind, HashesInPlace
<1>5. ASSUME cache_map'[p] = cache_map[p], cache[p][k] = Spoilt
      PROVE  cache_map'[p] * SECTORS_PER_BLOCK + k < Front'
  <2>1. cache_map[p] \in Nat \cup {CACHE_ENTRY_INVALID} /\ k \in Nat
    BY <1>1 DEF CacheTyped
  <2>2. cache_map[p] * SECTORS_PER_BLOCK + k \in Nat
    BY <1>1, <1>4, <1>5, <2>1
  <2>3. cache_map[p] * SECTORS_PER_BLOCK + k < Front
    BY <1>1, <1>4, <1>5
  <2> QED
    BY <1>1, <1>3, <1>5, <2>2, <2>3
<1>6. CASE UNCHANGED <<cache_map, cache>>
  BY <1>4, <1>5, <1>6
<1>7. CASE UNCHANGED cache_map /\ NextSector /\ Hashing /\ cache' = Hashed(want)
  <2>1. CASE cache'[p][k] = cache[p][k]
    BY <1>4, <1>5, <1>7, <2>1
  <2>2. CASE cache'[p][k] # cache[p][k]
    <3>1. p = Position(BlockOf(want))
      BY <1>1, <1>7, <2>2, HashedFacts
    <3>2. BlockOf(want) * SECTORS_PER_BLOCK + k \in Spoils(want)
      BY <1>1, <1>7, <2>2, <3>1, HashedFacts
    <3>3. Spoils(want) = {want}
      BY <1>1, <1>7 DEF Spoils, HashesInPlace, Hashing, LongBytes
    <3>4. InCache(BlockOf(want))
      BY <1>7 DEF ReadInv, Places, NextSector, Ask
    <3>5. cache_map'[p] * SECTORS_PER_BLOCK + k = want
      BY <1>7, <3>1, <3>2, <3>3, <3>4 DEF InCache
    <3> QED
      BY <1>1, <1>3, <1>7, <3>5
  <2> QED
    BY <2>1, <2>2
<1>8. ASSUME NEW n \in Nat, NEW d \in BOOLEAN, NEW content, CachesBlocks(n, d, content),
             UNCHANGED want
      PROVE  cache_map'[p] * SECTORS_PER_BLOCK + k < Front'
  <2>1. \/ cache_map'[p] = cache_map[p] /\ cache'[p] = cache[p]
        \/ \E j \in 0 .. n - 1 : cache_map'[p] = BlockOf(want) + j /\ cache'[p] = content[j]
    BY <1>2, <1>8, CachedByAttempt
  <2>2. ASSUME NEW j \in 0 .. n - 1, cache'[p] = content[j] PROVE FALSE
    <3>1. content[j] \in [InBlock -> Number]
      BY <1>8 DEF CachesBlocks
    <3> QED
      BY <1>4, <2>2, <3>1 DEF Number, Garbage, Spoilt
  <2> QED
    BY <1>4, <1>5, <2>1, <2>2
<1> QED
  BY <1>6, <1>7, <1>8, StoreSteps

-----------------------------------------------------------------------------
\* disc_read_sector keeps its promise.

\* What a sector is answered with from the cache.
LEMMA CachedAnswer ==
  ASSUME ReadInv, RightInv, SpoiltBehind, InCache(BlockOf(want))
  PROVE  \/ Cached(want) = want
         \/ Cached(want) \in Nat /\ Cached(want) >= LayerBreak
         \/ Cached(want) = Spoilt /\ phase # "dump"
<1> DEFINE p == Position(BlockOf(want))
           k == want % SECTORS_PER_BLOCK
<1>1. setup \in Setups /\ want \in Nat /\ CacheTyped
  BY DEF ReadInv, Typed
<1>2. /\ p \in Positions /\ k \in InBlock /\ BlockOf(want) \in Nat /\ LayerBreak \in Nat
      /\ want = SECTORS_PER_BLOCK * BlockOf(want) + k
  BY <1>1, SectorFacts, SetupTypes
<1>3. cache_map[p] = BlockOf(want) /\ cache_map[p] # CACHE_ENTRY_INVALID
  BY <1>2 DEF InCache, CACHE_ENTRY_INVALID
<1>4. Cached(want) = cache[p][k] /\ cache[p][k] \in Sector
  BY <1>1, <1>2 DEF Cached, CacheTyped
<1>5. Right(BlockOf(want), cache[p])
  BY <1>1, <1>2, <1>3, RightByPosition DEF RightInv
<1>6. BlockOf(want) * SECTORS_PER_BLOCK + k = want
  <2>1. BlockOf(want) * SECTORS_PER_BLOCK = SECTORS_PER_BLOCK * BlockOf(want)
    BY <1>2, BlockAssumption
  <2> QED
    BY <1>2, <2>1
<1> HIDE DEF p, k
<1>7. \/ cache[p][k] = want \/ cache[p][k] >= LayerBreak \/ cache[p][k] = Spoilt
  BY <1>2, <1>5, <1>6 DEF Right
<1>8. cache[p][k] = Spoilt => phase # "dump"
  <2> SUFFICES ASSUME cache[p][k] = Spoilt, phase = "dump" PROVE FALSE
    OBVIOUS
  <2>1. BlockOf(want) * SECTORS_PER_BLOCK + k < Front
    BY <1>2, <1>3 DEF SpoiltBehind
  <2> QED
    BY <1>1, <1>6, <2>1 DEF Front
<1>9. cache[p][k] >= LayerBreak => cache[p][k] \in Nat
  BY <1>2, <1>4 DEF Sector, Number, Garbage, Spoilt
<1> QED
  BY <1>4, <1>7, <1>8, <1>9

LEMMA ServiceNext ==
  ASSUME ReadInv, RightInv, SpoiltBehind, [Next]_vars
  PROVE  [Service!Next]_(Service!vars)
<1> DEFINE dumping == phase = "dump"
<1>1. setup \in Setups /\ want \in Nat /\ start \in Nat /\ UpdateSector \in Nat
      /\ SECTORS_PER_BLOCK \in Nat
  BY SetupTypes, BlockAssumption DEF ReadInv, Typed
<1>2. setup' = setup /\ LayerBreak' = LayerBreak
  BY StoreSteps DEF LayerBreak
<1>3. UNCHANGED <<phase, want, answer>> => UNCHANGED Service!vars
  BY <1>2 DEF Service!vars
<1>4. CASE Caller
  <2>1. pc = "answered" => answer # None
    BY DEF ReadInv, Places, Sector, Number, Garbage, Spoilt, Failed, None
  <2>2. ASSUME NEW p, NEW s \in Nat, Ask(p, s), phase # "dump" \/ answer = Failed
        PROVE  Service!Ask
    <3>1. answer # None /\ want' = s /\ answer' = None
      BY <2>1, <2>2 DEF Ask
    <3>2. (phase = "dump")' \in BOOLEAN
      BY Zenon
    <3> QED
      BY <1>2, <2>2, <3>1, <3>2 DEF Service!Ask
  <2>3. CASE NextSector
    <3>1. /\ phase = "dump" /\ phase' = "dump" /\ answer # Failed /\ answer # None
          /\ want' = want + 1 /\ answer' = None
      BY <2>1, <2>3 DEF NextSector, Ask
    <3>2. Service!AskNext
      BY <1>2, <3>1 DEF Service!AskNext
    <3> QED
      BY <3>2 DEF Service!Next
  <2>4. CASE Quit
    BY <1>3, <2>4 DEF Quit, asking
  <2>5. CASE CrackSeeds \/ Analyze \/ CheckUpdate
    <3>1. want + SECTORS_PER_BLOCK \in Nat /\ phase # "dump"
      BY <1>1, <2>5 DEF CrackSeeds, Analyze, CheckUpdate
    <3>2. Service!Ask
      BY <1>1, <2>2, <2>5, <3>1 DEF CrackSeeds, Analyze, CheckUpdate
    <3> QED
      BY <3>2 DEF Service!Next
  <2>6. CASE StartDump /\ ~Quit
    <3>1. phase # "dump" /\ Ask("dump", start)
      BY <2>6 DEF StartDump, InitDone
    <3>2. Service!Ask
      BY <1>1, <2>2, <3>1
    <3> QED
      BY <3>2 DEF Service!Next
  <2>7. CASE Again
    <3>1. Service!Ask
      BY <2>2, <2>7 DEF Again, AttemptFails
    <3> QED
      BY <3>1 DEF Service!Next
  <2>8. CASE Stop
    BY <2>4, <2>8 DEF Stop
  <2> QED
    BY <1>4, <2>3, <2>4, <2>5, <2>6, <2>7, <2>8 DEF Caller
<1>5. ASSUME UNCHANGED <<phase, want>>, answer = None, answer' = Failed \/
               (answer' = Cached(want) /\ InCache(BlockOf(want)))
      PROVE  Service!Next
  <2>1. \/ answer' \in {want, Failed}
        \/ answer' \in Nat /\ answer' >= LayerBreak
        \/ answer' = Spoilt /\ phase # "dump"
    BY <1>5, CachedAnswer
  <2>2. Service!Answer
    BY <1>2, <1>5, <2>1 DEF Service!Answer
  <2> QED
    BY <2>2 DEF Service!Next
<1>6. CASE Hit
  <2>1. UNCHANGED <<phase, want>> /\ answer' = Cached(want) /\ InCache(BlockOf(want))
    BY <1>6 DEF Hit, Cached, asking
  <2>2. answer = None
    BY <1>6 DEF Hit, ReadInv, Control
  <2> QED
    BY <1>5, <2>1, <2>2
<1>7. CASE Return
  <2>1. /\ UNCHANGED <<phase, want>>
        /\ \/ answer' = Failed \/ answer' = None
           \/ answer' = Cached(want) /\ InCache(BlockOf(want))
    BY <1>7 DEF Return, Cached, asking
  <2>2. answer = None
    BY <1>7 DEF Return, ReadInv, Control
  <2> QED
    BY <1>3, <1>5, <2>1, <2>2
<1>8. CASE Miss
  BY <1>3, <1>8 DEF Miss, asking
<1>9. CASE DriveRuns
  BY <1>3, <1>9, DriveTypes
<1>10. CASE EndsAttempt
  BY <1>3, <1>10, EndsOfAttempts DEF AttemptEnds
<1>11. CASE UNCHANGED vars
  BY <1>3, <1>11 DEF vars, asking
<1> QED
  BY <1>4, <1>6, <1>7, <1>8, <1>9, <1>10, <1>11, StepCases

LEMMA ServiceInvHolds ==
  Spec /\ Checked(setup) /\ HashesInPlace(setup) => [](ReadInv /\ RightInv /\ SpoiltBehind)
<1>1. Init /\ HashesInPlace(setup) => SpoiltBehind
  <2> SUFFICES ASSUME Init, HashesInPlace(setup) PROVE SpoiltBehind
    OBVIOUS
  <2>1. \A p \in Positions : cache_map[p] = CACHE_ENTRY_INVALID
    BY DEF Init, Positions
  <2> QED
    BY <2>1 DEF SpoiltBehind
<1> QED
  BY <1>1, SpoiltNext, RightInvHolds, PTL DEF Spec

\* disc_read_sector answers a sector that is asked for with that sector or with a
\* failure, or with one of the second layer, and never hands a hashed sector to a dump,
\* through any number of attempts of -A: the detailed reads implement SectorService.
\* Where longs have eight bytes and the dump hashes, they do not (run disc_hashed).
THEOREM ReadsAreServed ==
  Spec /\ Checked(setup) /\ HashesInPlace(setup) => ImplementsService
<1>1. Init => Service!Init
  <2> SUFFICES ASSUME Init PROVE Service!Init
    OBVIOUS
  <2>1. want = 0 /\ answer = None /\ phase = FirstPhase /\ setup \in Setups
    BY DEF Init
  <2>2. (phase = "dump") = FALSE
    BY <2>1 DEF FirstPhase
  <2>3. LayerBreak \in Nat
    BY <2>1, SetupTypes
  <2> QED
    BY <2>1, <2>2, <2>3 DEF Service!Init
<1>2. ReadInv /\ RightInv /\ SpoiltBehind /\ [Next]_vars => [Service!Next]_(Service!vars)
  BY ServiceNext
<1> QED
  BY <1>1, <1>2, ServiceInvHolds, PTL DEF Spec, ImplementsService, Service!Spec

\* What is dumped, and hashed, is the sector of the disc that was asked for, or comes
\* from the second layer: the promise that run disc_hashed refutes where longs have
\* eight bytes holds where they have four and in every dump that does not hash.
THEOREM RightSectorsAreDumped ==
  Spec /\ Checked(setup) /\ HashesInPlace(setup) => []DumpedSectorsAreRight
<1>1. Init => DumpedSectorsAreRight
  BY DEF Init, DumpedSectorsAreRight
<1>2. ASSUME ReadInv, RightInv, SpoiltBehind, DumpedSectorsAreRight, [Next]_vars
      PROVE  DumpedSectorsAreRight'
  <2>1. LayerBreak' = LayerBreak
    BY <1>2, StoreSteps DEF LayerBreak
  <2>2. [Service!Next]_(Service!vars)
    BY <1>2, ServiceNext
  <2>3. CASE UNCHANGED Service!vars
    BY <1>2, <2>3 DEF Service!vars, DumpedSectorsAreRight
  <2>4. CASE Service!Ask \/ Service!AskNext
    BY <2>4 DEF Service!Ask, Service!AskNext, DumpedSectorsAreRight
  <2>5. CASE Service!Answer
    BY <2>1, <2>5 DEF Service!Answer, DumpedSectorsAreRight
  <2> QED
    BY <2>2, <2>3, <2>4, <2>5 DEF Service!Next
<1>3. ReadInv /\ RightInv /\ SpoiltBehind /\ DumpedSectorsAreRight /\ [Next]_vars
        => DumpedSectorsAreRight'
  BY <1>2
<1> QED
  BY <1>1, <1>3, ServiceInvHolds, PTL DEF Spec
=============================================================================
