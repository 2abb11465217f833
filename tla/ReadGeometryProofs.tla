------------------------- MODULE ReadGeometryProofs -------------------------
(***************************************************************************)
(* Theorems about the run length: that the loop of disc_set_read_method    *)
(* ends, at the shortest run; and, for the real size of a block, that the  *)
(* blocks cut from a run lie within what was read and that a run fits its  *)
(* buffer.  They hold for all numbers of sectors that a user may give.     *)
(*                                                                         *)
(* The inductive invariant says how far the loop has come: no run shorter  *)
(* than the one it looks at ends near a block.  It ends because as many    *)
(* reads as a block has sectors always do.                                 *)
(***************************************************************************)
EXTENDS ReadGeometry, Arithmetic, TLAPS

\* The sectors of a read that init_range and the defaults allow.
Accepted == 16 .. 100

\* What the loop is to find.
Found(mem, c) ==
  IF Deviation(mem) <= 3 THEN c = 0
  ELSE EndsNearBlock(mem, c) /\ \A b \in 0 .. c - 1 : ~EndsNearBlock(mem, b)

GeometryInv ==
  /\ TypeOK
  /\ pc = "method" => sec_mem \in Accepted \cup {-1}
  /\ pc \in {"loop", "finish", "ready"} => sec_mem \in Accepted
  /\ pc = "loop" =>
       /\ Deviation(sec_mem) > 3
       /\ cnt1 = Deviation(sec_mem) * (counter + 1)
       /\ \A b \in 0 .. counter : ~EndsNearBlock(sec_mem, b)
  /\ pc = "finish" => Found(sec_mem, counter)
  /\ pc = "ready" => Found(sec_mem, max_cnt) /\ max_blk = Blocks(sec_mem, max_cnt)

-----------------------------------------------------------------------------
LEMMA DeviationBounds ==
  ASSUME NEW mem \in Nat
  PROVE  Deviation(mem) \in Nat /\ Deviation(mem) < SECTORS_PER_BLOCK
BY BlockAssumption, DivMod DEF Deviation

\* As many reads as a block has sectors end with a block.
LEMMA WholeBlocks ==
  ASSUME NEW mem \in Nat
  PROVE  EndsNearBlock(mem, SECTORS_PER_BLOCK - 1)
<1> DEFINE d == Deviation(mem)
           w == SECTORS_PER_BLOCK
<1>1. w \in Nat \ {0} /\ d \in Nat
  BY BlockAssumption, DeviationBounds
<1> HIDE DEF d, w
<1>2. (w - 1) + 1 = w /\ d * w = w * d + 0 /\ d * w \in Nat
  BY <1>1
<1>3. (d * w) % w = 0
  BY <1>1, <1>2, Unique
<1> QED
  BY <1>2, <1>3 DEF EndsNearBlock, d, w

\* A single read does not, if the loop is entered at all.
LEMMA OneRead ==
  ASSUME NEW mem \in Nat, Deviation(mem) > 3
  PROVE  ~EndsNearBlock(mem, 0)
<1> DEFINE d == Deviation(mem)
           w == SECTORS_PER_BLOCK
<1>1. w \in Nat \ {0} /\ d \in Nat /\ d < w /\ d > 3
  BY BlockAssumption, DeviationBounds
<1> HIDE DEF d, w
<1>2. d * (0 + 1) = d /\ d = w * 0 + d
  BY <1>1
<1>3. d % w = d
  BY <1>1, <1>2, Unique
<1> QED
  BY <1>1, <1>2, <1>3 DEF EndsNearBlock, d, w

-----------------------------------------------------------------------------
LEMMA GeometryStart == Init => GeometryInv
BY BlockAssumption DEF Init, GeometryInv, TypeOK

LEMMA GeometryStep == GeometryInv /\ [Next]_vars => GeometryInv'
<1> SUFFICES ASSUME GeometryInv, [Next]_vars PROVE GeometryInv'
  OBVIOUS
<1>1. CASE \E d \in SecDiscs, m \in SecMems : init_range(d, m)
  <2>1. PICK d \in SecDiscs, m \in SecMems : init_range(d, m)
    BY <1>1
  <2>2. d \in Int /\ m \in Int
    BY GeometryAssumption
  <2> QED
    BY <2>1, <2>2 DEF init_range, GeometryInv, TypeOK, Accepted
<1>2. CASE \E m \in Methods : SetMethod(m)
  <2>1. PICK m \in Methods : SetMethod(m)
    BY <1>2
  <2>2. sec_mem' \in Accepted /\ sec_mem' \in Nat /\ sec_disc' \in Int /\ m \in 0 .. 9
    BY <2>1, GeometryAssumption
       DEF SetMethod, DefaultSectors, GeometryInv, TypeOK, Accepted
  <2>3. Deviation(sec_mem') \in Nat
    BY <2>2, DeviationBounds
  <2>4. TypeOK'
    BY <2>1, <2>2, <2>3, BlockAssumption DEF SetMethod, GeometryInv, TypeOK
  <2>5. CASE Deviation(sec_mem') > 3
    <3>1. ~EndsNearBlock(sec_mem', 0)
      BY <2>2, <2>5, OneRead
    <3>2. cnt1' = Deviation(sec_mem') * (counter' + 1) /\ counter' = 0 /\ pc' = "loop"
      BY <2>1, <2>3, <2>5 DEF SetMethod
    <3> QED
      BY <2>2, <2>4, <2>5, <3>1, <3>2 DEF GeometryInv
  <2>6. CASE Deviation(sec_mem') <= 3
    <3>1. pc' = "finish" /\ counter' = 0
      BY <2>1, <2>3, <2>6 DEF SetMethod
    <3> QED
      BY <2>2, <2>4, <2>6, <3>1 DEF GeometryInv, Found
  <2> QED
    BY <2>3, <2>5, <2>6
<1>3. CASE Loop
  <2> DEFINE d == Deviation(sec_mem)
  <2>1. /\ sec_mem \in Accepted /\ sec_mem \in Nat /\ counter \in Nat
        /\ d > 3 /\ cnt1 = d * (counter + 1)
        /\ \A b \in 0 .. counter : ~EndsNearBlock(sec_mem, b)
    BY <1>3 DEF Loop, GeometryInv, TypeOK, Accepted
  <2>2. d \in Nat
    BY <2>1, DeviationBounds
  <2>3. counter # SECTORS_PER_BLOCK - 1
    BY <2>1, WholeBlocks
  <2>4. counter + 1 \in 0 .. SECTORS_PER_BLOCK - 1
    BY <2>3, BlockAssumption DEF GeometryInv, TypeOK
  <2>5. UNCHANGED <<sec_mem, sec_disc, read_method, max_cnt, max_blk>> /\ counter' = counter + 1
    BY <1>3 DEF Loop
  <2> HIDE DEF d
  <2>6. cnt1' = d * (counter' + 1) /\ cnt1' \in Nat
    <3>1. cnt1' = cnt1 + d
      BY <1>3 DEF Loop, d
    <3>2. d * (counter + 1) + d = d * ((counter + 1) + 1) /\ d * (counter + 1) \in Nat
      BY <2>1, <2>2
    <3> QED
      BY <2>1, <2>2, <2>5, <3>1, <3>2
  <2>7. Stops(cnt1') <=> EndsNearBlock(sec_mem, counter')
    BY <2>6 DEF Stops, EndsNearBlock, d
  <2>8. TypeOK'
    BY <1>3, <2>4, <2>5, <2>6 DEF Loop, GeometryInv, TypeOK
  <2>9. \A b \in 0 .. counter' - 1 : ~EndsNearBlock(sec_mem, b)
    BY <2>1, <2>5
  <2>10. CASE Stops(cnt1')
    <3>1. pc' = "finish"
      BY <1>3, <2>10 DEF Loop
    <3>2. Found(sec_mem', counter')
      BY <2>1, <2>2, <2>5, <2>7, <2>9, <2>10 DEF Found, d
    <3> QED
      BY <2>1, <2>5, <2>8, <3>1, <3>2 DEF GeometryInv
  <2>11. CASE ~Stops(cnt1')
    <3>1. pc' = "loop"
      BY <1>3, <2>11 DEF Loop
    <3>2. \A b \in 0 .. counter' : ~EndsNearBlock(sec_mem, b)
      BY <2>1, <2>5, <2>7, <2>9, <2>11
    <3>3. Deviation(sec_mem') = d
      BY <2>5 DEF d
    <3> QED
      BY <2>1, <2>5, <2>6, <2>8, <3>1, <3>2, <3>3 DEF GeometryInv
  <2> QED
    BY <2>10, <2>11
<1>4. CASE Finish
  <2>1. /\ sec_mem \in Accepted /\ Found(sec_mem, counter)
        /\ counter \in 0 .. SECTORS_PER_BLOCK - 1
    BY <1>4 DEF Finish, GeometryInv, TypeOK
  <2>2. Blocks(sec_mem, counter) \in Nat
    <3>1. sec_mem * (counter + 1) \in Nat
      BY <2>1 DEF Accepted
    <3> QED
      BY <3>1, BlockAssumption, DivMod DEF Blocks
  <2> QED
    BY <1>4, <2>1, <2>2 DEF Finish, GeometryInv, TypeOK
<1>5. CASE Again
  BY <1>5 DEF Again, GeometryInv, TypeOK
<1>6. CASE UNCHANGED vars
  BY <1>6 DEF vars, GeometryInv, TypeOK
<1> QED
  BY <1>1, <1>2, <1>3, <1>4, <1>5, <1>6 DEF Next

THEOREM GeometryCorrect == Spec => []GeometryInv
BY GeometryStart, GeometryStep, PTL DEF Spec

\* The loop ends: its counter stays below the number of sectors of a block.
THEOREM LoopIsBounded == Spec => []TypeOK
<1>1. GeometryInv => TypeOK
  BY DEF GeometryInv
<1> QED
  BY <1>1, GeometryCorrect, PTL

\* disc_set_read_method finds the shortest run that ends near a block.
THEOREM ShortestRunCorrect == Spec => []ShortestRun
<1>1. GeometryInv => ShortestRun
  <2> SUFFICES ASSUME GeometryInv, pc = "ready" PROVE max_cnt = MoreReads(sec_mem)
    BY DEF ShortestRun
  <2>1. Found(sec_mem, max_cnt) /\ max_cnt \in 0 .. SECTORS_PER_BLOCK - 1
    BY DEF GeometryInv, TypeOK
  <2>2. CASE Deviation(sec_mem) <= 3
    BY <2>1, <2>2 DEF Found, MoreReads
  <2>3. CASE ~(Deviation(sec_mem) <= 3)
    <3> DEFINE P(c) == /\ EndsNearBlock(sec_mem, c)
                       /\ \A b \in 0 .. c - 1 : ~EndsNearBlock(sec_mem, b)
    <3>1. P(max_cnt) /\ max_cnt \in 0 .. SECTORS_PER_BLOCK
      BY <2>1, <2>3, BlockAssumption DEF Found
    <3>2. \A c \in 0 .. SECTORS_PER_BLOCK : P(c) => c = max_cnt
      BY <3>1, BlockAssumption
    <3>3. MoreReads(sec_mem) = CHOOSE c \in 0 .. SECTORS_PER_BLOCK : P(c)
      BY <2>3 DEF MoreReads
    <3> HIDE DEF P
    <3> QED
      BY <3>1, <3>2, <3>3
  <2> QED
    BY <2>2, <2>3
<1> QED
  BY <1>1, GeometryCorrect, PTL

-----------------------------------------------------------------------------
\* What a run leaves over.
LEMMA Spare ==
  ASSUME NEW mem \in Nat, NEW c \in Nat, Found(mem, c)
  PROVE  /\ Blocks(mem, c) \in Nat
         /\ mem * (c + 1) - SECTORS_PER_BLOCK * Blocks(mem, c) \in 0 .. 3
<1> DEFINE w == SECTORS_PER_BLOCK
           d == Deviation(mem)
           k == mem \div w
           p == (d * (c + 1)) \div w
           r == (d * (c + 1)) % w
           n == c + 1
<1>1. w \in Nat \ {0} /\ d \in Nat /\ d < w
  BY BlockAssumption, DeviationBounds
<1>2. mem = w * k + d /\ k \in Nat
  BY <1>1, DivMod DEF Deviation
<1>3. d * n \in Nat /\ n \in Nat \ {0}
  BY <1>1
<1>4. r \in Nat /\ r < w /\ d * n = w * p + r /\ p \in Nat
  BY <1>1, <1>3, DivMod
<1>5. r <= 3
  <2>1. CASE d <= 3
    <3>1. c = 0
      BY <2>1 DEF Found
    <3>2. d * n = d /\ d = w * 0 + d
      BY <1>1, <3>1
    <3>3. d % w = d
      BY <1>1, <3>2, Unique
    <3> QED
      BY <2>1, <3>2, <3>3
  <2>2. CASE ~(d <= 3)
    <3>1. r <= 1
      BY <2>2 DEF Found, EndsNearBlock
    <3> QED
      BY <1>4, <3>1
  <2> QED
    BY <2>1, <2>2
<1> HIDE DEF w, d, k, p, r, n
<1>6. mem * n = w * (k * n + p) + r /\ k * n + p \in Nat /\ mem * n \in Nat
  <2>1. mem * n = w * (k * n) + d * n /\ k * n \in Nat
    BY <1>1, <1>2, <1>3
  <2>2. w * (k * n) + (w * p + r) = w * (k * n + p) + r
    BY <1>1, <1>4, <2>1
  <2>3. mem * n \in Nat
    BY <1>3
  <2> QED
    BY <1>4, <2>1, <2>2, <2>3
<1>7. (mem * n) \div w = k * n + p
  BY <1>1, <1>4, <1>6, Unique
<1>8. Blocks(mem, c) = k * n + p
  BY <1>7 DEF Blocks, n, w
<1>9. mem * n - w * Blocks(mem, c) = r
  <2> DEFINE e == w * (k * n + p)
  <2>1. e \in Int
    BY <1>1, <1>6
  <2>2. mem * n = e + r /\ w * Blocks(mem, c) = e
    BY <1>6, <1>8
  <2> HIDE DEF e
  <2> QED
    BY <1>4, <2>1, <2>2
<1> QED
  BY <1>4, <1>5, <1>6, <1>8, <1>9 DEF n, w

\* The blocks cut from a run are what was read, at most three sectors go unused, and
\* the run fits its buffer, if a block has no more than its 16 sectors.
LEMMA RunBounds ==
  ASSUME SECTORS_PER_BLOCK <= 16, GeometryInv
  PROVE  BlocksAreRead /\ FitsBuffer
<1> SUFFICES ASSUME pc = "ready" PROVE BlocksAreRead /\ FitsBuffer
  BY DEF BlocksAreRead, FitsBuffer
<1>1. /\ sec_mem \in 16 .. 100 /\ Found(sec_mem, max_cnt)
      /\ max_cnt \in 0 .. SECTORS_PER_BLOCK - 1 /\ max_blk = Blocks(sec_mem, max_cnt)
  BY DEF GeometryInv, TypeOK, Accepted
<1>2. SECTORS_PER_BLOCK \in 1 .. 16 /\ max_cnt \in 0 .. 15
  BY <1>1, BlockAssumption
<1>3. BlocksAreRead
  <2> DEFINE w == SECTORS_PER_BLOCK
             all == sec_mem * (max_cnt + 1)
  <2>1. max_blk \in Nat /\ all - w * max_blk \in 0 .. 3
    BY <1>1, <1>2, Spare
  <2>2. all >= 16 /\ all \in Nat
    BY <1>1, <1>2
  <2>3. max_blk # 0
    <3>1. ASSUME max_blk = 0 PROVE FALSE
      <4>1. w * max_blk = 0
        BY <1>2, <3>1
      <4> HIDE DEF all
      <4> QED
        BY <2>1, <2>2, <4>1
    <3> QED
      BY <3>1
  <2> QED
    BY <2>1, <2>3 DEF BlocksAreRead
<1>4. FitsBuffer
  <2> DEFINE piece == IF sec_mem > 27 THEN 27 ELSE sec_mem
             x == sec_mem + piece - 1
  <2>1. sec_mem * max_cnt \in 0 .. 1500
    BY <1>1, <1>2
  <2>2. piece \in Nat \ {0} /\ x \in Nat /\ x <= 126
    BY <1>1
  <2> HIDE DEF piece, x
  <2>3. x \div piece \in Nat /\ x % piece \in Nat /\ x = piece * (x \div piece) + (x % piece)
    BY <2>2, DivMod
  <2>4. piece * (x \div piece) \in Nat
    BY <2>2, <2>3
  <2>5. piece * (x \div piece) <= 126
    BY <2>2, <2>3, <2>4
  <2>6. 2064 * (sec_mem * max_cnt + piece * (x \div piece)) <= 1024 * 1024 * 4
    BY <2>1, <2>4, <2>5
  <2> QED
    BY <2>6 DEF FitsBuffer, piece, x
<1> QED
  BY <1>3, <1>4

\* The blocks cut from a run lie within what was read, and at most three of its
\* sectors go unused.
THEOREM BlocksCorrect ==
  ASSUME SECTORS_PER_BLOCK <= 16 PROVE Spec => []BlocksAreRead
<1>1. GeometryInv => BlocksAreRead
  BY RunBounds
<1> QED
  BY <1>1, GeometryCorrect, PTL

\* A run of reads of any number of sectors that is accepted fits buf.
THEOREM BufferCorrect ==
  ASSUME SECTORS_PER_BLOCK <= 16 PROVE Spec => []FitsBuffer
<1>1. GeometryInv => FitsBuffer
  BY RunBounds
<1> QED
  BY <1>1, GeometryCorrect, PTL
=============================================================================
