----------------------------- MODULE Conversion -----------------------------
(***************************************************************************)
(* unscrambler_unscramble_file: a raw image is converted to an ISO image,  *)
(* block by block, with a seed cache of its own.  Also, with another seed  *)
(* cache, the blocks of a dump, which come in any order (SeedCache!Next).  *)
(*                                                                         *)
(* Data: what the input file holds turns out as it is read, so that an     *)
(* image is any sequence of blocks whose seeds are those of SeedsOf.  The  *)
(* images that FriiDump dumps are unscrambled already, which is to say     *)
(* that all their seeds are 0, whose cipher is all zeros; images that      *)
(* other programs make have other seeds.  Blocks are written whole, also   *)
(* the last one: the size of stdio's buffer divides 32768, so that fwrite  *)
(* hands each over to write(2), which may do it in part, and leaves        *)
(* nothing to fclose (unscrambler.c:366), whose result is not looked at.   *)
(***************************************************************************)
EXTENDS SeedCache, Sequences

CONSTANT MaxBlocks      \* of an image: the bound of the model

ASSUME ConversionAssumption == MaxBlocks \in Nat

VARIABLES
  pc,               \* "dump", "open", "loop" or "done"
  s,                \* the blocks read; s / 16 in the code
  iso,              \* the output file, see BlockOut
  result,           \* the local out
  current_sector,   \* in blocks, or Unset
  end,              \* history: how the last block read ended
  flawed            \* history: a block read was torn or had an error

convVars == <<pc, s, iso, result, current_sector, end, flawed>>
allVars  == <<vars, convVars>>

Unset == -1

\* A block may be the last one and end between two sectors or inside one; a read
\* error does the latter.
Ends == {"block", "sector", "torn"}

\* What a block in the output file may be: block n of the image, block n of it
\* with zeros instead of the sectors it lacks, or a part of a block.
BlockOut(n, rest) == [n |-> n, rest |-> rest]
Part == BlockOut(Unset, "nothing")

ConvInit ==
  /\ Init
  /\ pc \in {"dump", "open"}
  /\ s = 0 /\ iso = <<>> /\ result = FALSE /\ current_sector = Unset
  /\ end = "block" /\ flawed = FALSE

-----------------------------------------------------------------------------
\* Either file cannot be opened.
CannotOpen ==
  /\ pc = "open"
  /\ pc' = "done"
  /\ UNCHANGED <<vars, s, iso, result, current_sector, end, flawed>>

Open ==
  /\ pc = "open"
  /\ pc' = "loop" /\ result' = TRUE
  /\ UNCHANGED <<vars, s, iso, current_sector, end, flawed>>

\* What unscrambler_unscramble_16sectors makes of a block that is padded: zeros
\* have a right EDC under seed 0, and no sector has one after its end was lost.
PaddedSlip(b, ends) == IF ends = "block" THEN b ELSE [b EXCEPT !.whole = @ /\ s > 0]
Padded(b, ends) ==
  [b EXCEPT !.whole = @ /\ \/ ends = "block"
                           \/ ends = "sector" /\ b.seed = 0]

\* The buffer behind the end of what was read.
RestSlip(ends) == IF ends = "block" \/ s > 0 THEN "image" ELSE "zeros"
Rest(ends) == IF ends = "block" THEN "image" ELSE "zeros"

\* Which sector main says the conversion failed at.
FailedAtSlip == s + 1
FailedAt == s

Fail == result' = FALSE /\ current_sector' = FailedAt

\* fwrite, and ferror right after it.
Write(entry) ==
  \/ iso' = Append(iso, entry) /\ UNCHANGED <<result, current_sector>>
  \/ iso' \in {iso, Append(iso, Part)} /\ Fail

ConvertBlock(b, ends) ==
  /\ pc = "loop" /\ result /\ end = "block" /\ s < MaxBlocks
  /\ b.slot = s % Slots
  /\ unscrambler_unscramble_16sectors(Padded(b, ends))
  /\ IF out' THEN Write(BlockOut(s, Rest(ends))) ELSE UNCHANGED iso /\ Fail
  /\ s' = s + 1 /\ end' = ends
  /\ flawed' = (flawed \/ b.seed = NoSeed \/ ~b.whole \/ ends = "torn")
  /\ UNCHANGED pc

\* fread returns nothing: at the end of the file, or because it cannot read,
\* which is taken for the end of the file.
Leave ==
  /\ pc = "loop"
  /\ pc' = "done"
  /\ UNCHANGED <<vars, s, iso, result, current_sector, end, flawed>>

Over == pc = "done" /\ UNCHANGED allVars

Dump == pc = "dump" /\ Next /\ UNCHANGED convVars

ConvNext ==
  \/ CannotOpen \/ Open \/ Leave \/ Over \/ Dump
  \/ \E b \in DiscBlocks, ends \in Ends : ConvertBlock(b, ends)

ConvSpec == ConvInit /\ [][ConvNext]_allVars

-----------------------------------------------------------------------------
\* Every variable holds a value the program can give it.
ConversionTypeOK ==
  /\ pc \in {"dump", "open", "loop", "done"}
  /\ s \in 0 .. MaxBlocks /\ current_sector \in {Unset} \cup 0 .. MaxBlocks
  /\ result \in BOOLEAN /\ flawed \in BOOLEAN
  /\ end \in Ends

\* The ISO image of the first n blocks that were read; zeros follow the last one.
IsoImage(n) ==
  [k \in 1 .. n |-> BlockOut(k - 1, IF k = s /\ end # "block" THEN "zeros" ELSE "image")]

\* A conversion that has not failed has written the ISO image of all it read.  One
\* that has failed tells the block at which it did: what comes before is in the
\* ISO image, and of what comes after there is no more than a part of that block.
IsoIsComplete ==
  /\ result => iso = IsoImage(s)
  /\ current_sector # Unset =>
       /\ Len(iso) \in current_sector .. current_sector + 1
       /\ SubSeq(iso, 1, current_sector) = IsoImage(current_sector)

\* A disc whose seeds fit the cache, without the one that is never tried.
SeedsFit ==
  \A slot \in 0 .. Slots - 1 :
    Cardinality(SeedsOf[slot]) <= MAX_SEEDS /\ LastSeed \notin SeedsOf[slot]

\* The raw image of a dump: docs/ChangeLog:18, "Uniform raw output for all devices:
\* unscrambled data + headers."
Dumped == \A slot \in 0 .. Slots - 1 : SeedsOf[slot] = {0}

\* Every image without errors is unscrambled to its end, and so is one that
\* FriiDump dumped when its last block is short.  (A short block with another
\* seed is refused: its padding is not scrambled.)
GoodImagesConvert ==
  s > 0 /\ ~flawed /\ SeedsFit /\ (end = "block" \/ Dumped) => out
=============================================================================
