----------------------------- MODULE MCDiscRead -----------------------------
(***************************************************************************)
(* Instances of DiscRead for TLC: blocks of 8 sectors, one setup for each  *)
(* situation that the read methods have to deal with.                      *)
(***************************************************************************)
EXTENDS DiscRead

\* A GameCube disc of three blocks read with method 1.  A read of 12 sectors
\* does not end at a block, so that two reads are made of it; a run puts more
\* blocks into the cache than it holds.  The drive is as unreliable as can be.
Runs ==
  [methods |-> <<1>>, sec_disc |-> 12, sec_mem |-> 12, cache_size |-> 2,
   sectors_no |-> 24, DiscEnd |-> 24, LayerBreak |-> 100, Scratched |-> {},
   Seeds |-> 2, IsWii |-> FALSE, IsDVD |-> FALSE,
   CrackBlocks |-> 2, UpdateSector |-> 16, StartSectors |-> {0, 16},
   PieceSectors |-> 27, LazyDrive |-> TRUE, MemdumpFaults |-> TRUE,
   SequenceChecked |-> TRUE, Hashing |-> TRUE, LongBytes |-> 4]

\* A Wii disc whose last block is on the second layer.
Layers == [Runs EXCEPT !.methods = <<2>>, !.LayerBreak = 16, !.IsWii = TRUE]

\* Method 6 dumps two blocks in two pieces, the last one too long, after READs of
\* two sectors less.
InPieces ==
  [Runs EXCEPT !.methods = <<6>>, !.sec_disc = 14, !.sec_mem = 16,
     !.cache_size = 3, !.sectors_no = 32, !.DiscEnd = 32, !.PieceSectors = 13]

\* A DVD of eight blocks less three sectors, read five blocks at a time by
\* method 7, with a scratch; its drive does what it is told.
Honest ==
  [Runs EXCEPT !.cache_size = 6, !.sectors_no = 61, !.DiscEnd = 64,
     !.IsDVD = TRUE, !.StartSectors = {0, 8, 24, 40}, !.LazyDrive = FALSE,
     !.SequenceChecked = FALSE]
AheadOnDVD == [Honest EXCEPT !.methods = <<7>>, !.Scratched = {17}]

\* Methods 8 and 9 have room for less in the cache.
Joined ==
  [Honest EXCEPT !.methods = <<8>>, !.cache_size = 5, !.IsDVD = FALSE,
     !.IsWii = TRUE, !.Scratched = {44}]

\* A scratch beside the block that a run of reads is for.
NextToScratch ==
  [Runs EXCEPT !.sectors_no = 32, !.DiscEnd = 32, !.Scratched = {13},
     !.IsWii = TRUE, !.LazyDrive = FALSE, !.MemdumpFaults = FALSE]

\* -A on a disc of four blocks with a scratch: after method 2, method 7 goes on
\* with the same cache.
Attempts ==
  [Honest EXCEPT !.methods = <<2, 7>>, !.sectors_no = 32, !.DiscEnd = 32,
     !.IsDVD = FALSE, !.cache_size = 3, !.Scratched = {26}, !.StartSectors = {0},
     !.SequenceChecked = TRUE]

\* A dump where longs have eight bytes.
LongLongs ==
  [NextToScratch EXCEPT !.Scratched = {}, !.LongBytes = 8]

AllMethods == {Runs, Layers, InPieces, AheadOnDVD, Joined, NextToScratch,
               Attempts}
Longs      == {LongLongs}
=============================================================================
