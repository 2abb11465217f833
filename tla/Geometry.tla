------------------------------ MODULE Geometry ------------------------------
(***************************************************************************)
(* How reads of mem sectors are cut into blocks: what disc_set_read_method *)
(* of libfriidump/disc.c works out, without its loop.                      *)
(***************************************************************************)
EXTENDS Integers

CONSTANT SECTORS_PER_BLOCK

ASSUME BlockAssumption == SECTORS_PER_BLOCK \in Nat \ {0}

Deviation(mem) == mem % SECTORS_PER_BLOCK

\* After c + 1 reads the sectors end at, or one after, the end of a block.
EndsNearBlock(mem, c) == (Deviation(mem) * (c + 1)) % SECTORS_PER_BLOCK <= 1

\* The blocks that c + 1 reads are cut into.
BlocksSlip(mem, c) ==
  (mem * (c + 1) + SECTORS_PER_BLOCK - 1) \div SECTORS_PER_BLOCK
Blocks(mem, c) == (mem * (c + 1)) \div SECTORS_PER_BLOCK

\* The least number of reads, less one, that ends near a block; a deviation of
\* up to three sectors is left alone.
MoreReads(mem) ==
  IF Deviation(mem) <= 3 THEN 0
  ELSE CHOOSE c \in 0 .. SECTORS_PER_BLOCK :
         /\ EndsNearBlock(mem, c)
         /\ \A b \in 0 .. c - 1 : ~EndsNearBlock(mem, b)
=============================================================================
