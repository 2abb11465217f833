----------------------------- MODULE MCScrambler ----------------------------
(* The instance of Scrambler that is checked: the seed 0 and those of one bit,
   and a sector that counts, with its second half inverted. *)
EXTENDS Scrambler

BaseSeeds == {{}} \cup {OneBit(b) : b \in SeedBits}

ASector == [k \in 0 .. SECTOR_SIZE - 1 |->
  LET byte == {b \in 0 .. 7 : (k \div 2 ^ b) % 2 = 1}
  IN  IF k < SECTOR_SIZE \div 2 THEN byte ELSE (0 .. 7) \ byte]
=============================================================================
