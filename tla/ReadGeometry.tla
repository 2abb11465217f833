---------------------------- MODULE ReadGeometry ----------------------------
(***************************************************************************)
(* How many sectors one read command asks for and how many reads are made  *)
(* together, as init_range and disc_set_read_method of libfriidump/disc.c  *)
(* work it out.                                                            *)
(*                                                                         *)
(* A read leaves sec_mem sectors in the RAM of the drive.  When sec_mem is *)
(* not a multiple of a block, max_cnt + 1 reads are made in a row, and     *)
(* their sectors, one run after the other, are cut into max_blk blocks.    *)
(*                                                                         *)
(* Operators whose names end in Slip are what a programming slip would     *)
(* have made of the operator they precede.                                 *)
(***************************************************************************)
EXTENDS Geometry

CONSTANTS
  SecDiscs, SecMems,  \* what the user may write after --method<n>=
  Methods             \* the read methods the user, or else the drive, names

ASSUME GeometryAssumption ==
  /\ SecDiscs \subseteq Int /\ SecMems \subseteq Int
  /\ Methods \subseteq 0 .. 9

VARIABLES pc, read_method, sec_disc, sec_mem, cnt1, counter, max_cnt, max_blk

vars == <<pc, read_method, sec_disc, sec_mem, cnt1, counter, max_cnt, max_blk>>

Init ==
  /\ pc = "options"
  /\ read_method = 0
  \* disc_new sets the default method on a zeroed structure
  /\ sec_disc = 0 /\ sec_mem = 0
  /\ cnt1 = 0 /\ counter = 0
  /\ max_cnt = 0 /\ max_blk = 0

init_rangeSlip(disc, mem) ==
  /\ pc = "options"
  /\ sec_disc' = IF disc \in 1 .. 100 THEN disc ELSE -1
  /\ sec_mem' = IF mem >= 16 THEN mem ELSE -1
  /\ pc' = "method"
  /\ UNCHANGED <<read_method, cnt1, counter, max_cnt, max_blk>>

\* Values out of range count as not given.
init_range(disc, mem) ==
  /\ pc = "options"
  /\ sec_disc' = IF disc \in 1 .. 100 THEN disc ELSE -1
  /\ sec_mem' = IF mem \in 16 .. 100 THEN mem ELSE -1
  /\ pc' = "method"
  /\ UNCHANGED <<read_method, cnt1, counter, max_cnt, max_blk>>

DefaultSectors(m) == IF m \in 4 .. 6 THEN 27 ELSE 16

\* disc_set_read_method up to its loop.
SetMethod(m) ==
  /\ pc = "method"
  /\ read_method' = m
  /\ sec_disc' = IF sec_disc = -1 THEN DefaultSectors(m) ELSE sec_disc
  /\ sec_mem' = IF sec_mem = -1 THEN DefaultSectors(m) ELSE sec_mem
  /\ cnt1' = Deviation(sec_mem') /\ counter' = 0
  /\ pc' = IF Deviation(sec_mem') > 3 THEN "loop" ELSE "finish"
  /\ UNCHANGED <<max_cnt, max_blk>>

StopsSlip(n) == n % SECTORS_PER_BLOCK < 1
StopsAtOneSlip(n) == n % SECTORS_PER_BLOCK = 1
Stops(n) == n % SECTORS_PER_BLOCK <= 1

\* One turn of while (1==1).
Loop ==
  /\ pc = "loop"
  /\ cnt1' = cnt1 + Deviation(sec_mem)
  /\ counter' = counter + 1
  /\ pc' = IF Stops(cnt1') THEN "finish" ELSE "loop"
  /\ UNCHANGED <<read_method, sec_disc, sec_mem, max_cnt, max_blk>>

\* What is left after the loop.
Finish ==
  /\ pc = "finish"
  /\ max_cnt' = counter
  /\ max_blk' = Blocks(sec_mem, counter)
  /\ pc' = "ready"
  /\ UNCHANGED <<read_method, sec_disc, sec_mem, cnt1, counter>>

\* The -A option sets the same disc up again for every method it tries.
Again ==
  /\ pc = "ready"
  /\ pc' = "options"
  /\ UNCHANGED <<read_method, sec_disc, sec_mem, cnt1, counter, max_cnt, max_blk>>

Next ==
  \/ \E d \in SecDiscs, m \in SecMems : init_range(d, m)
  \/ \E m \in Methods : SetMethod(m)
  \/ Loop \/ Finish \/ Again

Spec == Init /\ [][Next]_vars

-----------------------------------------------------------------------------
\* The values the C variables take.  Above all the counter stays below the
\* number of sectors of a block: while (1==1) always ends.
TypeOK ==
  /\ pc \in {"options", "method", "loop", "finish", "ready"}
  /\ read_method \in 0 .. 9
  /\ sec_disc \in Int /\ sec_mem \in Int
  /\ cnt1 \in Nat
  /\ counter \in 0 .. SECTORS_PER_BLOCK - 1
  /\ max_cnt \in 0 .. SECTORS_PER_BLOCK - 1
  /\ max_blk \in Nat

\* The blocks cut from a run of reads lie within what was read, and at most
\* three sectors of a run go unused.
BlocksAreRead ==
  pc = "ready" =>
    LET spare == sec_mem * (max_cnt + 1) - SECTORS_PER_BLOCK * max_blk
    IN  max_blk >= 1 /\ spare \in 0 .. 3

\* disc_set_read_method finds the shortest run of reads that ends near a block.
ShortestRun == pc = "ready" => max_cnt = MoreReads(sec_mem)

\* A run of reads fits the 4 MiB of buf and buf_unscrambled, although each read
\* is dumped in pieces of 27 sectors and the last piece is not cut to size.
FitsBuffer ==
  pc = "ready" =>
    LET piece == IF sec_mem > 27 THEN 27 ELSE sec_mem
        pieces == (sec_mem + piece - 1) \div piece
    IN  2064 * (sec_mem * max_cnt + piece * pieces) <= 1024 * 1024 * 4

=============================================================================
