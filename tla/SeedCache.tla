------------------------------ MODULE SeedCache -----------------------------
(***************************************************************************)
(* The seed cache of libfriidump/unscrambler.c and the way                 *)
(* unscrambler_unscramble_16sectors uses it.                               *)
(*                                                                         *)
(* A block of the disc belongs to one of Slots slots, by its number.  The  *)
(* places of a slot are MAX_SEEDS apart, so that a fifth seed goes to the  *)
(* first place of the next slot, if that is free; one place after the last *)
(* slot is marked as the end.                                              *)
(*                                                                         *)
(* Operators whose names end in Slip are what a programming slip would     *)
(* have made of the operator they precede.                                 *)
(***************************************************************************)
EXTENDS Integers, FiniteSets

CONSTANTS
  Slots,            \* 16
  MAX_SEEDS,
  LastSeed,         \* 7FFFh
  Discs             \* discs, see SeedsOf

ASSUME SeedsAssumption ==
  /\ Slots \in Nat \ {0} /\ MAX_SEEDS \in Nat \ {0}
  /\ LastSeed \in Nat
  /\ Discs \subseteq [0 .. Slots - 1 -> SUBSET (0 .. LastSeed)]

Free   == -1
End    == -2
NoSeed == -3        \* the first sector of a block has an error

VARIABLES
  SeedsOf,          \* the seeds that the blocks of a slot are scrambled with
  seeds,            \* the seeds array, up to the mark
  bruteforce_seeds,
  block,            \* the block last unscrambled
  out,              \* and what came of it
  found             \* history: the seeds found for each slot

vars == <<SeedsOf, seeds, bruteforce_seeds, block, out, found>>

Mark   == Slots * MAX_SEEDS
Places == 0 .. Mark

\* A block: its slot, the seed under which the EDC of its first sector is
\* right, and whether the EDCs of the others are right too.
BlockType ==
  [slot : 0 .. Slots - 1, seed : (0 .. LastSeed) \cup {NoSeed}, whole : BOOLEAN]

\* The blocks a drive may return.
DiscBlocks == {b \in BlockType : b.seed \in SeedsOf[b.slot] \cup {NoSeed}}

\* unscrambler_init_seeds; the marks of the other slots are overwritten.
Init ==
  /\ SeedsOf \in Discs
  /\ seeds = [p \in Places |-> IF p = Mark THEN End ELSE Free]
  /\ bruteforce_seeds = TRUE
  /\ block \in {b \in DiscBlocks : b.seed = NoSeed} /\ out = FALSE
  /\ found = [s \in 0 .. Slots - 1 |-> {}]

First(slot) == slot * MAX_SEEDS

\* Does the scan of the cache for a slot come to place p?
ScannedSlip(slot, p) ==
  p \in First(slot) .. First(slot) + MAX_SEEDS - 1 /\ \A q \in First(slot) .. p : seeds[q] >= 0
Scanned(slot, p) ==
  p >= First(slot) /\ \A q \in First(slot) .. p : seeds[q] >= 0

\* The place at which an unsuccessful scan stops.
ScanEnd(slot) ==
  CHOOSE p \in Places :
    /\ p >= First(slot) /\ seeds[p] < 0
    /\ \A q \in First(slot) .. p - 1 : seeds[q] >= 0

CachedSlip(slot, s) ==
  \E p \in Places : p > First(slot) /\ Scanned(slot, p) /\ seeds[p] = s
Cached(slot, s) == \E p \in Places : Scanned(slot, p) /\ seeds[p] = s

\* add_seed refuses to overwrite the mark.
RoomSlip(slot) == TRUE
Room(slot) == seeds[ScanEnd(slot)] # End

\* The loop over all seeds leaves the last one out, although docs/README.technical:126
\* says that "the LFSR is seeded from 0 to 7FFFh".
Tried(s) == s \in 0 .. LastSeed - 1

\* unscrambler_set_bruteforce
SetBruteforce(b) ==
  /\ bruteforce_seeds' = b
  /\ UNCHANGED <<SeedsOf, seeds, block, out, found>>

Unscramble(b, ok) ==
  /\ block' = b /\ out' = ok
  /\ found' = IF ok THEN [found EXCEPT ![b.slot] = @ \cup {b.seed}] ELSE found
  /\ UNCHANGED <<SeedsOf, bruteforce_seeds>>

\* The seed of the block is in the cache.
UseCached(b) ==
  /\ Cached(b.slot, b.seed)
  /\ Unscramble(b, b.whole)
  /\ UNCHANGED seeds

\* It is found by brute force, and added where the scan stopped ...
AddSeed(b) ==
  /\ ~Cached(b.slot, b.seed) /\ bruteforce_seeds /\ Tried(b.seed)
  /\ Room(b.slot)
  /\ seeds' = [seeds EXCEPT ![ScanEnd(b.slot)] = b.seed]
  /\ Unscramble(b, b.whole)

\* ... unless that is the mark.
NoRoom(b) ==
  /\ ~Cached(b.slot, b.seed) /\ bruteforce_seeds /\ Tried(b.seed)
  /\ ~Room(b.slot)
  /\ Unscramble(b, FALSE)
  /\ UNCHANGED seeds

NotFound(b) ==
  /\ ~Cached(b.slot, b.seed)
  /\ ~bruteforce_seeds \/ ~Tried(b.seed)
  /\ Unscramble(b, FALSE)
  /\ UNCHANGED seeds

\* One call, with what it found in the cache or on its own.
unscrambler_unscramble_16sectors(b) ==
  UseCached(b) \/ AddSeed(b) \/ NoRoom(b) \/ NotFound(b)

Next ==
  \/ \E b \in BOOLEAN : SetBruteforce(b)
  \/ \E b \in DiscBlocks : unscrambler_unscramble_16sectors(b)

Spec == Init /\ [][Next]_vars

-----------------------------------------------------------------------------
\* The array keeps its mark, on which the scan relies to stay inside it.
TypeOK ==
  /\ SeedsOf \in Discs
  /\ seeds \in [Places -> {Free, End} \cup 0 .. LastSeed]
  /\ \A p \in Places : seeds[p] = End <=> p = Mark
  /\ bruteforce_seeds \in BOOLEAN
  /\ block \in DiscBlocks /\ out \in BOOLEAN
  /\ found \in [0 .. Slots - 1 -> SUBSET (0 .. LastSeed)]

\* A seed once found for a slot is found in the cache ever after, although
\* slots run into each other when there are many seeds.
FoundSeedsStay ==
  \A slot \in 0 .. Slots - 1 : \A s \in found[slot] : Cached(slot, s)

\* While no slot needs more than MAX_SEEDS seeds, the cache holds, or has room
\* for, the seed of every block of the disc, whatever was cached before: no good
\* block is ever refused.
RoomForEverySeed ==
  (\A slot \in 0 .. Slots - 1 : Cardinality(SeedsOf[slot]) <= MAX_SEEDS) =>
    \A slot \in 0 .. Slots - 1 : \A s \in SeedsOf[slot] :
      Cached(slot, s) \/ Room(slot)
=============================================================================
