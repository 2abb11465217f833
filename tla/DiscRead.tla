------------------------------ MODULE DiscRead ------------------------------
(***************************************************************************)
(* Reading sectors, libfriidump/disc.c: disc_read_sector, its block cache, *)
(* the read methods 0 to 9 and their callers, disc_init and dumper_dump.   *)
(*                                                                         *)
(* A dump that hashes calls multihash_update on the sectors where they are, *)
(* in the cache, and SHA1Update overwrites what it is given (see Digests);  *)
(* -A goes through disc_init and the dump again, method after method, with  *)
(* the same cache.                                                         *)
(*                                                                         *)
(* The sectors come from the RAM of the drive.  A READ is expected to put  *)
(* the sector it names at the beginning of the RAM, but the commands       *)
(* ignore every error, so that the RAM may also hold something else when   *)
(* it is dumped.  What protects the dump is modelled: the sequence check   *)
(* of the memory dump backends, the check of the sector ID, and the EDC of *)
(* the sectors under the seed of their block.                              *)
(*                                                                         *)
(* Data: a raw sector is its number, or Garbage when its EDC is wrong      *)
(* whatever the seed.  The raw and the unscrambled copy of a cached block   *)
(* are one.                                                                *)
(*                                                                         *)
(* Operators whose names end in Slip are what a programming slip would     *)
(* have made of the operator they precede.                                 *)
(***************************************************************************)
EXTENDS Geometry, Sequences

CONSTANTS
  MAX_READ_RETRIES,
  Distance,         \* how far the dummy reads seek
  Setups            \* options, discs and drives, see SetupType

SetupType ==
  [methods : Seq(0 .. 9),         \* the read methods, one after the other with -A
   sec_disc : Nat \ {0}, sec_mem : Nat,   \* see ReadGeometry
   cache_size : Nat \ {0},        \* DISC_DEFAULT_CACHE_SIZE
   sectors_no : Nat,              \* the size of the disc, as detected or forced
   DiscEnd : Nat,                 \* the sectors the medium really has
   LayerBreak : Nat,              \* its first sector on the second layer
   Scratched : SUBSET Nat,        \* its unreadable sectors
   Seeds : Nat \ {0},             \* the blocks after the first take turns with them
   IsWii : BOOLEAN, IsDVD : BOOLEAN,
   CrackBlocks : Nat,             \* disc_crack_seeds reads that many blocks
   UpdateSector : Nat,            \* disc_check_update reads that sector
   StartSectors : SUBSET Nat,     \* where dumper_dump may have to start
   PieceSectors : Nat \ {0},      \* the most a memory dump of methods 0-6 returns
   LazyDrive : BOOLEAN,           \* a READ may leave the RAM, or begin elsewhere
   MemdumpFaults : BOOLEAN,       \* a memory dump may fail
   SequenceChecked : BOOLEAN,     \* the backend checks that sectors follow
   Hashing : BOOLEAN,
   LongBytes : {4, 8}]            \* sizeof (unsigned long)

\* init_range gives a dump at least a block.
ASSUME DiscAssumption ==
  /\ MAX_READ_RETRIES \in Nat \ {0} /\ Distance \in Nat
  /\ Setups \subseteq {s \in SetupType : s.sec_mem >= SECTORS_PER_BLOCK /\ s.methods # <<>>}

\* Sector 160 tells of an update, and dumper_set_raw_output_file and
\* dumper_set_iso_output_file have a dump start with a block.
ASSUME AlignmentAssumption ==
  \A s \in Setups : \A n \in {s.UpdateSector} \cup s.StartSectors :
    n % SECTORS_PER_BLOCK = 0

VARIABLES
  setup,            \* one of Setups, for good
  attempt,          \* the place in methods
  start,            \* where the next dump starts
  phase, want,      \* who asks for a sector, and which
  pc, retry, cnt, out,
  ram,              \* the RAM of the drive
  buf,              \* the global buffer that methods 0-6 gather sectors in
  readbuf,          \* what the last READ of methods 8 and 9 returned
  cache_map, cache, \* block numbers, and the blocks themselves
  answer            \* what disc_read_sector returned

asking == <<phase, want>>
store  == <<cache_map, cache>>
trying == <<setup, attempt, start>>
vars   == <<trying, phase, want, pc, retry, cnt, out, ram, buf, readbuf, cache_map,
            cache, answer>>

read_method     == setup.methods[attempt]
sec_disc        == setup.sec_disc
sec_mem         == setup.sec_mem
cache_size      == setup.cache_size
sectors_no      == setup.sectors_no
DiscEnd         == setup.DiscEnd
LayerBreak      == setup.LayerBreak
Scratched       == setup.Scratched
Seeds           == setup.Seeds
IsWii           == setup.IsWii
IsDVD           == setup.IsDVD
CrackBlocks     == setup.CrackBlocks
UpdateSector    == setup.UpdateSector
StartSectors    == setup.StartSectors
PieceSectors    == setup.PieceSectors
LazyDrive       == setup.LazyDrive
MemdumpFaults   == setup.MemdumpFaults
SequenceChecked == setup.SequenceChecked
Hashing         == setup.Hashing
LongBytes       == setup.LongBytes

Garbage == -1
CACHE_ENTRY_INVALID == -1
Failed  == -2           \* an answer: no data
None    == -3           \* no answer yet
Spoilt  == -4           \* a cached sector that was hashed

\* As ReadGeometry shows disc_set_read_method to set them.
max_cnt == MoreReads(sec_mem)
max_blk == Blocks(sec_mem, max_cnt)

\* methods 7-9 read so many blocks with one command
Ahead == 5

Lesser(a, b) == IF a < b THEN a ELSE b
Greater(a, b) == IF a < b THEN b ELSE a

\* A dump of sec_mem sectors is made of pieces, of which the last is not cut
\* to size.
Pieces == (sec_mem + PieceSectors - 1) \div PieceSectors
Piece  == Lesser(sec_mem, PieceSectors)

RamSize == Greater(Pieces * Piece, Ahead * SECTORS_PER_BLOCK)
Ram     == 0 .. RamSize - 1
Buf     == 0 .. sec_mem * (max_cnt + 1) - 1
InBlock == 0 .. SECTORS_PER_BLOCK - 1

BlockOfSlip(s) == (s + 1) \div SECTORS_PER_BLOCK
BlockOf(s) == s \div SECTORS_PER_BLOCK

-----------------------------------------------------------------------------
\* The drive and the disc.

\* The RAM after a READ of n sectors from s on: the n sectors, followed by more
\* of the disc when the drive reads ahead, else by what was there.
Loaded(r, s, n) ==
  {[k \in Ram |-> IF (k < n \/ further) /\ s + k < DiscEnd THEN s + k ELSE r[k]] :
     further \in BOOLEAN}

AfterRead(r, s, n) ==
  Loaded(r, s, n)
    \cup (IF LazyDrive
          THEN {r} \cup Loaded(r, s - (s % SECTORS_PER_BLOCK), n)
          ELSE {})

\* dvd_read_sector_dummy to a distant sector; sector numbers are unsigned, so
\* that the test for the beginning of the disc never fails and the read of a
\* sector before it does nothing.
AfterSeek(r, s) ==
  IF s + Distance + SECTORS_PER_BLOCK <= sectors_no
  THEN {r} \cup AfterRead(r, s + Distance, SECTORS_PER_BLOCK)
  ELSE IF s >= Distance
  THEN {r} \cup AfterRead(r, s - Distance, SECTORS_PER_BLOCK)
  ELSE {r}

\* The first block of a disc has a seed of its own.
SeedOf(s) ==
  IF s < SECTORS_PER_BLOCK THEN Seeds ELSE BlockOf(s) % Seeds

UnscramblesSlip(b) == b[0] # Garbage /\ b[0] \notin Scratched
\* unscrambler_unscramble_16sectors accepts the sectors of b (all seeds are
\* tried, see SeedCache): their EDC is right under the seed of the first.
Unscrambles(b) ==
  \A k \in InBlock :
    /\ b[k] # Garbage /\ b[k] \notin Scratched
    /\ SeedOf(b[k]) = SeedOf(b[0])

\* The sequence check of a memory dump backend on the n sectors from offset k.
InSequence(k, n) ==
  SequenceChecked => \A j \in k .. k + n - 1 : ram[j] = ram[k] + (j - k)

\* The ID check: sectors of the second layer are let through.
WrongIdSlip(s, wanted) == s >= LayerBreak /\ s # wanted
WrongId(s, wanted) == s < LayerBreak /\ s # wanted

-----------------------------------------------------------------------------
\* The cache.

Position(b) == b % cache_size

InCache(b) == cache_map[Position(b)] = b

\* Of the blocks first..first + n - 1, put into the cache one after the other,
\* the one that stays at a position: the last one put there.
AddedLastSlip(p, first, n, descending) ==
  LET here == {b \in first .. first + n - 1 : Position(b) = p}
  IN  CHOOSE b \in here : \A c \in here : b >= c
AddedLast(p, first, n, descending) ==
  LET here == {b \in first .. first + n - 1 : Position(b) = p}
  IN  CHOOSE b \in here : \A c \in here : IF descending THEN b <= c ELSE b >= c

\* disc_cache_add_block for n blocks; content[j] is the j-th.
AddBlocks(first, n, descending, content) ==
  LET touched == {Position(b) : b \in first .. first + n - 1}
      last(p) == AddedLast(p, first, n, descending)
  IN  /\ cache_map' = [p \in DOMAIN cache_map |->
                         IF p \in touched THEN last(p) ELSE cache_map[p]]
      /\ cache' = [p \in DOMAIN cache |->
                     IF p \in touched THEN content[last(p) - first] ELSE cache[p]]

-----------------------------------------------------------------------------
\* disc_read_sector and its callers.

FirstPhase == IF CrackBlocks > 0 THEN "crack" ELSE "analyze"

Init ==
  /\ setup \in Setups
  /\ attempt = 1 /\ start \in StartSectors
  /\ phase = FirstPhase /\ want = 0
  /\ pc = "lookup" /\ retry = 0 /\ cnt = 0 /\ out = FALSE
  /\ ram = [k \in Ram |-> Garbage]
  /\ buf = [k \in Buf |-> Garbage]
  /\ readbuf = [k \in InBlock |-> Garbage]
  /\ cache_map = [p \in 0 .. cache_size - 1 |-> CACHE_ENTRY_INVALID]
  /\ cache = [p \in 0 .. cache_size - 1 |-> [k \in InBlock |-> Garbage]]
  /\ answer = None

\* multihash_update has overwritten sector s of a cached block, and with longs of
\* eight bytes the beginning of the one behind it.
SpoilsSlip(s) == {s}
Spoils(s) == IF LongBytes = 8 THEN {s, s + 1} ELSE {s}

Hashed(s) ==
  [cache EXCEPT ![Position(BlockOf(s))] =
     [k \in InBlock |-> IF BlockOf(s) * SECTORS_PER_BLOCK + k \in Spoils(s)
                       THEN Spoilt ELSE @[k]]]

\* The caller hands the answer on and asks for the next sector, or is done:
\* disc_init reads the blocks with the seeds, sector 0 and, on a Wii disc, the
\* sector that tells of an update; dumper_dump reads to the end or to the first
\* failure, and hashes what it has written.
Ask(p, s) ==
  /\ pc = "answered"
  /\ phase' = p /\ want' = s
  /\ answer' = None
  /\ pc' = "lookup"
  /\ UNCHANGED <<setup, retry, cnt, out, ram, buf, readbuf, cache_map>>

Keep == UNCHANGED <<attempt, start, cache>>

Quit ==
  /\ pc = "answered"
  /\ pc' = "done"
  /\ UNCHANGED <<trying, asking, retry, cnt, out, ram, buf, readbuf, store, answer>>

InitDone == \/ phase = "crack" /\ IsDVD
            \/ phase = "analyze" /\ answer # Failed /\ ~IsWii
            \/ phase = "update"

LastSeed == want + SECTORS_PER_BLOCK >= CrackBlocks * SECTORS_PER_BLOCK

CrackSeeds ==
  /\ phase = "crack" /\ ~LastSeed
  /\ Ask("crack", want + SECTORS_PER_BLOCK) /\ Keep
Analyze == phase = "crack" /\ LastSeed /\ ~IsDVD /\ Ask("analyze", 0) /\ Keep
CheckUpdate ==
  /\ phase = "analyze" /\ answer # Failed /\ IsWii
  /\ Ask("update", UpdateSector) /\ Keep
StartDump ==
  /\ InitDone /\ (phase = "crack" => LastSeed)
  /\ IF start < sectors_no THEN Ask("dump", start) /\ Keep ELSE Quit
NextSectorSlip ==
  /\ phase = "dump" /\ want + 1 < sectors_no
  /\ Ask("dump", want + 1) /\ Keep
NextSector ==
  /\ phase = "dump" /\ answer # Failed /\ want + 1 < sectors_no
  /\ Ask("dump", want + 1)
  /\ cache' = IF Hashing THEN Hashed(want) ELSE cache
  /\ UNCHANGED <<attempt, start>>

\* disc_analyze or the dump has failed.
AttemptFails == answer = Failed /\ phase \in {"analyze", "dump"}

\* The next dump goes on with the block that could not be read.
ResumesSlip(s) ==
  IF s < SECTORS_PER_BLOCK THEN 0 ELSE (BlockOf(s) - 1) * SECTORS_PER_BLOCK
Resumes(s) == BlockOf(s) * SECTORS_PER_BLOCK

\* -A goes on with the next method.
Again ==
  /\ AttemptFails /\ attempt < Len(setup.methods)
  /\ attempt' = attempt + 1
  /\ start' = IF phase = "dump" THEN Resumes(want) ELSE start
  /\ Ask(FirstPhase, 0)
  /\ UNCHANGED cache

Stop ==
  /\ \/ AttemptFails /\ attempt = Len(setup.methods)
     \/ phase = "dump" /\ answer # Failed /\ want + 1 >= sectors_no
  /\ Quit

Caller ==
  CrackSeeds \/ Analyze \/ CheckUpdate \/ StartDump \/ NextSector \/ Again \/ Stop

\* disc_read_sector looks into the cache first.
Hit ==
  /\ pc = "lookup" /\ InCache(BlockOf(want))
  /\ answer' = cache[Position(BlockOf(want))][want % SECTORS_PER_BLOCK]
  /\ pc' = "answered"
  /\ UNCHANGED <<trying, asking, retry, cnt, out, ram, buf, readbuf, store>>

Miss ==
  /\ pc = "lookup" /\ ~InCache(BlockOf(want))
  /\ retry' = 0 /\ cnt' = 0 /\ out' = TRUE
  /\ pc' = "read"
  /\ UNCHANGED <<trying, asking, ram, buf, readbuf, store, answer>>

\* The read method has returned: look into the cache again, and abort when the
\* block is not there.
Return ==
  /\ pc = "returned"
  /\ answer' = IF ~out THEN Failed
               ELSE IF InCache(BlockOf(want))
               THEN cache[Position(BlockOf(want))][want % SECTORS_PER_BLOCK]
               ELSE None
  /\ pc' = IF out /\ ~InCache(BlockOf(want)) THEN "aborted" ELSE "answered"
  /\ UNCHANGED <<trying, asking, retry, cnt, out, ram, buf, readbuf, store>>

\* The end of an attempt that failed.
RetryTooOftenSlip ==
  /\ retry' = retry + 1 /\ cnt' = 0
  /\ IF retry <= MAX_READ_RETRIES
     THEN out' = TRUE /\ pc' = "read"
     ELSE out' = FALSE /\ pc' = "returned"
  /\ UNCHANGED store
RetryThriceSlip ==
  /\ retry' = retry + 1 /\ cnt' = 0
  /\ IF retry + 1 < 3
     THEN out' = TRUE /\ pc' = "read"
     ELSE out' = FALSE /\ pc' = "returned"
  /\ UNCHANGED store
RetryForeverSlip ==
  out' = TRUE /\ pc' = "read" /\ cnt' = 0 /\ UNCHANGED <<retry, store>>
Retry ==
  /\ retry' = retry + 1 /\ cnt' = 0
  /\ IF retry + 1 < MAX_READ_RETRIES
     THEN out' = TRUE /\ pc' = "read"
     ELSE out' = FALSE /\ pc' = "returned"
  /\ UNCHANGED store

\* The end of an attempt that put blocks into the cache, or of one after which
\* going on is useless.
EndRead(o) == out' = o /\ pc' = "returned" /\ UNCHANGED <<retry, cnt>>

-----------------------------------------------------------------------------
\* Methods 0 to 6, disc_read_sector_generic.  Three attempts read max_cnt + 1
\* times as many sectors as go into the RAM ...
Streaming == read_method \in 0 .. 6 /\ retry < 3

StreamingRead ==
  /\ pc = "read" /\ Streaming
  /\ LET s == want + cnt * sec_mem
         seeks == IF read_method \in {0, 1, 4} THEN AfterSeek(ram, s) ELSE {ram}
     IN  ram' \in UNION {AfterRead(r, s, sec_disc) : r \in seeks}
  /\ pc' = "dump"
  /\ UNCHANGED <<trying, asking, retry, cnt, out, buf, readbuf, store, answer>>

\* One read is dumped piece by piece, then its first sector is checked.
StreamingDump ==
  /\ pc = "dump" /\ Streaming
  /\ \E good \in 0 .. Pieces :
       LET at == cnt * sec_mem
           taken == good = Pieces /\ ~WrongId(ram[0], want + at)
       IN  /\ \A j \in 0 .. good - 1 : InSequence(j * Piece, Piece)
           /\ good < Pieces => MemdumpFaults \/ ~InSequence(good * Piece, Piece)
           /\ buf' = [p \in Buf |-> IF p - at \in 0 .. good * Piece - 1
                                   THEN ram[p - at] ELSE buf[p]]
           /\ out' = taken
           /\ cnt' = IF taken THEN cnt + 1 ELSE cnt
           /\ pc' = IF taken /\ cnt < max_cnt THEN "read" ELSE "unscramble"
  /\ UNCHANGED <<trying, asking, retry, ram, readbuf, store, answer>>

InBuf(j) == [k \in InBlock |-> buf[j * SECTORS_PER_BLOCK + k]]

\* All reads were dumped and all blocks in buf unscramble.
RunIsGoodSlip == cnt >= max_cnt /\ \A j \in 0 .. max_blk - 1 : Unscrambles(InBuf(j))
RunIsGood == out /\ \A j \in 0 .. max_blk - 1 : Unscrambles(InBuf(j))

StreamingUnscramble ==
  /\ pc = "unscramble" /\ Streaming
  /\ IF RunIsGood
     THEN /\ AddBlocks(BlockOf(want), max_blk, TRUE, [j \in 0 .. max_blk - 1 |-> InBuf(j)])
          /\ EndRead(TRUE)
     ELSE Retry
  /\ UNCHANGED <<trying, asking, ram, buf, readbuf, answer>>

\* ... and the last two read the wanted block alone.
Simple == read_method \in 0 .. 6 /\ retry >= 3

SimpleRead ==
  /\ pc = "read" /\ Simple
  /\ ram' \in UNION {AfterRead(r, want, SECTORS_PER_BLOCK) : r \in AfterSeek(ram, want)}
  /\ pc' = "dump"
  /\ UNCHANGED <<trying, asking, retry, cnt, out, buf, readbuf, store, answer>>

InRam(j) == [k \in InBlock |-> ram[j * SECTORS_PER_BLOCK + k]]

SimpleDump ==
  /\ pc = "dump" /\ Simple
  /\ \E dumped \in BOOLEAN :
       /\ IF dumped THEN InSequence(0, SECTORS_PER_BLOCK)
          ELSE MemdumpFaults \/ ~InSequence(0, SECTORS_PER_BLOCK)
       /\ buf' = [p \in Buf |-> IF dumped /\ p \in InBlock THEN ram[p] ELSE buf[p]]
       /\ IF dumped /\ ~WrongId(ram[0], want) /\ Unscrambles(InRam(0))
          THEN AddBlocks(BlockOf(want), 1, TRUE, [j \in {0} |-> InRam(0)]) /\ EndRead(TRUE)
          ELSE Retry
  /\ UNCHANGED <<trying, asking, ram, readbuf, answer>>

-----------------------------------------------------------------------------
\* Methods 7 to 9: five blocks at a time, as far as there are any.
BlocksAheadSlip ==
  IF want >= sectors_no THEN 0
  ELSE Lesser(Ahead, (sectors_no - want - 1) \div SECTORS_PER_BLOCK)
BlocksAhead ==
  IF want >= sectors_no THEN 0
  ELSE Lesser(Ahead, (sectors_no - want + SECTORS_PER_BLOCK - 1) \div SECTORS_PER_BLOCK)

\* The distant READ of methods 8 and 9.
AfterFarRead(r) ==
  LET s == IF sectors_no >= Distance /\ want > sectors_no - Distance
           THEN want - 2 * Ahead * SECTORS_PER_BLOCK
           ELSE want + Ahead * SECTORS_PER_BLOCK
  IN  {r} \cup (IF s >= 0 THEN AfterRead(r, s, SECTORS_PER_BLOCK) ELSE {})

UserData(j) == [k \in InBlock |-> want + j * SECTORS_PER_BLOCK + k]

AheadRead ==
  /\ pc = "read" /\ read_method \in 7 .. 9
  /\ LET seeks == IF retry > 0 THEN AfterSeek(ram, want) ELSE {ram}
         fars == IF read_method = 7 THEN seeks ELSE UNION {AfterFarRead(r) : r \in seeks}
     IN  ram' \in UNION {AfterRead(r, want, Ahead * SECTORS_PER_BLOCK) : r \in fars}
  /\ readbuf' \in {IF read_method = 7 THEN readbuf ELSE UserData(0)}
                  \cup (IF LazyDrive THEN {readbuf} ELSE {})
  /\ pc' = "dump"
  /\ UNCHANGED <<trying, asking, retry, cnt, out, buf, store, answer>>

\* Method 7 dumps and unscrambles block after block.  A dump that fails ends it
\* all, a block that does not unscramble the attempt.
AheadDump ==
  LET dumps(j) == InSequence(j * SECTORS_PER_BLOCK, SECTORS_PER_BLOCK)
      good(n) == \A j \in 0 .. n - 1 : dumps(j) /\ Unscrambles(InRam(j))
  IN  /\ pc = "dump" /\ read_method = 7
      /\ \/ /\ good(BlocksAhead)
            /\ AddBlocks(BlockOf(want), BlocksAhead, FALSE,
                         [j \in 0 .. BlocksAhead - 1 |-> InRam(j)])
            /\ EndRead(TRUE)
         \/ \E j \in 0 .. BlocksAhead - 1 :
              /\ good(j) /\ (MemdumpFaults \/ ~dumps(j))
              /\ EndRead(FALSE) /\ UNCHANGED store
         \/ \E j \in 0 .. BlocksAhead - 1 :
              /\ good(j) /\ dumps(j) /\ ~Unscrambles(InRam(j))
              /\ Retry
      /\ UNCHANGED <<trying, asking, ram, buf, readbuf, answer>>

\* Methods 8 and 9 dump the headers and EDCs of all blocks, a failure of which
\* ends the attempt or everything, ...
HeadersFail ==
  /\ pc = "dump" /\ read_method \in {8, 9}
  /\ MemdumpFaults /\ BlocksAhead > 0
  /\ Retry \/ (EndRead(FALSE) /\ UNCHANGED store)
  /\ UNCHANGED <<trying, asking, ram, buf, readbuf, answer>>

\* ... and join them with the user data of a READ of each block.  The READs
\* that do nothing leave those of the block before in readbuf.
JoinUserData ==
  /\ pc = "dump" /\ read_method \in {8, 9}
  /\ \E lost \in SUBSET (1 .. BlocksAhead - 1) :
       LET from(j) == CHOOSE i \in 0 .. j :
                        /\ i \notin lost
                        /\ \A h \in i + 1 .. j : h \in lost
           data(j) == IF from(j) = 0 THEN readbuf ELSE UserData(from(j))
           joined(j) == [k \in InBlock |-> IF InRam(j)[k] = data(j)[k]
                                         THEN data(j)[k] ELSE Garbage]
           bad == {j \in 0 .. BlocksAhead - 1 : ~Unscrambles(joined(j))}
           end == IF bad = {} THEN BlocksAhead - 1
                  ELSE CHOOSE j \in bad : \A h \in bad : j <= h
       IN  /\ lost # {} => LazyDrive
           /\ IF BlocksAhead = 0 THEN UNCHANGED <<ram, readbuf>>
              ELSE /\ readbuf' = data(end)
                   /\ ram' \in IF from(end) = 0 THEN {ram}
                              ELSE Loaded(ram, want + from(end) * SECTORS_PER_BLOCK,
                                          SECTORS_PER_BLOCK)
           /\ IF bad = {}
              THEN /\ AddBlocks(BlockOf(want), BlocksAhead, FALSE,
                                [j \in 0 .. BlocksAhead - 1 |-> joined(j)])
                   /\ EndRead(TRUE)
              ELSE Retry
  /\ UNCHANGED <<trying, asking, buf, answer>>

-----------------------------------------------------------------------------
Over == pc \in {"done", "aborted"} /\ UNCHANGED vars

Next ==
  \/ Caller
  \/ Hit \/ Miss \/ Return
  \/ StreamingRead \/ StreamingDump \/ StreamingUnscramble
  \/ SimpleRead \/ SimpleDump
  \/ AheadRead \/ AheadDump \/ HeadersFail \/ JoinUserData
  \/ Over

\* The program takes its steps whenever it can.
Spec == Init /\ [][Next]_vars
FairSpec == Spec /\ WF_vars(Next)

-----------------------------------------------------------------------------
TypeOK ==
  /\ setup \in Setups
  /\ attempt \in DOMAIN setup.methods /\ start \in Nat
  /\ phase \in {"crack", "analyze", "update", "dump"}
  /\ want \in Nat
  /\ pc \in {"lookup", "read", "dump", "unscramble", "returned", "answered",
             "done", "aborted"}
  /\ retry \in 0 .. MAX_READ_RETRIES
  /\ cnt \in 0 .. max_cnt + 1
  /\ out \in BOOLEAN
  /\ ram \in [Ram -> Int] /\ buf \in [Buf -> Int] /\ readbuf \in [InBlock -> Int]
  /\ DOMAIN cache_map = DOMAIN cache
  /\ \A p \in DOMAIN cache_map :
       /\ cache_map[p] # CACHE_ENTRY_INVALID => Position(cache_map[p]) = p
       /\ cache[p] \in [InBlock -> Int]
  /\ answer \in Int

\* Whatever the drive leaves in its RAM, a block in the cache was read without
\* an error and is the block the map says, or it came from the second layer,
\* whose sectors are not checked; unless it was dumped and hashed.
CachedBlocksAreRight ==
  \A p \in DOMAIN cache_map :
    cache_map[p] # CACHE_ENTRY_INVALID =>
      \A k \in InBlock :
        /\ cache[p][k] \notin Scratched
        /\ \/ cache[p][k] = cache_map[p] * SECTORS_PER_BLOCK + k
           \/ cache[p][k] >= LayerBreak
           \/ cache[p][k] = Spoilt

\* disc.c:716 says of a sector just read "Now requested sector is in cache, for
\* sure ;)": the assertion after it never stops the program.
FoundAfterRead == pc # "aborted"

\* The read methods, which take the sector asked for to be the first of its
\* block, are only called for such sectors.
MissesAreAligned == pc = "read" => want % SECTORS_PER_BLOCK = 0

\* With a drive that does what it is told, methods 0 to 6 fail only for sectors
\* whose own block is scratched or beyond the end: the last attempts get at a
\* block next to a scratch.
FailuresAreDeserved ==
  answer = Failed /\ read_method \in 0 .. 6 /\ ~LazyDrive /\ ~MemdumpFaults =>
    \E k \in InBlock :
      LET s == BlockOf(want) * SECTORS_PER_BLOCK + k
      IN  s \in Scratched \/ s >= DiscEnd

\* Every sector asked for is answered after at most MAX_READ_RETRIES attempts.
EveryReadEnds == pc = "read" ~> pc \in {"answered", "aborted"}

\* README:33 says that "FriiDump calculates the CRC32, MD4, MD5, SHA-1 and ED2K
\* hashes of dumped discs", sha1.c:16 that the data of SHA1Update are const: what
\* is dumped is the sector of the disc, although hashing goes on in the cache.
DumpedSectorsAreRight ==
  phase = "dump" /\ answer \notin {Failed, None} =>
    answer = want \/ answer >= LayerBreak

\* What disc_read_sector promises, see SectorService.  Above all no sector that
\* was hashed is ever dumped again, through any number of attempts of -A.
Service == INSTANCE SectorService WITH
  asked <- want, dumping <- phase = "dump", layer_break <- LayerBreak
ImplementsService == Service!Spec
=============================================================================
