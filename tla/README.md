# FriiDump in TLA+

FriiDump reads Nintendo GameCube and Wii discs, which an ordinary DVD drive
refuses to return, by having the drive load sectors into its RAM and dumping
that RAM.  The sectors are checked by unscrambling them, and written to a raw
file (2064-byte sectors), an ISO file (2048-byte sectors) or both.  A dump takes
hours, is often killed and resumed, and comes from a drive whose answers cannot
be trusted.  This directory holds a specification of it, what TLC checks of
the specification, and what TLAPS proves about it.

Paths below are relative to the root of the repository.

## 1. Inventory

| part | source | state | operations |
|---|---|---|---|
| front end | `src/friidump.c` | the options; whether the last attempt worked | `optparse`, `dologic`, `main` with the `-A` loop |
| dumper | `libfriidump/dumper.c` | names and streams of two output files, their start sectors, two hashes | set the outputs, `dumper_prepare` (resume), `dumper_dump` |
| disc: sector reads | `libfriidump/disc.c` 100-735 | block cache, the buffer of methods 0-6 | `disc_read_sector`, ten read methods |
| disc: run length | `libfriidump/disc.c` 1430-1555 | sectors to read and to dump, number of reads and blocks of a run | `init_range`, `disc_set_read_method` |
| disc: detection | `libfriidump/disc.c` 652-1420, 1570-1640 | type, size, layer break, title, update flag | `disc_init` |
| unscrambler | `libfriidump/unscrambler.c` | seed cache, brute-force switch, disc type | unscramble 16 sectors, convert a raw file |
| drive | `libfriidump/dvd_drive.c` | command, method and memory dump function of the drive | READ commands, `dvd_memdump` |
| memory dumps | `vanilla_2064.c`, `vanilla_2384.c`, `hitachi.c`, `lite-on.c`, `renesas.c` | none | dump a piece of the RAM, check the sequence of its sectors |
| helpers | `misc.c` | effective user | `drop_euid`, `upgrade_euid`, strings, logging |
| hashes | `libmultihash/` | counters, partial blocks, digests | init, update, finish of each digest and of all together |
| scrambler | `ecma-267.c` | the shift register | next bit, next byte, EDC |
| error correction | `rs.c` | tables | Reed-Solomon decoding for `lite-on.c` |

How they interact: `main` calls `disc_new` (which opens the drive and chooses a
memory dump) and `dologic`, once or for every method.  `dologic` sets the run
length and the method, calls `disc_init`, which reads the first 20 blocks, sector
0 and sector 160 through `disc_read_sector`, and then drives a dumper, which
reads every sector through `disc_read_sector`.  That looks into the block cache
and else calls the read method; the read method sends READs, dumps the RAM in
pieces, has every block unscrambled and puts blocks into the cache.  The dumper
hands the cached sectors themselves to the hashes.  Without a device, `main` has the
unscrambler convert a raw file instead.  Everything is one thread of synchronous calls: what makes it hard is not concurrency between
threads but

* processes that are killed and started again on the files they left, with
  two files that must stay in step and buffers between the program and the disk;
* a drive that may ignore or misplace a READ while every error is ignored, so
  that stale RAM contents look like an answer;
* retries that change their strategy, runs of several reads that do not end at
  block boundaries, a cache smaller than a run;
* a seed cache whose slots run into each other, guarded by one mark;
* hashes that work in place, in the sectors that are still cached;
* two layouts of the RAM and two of files, converted by arithmetic on offsets;
* faults that one call leaves behind and the next one wipes (`clearerr`).

What makes each part correct: the dumper must leave, whatever happens, the
beginning of the disc in each file, tell success and hashes of complete files
only, throw away little and overwrite nothing; the sector reads must return the
sector asked for or fail, and fail for bad sectors only; the run length must be
found and fit its buffer; the seed cache must stay inside its array and keep
what it learnt; a conversion must write all that it read or say where it failed;
the hashes must be those of the data, however they come in; the memory dumps must
make all drives alike.

The hazards that follow from this are listed with their lines in
`PROJECT.json`, each with the properties that watch it.

## 2. Modules

| module | what it is |
|---|---|
| `Dumper` | `dumper.c` and how `dologic` calls it, for processes that come and go |
| `DumpSpec` | what a dump promises, abstractly; `Dumper` implements it while no write fails |
| `MCDumper` | command lines for TLC |
| `DumperProofs` | theorems about `Dumper` |
| `Geometry` | run length without the loop, shared by the next two |
| `ReadGeometry`, `MCReadGeometry` | `init_range` and `disc_set_read_method` step by step |
| `ReadGeometryProofs` | theorems about `ReadGeometry` |
| `DiscRead`, `MCDiscRead` | `disc_read_sector`, cache, read methods 0-9 and their callers with the attempts of `-A`, on an unreliable drive |
| `SectorService` | what `disc_read_sector` promises to the dumper; `DiscRead` implements it |
| `DiscReadProofs` | theorems about `DiscRead` |
| `SeedCache` | the seed cache of the unscrambler |
| `Conversion`, `MCConversion` | `unscrambler_unscramble_file` on top of `SeedCache`, and a dump's use of the cache |
| `Scrambler`, `MCScrambler` | `ecma-267.c` and `test_seed`, bit by bit |
| `UnscramblerProofs` | theorems about `SeedCache`, `Conversion` and `Scrambler` |
| `Digests` | contexts of MD5, SHA-1, MD4 and ED2K, and what the standards define |
| `Multihash`, `MCMultihash` | `multihash.c` on top of `Digests` |
| `MultihashProofs` | theorems about the counters and the digests |
| `Session`, `MCSession` | a run of `friidump`: options, `main`, `dologic`, `disc_init` with the detection of the type, the `-A` loops |
| `SessionProofs` | theorems about `Session` |
| `Memdump`, `MCMemdump` | `dvd_memdump`, the five backends, and the requests that the read methods make |
| `MemdumpProofs` | theorems about `Memdump` |
| `Arithmetic` | lemmas on quotients, remainders and least numbers that the proofs share |

The modules meet where the code has calls.  `Session` takes a sector read for
something that may succeed where command and method suit the drive, and a dump
for something that lengthens files; `Dumper` takes a sector read for an answer that
is right or an error, which is what `SectorService` says and `DiscRead` implements;
`DiscRead` takes the RAM of the drive for a row of sectors and a memory dump for
pieces of it that are in sequence, which is what `Memdump` shows of the backends,
and run lengths for those that `ReadGeometry` computes.  `SeedCache` takes a block to
have at most one seed, which `Scrambler` shows of the error detection code.
`Conversion` and the dump use the same `SeedCache`; `ConversionUsesCache` says so.
`DiscRead` has `SHA1Update` spoil the sector it is given, which `Digests` shows it
does to whole blocks and to nothing else, words having four bytes.

Operators whose names end in `Slip` are plausible programming slips of the
operator they precede.  No specification uses them: replacing an operator by its
slip shows that a property notices.

### Dumper

One process at a time.  `pc` and `cur` say which call the process is in and which
output it is busy with: `set` (`dumper_set_raw_output_file`, then the ISO one),
`prepare`, `open` (`dumper_prepare`), `read`, `fwrite`, `fflush` (`dumper_dump`),
`close`, and `down` when there is no process.  The files (`file`, `exists`) and
the state of the disk (`full`) survive; everything else belongs to the process.
`struct dumper_s` becomes `outfile`, `start_of`, `start_sector`, `fp`, `hash`.

A record, raw or ISO, is two units, so that it can be torn in the middle;
sector `n` is the units `2n`, `2n+1`, and a correct image is `0, 1, 2, ...`.  A
stdio stream is a buffer of `BufCap` units; each of `fwrite`, `fflush` and
`fclose` makes at most one `write(2)`, of which the kernel may take a part.
`Crash` may happen in every state: it loses the buffers and may leave part of
the write in progress.  `Launch` starts a process with any of `Commands`.

`WriteFaults` says how writes may fail: never, until the disk is cleaned up
between two processes (`"full"`), or at any time (`"transient"`).
`SetupFaults` lets `fseek`/`ftruncate` fail in `dumper_prepare`.  That sectors
returned by the disc layer are right is `DiscRead`'s business; a read may fail.

### DiscRead

`phase` and `want` are the caller (`disc_init` with its three kinds of reads, or
the dump) and the sector it asks for; `pc` is the place in `disc_read_sector` or in
the read method.  `ram` is the RAM of the drive, one sector number per place.
`setup` holds the options, the disc and the kind of drive; it is chosen once,
so that one run covers several situations.  A `LazyDrive` may leave its RAM
alone when it is told to READ, or begin it at the start of the block; any
drive may or may not read ahead.  `MemdumpFaults` lets a memory dump fail.
What protects the dump is all there: the sequence check of the memory dump, the check
of the sector's number, and the EDC under the seed of the block.  A sector
is its number, or `Garbage`; headers, user data and EDC of methods 8 and 9 are
joined by comparing where they come from.  Methods 8 and 9 differ in how they
dump headers and are one in the model.

`methods` has the methods that `-A` tries: an attempt that fails is followed by the
next one with the same cache, which starts again with `disc_init` and resumes at the
beginning of the block where the last one came to.  While it dumps, a sector that was
written is hashed where it is, in the cache: it becomes `Spoilt`, and with it, where
longs have eight bytes (`LongBytes`), the beginning of the next one.

### ReadGeometry and Geometry

`ReadGeometry` has the loop of `disc_set_read_method` with its counters, run
again for each method as `-A` does; `Geometry` says what it finds.  `DiscRead` uses
the latter.

### SeedCache

`seeds` is the array with its marks; a block is its slot, the seed its first
sector needs and whether the rest of it is whole.  `SeedsOf`, the seeds that a disc
uses, is chosen once from `Discs`.  `found` is a history variable.

### Conversion

`unscrambler_unscramble_file` reads block after block (`s`), pads a short one,
unscrambles it and writes it to `iso`.  `pc` is `dump` when the program dumps and the
blocks that are unscrambled come in any order, as `disc.c` reads them.  What the image
holds turns out as it is read; its last block may end between two sectors or inside
one (`Ends`), a read error ends it too, and any `fwrite` or `fopen` may fail.  An
image that FriiDump dumped is unscrambled already, which is to say that all its
seeds are 0.

### Scrambler

The register and the error detection code as sets of bits: a tick of the register per
step, and then the byte it gives.  A sector is unscrambled under each of `Seeds` at
once, as `test_seed` does one after the other, and `edc` has its codes; beside it
`cipher` has those of the cipher alone, by which two seeds differ.  `Seeds`, the sector
and what is before it in the frame are parameters.

### Digests and Multihash

A context is a record with the fields of the C structure; a digest is the sequence
of the blocks that were compressed.  Bytes know what they are (the nth of the message,
padding, length, spoilt).  `Multihash` has a message come in updates of any `Lengths`;
ED2K and MD4, whose updates `multihash.c` has commented out, are updated by themselves:
`input` is what `ed2khash_update` has been given and not yet passed on, and `TakePiece` a
round of its loop, which takes a chunk's rest.

### Session

`pc` is the place in `main` and `dologic`.  `options` is `struct options` after
`optparse`; two of its fields are the counters of the `-A` loops, and `dologic`
writes to one of them.  The type of the disc is kept twice, as in the code: `type` in
the disc structure, and `disctype`, the global by which `unscrambler.c` lays out
sectors.  `cached` has the types of disc as which sectors in the cache were
unscrambled.  Of the files only how many blocks they hold is kept, and blocks of
the disc are counted in units in which a resume goes on.  `Drives` say which
commands and methods work; `ProbeFaults` lets the drive answer the probes of
`disc_detect_type` with other errors, or not tell the size of a DVD.  `SenseCleared`
says whether `dvd_execute_cmd` zeroes the sense data before a command, as that of Windows
does (dvd_drive.c:144).  That of Linux does not (:198), and a READ that succeeds leaves
them as they are, so that they may be those of an earlier command (`"stale"`);
the history variable `misled` says that the type was chosen for such data.
What C leaves uninitialized (`out` of `dologic`) is a choice.

### Memdump

A call of `dvd_memdump` with one of the `Requests`: privileges are raised, the
backend refuses the size, or sends its command and unpacks and checks what came, and
privileges are dropped.  `Read` may change `ram` at any time, for the device is
not opened for exclusive use.  Addresses and sizes are the real ones, in bytes; of
each sector a few `Watched` bytes are followed from the RAM to the caller's
buffer.  The command may fail, or send less than was asked for (`Amounts`).

## 3. Runs

| run | instance | what it shows |
|---|---|---|
| `dumper` | any of 48 command lines (outputs, `-s`, `-H`, flushing, size 3 or 5), blocks of 2 sectors, buffers of 3 units, disks that fill up, setting up that fails | `FilesArePrefixes`, `SuccessMeansGood`, `ReadBackNeverFails`, `PassedSectorsAreSafe`, `PrintedHashIsOfTheDisc`, `NoOverwrite`, `Dumper` implements `DumpSpec` while no write fails, and every process that is not killed ends |
| `dumper_resume` | both outputs, hashes, flushing, 5 sectors, nothing fails but reads and processes | a resume costs at most a block of either file |
| `dumper_disk_full` | as above, disks that fill up | **violated**: success and a hash are printed for a truncated file |
| `geometry` | 89 numbers of sectors per read, -1, 15 to 101 and 255, of which the options accept 16 to 100; with four of sectors per dump: not given, too few, the most, too many; two methods | the loop ends at the shortest run, blocks lie within what was read, a run fits the buffer |
| `disc` | seven setups, see `MCDiscRead` | only right sectors are cached and answered, none after it was hashed; the wanted block is always found, failures are deserved, reads end |
| `disc_hashed` | a dump where longs have eight bytes | **violated**: hashing spoils the sector that is dumped next |
| `seeds` | four discs, 3 slots of 2 places; dumps, and conversions of up to 7 blocks | the mark stays, found seeds stay, on a disc that fits there is always room; conversions write what they read and images without errors convert |
| `scramble` | all 2048 bytes of a sector, the seed 0 and the 15 seeds of one bit | the codes of their ciphers are independent, so that no two seeds are taken for each other |
| `hash` | messages of up to 140 bytes, in updates of 1 to 14 bytes; blocks of 4, words of 5 bits, chunks of 6 | counters carry; CRC, MD5 and SHA-1, and the ed2k hash by itself, are those of the message; SHA-1 spoils nothing but its data |
| `session` | 34 command lines, three drives, three game discs and a DVD; sense data that may be stale | sectors in the cache are laid out for the disc, success means the whole disc unless stale sense data made it seem smaller, `-A` tries every method, the program ends |
| `session_all` | `-A` with a drive nobody knows | **violated**: the memory dump command never changes |
| `memdump` | five backends, three kinds of users, dumps of 16 and 28 sectors and those of methods 7 to 9 | no request is too large, the backends hand over the same row of sectors, success means consecutive sectors, privileges end with the dump |

Why the bounds are enough.  *Dumper*: 5 sectors are two and a half blocks, so
that a resume may throw away a part of a block, a whole one or nothing, and the
end of the disc is not the end of a block; a buffer of 3 units splits
records; there is no bound on the number of processes, for the files are
bounded by the disc.  *DiscRead*: blocks of 8 sectors, because shorter ones make
every run a single read (a deviation of up to 3 sectors is ignored); 12
sectors per read make two reads and three blocks of a run; a cache of two blocks
is smaller than a run, one of five or six is a little larger than what methods 7
to 9 read; discs have from three to eight blocks, and two seeds take turns, so that
a block elsewhere on the disc can pass for the one wanted.  *SeedCache*: three
slots, so that one can run over into the next, and that into the last, which
ends at the mark; one disc needs more seeds than a slot has places; seven blocks come
twice around the slots.  *Multihash*: a word of 5 bits overflows every 4 bytes and two
words after 128, so that messages of 140 bytes wrap both; updates are shorter and
longer than blocks, chunks and words.  *Scrambler*: sizes are real; 15
seeds are enough for all 32768, and one sector for all, by `OneSeedIsAccepted`.
*Session*: the sizes keep the order of the real ones and the probes lie
between them; all ten methods and five commands are there.  *Memdump*: sizes and
addresses are real but for `HITACHI_MEM_BASE`, which TLC cannot count, and
shorter blocks for methods 7 to 9; 28 sectors need two pieces, and the RAM has
its sequence broken at the first sector, at the last of a piece and at the first
of the next.

Fairness.  `FairSpec` of `Dumper` is weakly fair to the process's own steps only:
users, crashes and the disk owe nothing, and a crash ends a process anyway.
`FairSpec` of `DiscRead` is weakly fair to `Next`, a single thread of calls each of
which returns: the ioctl behind a READ has a timeout of ten seconds.

Deadlock is checked everywhere; a finished program stutters explicitly or can be
started again.

### What the violated runs say

* `dumper_disk_full`: `dumper_dump` ignores the results of `fflush` (dumper.c:293)
  and `fclose` (:334), and the next `clearerr` (:278) wipes the error.
* `disc_hashed`: `multihash_update` is handed the cached sector (dumper.c:296), and
  `SHA1Transform` (sha1.c:74) works in place with words it takes to have four bytes.
  With eight it overwrites 48 bytes of the sector behind, which the dump writes next.
* `session_all`: the loop of `-A` over the commands counts in `options.command`
  (friidump.c:691), which was read when the drive was opened and is not read again.

### Deviations that no run shows

Each of these was met while modelling; the model has the code's behaviour, and a
property leaves the case out, as its comment or the note of its hazard says.

* `out` of the raw output is overwritten by the ISO output (dumper.c:216), so that
  a dump may succeed without the raw file that was asked for (`RawLeftOut`).  Its hash is
  printed all the same (friidump.c:616), and is that of the sectors which the resume kept, or
  of none; `PrintedHashIsOfTheDisc` says so.
* On Linux the sense data of a command are an uninitialised local (dvd_drive.c:198),
  handed to the caller also when the command succeeded and wrote none (223-227), where
  dvd_drive.c:434 has the caller get "the SENSE DATA got from the drive after the command
  has been executed".  A stale 5/21h makes `disc_detect_type` (disc.c:672, 676) take a Wii
  disc for a smaller one, of which the first sectors are then dumped with success.
  `SuccessMeansWholeDisc` leaves such sessions out (`misled`).
* Methods 7 to 9 read nothing for sectors at or beyond `sectors_no` and report
  success (disc.c:416); as `disc_crack_seeds` reads the first 320 sectors whatever
  size is forced, a forced size below that ends in the assertion at disc.c:718.
* The loop over the seeds stops before 7FFFh (unscrambler.c:260), where
  `docs/README.technical:126` has the seeds go up to it.
* `multihash.c` initializes and finishes MD4 and ED2K but has their updates commented
  out (58, 64), so that they are digests of nothing; `README:33` says they are
  calculated, and the front end does not print them.
* The result of `fclose` of a converted image is not looked at (unscrambler.c:366).
  `Conversion` has it succeed: blocks of 32768 bytes leave nothing in a stdio buffer whose
  size divides them.
* A read error is taken for the end of the image (unscrambler.c:327), and a raw image
  of a DVD converts by the wrong layout, with success, without `-T 3`.
* `-u` and `-i` with the same file empty it (friidump.c:713).
* A DVD whose size the drive does not tell has no sectors (disc.c:667), and dumping
  none of them is a success.
* With `sec_disc` below `sec_mem` the end of the RAM is left from an earlier READ
  (disc.c:245).  The sequence check of a backend notices unless it makes no such check or
  the READ, or the disc, ends between two of the pieces of 27 sectors in which it looks.
* With a drive that leaves its RAM alone, methods 7 to 9 take what is there for the block
  they wanted (disc.c:489).

## 4. Proofs

`DumperProofs` proves for every set of command lines, block size, buffer size
and, unless stated, fault model:

* `TypeCorrect`: `TypeOK`.
* `SetupCorrect`, and from it `ReadBackCorrect` (the assertion of
  `dumper_prepare` never fails) and `NoOverwriteCorrect`.  The invariant
  `SetupInv` says what is known of an output at each step of setting up: its start
  sector is within its file, and the common start sector within both.
* `PrefixCorrect`: every file is at all times the beginning of the image, if
  space is not freed under a running process (`WriteFaults # "transient"`).
  `IsImage(file)` alone is not inductive, for a write appends what is in the buffer:
  `FileInv` adds that, unless a write has failed, the buffer continues the file
  (`Follows`), and that their lengths together are those of the sectors passed
  (`LengthKnown`, `Due`).  A failed write leaves the file as it is for good, which is
  where the assumption is needed.
* `SuccessCorrect`, `PrintedHashCorrect` and `PassedSectorsCorrect`, under the same
  assumption: what is reported, hashed and flushed.  `DumpInv` adds to `FileInv` that the
  outputs asked for are open in the loop (`OpenFacts`; the raw one may be left out, since
  `dumper_prepare` returns the result of its last output) and, for an open output, that its
  hash was fed every sector the loop is past, once and in order, and that flushing
  leaves nothing of them in the buffer (`DumpFacts`, `Fed`).  Of a raw file that was left
  out, `RawHashKept` says that its hash has the sectors before the common start and no others.
* `PromiseKept`, under the same assumption: `Dumper` implements `DumpSpec`.  Each action
  is mapped to a step of the promise or to none; `PromiseInv` has what the mapping
  of `fopen` with truncation needs: start sectors are whole blocks, and a file that
  does not exist is empty, so that creating it takes nothing back.
* `ResumeCorrect`: `ResumeDiscardsAtMostABlock`, if every process dumps both outputs
  with flushing on and nothing fails but processes (`AlwaysBoth`).  `LevelInv` says how
  the two files lie wherever a process may be killed: the raw one is ahead by what is
  written of one record at most (`Ahead`), or, after a kill between the two truncations of
  `dumper_prepare`, it is whole blocks and less than a block behind the ISO file (`Behind`).
  Without the second output, or without flushing, a resume does throw away more.
* `ProcessesAreFinite`: a process takes no more than `5 * sectors_no + 8` steps of its own;
  each leaves fewer of them (`StepsLeft`), and neither a crash nor the disk adds any.

`DiscReadProofs` proves, for any block size, run length, cache, disc, drive and any
attempts of `-A`:

* `TypesHold` and `AlignedMisses`: `TypeOK`, and `MissesAreAligned`.  `ReadInv` says
  who may be in which place with which counters (`Control`), that a block in the
  cache is at its own place (`CacheTyped`), and that whoever looks up another sector than the first of
  a block finds its block there (`Places`).
* `ReadBlocksAreFound`: `FoundAfterRead`, if setups have the room that methods 7 to 9
  take for granted (`HasRoom`: a cache for what they read ahead, and a size that is no
  smaller than the sectors `disc_init` reads; section 3 says what a forced size below that
  does).  Methods 0 to 6 need none: blocks of a run enter the cache backwards.
* `OnlyDeservedFailures`: `FailuresAreDeserved`, if there are more tries than the three
  that read a whole run (`MAX_READ_RETRIES` is 5).
* `RightBlocksAreCached`: `CachedBlocksAreRight`, for setups that are `Checked`: methods 0
  to 6 with a memory dump that checks its sequence, methods 7 to 9, which
  check nothing of the kind, with a drive that does as it is told, and method 7 on a disc
  that has the whole of the last block it is asked for.  A dump in several pieces is not
  checked from one to the next; it is right all the same if on a disc of one layer neither a
  READ nor the disc ends between two pieces (`PiecesFollow`; TLC finds a wrong block where
  either does).  `Seamed` says that where two places of the RAM do not hold a row of sectors a
  READ or the disc ended or nothing was read, so that none of these seams lies between two
  pieces (`InARow`).  The setups of run `disc` are all `Checked`.  `Gathered` says
  that the reads of a run have so far put the right sectors into the buffer, and `AtDrive`
  what the RAM holds between a READ and its dump.  A first sector of the right block
  settles the rest: its number was compared, its neighbours are in sequence, and the seed
  of the block fits.
* `ReadsAreFinite`: every step inside of a read method leaves fewer of them, and there are no
  more than `MAX_READ_RETRIES * (2 * max_cnt + 5)`: the counter of the retries comes before
  that of the reads of a run.
* `ReadsAreServed`: `DiscRead` implements `SectorService`; and `RightSectorsAreDumped`, the
  property that `disc_hashed` refutes.  Both need `HashesInPlace`, words of four bytes or no
  hashing.  `SpoiltBehind` says that in the cache everything spoilt lies behind the place
  of the dump, also when the next attempt starts again at the beginning of a block.

`UnscramblerProofs` proves, for any number of slots and places and any discs:

* `SeedsTyped`: the mark stays, so that no scan leaves the array.
* `SeedsStay`: a seed found for a slot is found again.  What needs a proof is that
  scans stop (`ScanStops`, by the well-foundedness of the numbers) and that adding
  a seed fills a place that no successful scan has come to.
* `SeedsHaveRoom`: on a disc that fits, a seed is cached or has a place.  The invariant
  `OwnPlaces` says that each slot's places hold different seeds of its own and then
  nothing; a slot that is full has all its seeds, by counting them.

It proves, too, `ConversionUsesCache` (a conversion does to the cache what
`SeedCache` allows), by which the three theorems above hold of conversions, and, for
images of any length and whatever fails:

* `ConversionCorrect`: `IsoIsComplete`, from `ConvInv`, which relates the counter,
  the last block's end and the file.
* `GoodImagesCorrect`: `GoodImagesConvert`, for discs whose seeds fit the cache and do not
  include 7FFFh, and for short last blocks of dumped images only.  It needs
  `RoomForEverySeed`: a block without errors is refused only if its seed was neither
  cached nor had a place.

And of the scrambler, for sectors of every length and whatever they hold:

* `ScramblerAddsUp`: register and code are linear.  Shifts, what they cut off and what is
  fed back add up (`TickAddsUp`, `EdcAddsUp`), and the codes of a sector under two seeds
  differ by the code of the cipher of their sum, for what is in the sector cancels
  (`CodesAddUp`).
* `OneSeedIsAccepted`: if the codes of the 15 one-bit seeds are independent,
  `SeedsAreToldApart` holds when all 32768 seeds are followed.  The code of a seed's cipher
  is the sum of those of its bits (`CipherIsSum`, by the least set of bits that were an
  exception), so two seeds with the same code differ by no bit.  That the 15 are independent
  after 2048 bytes, and not after, say, one, is what the run computes; it does not depend
  on the sector.

`MultihashProofs` proves, for any size of word and block and any updates:

* `CountersTyped` and `CountsCorrect`: the counters of MD5 and SHA-1 hold the bits of
  the message modulo two words (`CountsBits`).  The invariant `Counting` says what each
  word is; a step is a sum of remainders, and the carry is made if and only if
  they fill a word, by whichever of the two comparisons.
* `OnlyTheDataCorrect`: `OnlyTheDataAreSpoilt`, from where the counter says that the
  buffer is filled.
* `DigestsCorrect`: `DigestsOfTheMessage`, for CRC, MD5 and SHA-1 of `struct multihash`, and
  for an ed2k context by itself, which FriiDump does not feed.  `Hashing` says that a context has seen the message: its blocks were
  compressed and the buffer begins with the rest (`InMD5`, `InSHA1`).  Updates keep this
  because blocks depend on what came first only by what was left of it (`Continued`);
  padding is an update like others (`PaddedMessage`), and the place in the buffer, which the
  code takes from the lower word alone, is right because words are whole blocks of bits
  (`PlaceInBuffer`).  `HashingEd2k` says the same of the MD4 of the current chunk, and that
  the hash list has the MD4s of the chunks before it, each of which is a message of its own
  (`PieceTaken`, `HashAppended`, `ChunksOfMessage`): the sum of the chunks and the place in
  the current one must agree with the total that both words together count (`TotalOn`).

`MemdumpProofs` proves, for any RAM, whatever the drive sends, and any `sec_mem`:

* `NeverRefusedCorrect`, from `RequestInv`: requests are whole sectors, at most 27, or
  at most 16 bytes.  `PieceAssumption` (a block is no more than that) is needed.
* `PrivilegesCorrect`: root's privileges last as long as a dump.
* `SequenceCorrect`: `SuccessMeansInSequence`; the sector at which the code stops is
  the first out of sequence (`AllInSequence`).
* `TypeCorrect`: `TypeOK`, where it takes `RamAssumption`, that the RAM of the drive has the
  sectors that the read methods ask for: the code cannot know.
* `DumpsCorrect`: `DumpsWhatIsThere`; `LayoutsAlike` is the arithmetic by which the
  two layouts are one.

`ReadGeometryProofs` proves, for any numbers of sectors a user may give:

* `LoopIsBounded` and `ShortestRunCorrect`, for any size of a block: the invariant
  `GeometryInv` says that no shorter run ends near a block, and as many reads as a
  block has sectors do (`WholeBlocks`).
* `BlocksCorrect` and `BufferCorrect`, for blocks of up to 16 sectors.

`SessionProofs` proves, for any command lines, drives and discs, whether or not the
drive answers the probes with other errors and sense data may be stale:

* `SessionTyped`: the loops of `-A` count in variables that `dologic` overwrites, and
  still never pass it a method or a command that is none (`Counting`).
* `LaidOutCorrect`: `SectorsAreLaidOut`.  Both copies of the type, and every sector in
  the cache, are of a DVD exactly when the option `-T` says so, from the first
  option on (`LayoutInv`): no sector is read before both agree.
* `WholeDiscCorrect`: `SuccessMeansWholeDisc`.  Unless it goes by stale sense data, a wrong
  detection only ever takes a disc for a larger one (`DetectedSize`), since a smaller size
  is chosen by the one error that the end of a disc gives; `SizeInv` carries this from
  detection to the end.
* `WholeDiscWithClearedSense`: with `SenseCleared` no session is misled, and success means
  the whole disc without that exception.
* `AllMethodsCorrect`: `AllMethodsTried`.  `AttemptsInv` says that every method
  before the current one has been tried, although the counter of the loop is a
  variable that `dologic` overwrites.

* `SessionsAreFinite`: every step brings a session nearer to its end, which is at most 502
  steps away.  What is counted down is the number of the attempt, which `AttemptsInv` keeps
  `SetMethod` from changing, and the place in `dologic`.

Assumptions are those of the modules on their constants.  `SizesAssumption` says that
game discs come in the three sizes of `disc.c` 53-55; without it `WholeDiscCorrect` is
wrong, since the size of a game disc is never asked of the drive.
`AlignmentAssumption` of `DiscRead` says that the update sector and the sectors where a dump
starts are the first ones of blocks: the one is 160 (`disc.c` 1403),
the others are what `dumper_prepare` computes: `PromiseInv` of `DumperProofs` proves it.

Only model-checked:

* liveness (`EveryRunEnds`, `EveryReadEnds`, `SessionEnds`): that fair behaviours get to
  the end for which the three theorems on steps count down is out of the prover's reach;
* that the codes of the one-bit seeds are independent (`CodesAreIndependent`), which is a
  computation over the 2048 bytes of a sector.

## 5. Not modelled

* Reed-Solomon decoding (`rs.c`), with which `lite-on.c` alone corrects sectors before
  their EDC is checked: a pure function of one sector, over tables.
* The compression functions of the digests, the byte order of words, CDB layouts;
  `md4_file`, `md4_hmac` and `multihash_file`, which nobody calls.
* Methods 8 and 9 with drives that store parity (`-c 1 -8`, or `-A`): for requests
  shorter than a sector their backends compute a `raw_block_size` of 0, do not
  refuse it, and return success with the caller's buffer as it was.
  `HeaderRequests` leaves these combinations out.
* A write that fails in the middle of a block under `-A`: `DiscRead` has a dump fail at
  a read, so that resuming comes back to sectors that were not hashed.  After a failed
  write it would come back to a cached block of which a part was, and find
  that part spoilt.
* Console output, progress, logging, the strings of a disc's description and their
  getters; commands for the speed and the layer break of a drive, whose errors
  the code ignores and which change nothing that the models know.
* `win32compat.c` and the vendored getopt.

## 6. Plan

What is left are failing writes in `DiscRead`'s dump, with the resume that follows them.
