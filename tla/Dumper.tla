------------------------------- MODULE Dumper -------------------------------
(***************************************************************************)
(* libfriidump/dumper.c as src/friidump.c drives it: one process per       *)
(* command line, which writes the sectors of a disc to a raw file, an ISO  *)
(* file or both, may be killed at any step, and may be started again with  *)
(* the resume option on the files an earlier process left.                 *)
(*                                                                         *)
(* Data: a record (a 2064-byte raw sector or a 2048-byte ISO sector) is    *)
(* two units, so that a record can be torn; sector n is the units 2n and   *)
(* 2n+1, and a correct image is the sequence 0, 1, 2, ...  The sectors the *)
(* disc layer returns are taken to be right (module DiscRead is about      *)
(* that); reads may fail.                                                  *)
(***************************************************************************)
EXTENDS Integers, Sequences

CONSTANTS
  Commands,           \* the command lines a user may give, see CommandType
  SECTORS_PER_BLOCK,
  BufCap,             \* capacity of a stdio buffer, in units
  WriteFaults,        \* "none", "full": write(2) may start to fail until
                      \* another process starts, "transient": at any time
  SetupFaults         \* may fseek/ftruncate fail in dumper_prepare

Outputs == {"raw", "iso"}
Unset   == -1         \* (u_int32_t) -1, only ever held by a disabled output

CommandType ==
  [outs : SUBSET Outputs, resume : BOOLEAN, hashing : BOOLEAN,
   flushing : BOOLEAN, sectors_no : Nat]

\* optparse and dologic let no command without an output file through.
ASSUME CommandsAssumption ==
  Commands \subseteq {c \in CommandType : c.outs # {}}
ASSUME SizesAssumption ==
  /\ SECTORS_PER_BLOCK \in Nat \ {0}
  /\ BufCap \in Nat \ {0, 1, 2}
ASSUME FaultsAssumption ==
  /\ WriteFaults \in {"none", "full", "transient"}
  /\ SetupFaults \in BOOLEAN

(***************************************************************************)
(* Operators whose names end in Slip are what a programming slip would have *)
(* made of the operator they precede.  No specification uses them; they     *)
(* show that a property notices such a slip.                                *)
(***************************************************************************)

VARIABLES
  file,               \* what the kernel holds of each output file
  exists,             \* does the output file exist
  full,               \* does the kernel refuse writes to it
  opt,                \* the options of the current (or last) process
  pc, cur,            \* program counter; the output it is busy with
  outfile,            \* outfile_raw / outfile_iso is not NULL
  start_of,           \* start_sector_raw / start_sector_iso
  start_sector,
  fp,                 \* fp_raw / fp_iso is not NULL
  buf,                \* the stdio buffer of that stream
  hash,               \* the units fed to hash_raw / hash_iso
  i, data,            \* loop counter; disc_read_sector gave buffers
  out,                \* the local of that name in dumper_prepare and _dump
  verdict             \* what the user was told

disk   == <<file, exists, full>>
struct == <<outfile, start_of, start_sector, fp>>
loop   == <<i, data, out>>
vars   == <<file, exists, full, opt, pc, cur, outfile, start_of,
            start_sector, fp, buf, hash, i, data, out, verdict>>

Record(n) == <<2 * n, 2 * n + 1>>
IsImage(s) == \A k \in 1 .. Len(s) : s[k] = k - 1

Init ==
  /\ file = [o \in Outputs |-> <<>>]
  /\ exists = [o \in Outputs |-> FALSE]
  /\ full = [o \in Outputs |-> FALSE]
  /\ opt \in Commands
  /\ pc = "down" /\ cur = "raw"
  /\ outfile = [o \in Outputs |-> FALSE]
  /\ start_of = [o \in Outputs |-> 0]
  /\ start_sector = 0
  /\ fp = [o \in Outputs |-> FALSE]
  /\ buf = [o \in Outputs |-> <<>>]
  /\ hash = [o \in Outputs |-> <<>>]
  /\ i = 0 /\ data = FALSE /\ out = FALSE
  /\ verdict = "none"

-----------------------------------------------------------------------------
\* The environment.

\* A user starts the program; dologic creates a zeroed dumper and sets its
\* hashing and flushing flags.
Launch(c) ==
  /\ pc = "down"
  /\ opt' = c
  /\ pc' = "set" /\ cur' = "raw"
  /\ outfile' = [o \in Outputs |-> FALSE]
  /\ start_of' = [o \in Outputs |-> 0]
  /\ start_sector' = 0
  /\ fp' = [o \in Outputs |-> FALSE]
  /\ buf' = [o \in Outputs |-> <<>>]
  /\ hash' = [o \in Outputs |-> <<>>]
  /\ i' = 0 /\ data' = FALSE /\ out' = FALSE
  /\ verdict' = "none"
  /\ UNCHANGED disk

\* Space is freed: before a process has touched its files, or at any time if
\* faults are transient.
FreeSpace(o) ==
  /\ full[o]
  /\ pc = "set" \/ WriteFaults = "transient"
  /\ full' = [full EXCEPT ![o] = FALSE]
  /\ UNCHANGED <<file, exists, opt, pc, cur, struct, buf, hash, loop, verdict>>

\* fflush is called on the stream of o.
FlushesSlip(o) == fp[o] /\ opt.flushing /\ o = "iso"
Flushes(o) == fp[o] /\ opt.flushing

\* The units the write(2) that the current step makes would hand over:
\* fwrite() when the record does not fit in the buffer, fflush(), fclose().
Pending(o) ==
  CASE pc = "fwrite" /\ fp[o] /\ data /\ Len(buf[o]) + 2 > BufCap ->
         SubSeq(buf[o] \o Record(i), 1, BufCap)
    [] pc = "fflush" /\ Flushes(o) -> buf[o]
    [] pc = "close" /\ fp[o] -> buf[o]
    [] OTHER -> <<>>

\* The kernel takes the first k units of s for the file.
Accept(o, s, k) == file' = [file EXCEPT ![o] = @ \o SubSeq(s, 1, k)]

\* How many of n units the kernel may take, and what that says of the disk.
Takes(o, n) ==
  IF full[o] THEN {0} ELSE IF WriteFaults = "none" THEN {n} ELSE 0 .. n
Fills(o, n, k) == full' = [full EXCEPT ![o] = @ \/ k < n]

\* The process is killed (Ctrl+C, a crash): what is in its buffers is lost,
\* a write in progress may have been done in part.
Crash ==
  /\ pc # "down"
  /\ \E k \in (IF full[cur] THEN {0} ELSE 0 .. Len(Pending(cur))) :
       Accept(cur, Pending(cur), k)
  /\ buf' = [o \in Outputs |-> <<>>]
  /\ pc' = "down"
  /\ verdict' = "killed"
  /\ UNCHANGED <<exists, full, opt, cur, struct, hash, loop>>

-----------------------------------------------------------------------------
\* dumper_set_raw_output_file, then dumper_set_iso_output_file.

\* First sector of the block after the last block that is wholly in a file
\* of n units; the two divisions round down.
ResumePointSlip(n) == n \div 2
ResumePoint(n) == ((n \div 2) \div SECTORS_PER_BLOCK) * SECTORS_PER_BLOCK

\* The file exists and resume was not requested, or it was set before.
RefusedSlip(o) == outfile[o]
Refused(o) == outfile[o] \/ (exists[o] /\ ~opt.resume)

SetOutputFile(o) ==
  /\ pc = "set" /\ cur = o
  /\ IF o \notin opt.outs
     THEN /\ outfile' = [outfile EXCEPT ![o] = FALSE]
          /\ start_of' = [start_of EXCEPT ![o] = Unset]
     ELSE IF Refused(o)
     THEN /\ outfile' = outfile
          /\ start_of' = [start_of EXCEPT ![o] = IF outfile[o] THEN @ ELSE Unset]
     ELSE /\ outfile' = [outfile EXCEPT ![o] = TRUE]
          /\ start_of' = [start_of EXCEPT
                            ![o] = IF exists[o] THEN ResumePoint(Len(file[o])) ELSE 0]
  /\ IF o \in opt.outs /\ Refused(o)
     THEN pc' = "down" /\ verdict' = "refused" /\ cur' = cur
     ELSE /\ pc' = IF o = "raw" THEN "set" ELSE "prepare"
          /\ cur' = IF o = "raw" THEN "iso" ELSE "raw"
          /\ verdict' = verdict
  /\ UNCHANGED <<disk, opt, start_sector, fp, buf, hash, loop>>

-----------------------------------------------------------------------------
\* dumper_prepare.

LeastSlip(a, b) == IF a > b THEN a ELSE b
LeastZeroSlip(a, b) == IF a = b THEN a ELSE 0
Least(a, b) == IF a < b THEN a ELSE b

StartSectorSlip == Least(start_of["raw"], start_of["iso"])
StartSector ==
  IF outfile["raw"] /\ outfile["iso"]
  THEN Least(start_of["raw"], start_of["iso"])
  ELSE IF outfile["raw"] THEN start_of["raw"] ELSE start_of["iso"]

PrepareStart ==
  /\ pc = "prepare"
  /\ start_sector' = StartSector
  /\ hash' = IF opt.hashing THEN [o \in Outputs |-> <<>>] ELSE hash
  /\ pc' = "open" /\ cur' = "raw"
  /\ UNCHANGED <<disk, opt, outfile, start_of, fp, buf, loop, verdict>>

\* MY_ASSERT (r > 0): the file still holds the records to be hashed.
ReadBackFails(o) == opt.hashing /\ Len(file[o]) < 2 * start_sector

TruncatedToSlip(s, n) == s
TruncatedTo(s, n) ==  \* ftruncate lengthens a shorter file with zeros
  [k \in 1 .. 2 * n |-> IF k <= Len(s) THEN s[k] ELSE 0]

\* Hashing what is kept of the file.
KeptHashSlip(o) == hash[o]
KeptHash(o) ==
  IF opt.hashing THEN TruncatedTo(file[o], start_sector) ELSE hash[o]

\* Setting up one stream: open in append mode, hash what is kept of the file,
\* seek, truncate.  ok is what fseek and ftruncate answer.
Setup(o, ok) ==
  /\ exists' = [exists EXCEPT ![o] = TRUE]
  /\ hash' = [hash EXCEPT ![o] = KeptHash(o)]
  /\ file' = [file EXCEPT ![o] = IF ok THEN TruncatedTo(@, start_sector) ELSE @]
  /\ fp' = [fp EXCEPT ![o] = ok]
  /\ out' = ok

\* Where dumper_prepare goes after output o with the given value of out; the
\* caller enters dumper_dump or gives up.
AfterOpen(o, ok) ==
  /\ cur' = IF o = "raw" THEN "iso" ELSE "raw"
  /\ pc' = IF o = "raw" THEN "open" ELSE IF ok THEN "read" ELSE "down"
  /\ verdict' = IF o = "iso" /\ ~ok THEN "failed" ELSE verdict
  /\ i' = start_sector

PrepareOutput(o) ==
  /\ pc = "open" /\ cur = o
  /\ IF ~outfile[o]
     THEN /\ AfterOpen(o, out)
          /\ fp' = [fp EXCEPT ![o] = FALSE]
          /\ UNCHANGED <<file, exists, hash, out>>
     ELSE IF ReadBackFails(o)
     THEN /\ pc' = "down" /\ verdict' = "aborted"
          /\ exists' = [exists EXCEPT ![o] = TRUE]
          /\ UNCHANGED <<file, cur, fp, hash, out, i>>
     ELSE \E ok \in (IF SetupFaults THEN BOOLEAN ELSE {TRUE}) :
            Setup(o, ok) /\ AfterOpen(o, ok)
  /\ UNCHANGED <<full, opt, outfile, start_of, start_sector, buf, data>>

-----------------------------------------------------------------------------
\* dumper_dump.

InLoopSlip == i < opt.sectors_no - 1 /\ out
InLoop == i < opt.sectors_no /\ out

\* disc_read_sector: both buffers, or NULL for both.
ReadSector ==
  /\ pc = "read" /\ InLoop
  /\ data' \in BOOLEAN
  /\ pc' = "fwrite" /\ cur' = "raw"
  /\ UNCHANGED <<disk, opt, struct, buf, hash, i, out, verdict>>

\* What stdio keeps after taking record i, when the kernel took k units of w.
BufferAfter(o, w, k) ==
  LET all == buf[o] \o Record(i) IN
  IF ~fp[o] \/ ~data THEN buf[o]
  ELSE IF w = <<>> THEN all
  ELSE IF k < Len(w) THEN <<>> ELSE SubSeq(all, BufCap + 1, Len(all))

\* clearerr, fwrite, ferror.  A NULL buffer and a write error both clear out.
WriteRecord(o) ==
  /\ pc = "fwrite" /\ cur = o
  /\ LET w == Pending(o) IN
     \E k \in Takes(o, Len(w)) :
       /\ Accept(o, w, k) /\ Fills(o, Len(w), k)
       /\ buf' = [buf EXCEPT ![o] = BufferAfter(o, w, k)]
       /\ out' = IF fp[o] THEN out /\ data /\ k = Len(w) ELSE out
  /\ pc' = "fflush"
  /\ UNCHANGED <<exists, opt, cur, struct, hash, i, data, verdict>>

\* i++ after the last output.
NextSector(o) == IF o = "raw" THEN i ELSE i + 1

\* fflush, whose result is not looked at (its error indicator is wiped by the
\* clearerr of the next round), then multihash_update.
FlushAndHash(o) ==
  /\ pc = "fflush" /\ cur = o
  /\ LET w == Pending(o) IN
     \E k \in Takes(o, Len(w)) : Accept(o, w, k) /\ Fills(o, Len(w), k)
  /\ buf' = [buf EXCEPT ![o] = IF Flushes(o) THEN <<>> ELSE @]
  /\ hash' = [hash EXCEPT ![o] = IF fp[o] /\ opt.hashing /\ out
                                 THEN @ \o Record(i) ELSE @]
  /\ pc' = IF o = "raw" THEN "fwrite" ELSE "read"
  /\ cur' = IF o = "raw" THEN "iso" ELSE "raw"
  /\ i' = NextSector(o)
  /\ UNCHANGED <<exists, opt, struct, data, out, verdict>>

LeaveLoopSlip ==
  /\ pc = "read" /\ i >= opt.sectors_no
  /\ pc' = "close" /\ cur' = "raw"
  /\ UNCHANGED <<disk, opt, struct, buf, hash, loop, verdict>>
LeaveLoop ==
  /\ pc = "read" /\ ~InLoop
  /\ pc' = "close" /\ cur' = "raw"
  /\ UNCHANGED <<disk, opt, struct, buf, hash, loop, verdict>>

\* fclose, whose result is not looked at; then dologic tells the user.
Close(o) ==
  /\ pc = "close" /\ cur = o
  /\ LET w == Pending(o) IN
     \E k \in Takes(o, Len(w)) : Accept(o, w, k) /\ Fills(o, Len(w), k)
  /\ buf' = [buf EXCEPT ![o] = <<>>]
  /\ pc' = IF o = "raw" THEN "close" ELSE "down"
  /\ cur' = IF o = "raw" THEN "iso" ELSE "raw"
  /\ verdict' = IF o = "raw" THEN verdict ELSE IF out THEN "success" ELSE "failed"
  /\ UNCHANGED <<exists, opt, struct, hash, loop>>

Step ==
  \/ PrepareStart \/ ReadSector \/ LeaveLoop
  \/ \E o \in Outputs :
       SetOutputFile(o) \/ PrepareOutput(o) \/ WriteRecord(o)
         \/ FlushAndHash(o) \/ Close(o)

Next ==
  \/ \E c \in Commands : Launch(c)
  \/ \E o \in Outputs : FreeSpace(o)
  \/ Crash
  \/ Step

Spec == Init /\ [][Next]_vars

\* A process that is not killed keeps taking its steps; users, the disk and
\* crashes owe nothing.
FairSpec == Spec /\ WF_vars(Step)

-----------------------------------------------------------------------------
\* Properties.

Verdicts == {"none", "refused", "aborted", "failed", "success", "killed"}
PCs == {"down", "set", "prepare", "open", "read", "fwrite", "fflush", "close"}

\* Every variable holds a value the program can give it: sequences of units,
\* a start sector or the -1 of a disabled output, and a known control point.
TypeOK ==
  /\ file \in [Outputs -> Seq(Nat)]
  /\ exists \in [Outputs -> BOOLEAN]
  /\ full \in [Outputs -> BOOLEAN]
  /\ opt \in Commands
  /\ pc \in PCs /\ cur \in Outputs
  /\ outfile \in [Outputs -> BOOLEAN]
  /\ start_of \in [Outputs -> Nat \cup {Unset}]
  /\ start_sector \in Nat
  /\ fp \in [Outputs -> BOOLEAN]
  /\ buf \in [Outputs -> Seq(Nat)]
  /\ hash \in [Outputs -> Seq(Nat)]
  /\ i \in Nat /\ data \in BOOLEAN /\ out \in BOOLEAN
  /\ verdict \in Verdicts

\* Whatever processes were killed, failed, refused or resumed on an output
\* file, what the file holds is the beginning of the disc: nothing is missing
\* in the middle, doubled or torn except at its end.  (Append mode plus the
\* truncation in dumper_prepare.  Space that is freed under a running process
\* leaves a hole, dumper.c:293: WriteFaults must not be "transient".)
FilesArePrefixes == \A o \in Outputs : IsImage(file[o])

\* No write of the current (or last) process has failed.
AllWritten == \A o \in Outputs : ~full[o]

\* The raw output was asked for and could not be set up, and the dump went on
\* because the ISO output could.
RawLeftOut == "raw" \in opt.outs /\ ~fp["raw"] /\ fp["iso"]

\* Unless a write failed, "Dump completed successfully!" means that every file
\* asked for holds the whole disc and that the hash printed for it is the hash
\* of that file, whatever processes were killed, failed or resumed before.  The
\* one exception is a raw file that could not be set up, which dumper.c:216
\* forgets when the ISO file can be.
SuccessMeansGood ==
  verdict = "success" /\ AllWritten =>
    \A o \in opt.outs :
      \/ /\ Len(file[o]) >= 2 * opt.sectors_no
         /\ IsImage(file[o])
         /\ opt.hashing => hash[o] = file[o]
      \/ o = "raw" /\ RawLeftOut

\* README:33 says "FriiDump calculates the CRC32, MD4, MD5, SHA-1 and ED2K hashes
\* of dumped discs, so you can immediately know if your dump is good or not":
\* the hash printed for a file is the hash of that file.
HashTellsGoodDumps ==
  verdict = "success" /\ opt.hashing =>
    \A o \in Outputs : fp[o] => hash[o] = file[o]

\* The assertion MY_ASSERT (r > 0) of dumper_prepare never stops the program:
\* both files hold every record before the sector the dump starts from.
ReadBackNeverFails == verdict # "aborted"

\* With flushing on, and unless a write failed, a sector that the loop has passed
\* is in the kernel for every open output, so that killing the program costs at
\* most the sector in progress.
PassedSectorsAreSafe ==
  pc \in {"read", "fwrite", "fflush", "close"} /\ opt.flushing /\ out /\ AllWritten =>
    \A o \in Outputs : fp[o] => Len(file[o]) >= 2 * i

\* Under write faults too, every hash printed after "Dump completed
\* successfully!" (friidump.c prints one for each output asked for) is that of
\* the disc the program read, through any number of resumes: every sector is fed
\* to it once and in order.  The one exception is again a raw file that could
\* not be set up: what is printed as its hash is the hash of the sectors that an
\* earlier process had left in it, of nothing if there were none.
PrintedHashIsOfTheDisc ==
  verdict = "success" /\ opt.hashing =>
    \A o \in opt.outs :
      /\ IsImage(hash[o])
      /\ IF o = "raw" /\ RawLeftOut
         THEN Len(hash[o]) = 2 * start_sector
         ELSE Len(hash[o]) >= 2 * opt.sectors_no

\* Without the resume option a file that was there before the process started
\* is neither opened nor changed by it.
NoOverwrite ==
  [][~opt.resume => \A o \in Outputs :
       exists[o] /\ ~fp[o] => ~fp'[o] /\ file'[o] = file[o]]_vars

\* When both outputs are always dumped together with flushing on, a resume
\* throws away no more than one block of either file, although the raw file
\* may be one sector ahead and both may be torn.
ResumeDiscardsAtMostABlock ==
  [][\A o \in Outputs :
       Len(file[o]) - Len(file'[o]) <= 2 * SECTORS_PER_BLOCK]_vars

\* Every process that is started ends, whatever cannot be set up, read or written.
EveryRunEnds == []<>(pc = "down")

-----------------------------------------------------------------------------
\* What the dumper promises while no write fails and no output is left out, see
\* DumpSpec: an output file is always the beginning of the disc, only a resume
\* takes sectors back, whole blocks are kept, and success is reported, with a
\* hash, for complete files.
Promise == INSTANCE DumpSpec WITH
  wanted <- opt.outs, size <- opt.sectors_no, resumed <- opt.resume,
  running <- pc # "down",
  printed <- IF verdict = "success" /\ opt.hashing THEN hash ELSE [o \in Outputs |-> <<>>],
  success <- verdict = "success"
ImplementsPromise == Promise!Init /\ [][AllWritten' /\ ~RawLeftOut' => Promise!Next]_(Promise!vars)
=============================================================================
