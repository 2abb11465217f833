---------------------------- MODULE DumperProofs ----------------------------
(***************************************************************************)
(* Theorems about Dumper for every set of command lines, block size and    *)
(* buffer size, checked by TLAPS.                                          *)
(***************************************************************************)
EXTENDS Dumper, Arithmetic, SequenceTheorems, TLAPS

\* A prefix of a sequence of units is one, of the length asked for.
LEMMA PrefixType ==
  ASSUME NEW s \in Seq(Nat), NEW k \in 0 .. Len(s)
  PROVE  /\ SubSeq(s, 1, k) \in Seq(Nat)
         /\ Len(SubSeq(s, 1, k)) = k
         /\ \A j \in 1 .. k : SubSeq(s, 1, k)[j] = s[j]
<1>1. \A j \in 1 .. k : s[j] \in Nat
  BY ElementOfSeq
<1> QED
  BY <1>1, SubSeqProperties

\* Two sequences of units, one after the other.
LEMMA ConcatType ==
  ASSUME NEW s \in Seq(Nat), NEW t \in Seq(Nat)
  PROVE  /\ s \o t \in Seq(Nat)
         /\ Len(s) \in Nat /\ Len(t) \in Nat
         /\ Len(s \o t) = Len(s) + Len(t)
         /\ \A j \in 1 .. Len(s) + Len(t) :
              (s \o t)[j] = IF j <= Len(s) THEN s[j] ELSE t[j - Len(s)]
BY ConcatProperties, LenProperties

\* The same without the elements.
LEMMA ConcatLen ==
  ASSUME NEW s \in Seq(Nat), NEW t \in Seq(Nat)
  PROVE  s \o t \in Seq(Nat) /\ Len(s \o t) = Len(s) + Len(t)
BY ConcatProperties

\* A record is two units.
LEMMA RecordType ==
  ASSUME NEW n \in Nat
  PROVE  /\ Record(n) \in Seq(Nat)
         /\ Len(Record(n)) = 2
         /\ Record(n)[1] = 2 * n /\ Record(n)[2] = 2 * n + 1
BY DEF Record

\* What a write hands to the kernel is a sequence of units.
LEMMA PendingType ==
  ASSUME TypeOK, NEW o \in Outputs
  PROVE  /\ Pending(o) \in Seq(Nat)
         /\ Len(Pending(o)) \in Nat
<1>1. /\ buf[o] \in Seq(Nat) /\ Record(i) \in Seq(Nat) /\ Len(Record(i)) = 2
  BY RecordType DEF TypeOK
<1>2. buf[o] \o Record(i) \in Seq(Nat) /\ Len(buf[o] \o Record(i)) = Len(buf[o]) + 2
  BY <1>1, ConcatLen
<1>3. Len(buf[o]) \in Nat
  BY <1>1, LenProperties
<1>4. CASE Len(buf[o]) + 2 > BufCap
  <2>1. SubSeq(buf[o] \o Record(i), 1, BufCap) \in Seq(Nat)
    <3>1. BufCap \in 0 .. Len(buf[o] \o Record(i))
      BY <1>2, <1>3, <1>4, SizesAssumption
    <3> QED
      BY <1>2, <3>1, PrefixType
  <2> QED
    BY <1>1, <2>1, EmptySeq, LenProperties DEF Pending
<1>5. CASE ~(Len(buf[o]) + 2 > BufCap)
  BY <1>1, <1>5, EmptySeq, LenProperties DEF Pending
<1> QED
  BY <1>4, <1>5

\* The kernel may only take what it is handed.
LEMMA TakesType ==
  ASSUME TypeOK, NEW o \in Outputs, NEW n \in Nat, NEW k \in Takes(o, n)
  PROVE  k \in 0 .. n
BY DEF Takes

\* Accepting part of a write keeps the files sequences of units.
LEMMA AcceptType ==
  ASSUME TypeOK, NEW o \in Outputs, NEW s \in Seq(Nat), NEW k \in 0 .. Len(s),
         Accept(o, s, k)
  PROVE  /\ file' \in [Outputs -> Seq(Nat)]
         /\ file'[o] = file[o] \o SubSeq(s, 1, k)
         /\ Len(file'[o]) = Len(file[o]) + k
         /\ \A p \in Outputs \ {o} : file'[p] = file[p]
<1>1. file \in [Outputs -> Seq(Nat)]
  BY DEF TypeOK
<1>2. SubSeq(s, 1, k) \in Seq(Nat) /\ Len(SubSeq(s, 1, k)) = k
  BY PrefixType
<1>3. /\ file[o] \o SubSeq(s, 1, k) \in Seq(Nat)
      /\ Len(file[o] \o SubSeq(s, 1, k)) = Len(file[o]) + k
  BY <1>1, <1>2, ConcatType
<1> QED
  BY <1>1, <1>3 DEF Accept

-----------------------------------------------------------------------------
\* The setting-up of the outputs.  TypeOK is not inductive: that a truncation
\* yields a sequence needs that the files are long enough, and that the start
\* sector is a number needs that an enabled output has one.

\* Output o has not been through dumper_prepare yet.
Unprepared(o) ==
  \/ pc \in {"set", "prepare"}
  \/ pc = "open" /\ (cur = "raw" \/ o = "iso")

Chosen(o) == pc \in {"prepare", "open"} \/ (pc = "set" /\ cur = "iso" /\ o = "raw")

\* The facts about one output that setting up keeps.
SetupFacts(o) ==
  /\ outfile[o] => start_of[o] \in Nat
  /\ pc = "set" /\ (cur = "raw" \/ o = "iso") => ~outfile[o]
  /\ Chosen(o) => (outfile[o] <=> o \in opt.outs)
  /\ Unprepared(o) => ~fp[o]
  /\ pc \in {"set", "prepare"} /\ outfile[o] => 2 * start_of[o] <= Len(file[o])
  /\ pc = "open" /\ Unprepared(o) /\ outfile[o] => 2 * start_sector <= Len(file[o])
  /\ Unprepared(o) /\ outfile[o] /\ ~opt.resume => ~exists[o]

SetupInv ==
  /\ TypeOK
  /\ verdict # "aborted"
  /\ pc # "down" => verdict = "none"
  /\ \A o \in Outputs : SetupFacts(o)

LEMMA ResumePointFits ==
  ASSUME NEW n \in Nat
  PROVE  ResumePoint(n) \in Nat /\ 2 * ResumePoint(n) <= n
<1> DEFINE r == n \div 2
           b == r \div SECTORS_PER_BLOCK
<1>1. r \in Nat /\ 2 * r <= n
  OBVIOUS
<1>2. b \in Nat /\ b * SECTORS_PER_BLOCK <= r
  BY <1>1, SizesAssumption
<1>3. ResumePoint(n) = b * SECTORS_PER_BLOCK
  BY DEF ResumePoint
<1>4. b * SECTORS_PER_BLOCK \in Nat
  BY <1>2, SizesAssumption
<1> HIDE DEF r, b
<1> QED
  BY <1>1, <1>2, <1>3, <1>4

LEMMA SetupInit == Init => SetupInv
<1> SUFFICES ASSUME Init PROVE SetupInv
  OBVIOUS
<1>1. <<>> \in Seq(Nat)
  BY EmptySeq
<1>2. TypeOK
  BY <1>1, CommandsAssumption DEF Init, TypeOK, Outputs, PCs, Verdicts
<1>3. \A o \in Outputs : SetupFacts(o)
  BY DEF Init, SetupFacts, Chosen, Unprepared
<1> QED
  BY <1>2, <1>3 DEF SetupInv, Init

LEMMA SetupLaunch ==
  ASSUME SetupInv, NEW c \in Commands, Launch(c)
  PROVE  SetupInv'
<1>1. <<>> \in Seq(Nat)
  BY EmptySeq
<1>2. TypeOK'
  BY <1>1 DEF SetupInv, Launch, disk, TypeOK, Outputs, PCs, Verdicts
<1>3. \A o \in Outputs : SetupFacts(o)'
  BY DEF SetupInv, TypeOK, Launch, disk, SetupFacts, Chosen, Unprepared
<1> QED
  BY <1>2, <1>3 DEF SetupInv, Launch

LEMMA SetupFreeSpace ==
  ASSUME SetupInv, NEW p \in Outputs, FreeSpace(p)
  PROVE  SetupInv'
<1>1. TypeOK'
  BY DEF SetupInv, FreeSpace, struct, loop, TypeOK
<1>2. \A o \in Outputs : SetupFacts(o)'
  BY DEF SetupInv, FreeSpace, struct, loop, SetupFacts, Chosen, Unprepared
<1> QED
  BY <1>1, <1>2 DEF SetupInv, FreeSpace

LEMMA SetupCrash ==
  ASSUME SetupInv, Crash
  PROVE  SetupInv'
<1>1. PICK k \in (IF full[cur] THEN {0} ELSE 0 .. Len(Pending(cur))) :
        Accept(cur, Pending(cur), k)
  BY DEF Crash
<1>2. cur \in Outputs /\ Pending(cur) \in Seq(Nat) /\ k \in 0 .. Len(Pending(cur))
  BY <1>1, PendingType DEF SetupInv, TypeOK
<1>3. file' \in [Outputs -> Seq(Nat)]
  BY <1>1, <1>2, AcceptType DEF SetupInv
<1>4. TypeOK'
  BY <1>3, EmptySeq DEF SetupInv, Crash, struct, loop, TypeOK, PCs, Verdicts
<1>5. \A o \in Outputs : SetupFacts(o)'
  BY DEF SetupInv, Crash, struct, loop, SetupFacts, Chosen, Unprepared
<1> QED
  BY <1>4, <1>5 DEF SetupInv, Crash

LEMMA SetupSetOutputFile ==
  ASSUME SetupInv, NEW p \in Outputs, SetOutputFile(p)
  PROVE  SetupInv'
<1>1. /\ Len(file[p]) \in Nat
      /\ ResumePoint(Len(file[p])) \in Nat
      /\ 2 * ResumePoint(Len(file[p])) <= Len(file[p])
  BY ResumePointFits, LenProperties DEF SetupInv, TypeOK
<1>2. ~outfile[p]
  BY DEF SetupInv, SetupFacts, SetOutputFile, Outputs
<1>3. TypeOK'
  <2>1. /\ outfile' \in [Outputs -> BOOLEAN]
        /\ start_of' \in [Outputs -> Nat \cup {Unset}]
    <3>1. /\ outfile \in [Outputs -> BOOLEAN]
          /\ start_of \in [Outputs -> Nat \cup {Unset}]
      BY DEF SetupInv, TypeOK
    <3>2. CASE p \notin opt.outs
      BY <3>1, <3>2 DEF SetOutputFile
    <3>3. CASE p \in opt.outs /\ Refused(p)
      BY <1>2, <3>1, <3>3 DEF SetOutputFile
    <3>4. CASE p \in opt.outs /\ ~Refused(p)
      <4> DEFINE v == IF exists[p] THEN ResumePoint(Len(file[p])) ELSE 0
      <4>1. v \in Nat \cup {Unset}
        BY <1>1
      <4>2. /\ outfile' = [outfile EXCEPT ![p] = TRUE]
            /\ start_of' = [start_of EXCEPT ![p] = v]
        BY <3>4 DEF SetOutputFile
      <4> HIDE DEF v
      <4> QED
        BY <3>1, <4>1, <4>2
    <3> QED
      BY <3>2, <3>3, <3>4
  <2>2. pc' \in PCs /\ cur' \in Outputs /\ verdict' \in Verdicts
    BY DEF SetupInv, SetOutputFile, TypeOK, PCs, Verdicts, Outputs
  <2> QED
    BY <2>1, <2>2 DEF SetupInv, SetOutputFile, disk, loop, TypeOK
<1>4. ASSUME NEW o \in Outputs PROVE SetupFacts(o)'
  <2>1. TypeOK /\ SetupFacts(o)
    BY DEF SetupInv
  <2>2. CASE o = p
    BY <1>1, <1>2, <2>1, <2>2
    DEF SetOutputFile, disk, loop, SetupFacts, Chosen, Unprepared, Refused, TypeOK, Outputs
  <2>3. CASE o # p
    BY <2>1, <2>3
    DEF SetOutputFile, disk, loop, SetupFacts, Chosen, Unprepared, TypeOK, Outputs
  <2> QED
    BY <2>2, <2>3
<1> QED
  BY <1>3, <1>4 DEF SetupInv, SetOutputFile

\* The dump starts from a sector that every enabled file holds.
LEMMA StartSectorFits ==
  ASSUME SetupInv, pc = "prepare"
  PROVE  /\ StartSector \in Nat
         /\ \A o \in Outputs : outfile[o] => 2 * StartSector <= Len(file[o])
<1>1. opt.outs # {} /\ opt.outs \subseteq Outputs
  BY CommandsAssumption DEF SetupInv, TypeOK, CommandType
<1>2. outfile["raw"] \/ outfile["iso"]
  BY <1>1 DEF SetupInv, SetupFacts, Chosen, Outputs
<1>3. \A o \in Outputs : /\ outfile[o] => start_of[o] \in Nat /\ 2 * start_of[o] <= Len(file[o])
                         /\ Len(file[o]) \in Nat
  BY LenProperties DEF SetupInv, SetupFacts, TypeOK
<1> QED
  BY <1>2, <1>3 DEF StartSector, Least, Outputs

LEMMA SetupPrepareStart ==
  ASSUME SetupInv, PrepareStart
  PROVE  SetupInv'
<1>1. /\ start_sector' \in Nat
      /\ \A o \in Outputs : outfile[o] => 2 * start_sector' <= Len(file[o])
  BY StartSectorFits DEF PrepareStart
<1>2. TypeOK'
  BY <1>1, EmptySeq DEF SetupInv, PrepareStart, disk, loop, TypeOK, PCs, Outputs
<1>3. \A o \in Outputs : SetupFacts(o)'
  BY <1>1 DEF SetupInv, PrepareStart, disk, loop, SetupFacts, Chosen, Unprepared
<1> QED
  BY <1>2, <1>3 DEF SetupInv, PrepareStart

LEMMA SetupPrepareOutput ==
  ASSUME SetupInv, NEW p \in Outputs, PrepareOutput(p)
  PROVE  SetupInv'
<1> USE DEF SetupInv
<1>1. pc = "open" /\ cur = p /\ Unprepared(p) /\ verdict = "none"
  BY DEF PrepareOutput, Unprepared, Outputs
<1>2. CASE ~outfile[p]
  <2>1. TypeOK'
    <3>1. pc' \in PCs /\ cur' \in Outputs /\ verdict' \in Verdicts /\ out' \in BOOLEAN /\ i' \in Nat
      BY <1>2 DEF PrepareOutput, AfterOpen, TypeOK, PCs, Verdicts, Outputs
    <3> QED
      BY <1>2, <3>1 DEF PrepareOutput, TypeOK
  <2>2. \A o \in Outputs : SetupFacts(o)'
    BY <1>1, <1>2
    DEF PrepareOutput, AfterOpen, SetupFacts, Chosen, Unprepared, TypeOK, Outputs
  <2> QED
    BY <1>1, <1>2, <2>1, <2>2 DEF PrepareOutput, AfterOpen
<1>3. CASE outfile[p]
  <2>1. /\ Len(file[p]) \in Nat /\ start_sector \in Nat
        /\ 2 * start_sector \in 0 .. Len(file[p])
    BY <1>1, <1>3, LenProperties DEF TypeOK, SetupFacts
  <2>2. ~ReadBackFails(p)
    BY <2>1 DEF ReadBackFails
  <2>3. PICK ok \in BOOLEAN : Setup(p, ok) /\ AfterOpen(p, ok)
    BY <1>3, <2>2 DEF PrepareOutput
  <2>4. /\ TruncatedTo(file[p], start_sector) \in Seq(Nat)
        /\ Len(TruncatedTo(file[p], start_sector)) = 2 * start_sector
    BY <2>1, PrefixType DEF TypeOK, TruncatedTo
  <2>5. /\ file' \in [Outputs -> Seq(Nat)] /\ hash' \in [Outputs -> Seq(Nat)]
        /\ exists' \in [Outputs -> BOOLEAN] /\ fp' \in [Outputs -> BOOLEAN]
        /\ \A o \in Outputs \ {p} : file'[o] = file[o] /\ exists'[o] = exists[o] /\ fp'[o] = fp[o]
    BY <2>3, <2>4 DEF Setup, KeptHash, TypeOK
  <2>6. TypeOK'
    BY <1>1, <2>3, <2>5 DEF Setup, PrepareOutput, AfterOpen, TypeOK, PCs, Verdicts, Outputs
  <2>7. ASSUME NEW o \in Outputs PROVE SetupFacts(o)'
    BY <1>1, <2>3, <2>5
    DEF PrepareOutput, AfterOpen, SetupFacts, Chosen, Unprepared, TypeOK, Outputs
  <2> QED
    BY <1>1, <2>3, <2>6, <2>7 DEF AfterOpen
<1> QED
  BY <1>2, <1>3

LEMMA SetupReadSector ==
  ASSUME SetupInv, ReadSector
  PROVE  SetupInv'
BY DEF SetupInv, ReadSector, disk, struct, TypeOK, PCs, Outputs, SetupFacts, Chosen, Unprepared

LEMMA SetupLeaveLoop ==
  ASSUME SetupInv, LeaveLoop
  PROVE  SetupInv'
BY DEF SetupInv, LeaveLoop, disk, struct, loop, TypeOK, PCs, Outputs, SetupFacts, Chosen, Unprepared

\* The steps of dumper_dump that hand units of output p to the kernel.
LEMMA KernelStep ==
  ASSUME TypeOK, NEW p \in Outputs,
         \E k \in Takes(p, Len(Pending(p))) :
           Accept(p, Pending(p), k) /\ Fills(p, Len(Pending(p)), k)
  PROVE  file' \in [Outputs -> Seq(Nat)] /\ full' \in [Outputs -> BOOLEAN]
<1>1. Pending(p) \in Seq(Nat) /\ Len(Pending(p)) \in Nat
  BY PendingType
<1>2. PICK k \in Takes(p, Len(Pending(p))) :
        Accept(p, Pending(p), k) /\ Fills(p, Len(Pending(p)), k)
  OBVIOUS
<1>3. k \in 0 .. Len(Pending(p))
  BY <1>1, TakesType
<1> QED
  BY <1>1, <1>2, <1>3, AcceptType DEF Fills, TypeOK

LEMMA SetupWriteRecord ==
  ASSUME SetupInv, NEW p \in Outputs, WriteRecord(p)
  PROVE  SetupInv'
<1> DEFINE w == Pending(p)
           all == buf[p] \o Record(i)
<1>1. TypeOK /\ pc = "fwrite"
  BY DEF SetupInv, WriteRecord
<1>2. PICK k \in Takes(p, Len(w)) :
        /\ Accept(p, w, k) /\ Fills(p, Len(w), k)
        /\ buf' = [buf EXCEPT ![p] = BufferAfter(p, w, k)]
        /\ out' = IF fp[p] THEN out /\ data /\ k = Len(w) ELSE out
  BY DEF WriteRecord
<1>3. file' \in [Outputs -> Seq(Nat)] /\ full' \in [Outputs -> BOOLEAN]
  BY <1>1, <1>2, KernelStep
<1>4. all \in Seq(Nat) /\ buf[p] \in Seq(Nat) /\ Len(all) = Len(buf[p]) + 2 /\ Len(buf[p]) \in Nat
  <2>1. buf[p] \in Seq(Nat) /\ Record(i) \in Seq(Nat) /\ Len(Record(i)) = 2
    BY <1>1, RecordType DEF TypeOK
  <2> QED
    BY <2>1, ConcatLen, LenProperties
<1>5. SubSeq(all, BufCap + 1, Len(all)) \in Seq(Nat)
  <2>1. \A j \in BufCap + 1 .. Len(all) : all[j] \in Nat
    <3> HIDE DEF all
    <3>1. BufCap \in Nat /\ Len(all) \in Nat
      BY <1>4, LenProperties, SizesAssumption
    <3>2. \A j \in BufCap + 1 .. Len(all) : j \in 1 .. Len(all)
      BY <3>1
    <3> QED
      BY <1>4, <3>2, ElementOfSeq
  <2> QED
    BY <1>4, <2>1, SubSeqProperties, SizesAssumption
<1>6. BufferAfter(p, w, k) \in Seq(Nat)
  BY <1>4, <1>5, EmptySeq DEF BufferAfter
<1>7. TypeOK'
  BY <1>1, <1>2, <1>3, <1>6 DEF WriteRecord, struct, TypeOK, PCs
<1>8. \A o \in Outputs : SetupFacts(o)'
  BY <1>1 DEF SetupInv, WriteRecord, struct, SetupFacts, Chosen, Unprepared
<1> QED
  BY <1>1, <1>7, <1>8 DEF SetupInv, WriteRecord

LEMMA SetupFlushAndHash ==
  ASSUME SetupInv, NEW p \in Outputs, FlushAndHash(p)
  PROVE  SetupInv'
<1>1. TypeOK /\ pc = "fflush"
  BY DEF SetupInv, FlushAndHash
<1>2. file' \in [Outputs -> Seq(Nat)] /\ full' \in [Outputs -> BOOLEAN]
  BY <1>1, KernelStep DEF FlushAndHash
<1>3. hash[p] \o Record(i) \in Seq(Nat) /\ NextSector(p) \in Nat
  <2>1. hash[p] \in Seq(Nat) /\ i \in Nat
    BY <1>1 DEF TypeOK
  <2>2. Record(i) \in Seq(Nat)
    BY <2>1, RecordType
  <2> QED
    BY <2>1, <2>2, ConcatType DEF NextSector
<1>4. TypeOK'
  BY <1>1, <1>2, <1>3, EmptySeq DEF FlushAndHash, struct, TypeOK, PCs, Outputs
<1>5. \A o \in Outputs : SetupFacts(o)'
  BY <1>1 DEF SetupInv, FlushAndHash, struct, SetupFacts, Chosen, Unprepared
<1> QED
  BY <1>1, <1>4, <1>5 DEF SetupInv, FlushAndHash

LEMMA SetupClose ==
  ASSUME SetupInv, NEW p \in Outputs, Close(p)
  PROVE  SetupInv'
<1>1. TypeOK /\ pc = "close"
  BY DEF SetupInv, Close
<1>2. file' \in [Outputs -> Seq(Nat)] /\ full' \in [Outputs -> BOOLEAN]
  BY <1>1, KernelStep DEF Close
<1>3. TypeOK'
  BY <1>1, <1>2, EmptySeq DEF Close, struct, loop, TypeOK, PCs, Verdicts, Outputs
<1>4. \A o \in Outputs : SetupFacts(o)'
  BY <1>1 DEF SetupInv, Close, struct, SetupFacts, Chosen, Unprepared
<1> QED
  BY <1>1, <1>3, <1>4 DEF SetupInv, Close

LEMMA SetupStutter ==
  ASSUME SetupInv, UNCHANGED vars
  PROVE  SetupInv'
BY DEF SetupInv, vars, TypeOK, SetupFacts, Chosen, Unprepared

LEMMA SetupNext == SetupInv /\ [Next]_vars => SetupInv'
<1> SUFFICES ASSUME SetupInv, [Next]_vars PROVE SetupInv'
  OBVIOUS
<1>1. ASSUME NEW c \in Commands, Launch(c) PROVE SetupInv'
  BY <1>1, SetupLaunch
<1>2. ASSUME NEW o \in Outputs, FreeSpace(o) PROVE SetupInv'
  BY <1>2, SetupFreeSpace
<1>3. CASE Crash
  BY <1>3, SetupCrash
<1>4. CASE PrepareStart
  BY <1>4, SetupPrepareStart
<1>5. CASE ReadSector
  BY <1>5, SetupReadSector
<1>6. CASE LeaveLoop
  BY <1>6, SetupLeaveLoop
<1>7. ASSUME NEW o \in Outputs,
             SetOutputFile(o) \/ PrepareOutput(o) \/ WriteRecord(o)
               \/ FlushAndHash(o) \/ Close(o)
      PROVE  SetupInv'
  BY <1>7, SetupSetOutputFile, SetupPrepareOutput, SetupWriteRecord,
     SetupFlushAndHash, SetupClose
<1>8. CASE UNCHANGED vars
  BY <1>8, SetupStutter
<1> QED
  BY <1>1, <1>2, <1>3, <1>4, <1>5, <1>6, <1>7, <1>8 DEF Next, Step

\* The invariant of the setting-up of the outputs holds of the program.
THEOREM SetupCorrect == Spec => []SetupInv
<1> QED
  BY SetupInit, SetupNext, PTL DEF Spec

\* Every variable keeps its type (TypeOK), under any write and setup faults.
THEOREM TypeCorrect == Spec => []TypeOK
<1>1. SetupInv => TypeOK
  BY DEF SetupInv
<1> QED
  BY <1>1, SetupCorrect, PTL

\* dumper_prepare's MY_ASSERT (r > 0) never stops the program: whatever two
\* files a resume finds, both hold what is read back from them.
THEOREM ReadBackCorrect == Spec => []ReadBackNeverFails
<1>1. SetupInv => ReadBackNeverFails
  BY DEF SetupInv, ReadBackNeverFails
<1> QED
  BY <1>1, SetupCorrect, PTL

\* A file that is there when a process without resume starts stays closed and
\* as it was (NoOverwrite): only a file that was opened is written to, and
\* only a file that was not there is opened.
THEOREM NoOverwriteCorrect == Spec => NoOverwrite
<1> DEFINE Step1 == ~opt.resume => \A o \in Outputs :
                      exists[o] /\ ~fp[o] => ~fp'[o] /\ file'[o] = file[o]
<1>1. SetupInv /\ [Next]_vars => [Step1]_vars
  <2> SUFFICES ASSUME SetupInv, Next, ~opt.resume,
                      NEW o \in Outputs, exists[o], ~fp[o]
               PROVE  ~fp'[o] /\ file'[o] = file[o]
    BY DEF vars
  <2>1. TypeOK /\ SetupFacts(o) /\ Pending(o) = <<>> /\ (pc = "open" => Unprepared(o) \/ cur # o)
    BY DEF SetupInv, Pending, Flushes, Unprepared, Outputs
  <2>2. ASSUME NEW p \in Outputs, NEW k \in 0 .. Len(Pending(p)),
               Accept(p, Pending(p), k)
        PROVE  file'[o] = file[o]
    <3>1. CASE p # o
      BY <2>2, <3>1, <2>1, PendingType, AcceptType
    <3>2. CASE p = o
      <4>1. k = 0 /\ file[o] \in Seq(Nat) /\ SubSeq(Pending(p), 1, k) = <<>>
        BY <2>1, <3>2, SubSeqEmpty, EmptySeq DEF TypeOK
      <4>2. file[o] \o <<>> = file[o]
        BY <4>1, ConcatEmptySeq
      <4>3. Pending(p) \in Seq(Nat)
        BY <2>1, PendingType
      <4>4. file'[o] = file[o] \o SubSeq(Pending(p), 1, k)
        BY <2>1, <2>2, <3>2, <4>3, AcceptType
      <4> QED
        BY <3>2, <4>1, <4>2, <4>4
    <3> QED
      BY <3>1, <3>2
  <2>3. ASSUME NEW c \in Commands, Launch(c) PROVE ~fp'[o] /\ file'[o] = file[o]
    BY <2>3 DEF Launch, disk
  <2>4. ASSUME NEW p \in Outputs, FreeSpace(p) PROVE ~fp'[o] /\ file'[o] = file[o]
    BY <2>4 DEF FreeSpace, struct
  <2>5. CASE Crash
    <3>1. PICK k \in (IF full[cur] THEN {0} ELSE 0 .. Len(Pending(cur))) :
            Accept(cur, Pending(cur), k)
      BY <2>5 DEF Crash
    <3>2. cur \in Outputs /\ k \in 0 .. Len(Pending(cur))
      BY <2>1, <3>1, PendingType DEF TypeOK
    <3> QED
      BY <2>2, <2>5, <3>1, <3>2 DEF Crash, struct
  <2>6. CASE PrepareStart \/ ReadSector \/ LeaveLoop
    BY <2>6 DEF PrepareStart, ReadSector, LeaveLoop, disk, struct
  <2>7. ASSUME NEW p \in Outputs, SetOutputFile(p) PROVE ~fp'[o] /\ file'[o] = file[o]
    BY <2>7 DEF SetOutputFile, disk
  <2>8. ASSUME NEW p \in Outputs, PrepareOutput(p) PROVE ~fp'[o] /\ file'[o] = file[o]
    <3>1. CASE p # o
      BY <2>1, <2>8, <3>1 DEF PrepareOutput, Setup, TypeOK
    <3>2. CASE p = o
      <4>1. ~outfile[o]
        BY <2>1, <2>8, <3>2 DEF PrepareOutput, SetupFacts
      <4> QED
        BY <2>1, <2>8, <3>2, <4>1 DEF PrepareOutput, TypeOK
    <3> QED
      BY <3>1, <3>2
  <2>9. ASSUME NEW p \in Outputs, WriteRecord(p) \/ FlushAndHash(p) \/ Close(p)
        PROVE  ~fp'[o] /\ file'[o] = file[o]
    <3>1. PICK k \in Takes(p, Len(Pending(p))) : Accept(p, Pending(p), k)
      BY <2>9 DEF WriteRecord, FlushAndHash, Close
    <3>2. k \in 0 .. Len(Pending(p))
      BY <2>1, <3>1, PendingType, TakesType
    <3> QED
      BY <2>2, <2>9, <3>1, <3>2 DEF WriteRecord, FlushAndHash, Close, struct
  <2> QED
    BY <2>3, <2>4, <2>5, <2>6, <2>7, <2>8, <2>9 DEF Next, Step
<1> QED
  BY <1>1, SetupCorrect, PTL DEF Spec, NoOverwrite

-----------------------------------------------------------------------------
\* How far a process is from its end: three steps that set up the outputs, two that
\* open them, five for each sector, and three to leave the loop and close.

SectorsLeft == IF i < opt.sectors_no THEN opt.sectors_no - i ELSE 0

StepsLeft ==
  CASE pc = "set"     -> 5 * opt.sectors_no + (IF cur = "raw" THEN 8 ELSE 7)
    [] pc = "prepare" -> 5 * opt.sectors_no + 6
    [] pc = "open"    -> 5 * opt.sectors_no + (IF cur = "raw" THEN 5 ELSE 4)
    [] pc = "read"    -> 5 * SectorsLeft + 3
    [] pc = "fwrite"  -> 5 * SectorsLeft + (IF cur = "raw" THEN 2 ELSE 0)
    [] pc = "fflush"  -> 5 * SectorsLeft + (IF cur = "raw" THEN 1 ELSE -1)
    [] pc = "close"   -> IF cur = "raw" THEN 2 ELSE 1
    [] OTHER          -> 0

\* A sector is only written while there is one.
WritesSector == pc \in {"fwrite", "fflush"} => i < opt.sectors_no

LEMMA WritesSectorNext ==
  ASSUME WritesSector, [Next]_vars
  PROVE  WritesSector'
<1>1. CASE ReadSector
  BY <1>1 DEF ReadSector, InLoop, WritesSector
<1>2. CASE \E o \in Outputs : WriteRecord(o) \/ FlushAndHash(o)
  BY <1>2 DEF WriteRecord, FlushAndHash, NextSector, WritesSector
<1>3. CASE pc' \notin {"fwrite", "fflush"}
  BY <1>3 DEF WritesSector
<1>4. CASE \E o \in Outputs : FreeSpace(o)
  BY <1>4 DEF FreeSpace, loop, WritesSector
<1>5. CASE UNCHANGED vars
  BY <1>5 DEF vars, WritesSector
<1>6. CASE (\E c \in Commands : Launch(c)) \/ Crash \/ PrepareStart \/ LeaveLoop
  <2>1. pc' \in {"set", "down", "open", "close"}
    BY <1>6 DEF Launch, Crash, PrepareStart, LeaveLoop
  <2> QED
    BY <1>3, <2>1
<1>7. ASSUME NEW o \in Outputs, SetOutputFile(o) \/ PrepareOutput(o) \/ Close(o)
      PROVE  WritesSector'
  <2>1. CASE SetOutputFile(o)
    BY <1>3, <2>1 DEF SetOutputFile
  <2>2. CASE PrepareOutput(o)
    BY <1>3, <2>2 DEF PrepareOutput, AfterOpen
  <2>3. CASE Close(o)
    BY <1>3, <2>3 DEF Close
  <2> QED
    BY <1>7, <2>1, <2>2, <2>3
<1> QED
  BY <1>1, <1>2, <1>4, <1>5, <1>6, <1>7 DEF Next, Step

LEMMA StepsCounted ==
  ASSUME TypeOK, WritesSector
  PROVE  /\ i \in Nat /\ opt.sectors_no \in Nat
         /\ SectorsLeft \in Nat /\ SectorsLeft <= opt.sectors_no
         /\ StepsLeft \in 0 .. 5 * opt.sectors_no + 8
         /\ pc = "read" => StepsLeft > 2
         /\ pc # "down" => StepsLeft > 0
<1>1. i \in Nat /\ opt.sectors_no \in Nat
  BY CommandsAssumption DEF TypeOK, CommandType
<1> DEFINE n == opt.sectors_no
           s == SectorsLeft
<1>2. s \in Nat /\ s <= n /\ (i < n => s >= 1)
  BY <1>1 DEF SectorsLeft
<1>3. \A k \in -1 .. 8 : 5 * n + k \in Int /\ (k >= 0 => 5 * n + k \in 0 .. 5 * n + 8)
  BY <1>1
<1>4. \A k \in 0 .. 3 : 5 * s + k \in 0 .. 5 * n + 8
  BY <1>1, <1>2
<1>5. s >= 1 => \A k \in -1 .. 3 : 5 * s + k \in 1 .. 5 * n + 8
  BY <1>1, <1>2
<1>6. pc \in PCs /\ cur \in Outputs
  BY DEF TypeOK
<1> HIDE DEF n, s
<1>7. CASE pc = "set" \/ pc = "prepare" \/ pc = "open"
  <2>1. \E k \in 4 .. 8 : StepsLeft = 5 * n + k
    BY <1>7 DEF StepsLeft, n
  <2>2. n \in Nat
    BY <1>1 DEF n
  <2> QED
    BY <1>1, <1>2, <1>3, <1>7, <2>1, <2>2 DEF n, s
<1>8. CASE pc = "read"
  <2>1. StepsLeft = 5 * s + 3
    BY <1>8 DEF StepsLeft, s
  <2> QED
    BY <1>1, <1>2, <1>4, <1>8, <2>1 DEF n, s
<1>9. CASE pc = "fwrite" \/ pc = "fflush"
  <2>1. \E k \in -1 .. 2 : StepsLeft = 5 * s + k
    BY <1>9 DEF StepsLeft, s
  <2>2. s >= 1
    BY <1>2, <1>9 DEF WritesSector, n
  <2>3. StepsLeft \in 1 .. 5 * n + 8
    BY <1>5, <2>1, <2>2
  <2> QED
    BY <1>1, <1>2, <1>9, <2>3 DEF n, s
<1>10. CASE pc = "close"
  <2>1. StepsLeft \in {1, 2}
    BY <1>10 DEF StepsLeft
  <2> QED
    BY <1>1, <1>2, <1>10, <2>1 DEF n, s
<1>11. CASE pc = "down"
  <2>1. StepsLeft = 0
    BY <1>11 DEF StepsLeft
  <2> QED
    BY <1>1, <1>2, <1>11, <2>1 DEF n, s
<1> QED
  BY <1>6, <1>7, <1>8, <1>9, <1>10, <1>11 DEF PCs

\* A step of the process comes nearer to its end.
LEMMA StepComesNearer ==
  ASSUME TypeOK, WritesSector, TypeOK', WritesSector', Step
  PROVE  StepsLeft' < StepsLeft
<1> DEFINE n == opt.sectors_no
           s == SectorsLeft
<1>1. /\ n \in Nat /\ s \in Nat /\ s <= n /\ i \in Nat
      /\ StepsLeft \in Nat /\ (pc # "down" => StepsLeft > 0)
  BY StepsCounted
<1>2. opt' = opt
  BY DEF Step, PrepareStart, ReadSector, LeaveLoop, SetOutputFile, PrepareOutput, WriteRecord,
         FlushAndHash, Close
<1>3. i' \in Nat
  BY DEF TypeOK
<1>4. SectorsLeft' \in Nat /\ SectorsLeft' <= n /\ (i' = i => SectorsLeft' = s)
      /\ (i' = i + 1 /\ i < n => SectorsLeft' = s - 1)
  BY <1>1, <1>2, <1>3 DEF SectorsLeft
<1>5. CASE pc' = "down"
  <2>1. pc # "down"
    BY DEF Step, PrepareStart, ReadSector, LeaveLoop, SetOutputFile, PrepareOutput,
           WriteRecord, FlushAndHash, Close
  <2>2. StepsLeft' = 0
    BY <1>5 DEF StepsLeft
  <2> QED
    BY <1>1, <2>1, <2>2
<1>6. /\ pc = "set" => StepsLeft = 5 * n + (IF cur = "raw" THEN 8 ELSE 7)
      /\ pc = "prepare" => StepsLeft = 5 * n + 6
      /\ pc = "open" => StepsLeft = 5 * n + (IF cur = "raw" THEN 5 ELSE 4)
      /\ pc = "read" => StepsLeft = 5 * s + 3
      /\ pc = "fwrite" => StepsLeft = 5 * s + (IF cur = "raw" THEN 2 ELSE 0)
      /\ pc = "fflush" => StepsLeft = 5 * s + (IF cur = "raw" THEN 1 ELSE -1)
      /\ pc = "close" => StepsLeft = IF cur = "raw" THEN 2 ELSE 1
  BY DEF StepsLeft
<1> DEFINE t == SectorsLeft'
<1>7. /\ pc' = "set" => StepsLeft' = 5 * n + (IF cur' = "raw" THEN 8 ELSE 7)
      /\ pc' = "prepare" => StepsLeft' = 5 * n + 6
      /\ pc' = "open" => StepsLeft' = 5 * n + (IF cur' = "raw" THEN 5 ELSE 4)
      /\ pc' = "read" => StepsLeft' = 5 * t + 3
      /\ pc' = "fwrite" => StepsLeft' = 5 * t + (IF cur' = "raw" THEN 2 ELSE 0)
      /\ pc' = "fflush" => StepsLeft' = 5 * t + (IF cur' = "raw" THEN 1 ELSE -1)
      /\ pc' = "close" => StepsLeft' = IF cur' = "raw" THEN 2 ELSE 1
  BY <1>2 DEF StepsLeft
<1>8. \A a \in Nat : \A b \in 0 .. a :
        5 * b + 3 < 5 * a + 4 /\ 5 * a + 3 > 2 /\ \A k, m \in -1 .. 8 :
          k < m => 5 * a + k < 5 * a + m
  OBVIOUS
<1>9. \A a \in Nat : 5 * (a - 1) + 3 < 5 * a - 1
  OBVIOUS
<1>10. n \in Nat /\ s \in Nat /\ t \in 0 .. n
  BY <1>1, <1>4
<1>11. i < n => t \in Nat
  BY <1>4
<1> HIDE DEF n, s, t
<1>12. ASSUME NEW o \in Outputs, SetOutputFile(o), pc' # "down" PROVE StepsLeft' < StepsLeft
  <2>1. /\ pc = "set" /\ cur = o
        /\ IF o = "raw" THEN pc' = "set" /\ cur' = "iso" ELSE pc' = "prepare"
    BY <1>12 DEF SetOutputFile
  <2> QED
    BY <1>6, <1>7, <1>8, <1>10, <2>1 DEF Outputs
<1>13. CASE PrepareStart
  <2>1. pc = "prepare" /\ pc' = "open" /\ cur' = "raw"
    BY <1>13 DEF PrepareStart
  <2> QED
    BY <1>6, <1>7, <1>8, <1>10, <2>1
<1>14. ASSUME NEW o \in Outputs, PrepareOutput(o), pc' # "down" PROVE StepsLeft' < StepsLeft
  <2>1. /\ pc = "open" /\ cur = o
        /\ IF o = "raw" THEN pc' = "open" /\ cur' = "iso" ELSE pc' = "read"
    BY <1>14 DEF PrepareOutput, AfterOpen
  <2> QED
    BY <1>6, <1>7, <1>8, <1>10, <2>1 DEF Outputs
<1>15. CASE ReadSector
  <2>1. pc = "read" /\ pc' = "fwrite" /\ cur' = "raw" /\ i' = i
    BY <1>15 DEF ReadSector
  <2>2. t = s
    BY <1>4, <2>1 DEF s, t
  <2> QED
    BY <1>6, <1>7, <1>8, <1>10, <2>1, <2>2
<1>16. ASSUME NEW o \in Outputs, WriteRecord(o) PROVE StepsLeft' < StepsLeft
  <2>1. pc = "fwrite" /\ cur = o /\ pc' = "fflush" /\ cur' = o /\ i' = i
    BY <1>16 DEF WriteRecord
  <2>2. t = s
    BY <1>4, <2>1 DEF s, t
  <2> QED
    BY <1>6, <1>7, <1>8, <1>10, <2>1, <2>2 DEF Outputs
<1>17. ASSUME NEW o \in Outputs, FlushAndHash(o) PROVE StepsLeft' < StepsLeft
  <2>1. /\ pc = "fflush" /\ cur = o
        /\ IF o = "raw" THEN pc' = "fwrite" /\ cur' = "iso" /\ i' = i
                        ELSE pc' = "read" /\ i' = i + 1
    BY <1>17 DEF FlushAndHash, NextSector
  <2>2. CASE o = "raw"
    <3>1. t = s
      BY <1>4, <2>1, <2>2 DEF s, t
    <3> QED
      BY <1>6, <1>7, <1>8, <1>10, <2>1, <2>2, <3>1
  <2>3. CASE o = "iso"
    <3>1. i < n
      BY <2>1 DEF WritesSector, n
    <3>2. t = s - 1
      BY <1>4, <2>1, <2>3, <3>1 DEF s, t, n
    <3>3. StepsLeft' = 5 * (s - 1) + 3 /\ StepsLeft = 5 * s + -1
      BY <1>6, <1>7, <2>1, <2>3, <3>2
    <3> QED
      BY <1>9, <1>10, <3>3
  <2> QED
    BY <2>2, <2>3 DEF Outputs
<1>18. CASE LeaveLoop
  <2>1. pc = "read" /\ pc' = "close" /\ cur' = "raw"
    BY <1>18 DEF LeaveLoop
  <2> QED
    BY <1>6, <1>7, <1>8, <1>10, <2>1
<1>19. ASSUME NEW o \in Outputs, Close(o), pc' # "down" PROVE StepsLeft' < StepsLeft
  <2>1. /\ pc = "close" /\ cur = o /\ o = "raw" /\ pc' = "close" /\ cur' = "iso"
    BY <1>19 DEF Close
  <2> QED
    BY <1>6, <1>7, <2>1
<1> QED
  BY <1>5, <1>12, <1>13, <1>14, <1>15, <1>16, <1>17, <1>18, <1>19 DEF Step

\* Nothing that users, the disk or a crash do takes a process away from its end.
LEMMA OthersDoNotDelay ==
  ASSUME TypeOK, WritesSector, TypeOK', WritesSector', [Next]_vars, ~Step, pc # "down"
  PROVE  StepsLeft' <= StepsLeft
<1>1. StepsLeft \in Nat
  BY StepsCounted
<1>2. CASE Crash
  <2>1. StepsLeft' = 0
    BY <1>2 DEF Crash, StepsLeft
  <2> QED
    BY <1>1, <2>1
<1>3. CASE UNCHANGED <<opt, pc, cur, i>>
  BY <1>1, <1>3 DEF StepsLeft, SectorsLeft
<1>4. ASSUME NEW o \in Outputs, FreeSpace(o) PROVE UNCHANGED <<opt, pc, cur, i>>
  BY <1>4 DEF FreeSpace, loop
<1> QED
  BY <1>2, <1>3, <1>4 DEF Next, Launch, vars

\* A process ends after at most 5 * sectors_no + 8 steps of its own, whatever fails; above
\* all, a sector that can neither be read nor written does not hold the loop.
THEOREM ProcessesAreFinite ==
  Spec => /\ [](StepsLeft \in 0 .. 5 * opt.sectors_no + 8)
          /\ [][/\ Step => StepsLeft' < StepsLeft
                /\ ~Step /\ pc # "down" => StepsLeft' <= StepsLeft]_vars
<1>1. Init => WritesSector
  BY DEF Init, WritesSector
<1>2. WritesSector /\ [Next]_vars => WritesSector'
  BY WritesSectorNext
<1>3. TypeOK /\ WritesSector => StepsLeft \in 0 .. 5 * opt.sectors_no + 8
  BY StepsCounted
<1>4. TypeOK /\ WritesSector /\ TypeOK' /\ WritesSector' /\ [Next]_vars =>
        [/\ Step => StepsLeft' < StepsLeft
         /\ ~Step /\ pc # "down" => StepsLeft' <= StepsLeft]_vars
  BY StepComesNearer, OthersDoNotDelay
<1> QED
  BY <1>1, <1>2, <1>3, <1>4, TypeCorrect, PTL DEF Spec

-----------------------------------------------------------------------------
\* The contents of the files.  What an output file holds, followed by what
\* stdio still holds of it, is the beginning of the disc, and on a stream that
\* never failed the two together end where the loop is.

\* s is what follows on the disc after f.
Follows(f, s) == \A j \in 1 .. Len(s) : s[j] = Len(f) + j - 1

\* Record i was offered to output o in this round of the loop.
Passed(o) ==
  \/ pc = "fflush" /\ cur = o
  \/ pc \in {"fwrite", "fflush"} /\ cur = "iso" /\ o = "raw"

Due(o) == IF Passed(o) THEN i + 1 ELSE i

LengthKnown(o) ==
  /\ pc \in {"read", "fwrite", "fflush"}
  /\ IF Passed(o) THEN data ELSE pc = "read" => out

FileFacts(o) ==
  /\ IsImage(file[o])
  /\ ~full[o] => Follows(file[o], buf[o])
  /\ pc \in {"down", "set", "prepare", "open"} => buf[o] = <<>>
  /\ pc = "close" /\ cur = "iso" /\ o = "raw" => buf[o] = <<>>
  /\ pc = "open" /\ cur = "iso" /\ o = "raw" /\ fp[o] => Len(file[o]) = 2 * start_sector
  /\ fp[o] /\ LengthKnown(o) /\ ~full[o] => Len(file[o]) + Len(buf[o]) = 2 * Due(o)
  /\ Passed(o) /\ fp[o] /\ out => data

FileInv == SetupInv /\ \A o \in Outputs : FileFacts(o)

\* Part of what follows on the disc extends an image.
LEMMA ImageExtended ==
  ASSUME NEW f \in Seq(Nat), NEW s \in Seq(Nat), NEW k \in 0 .. Len(s),
         IsImage(f), k # 0 => Follows(f, s)
  PROVE  IsImage(f \o SubSeq(s, 1, k))
<1> DEFINE t == SubSeq(s, 1, k)
<1>1. /\ t \in Seq(Nat) /\ Len(t) = k
      /\ \A j \in 1 .. k : t[j] = s[j]
  BY PrefixType
<1> HIDE DEF t
<1>2. /\ Len(f) \in Nat /\ Len(s) \in Nat /\ Len(f \o t) = Len(f) + k
      /\ \A j \in 1 .. Len(f) + k : (f \o t)[j] = IF j <= Len(f) THEN f[j] ELSE t[j - Len(f)]
  BY <1>1, ConcatType
<1>3. ASSUME NEW j \in 1 .. k PROVE t[j] = Len(f) + j - 1
  <2>1. k # 0 /\ j \in 1 .. Len(s)
    BY <1>2
  <2>2. s[j] = Len(f) + j - 1
    BY <2>1 DEF Follows
  <2> QED
    BY <1>1, <2>2
<1>4. ASSUME NEW j \in 1 .. Len(f) + k PROVE (f \o t)[j] = j - 1
  <2>1. CASE j <= Len(f)
    BY <1>2, <2>1 DEF IsImage
  <2>2. CASE ~(j <= Len(f))
    <3>1. j - Len(f) \in 1 .. k
      BY <1>2, <2>2
    <3> QED
      BY <1>2, <1>3, <2>2, <3>1
  <2> QED
    BY <2>1, <2>2
<1> QED
  BY <1>2, <1>4 DEF IsImage, t

\* The record that is due follows what the stream has.
LEMMA RecordFollows ==
  ASSUME NEW f \in Seq(Nat), NEW b \in Seq(Nat), NEW n \in Nat,
         Follows(f, b), Len(f) + Len(b) = 2 * n
  PROVE  Follows(f, b \o Record(n))
<1> DEFINE r == Record(n)
<1>1. r \in Seq(Nat) /\ Len(r) = 2 /\ r[1] = 2 * n /\ r[2] = 2 * n + 1
  BY RecordType
<1> HIDE DEF r
<1>2. /\ Len(f) \in Nat /\ Len(b) \in Nat /\ Len(b \o r) = Len(b) + 2
      /\ \A j \in 1 .. Len(b) + 2 : (b \o r)[j] = IF j <= Len(b) THEN b[j] ELSE r[j - Len(b)]
  <2>1. /\ Len(b) \in Nat /\ Len(b \o r) = Len(b) + Len(r)
        /\ \A j \in 1 .. Len(b) + Len(r) :
             (b \o r)[j] = IF j <= Len(b) THEN b[j] ELSE r[j - Len(b)]
    BY <1>1, ConcatType
  <2>2. Len(f) \in Nat
    BY LenProperties
  <2>3. Len(b) + Len(r) = Len(b) + 2
    BY <1>1
  <2> QED
    BY <2>1, <2>2, <2>3
<1>3. ASSUME NEW j \in 1 .. Len(b) + 2 PROVE (b \o r)[j] = Len(f) + j - 1
  <2>1. CASE j <= Len(b)
    BY <1>2, <2>1 DEF Follows
  <2>2. CASE j = Len(b) + 1
    <3>1. j - Len(b) = 1 /\ (b \o r)[j] = r[j - Len(b)]
      BY <1>2, <2>2
    <3> QED
      BY <1>1, <1>2, <2>2, <3>1
  <2>3. CASE j = Len(b) + 2
    <3>1. j - Len(b) = 2 /\ (b \o r)[j] = r[j - Len(b)]
      BY <1>2, <2>3
    <3> QED
      BY <1>1, <1>2, <2>3, <3>1
  <2>4. Len(b) \in Nat
    BY <1>2
  <2>5. j <= Len(b) \/ j = Len(b) + 1 \/ j = Len(b) + 2
    BY <2>4
  <2> QED
    BY <2>1, <2>2, <2>3, <2>5
<1> QED
  BY <1>2, <1>3 DEF Follows, r

\* After the kernel took the first c units, the rest follows.
LEMMA RestFollows ==
  ASSUME NEW f \in Seq(Nat), NEW s \in Seq(Nat), NEW c \in 0 .. Len(s),
         NEW g \in Seq(Nat), Len(g) = Len(f) + c, Follows(f, s)
  PROVE  /\ Follows(g, SubSeq(s, c + 1, Len(s)))
         /\ Len(SubSeq(s, c + 1, Len(s))) = Len(s) - c
<1> DEFINE t == SubSeq(s, c + 1, Len(s))
<1>1. Len(s) \in Nat /\ Len(f) \in Nat
  BY LenProperties
<1>2. \A j \in c + 1 .. Len(s) : s[j] \in Nat
  <2>1. \A j \in c + 1 .. Len(s) : j \in 1 .. Len(s)
    BY <1>1
  <2> QED
    BY <2>1, ElementOfSeq
<1>3. /\ Len(t) = IF c + 1 <= Len(s) THEN Len(s) - (c + 1) + 1 ELSE 0
      /\ \A j \in 1 .. Len(s) - (c + 1) + 1 : t[j] = s[(c + 1) + j - 1]
  BY <1>1, <1>2, SubSeqProperties
<1>4. Len(t) = Len(s) - c /\ \A j \in 1 .. Len(s) - c : t[j] = s[c + j]
  BY <1>1, <1>3
<1> HIDE DEF t
<1>5. \A j \in 1 .. Len(t) : c + j \in 1 .. Len(s)
  BY <1>1, <1>4
<1>6. \A j \in 1 .. Len(t) : t[j] = Len(g) + j - 1
  BY <1>1, <1>4, <1>5 DEF Follows
<1> QED
  BY <1>4, <1>6 DEF Follows, t

\* On a stream that never failed, what a write hands over follows the file.
LEMMA PendingFollows ==
  ASSUME FileInv, ~full[cur]
  PROVE  Follows(file[cur], Pending(cur))
<1>1. /\ TypeOK /\ cur \in Outputs /\ FileFacts(cur)
      /\ file[cur] \in Seq(Nat) /\ buf[cur] \in Seq(Nat) /\ i \in Nat
  BY DEF FileInv, SetupInv, TypeOK
<1>2. Follows(file[cur], buf[cur])
  BY <1>1 DEF FileFacts
<1>3. Follows(file[cur], <<>>)
  BY EmptySeq DEF Follows
<1>4. CASE pc = "fwrite" /\ fp[cur] /\ data /\ Len(buf[cur]) + 2 > BufCap
  <2>1. Len(file[cur]) + Len(buf[cur]) = 2 * i
    BY <1>1, <1>4 DEF FileFacts, LengthKnown, Due, Passed, Outputs
  <2>2. Follows(file[cur], buf[cur] \o Record(i))
    BY <1>1, <1>2, <2>1, RecordFollows
  <2>3. buf[cur] \o Record(i) \in Seq(Nat) /\ Len(buf[cur] \o Record(i)) = Len(buf[cur]) + 2
    BY <1>1, RecordType, ConcatType
  <2>4. BufCap \in 0 .. Len(buf[cur] \o Record(i))
    BY <1>1, <1>4, <2>3, LenProperties, SizesAssumption
  <2>5. \A j \in 1 .. BufCap : j \in 1 .. Len(buf[cur] \o Record(i))
    BY <2>4, <2>3, <1>1, LenProperties, SizesAssumption
  <2>6. Follows(file[cur], SubSeq(buf[cur] \o Record(i), 1, BufCap))
    BY <2>2, <2>3, <2>4, <2>5, PrefixType DEF Follows
  <2> QED
    BY <1>4, <2>6 DEF Pending
<1>5. CASE ~(pc = "fwrite" /\ fp[cur] /\ data /\ Len(buf[cur]) + 2 > BufCap)
  BY <1>2, <1>3, <1>5 DEF Pending
<1> QED
  BY <1>4, <1>5

\* What a write does to its file, whether the kernel takes all of it or not.
LEMMA KernelFacts ==
  ASSUME FileInv, NEW k \in 0 .. Len(Pending(cur)), full[cur] => k = 0,
         Accept(cur, Pending(cur), k)
  PROVE  /\ IsImage(file'[cur])
         /\ file' \in [Outputs -> Seq(Nat)]
         /\ Len(file'[cur]) = Len(file[cur]) + k
         /\ \A o \in Outputs \ {cur} : file'[o] = file[o]
<1>1. /\ TypeOK /\ cur \in Outputs /\ IsImage(file[cur]) /\ file[cur] \in Seq(Nat)
  BY DEF FileInv, SetupInv, FileFacts, TypeOK
<1>2. Pending(cur) \in Seq(Nat)
  BY <1>1, PendingType
<1>3. k # 0 => Follows(file[cur], Pending(cur))
  BY PendingFollows
<1>4. IsImage(file[cur] \o SubSeq(Pending(cur), 1, k))
  BY <1>1, <1>2, <1>3, ImageExtended
<1> QED
  BY <1>1, <1>2, <1>4, AcceptType

\* A write of the process itself: the stream stays good if all was taken.
LEMMA WriteFacts ==
  ASSUME FileInv, NEW k \in Takes(cur, Len(Pending(cur))),
         Accept(cur, Pending(cur), k), Fills(cur, Len(Pending(cur)), k)
  PROVE  /\ IsImage(file'[cur])
         /\ file' \in [Outputs -> Seq(Nat)]
         /\ k \in 0 .. Len(Pending(cur))
         /\ Len(file'[cur]) = Len(file[cur]) + k
         /\ \A o \in Outputs \ {cur} : file'[o] = file[o] /\ full'[o] = full[o]
         /\ ~full'[cur] => ~full[cur] /\ k = Len(Pending(cur))
<1>1. TypeOK /\ cur \in Outputs
  BY DEF FileInv, SetupInv, TypeOK
<1>2. Pending(cur) \in Seq(Nat) /\ Len(Pending(cur)) \in Nat
  BY <1>1, PendingType
<1>3. k \in 0 .. Len(Pending(cur)) /\ (full[cur] => k = 0)
  BY <1>1, <1>2, TakesType DEF Takes
<1>4. /\ \A o \in Outputs \ {cur} : full'[o] = full[o]
      /\ (full'[cur] <=> full[cur] \/ k < Len(Pending(cur)))
  BY <1>1 DEF Fills, TypeOK
<1>5. ~full'[cur] => ~full[cur] /\ k = Len(Pending(cur))
  BY <1>2, <1>3, <1>4
<1>6. full[cur] => k = 0
  BY <1>3
<1>7. /\ IsImage(file'[cur])
      /\ file' \in [Outputs -> Seq(Nat)]
      /\ Len(file'[cur]) = Len(file[cur]) + k
      /\ \A o \in Outputs \ {cur} : file'[o] = file[o]
  BY <1>3, <1>6, KernelFacts
<1> QED
  BY <1>3, <1>4, <1>5, <1>7

LEMMA FileInit == Init => FileInv
<1> SUFFICES ASSUME Init PROVE FileInv
  OBVIOUS
<1>1. SetupInv
  BY SetupInit
<1>2. IsImage(<<>>) /\ Follows(<<>>, <<>>)
  BY EmptySeq DEF IsImage, Follows
<1>3. \A o \in Outputs : FileFacts(o)
  BY <1>2 DEF Init, FileFacts, LengthKnown, Passed
<1> QED
  BY <1>1, <1>3 DEF FileInv

LEMMA FileQuietSteps ==
  ASSUME FileInv, NEW o \in Outputs,
         \/ \E c \in Commands : Launch(c)
         \/ \E p \in Outputs : SetOutputFile(p)
         \/ PrepareStart \/ ReadSector \/ LeaveLoop \/ UNCHANGED vars
  PROVE  FileFacts(o)'
<1>1. FileFacts(o) /\ Follows(file[o], <<>>) /\ Follows(file'[o], <<>>)
  BY EmptySeq DEF FileInv, Follows
<1>2. ASSUME NEW c \in Commands, Launch(c) PROVE FileFacts(o)'
  BY <1>1, <1>2 DEF Launch, disk, FileFacts, LengthKnown, Passed
<1>3. ASSUME NEW p \in Outputs, SetOutputFile(p) PROVE FileFacts(o)'
  BY <1>1, <1>3 DEF SetOutputFile, disk, loop, FileFacts, LengthKnown, Passed, Outputs
<1>4. CASE PrepareStart
  BY <1>1, <1>4 DEF PrepareStart, disk, loop, FileFacts, LengthKnown, Passed
<1>5. CASE ReadSector
  BY <1>1, <1>5 DEF ReadSector, InLoop, disk, struct, FileFacts, LengthKnown, Passed, Due
<1>6. CASE LeaveLoop
  BY <1>1, <1>6 DEF LeaveLoop, disk, struct, loop, FileFacts, LengthKnown, Passed
<1>7. CASE UNCHANGED vars
  BY <1>1, <1>7 DEF vars, FileFacts, LengthKnown, Passed, Due, Follows
<1> QED
  BY <1>2, <1>3, <1>4, <1>5, <1>6, <1>7

LEMMA FileFreeSpace ==
  ASSUME FileInv, WriteFaults # "transient", NEW o \in Outputs,
         NEW p \in Outputs, FreeSpace(p)
  PROVE  FileFacts(o)'
<1>1. FileFacts(o) /\ Follows(file[o], <<>>) /\ pc = "set"
  BY EmptySeq DEF FileInv, Follows, FreeSpace
<1> QED
  BY <1>1 DEF FreeSpace, struct, loop, FileFacts, LengthKnown, Passed, Follows

LEMMA FileCrash ==
  ASSUME FileInv, NEW o \in Outputs, Crash
  PROVE  FileFacts(o)'
<1>1. PICK k \in (IF full[cur] THEN {0} ELSE 0 .. Len(Pending(cur))) :
        Accept(cur, Pending(cur), k)
  BY DEF Crash
<1>2. TypeOK /\ cur \in Outputs
  BY DEF FileInv, SetupInv, TypeOK
<1>3. k \in 0 .. Len(Pending(cur)) /\ (full[cur] => k = 0)
  BY <1>1, <1>2, PendingType
<1>4. IsImage(file'[o])
  BY <1>1, <1>3, KernelFacts DEF FileInv, FileFacts
<1>5. Follows(file'[o], <<>>)
  BY EmptySeq DEF Follows
<1> QED
  BY <1>4, <1>5 DEF Crash, FileFacts, LengthKnown, Passed

LEMMA FilePrepareOutput ==
  ASSUME FileInv, NEW o \in Outputs, NEW p \in Outputs, PrepareOutput(p)
  PROVE  FileFacts(o)'
<1>1. /\ TypeOK /\ SetupFacts(p) /\ FileFacts(o) /\ FileFacts(p)
      /\ pc = "open" /\ cur = p /\ Unprepared(p)
  BY DEF FileInv, SetupInv, PrepareOutput, Unprepared, Outputs
<1>2. Follows(file'[o], <<>>) /\ buf'[o] = <<>> /\ ~Passed(o)'
  <2>1. Follows(file'[o], <<>>)
    BY EmptySeq DEF Follows
  <2>2. buf'[o] = <<>>
    BY <1>1 DEF PrepareOutput, FileFacts
  <2>3. pc' \in {"open", "read", "down"}
    BY <1>1 DEF PrepareOutput, AfterOpen
  <2> QED
    BY <2>1, <2>2, <2>3 DEF Passed
<1>3. CASE ~outfile[p]
  BY <1>1, <1>2, <1>3, EmptySeq
  DEF PrepareOutput, AfterOpen, FileFacts, LengthKnown, Due, TypeOK, Outputs
<1>4. CASE outfile[p]
  <2>1. 2 * start_sector \in 0 .. Len(file[p]) /\ file[p] \in Seq(Nat)
    BY <1>1, <1>4, LenProperties DEF TypeOK, SetupFacts
  <2>2. ~ReadBackFails(p)
    BY <2>1 DEF ReadBackFails
  <2>3. PICK ok \in BOOLEAN : Setup(p, ok) /\ AfterOpen(p, ok)
    BY <1>4, <2>2 DEF PrepareOutput
  <2>4. /\ IsImage(TruncatedTo(file[p], start_sector))
        /\ Len(TruncatedTo(file[p], start_sector)) = 2 * start_sector
    <3>1. IsImage(file[p]) /\ Len(file[p]) \in Nat
      BY <1>1, <2>1, LenProperties DEF FileFacts
    <3>2. Len(TruncatedTo(file[p], start_sector)) = 2 * start_sector
      BY <1>1, <2>1 DEF TruncatedTo, TypeOK
    <3>3. \A k \in 1 .. 2 * start_sector :
            TruncatedTo(file[p], start_sector)[k] = file[p][k] /\ k \in 1 .. Len(file[p])
      BY <1>1, <2>1, <3>1 DEF TruncatedTo, TypeOK
    <3> QED
      BY <3>1, <3>2, <3>3 DEF IsImage
  <2>5. /\ IsImage(file'[p]) /\ (fp'[p] => Len(file'[p]) = 2 * start_sector)
        /\ \A q \in Outputs \ {p} : file'[q] = file[q] /\ fp'[q] = fp[q]
    BY <1>1, <2>3, <2>4 DEF Setup, TypeOK, FileFacts
  <2>6. IsImage(file'[o])
    BY <1>1, <2>5 DEF FileFacts
  <2>7. UNCHANGED <<full, start_sector>> /\ Len(<<>>) = 0 /\ start_sector \in Nat
    BY <1>1, EmptySeq DEF PrepareOutput, TypeOK
  <2> QED
    BY <1>1, <1>2, <2>3, <2>5, <2>6, <2>7
    DEF AfterOpen, FileFacts, LengthKnown, Due, Outputs
<1> QED
  BY <1>3, <1>4

\* A record more on the stream.
LEMMA OneRecordMore ==
  ASSUME NEW f \in Nat, NEW b \in Nat, NEW n \in Nat, f + b = 2 * n
  PROVE  f + (b + 2) = 2 * n + 2
OBVIOUS

\* Units that leave the buffer for the file leave their sum as it is.
LEMMA UnitsMoved ==
  ASSUME NEW f \in Nat, NEW b \in Nat, NEW c \in Nat
  PROVE  (f + c) + ((b + 2) - c) = f + (b + 2)
OBVIOUS

LEMMA FileWriteRecord ==
  ASSUME FileInv, NEW o \in Outputs, NEW p \in Outputs, WriteRecord(p)
  PROVE  FileFacts(o)'
<1> DEFINE w == Pending(cur)
           all == buf[cur] \o Record(i)
<1>1. /\ TypeOK /\ FileFacts(o) /\ pc = "fwrite" /\ p = cur /\ ~Passed(cur)
      /\ pc' = "fflush" /\ UNCHANGED <<cur, fp, i, data>>
      /\ file[cur] \in Seq(Nat) /\ buf[cur] \in Seq(Nat) /\ i \in Nat
  BY DEF FileInv, SetupInv, TypeOK, WriteRecord, struct, Passed, Outputs
<1>2. PICK k \in Takes(cur, Len(w)) :
        /\ Accept(cur, w, k) /\ Fills(cur, Len(w), k)
        /\ buf' = [buf EXCEPT ![cur] = BufferAfter(cur, w, k)]
        /\ out' = IF fp[cur] THEN out /\ data /\ k = Len(w) ELSE out
  BY <1>1 DEF WriteRecord
<1>3. /\ IsImage(file'[cur])
      /\ k \in 0 .. Len(w)
      /\ Len(file'[cur]) = Len(file[cur]) + k
      /\ \A q \in Outputs \ {cur} : file'[q] = file[q] /\ full'[q] = full[q]
      /\ ~full'[cur] => ~full[cur] /\ k = Len(w)
      /\ file' \in [Outputs -> Seq(Nat)]
  BY <1>2, WriteFacts
<1>4. CASE o # cur
  <2>1. UNCHANGED <<file[o], buf[o], full[o]>> /\ (out' => out)
    BY <1>1, <1>2, <1>3, <1>4 DEF TypeOK
  <2>2. Passed(o)' <=> Passed(o)
    BY <1>1, <1>4 DEF Passed
  <2> QED
    BY <1>1, <2>1, <2>2 DEF FileFacts, LengthKnown, Due, Follows
<1>5. CASE o = cur
  <2>1. Passed(o)' /\ (fp[o] /\ out' => data)
    BY <1>1, <1>2, <1>5 DEF Passed
  <2>2. buf'[o] = BufferAfter(o, w, k)
    BY <1>1, <1>2, <1>5 DEF TypeOK
  <2>3. CASE full'[o]
    BY <1>1, <1>3, <1>5, <2>1, <2>3 DEF FileFacts
  <2>4. CASE ~full'[o] /\ ~(fp[o] /\ data)
    <3>1. w = <<>>
      BY <1>1, <1>5, <2>4 DEF Pending
    <3>2. k = 0 /\ Len(file'[o]) = Len(file[o]) /\ buf'[o] = buf[o] /\ ~full[o]
      BY <1>1, <1>3, <1>5, <2>2, <2>4, <3>1, EmptySeq, LenProperties DEF BufferAfter
    <3>3. Follows(file'[o], buf'[o])
      BY <1>1, <3>2 DEF FileFacts, Follows
    <3> QED
      BY <1>1, <1>3, <1>5, <2>1, <2>4, <3>3 DEF FileFacts, LengthKnown
  <2>5. CASE ~full'[o] /\ fp[o] /\ data
    <3>1. ~full[o] /\ k = Len(w) /\ Len(file[o]) + Len(buf[o]) = 2 * i
      BY <1>1, <1>3, <1>5, <2>5 DEF FileFacts, LengthKnown, Due
    <3>2. Follows(file[o], all) /\ all \in Seq(Nat) /\ Len(all) = Len(buf[o]) + 2
      <4>1. Follows(file[cur], buf[cur]) /\ Len(file[cur]) + Len(buf[cur]) = 2 * i
        BY <1>1, <1>5, <3>1 DEF FileFacts
      <4>2. Follows(file[cur], all)
        BY <1>1, <4>1, RecordFollows
      <4>3. all \in Seq(Nat) /\ Len(all) = Len(buf[cur]) + 2
        BY <1>1, RecordType, ConcatType
      <4> HIDE DEF all
      <4> QED
        BY <1>5, <4>2, <4>3
    <3>3. Follows(file'[o], buf'[o]) /\ Len(file'[o]) + Len(buf'[o]) = 2 * i + 2
      <4>1. Len(file[o]) \in Nat /\ Len(buf[o]) \in Nat
        BY <1>1, <1>5, LenProperties
      <4>2. CASE Len(buf[o]) + 2 > BufCap
        <5>1. w = SubSeq(all, 1, BufCap) /\ BufCap \in 0 .. Len(all)
          <6>1. pc = "fwrite" /\ fp[cur] /\ data /\ Len(buf[cur]) + 2 > BufCap
            BY <1>1, <1>5, <2>5, <4>2
          <6>2. w = SubSeq(all, 1, BufCap)
            BY <6>1 DEF Pending
          <6>3. BufCap \in 0 .. Len(all)
            <7> HIDE DEF all
            <7> QED
              BY <3>2, <4>1, <4>2, SizesAssumption
          <6> QED
            BY <6>2, <6>3
        <5>2. Len(w) = BufCap
          BY <3>2, <5>1, PrefixType
        <5>3. w # <<>>
          BY <5>2, EmptySeq, SizesAssumption
        <5>4. buf'[o] = SubSeq(all, BufCap + 1, Len(all))
          <6>1. ~(k < Len(w))
            BY <3>1, <5>2, SizesAssumption
          <6>2. fp[o] /\ data /\ w # <<>> /\ all = buf[o] \o Record(i)
            BY <1>5, <2>5, <5>3
          <6> HIDE DEF w
          <6> QED
            BY <2>2, <6>1, <6>2 DEF BufferAfter
        <5>5. file'[o] \in Seq(Nat) /\ file[o] \in Seq(Nat) /\ Len(file'[o]) = Len(file[o]) + BufCap
          BY <1>1, <1>3, <1>5, <3>1, <5>2
        <5>6. /\ Follows(file'[o], SubSeq(all, BufCap + 1, Len(all)))
              /\ Len(SubSeq(all, BufCap + 1, Len(all))) = Len(all) - BufCap
          BY <3>2, <5>1, <5>5, RestFollows
        <5> QED
          <6> HIDE DEF all, w
          <6>1. Len(buf'[o]) = (Len(buf[o]) + 2) - BufCap
            BY <3>2, <4>1, <5>4, <5>6, SizesAssumption
          <6>2. Len(file[o]) + Len(buf[o]) = 2 * i /\ i \in Nat
            BY <1>1, <3>1
          <6>3. Len(file'[o]) = Len(file[o]) + BufCap
            BY <5>5
          <6>4. Len(file'[o]) + Len(buf'[o]) = 2 * i + 2
            <7>1. BufCap \in Nat
              BY SizesAssumption
            <7>2. (Len(file[o]) + BufCap) + ((Len(buf[o]) + 2) - BufCap) = 2 * i + 2
              <8>1. Len(file[o]) + (Len(buf[o]) + 2) = 2 * i + 2
                BY <4>1, <6>2, OneRecordMore
              <8>2. (Len(file[o]) + BufCap) + ((Len(buf[o]) + 2) - BufCap)
                      = Len(file[o]) + (Len(buf[o]) + 2)
                BY <4>1, <7>1, UnitsMoved
              <8> QED
                BY <8>1, <8>2
            <7> QED
              BY <6>1, <6>3, <7>2
          <6> QED
            BY <5>4, <5>6, <6>4
      <4>3. CASE ~(Len(buf[o]) + 2 > BufCap)
        <5>1. w = <<>>
          BY <1>1, <1>5, <4>3 DEF Pending
        <5>2. Len(file'[o]) = Len(file[o]) /\ buf'[o] = all
          BY <1>3, <1>5, <2>2, <2>5, <3>1, <4>1, <5>1, EmptySeq DEF BufferAfter
        <5> QED
          <6> HIDE DEF all, w
          <6>1. Follows(file'[o], all)
            BY <3>2, <5>2 DEF Follows
          <6>2. Len(file'[o]) + Len(all) = 2 * i + 2
            <7>1. Len(file[o]) + Len(buf[o]) = 2 * i /\ i \in Nat
              BY <1>1, <3>1
            <7> QED
              <8>1. Len(file[o]) + (Len(buf[o]) + 2) = 2 * i + 2
                BY <4>1, <7>1, OneRecordMore
              <8> QED
                BY <3>2, <5>2, <8>1
          <6> QED
            BY <5>2, <6>1, <6>2
      <4> QED
        BY <4>2, <4>3
    <3> QED
      BY <1>1, <1>3, <1>5, <2>1, <2>5, <3>3 DEF FileFacts, LengthKnown, Due
  <2> QED
    BY <2>3, <2>4, <2>5
<1> QED
  BY <1>4, <1>5

LEMMA FileFlushAndHash ==
  ASSUME FileInv, NEW o \in Outputs, NEW p \in Outputs, FlushAndHash(p)
  PROVE  FileFacts(o)'
<1> DEFINE w == Pending(cur)
<1>1. /\ TypeOK /\ FileFacts(o) /\ pc = "fflush" /\ p = cur /\ Passed(cur)
      /\ UNCHANGED <<fp, data, out>>
      /\ file[cur] \in Seq(Nat) /\ buf[cur] \in Seq(Nat) /\ i \in Nat
  BY DEF FileInv, SetupInv, TypeOK, FlushAndHash, struct, Passed, Outputs
<1>2. PICK k \in Takes(cur, Len(w)) : Accept(cur, w, k) /\ Fills(cur, Len(w), k)
  BY <1>1 DEF FlushAndHash
<1>3. /\ IsImage(file'[cur])
      /\ k \in 0 .. Len(w)
      /\ Len(file'[cur]) = Len(file[cur]) + k
      /\ \A q \in Outputs \ {cur} : file'[q] = file[q] /\ full'[q] = full[q]
      /\ ~full'[cur] => ~full[cur] /\ k = Len(w)
  BY <1>2, WriteFacts
<1>4. /\ pc' = IF cur = "raw" THEN "fwrite" ELSE "read"
      /\ cur' = IF cur = "raw" THEN "iso" ELSE "raw"
      /\ i' = IF cur = "raw" THEN i ELSE i + 1
      /\ buf' = [buf EXCEPT ![cur] = IF Flushes(cur) THEN <<>> ELSE @]
  BY <1>1 DEF FlushAndHash, NextSector
<1>5. /\ fp[o] /\ LengthKnown(o)' => LengthKnown(o)
      /\ fp[o] /\ LengthKnown(o)' => Due(o)' = Due(o)
      /\ Passed(o)' => Passed(o)
  BY <1>1, <1>4 DEF FileFacts, LengthKnown, Passed, Due, Outputs
<1>6. CASE o # cur
  <2>1. UNCHANGED <<file[o], buf[o], full[o]>>
    BY <1>1, <1>3, <1>4, <1>6 DEF TypeOK
  <2> QED
    BY <1>1, <1>4, <1>5, <2>1 DEF FileFacts, Follows
<1>7. CASE o = cur
  <2>1. buf'[o] = IF Flushes(o) THEN <<>> ELSE buf[o]
    BY <1>1, <1>4, <1>7 DEF TypeOK
  <2>2. Len(<<>>) = 0 /\ Len(file[o]) \in Nat /\ Len(buf[o]) \in Nat
    BY <1>1, <1>7, EmptySeq, LenProperties
  <2>3. w = IF Flushes(o) THEN buf[o] ELSE <<>>
    BY <1>1, <1>7 DEF Pending
  <2>4. ~full'[o] => /\ Follows(file'[o], buf'[o])
                     /\ Len(file'[o]) + Len(buf'[o]) = Len(file[o]) + Len(buf[o])
    <3>1. SUFFICES ASSUME ~full'[o]
                   PROVE  /\ Follows(file'[o], buf'[o])
                          /\ Len(file'[o]) + Len(buf'[o]) = Len(file[o]) + Len(buf[o])
      OBVIOUS
    <3>2. k = Len(w) /\ Follows(file[o], buf[o]) /\ Len(file'[o]) = Len(file[o]) + k
      BY <1>1, <1>3, <1>7, <3>1 DEF FileFacts
    <3>3. CASE Flushes(o)
      BY <2>1, <2>2, <2>3, <3>2, <3>3 DEF Follows
    <3>4. CASE ~Flushes(o)
      <4>1. Len(file'[o]) = Len(file[o]) /\ buf'[o] = buf[o]
        BY <2>1, <2>2, <2>3, <3>2, <3>4
      <4> QED
        BY <3>2, <4>1 DEF Follows
    <3> QED
      BY <3>3, <3>4
  <2> QED
    BY <1>1, <1>3, <1>4, <1>5, <1>7, <2>4 DEF FileFacts
<1> QED
  BY <1>6, <1>7

LEMMA FileClose ==
  ASSUME FileInv, NEW o \in Outputs, NEW p \in Outputs, Close(p)
  PROVE  FileFacts(o)'
<1>1. /\ TypeOK /\ FileFacts(o) /\ pc = "close" /\ p = cur
      /\ pc' \in {"close", "down"} /\ cur' = (IF cur = "raw" THEN "iso" ELSE "raw")
      /\ (pc' = "down" <=> cur = "iso")
      /\ buf' = [buf EXCEPT ![cur] = <<>>]
  BY DEF FileInv, SetupInv, TypeOK, Close, Outputs
<1>2. PICK k \in Takes(cur, Len(Pending(cur))) :
        Accept(cur, Pending(cur), k) /\ Fills(cur, Len(Pending(cur)), k)
  BY <1>1 DEF Close
<1>3. /\ IsImage(file'[cur])
      /\ \A q \in Outputs \ {cur} : file'[q] = file[q] /\ full'[q] = full[q]
  BY <1>2, WriteFacts
<1>4. ~LengthKnown(o)' /\ ~Passed(o)' /\ Follows(file'[o], <<>>)
  BY <1>1, EmptySeq DEF LengthKnown, Passed, Follows
<1>5. CASE o # cur
  <2>1. UNCHANGED <<file[o], buf[o], full[o]>>
    BY <1>1, <1>3, <1>5 DEF TypeOK
  <2> QED
    BY <1>1, <1>4, <1>5, <2>1 DEF FileFacts, Follows, Outputs
<1>6. CASE o = cur
  BY <1>1, <1>3, <1>4, <1>6 DEF FileFacts, TypeOK
<1> QED
  BY <1>5, <1>6

LEMMA FileNext ==
  ASSUME FileInv, WriteFaults # "transient", [Next]_vars
  PROVE  FileInv'
<1>1. SetupInv'
  BY SetupNext DEF FileInv
<1>2. ASSUME NEW o \in Outputs PROVE FileFacts(o)'
  BY FileQuietSteps, FileFreeSpace, FileCrash, FilePrepareOutput, FileWriteRecord,
     FileFlushAndHash, FileClose DEF Next, Step
<1> QED
  BY <1>1, <1>2 DEF FileInv

\* Unless space is freed under a running process, whatever is killed, torn,
\* refused or resumed, an output file is the beginning of the disc
\* (FilesArePrefixes).
THEOREM PrefixCorrect ==
  ASSUME WriteFaults # "transient"
  PROVE  Spec => []FilesArePrefixes
<1>1. FileInv /\ [Next]_vars => FileInv'
  BY FileNext
<1>2. FileInv => FilesArePrefixes
  BY DEF FileInv, FileFacts, FilesArePrefixes
<1> QED
  BY <1>1, <1>2, FileInit, PTL DEF Spec

-----------------------------------------------------------------------------
\* What a report of success says.  Three facts are kept through the loop: the
\* outputs that were asked for are open, the hash of an open output has been
\* fed every sector the loop is past, and with flushing on nothing of those
\* sectors is left in a buffer.

InDump == pc \in {"read", "fwrite", "fflush", "close"}

\* The loop ended without an error.
Complete == verdict = "success" \/ (pc = "close" /\ out)

\* dumper_prepare returned with the value of its last output: the raw output
\* may be closed although it was asked for, the ISO output may not.
OpenFacts ==
  /\ pc \in {"set", "prepare"} \/ (pc = "open" /\ cur = "raw") => ~out
  /\ pc = "open" /\ cur = "iso" /\ out => fp["raw"]
  /\ InDump \/ verdict = "success" =>
       /\ "iso" \in opt.outs => fp["iso"]
       /\ "raw" \in opt.outs => fp["raw"] \/ fp["iso"]
  /\ Complete => opt.sectors_no <= i

HashKnown(o) ==
  \/ pc = "open" /\ cur = "iso" /\ o = "raw"
  \/ InDump /\ out
  \/ verdict = "success"

\* The sectors that the hash of o has been fed.
Fed(o) ==
  IF pc = "open" THEN start_sector
  ELSE IF pc \in {"fwrite", "fflush"} /\ cur = "iso" /\ o = "raw" THEN i + 1 ELSE i

DumpFacts(o) ==
  /\ fp[o] => o \in opt.outs
  /\ ~fp[o] => buf[o] = <<>>
  /\ opt.flushing =>
       IF pc = "fflush" /\ cur = o THEN Len(buf[o]) <= 2 ELSE buf[o] = <<>>
  /\ opt.hashing /\ fp[o] /\ HashKnown(o) =>
       IsImage(hash[o]) /\ Len(hash[o]) = 2 * Fed(o)
  /\ fp[o] /\ ~full[o] /\ Complete => Len(file[o]) + Len(buf[o]) = 2 * i

DumpInv == FileInv /\ OpenFacts /\ \A o \in Outputs : DumpFacts(o)

\* The types that the steps below need.
LEMMA DumpTypes ==
  ASSUME TypeOK
  PROVE  /\ opt.outs \subseteq Outputs /\ opt.outs # {} /\ opt.sectors_no \in Nat
         /\ i \in Nat /\ start_sector \in Nat /\ cur \in Outputs
         /\ \A o \in Outputs : /\ file[o] \in Seq(Nat) /\ Len(file[o]) \in Nat
                               /\ buf[o] \in Seq(Nat) /\ Len(buf[o]) \in Nat
                               /\ hash[o] \in Seq(Nat) /\ Len(hash[o]) \in Nat
<1>1. opt \in CommandType /\ opt.outs # {}
  BY CommandsAssumption DEF TypeOK
<1>2. opt.outs \subseteq Outputs /\ opt.sectors_no \in Nat
  BY <1>1 DEF CommandType
<1> QED
  BY <1>1, <1>2, LenProperties DEF TypeOK

LEMMA DumpInit == Init => DumpInv
<1> SUFFICES ASSUME Init PROVE DumpInv
  OBVIOUS
<1>1. FileInv
  BY FileInit
<1>2. OpenFacts /\ \A o \in Outputs : DumpFacts(o)
  BY DEF Init, OpenFacts, DumpFacts, HashKnown, InDump, Complete
<1> QED
  BY <1>1, <1>2 DEF DumpInv

\* Steps in which no stream is written to and no hash is fed.
LEMMA DumpQuietSteps ==
  ASSUME DumpInv,
         \/ \E c \in Commands : Launch(c)
         \/ \E p \in Outputs : SetOutputFile(p)
         \/ PrepareStart \/ ReadSector \/ UNCHANGED vars
  PROVE  OpenFacts' /\ \A o \in Outputs : DumpFacts(o)'
<1> SUFFICES ASSUME NEW o \in Outputs PROVE OpenFacts' /\ DumpFacts(o)'
  BY DEF Outputs
<1>1. OpenFacts /\ DumpFacts(o) /\ (pc # "down" => verdict = "none")
  BY DEF DumpInv, FileInv, SetupInv
<1>2. ASSUME NEW c \in Commands, Launch(c) PROVE OpenFacts' /\ DumpFacts(o)'
  BY <1>2 DEF Launch, disk, OpenFacts, DumpFacts, HashKnown, InDump, Complete
<1>3. ASSUME NEW p \in Outputs, SetOutputFile(p) PROVE OpenFacts' /\ DumpFacts(o)'
  BY <1>1, <1>3
  DEF SetOutputFile, disk, loop, OpenFacts, DumpFacts, HashKnown, InDump, Complete
<1>4. CASE PrepareStart
  BY <1>1, <1>4 DEF PrepareStart, disk, loop, OpenFacts, DumpFacts, HashKnown, InDump, Complete
<1>5. CASE ReadSector
  <2>1. /\ pc = "read" /\ pc' = "fwrite" /\ cur' = "raw" /\ out' = out /\ verdict' = verdict
        /\ i' = i /\ UNCHANGED <<file, full, opt, fp, buf, hash, start_sector>>
    BY <1>5 DEF ReadSector, disk, struct
  <2>2. ~Complete' /\ InDump /\ InDump'
    BY <1>1, <2>1 DEF Complete, InDump
  <2>3. OpenFacts'
    BY <1>1, <2>1, <2>2 DEF OpenFacts
  <2>4. (HashKnown(o)' => HashKnown(o)) /\ Fed(o)' = Fed(o)
    BY <2>1, <2>2 DEF HashKnown, Fed
  <2> QED
    BY <1>1, <2>1, <2>2, <2>3, <2>4 DEF DumpFacts
<1>6. CASE UNCHANGED vars
  BY <1>1, <1>6 DEF vars, OpenFacts, DumpFacts, HashKnown, InDump, Complete, Fed
<1> QED
  BY <1>2, <1>3, <1>4, <1>5, <1>6

LEMMA DumpFreeSpace ==
  ASSUME DumpInv, WriteFaults # "transient", NEW p \in Outputs, FreeSpace(p)
  PROVE  OpenFacts' /\ \A o \in Outputs : DumpFacts(o)'
<1>1. pc = "set" /\ verdict = "none" /\ OpenFacts /\ \A o \in Outputs : DumpFacts(o)
  BY DEF FreeSpace, DumpInv, FileInv, SetupInv
<1> QED
  BY <1>1 DEF FreeSpace, struct, loop, OpenFacts, DumpFacts, HashKnown, InDump, Complete

LEMMA DumpCrash ==
  ASSUME DumpInv, Crash
  PROVE  OpenFacts' /\ \A o \in Outputs : DumpFacts(o)'
<1>1. \A o \in Outputs : DumpFacts(o)
  BY DEF DumpInv
<1> QED
  BY <1>1 DEF Crash, struct, loop, OpenFacts, DumpFacts, HashKnown, InDump, Complete

LEMMA DumpLeaveLoop ==
  ASSUME DumpInv, LeaveLoop
  PROVE  OpenFacts' /\ \A o \in Outputs : DumpFacts(o)'
<1>1. /\ pc = "read" /\ ~InLoop /\ pc' = "close" /\ cur' = "raw" /\ verdict = "none"
      /\ UNCHANGED <<file, full, opt, fp, buf, hash, start_sector, i, out, verdict>>
  BY DEF LeaveLoop, disk, struct, loop, DumpInv, FileInv, SetupInv
<1>2. OpenFacts /\ InDump /\ InDump' /\ i \in Nat /\ opt.sectors_no \in Nat
  BY <1>1, DumpTypes DEF DumpInv, FileInv, SetupInv, InDump
<1>3. Complete' => out
  BY <1>1 DEF Complete
<1>4. Complete' => opt.sectors_no <= i
  BY <1>1, <1>2, <1>3 DEF InLoop
<1>5. OpenFacts'
  BY <1>1, <1>2, <1>4 DEF OpenFacts
<1>6. ASSUME NEW o \in Outputs PROVE DumpFacts(o)'
  <2>1. DumpFacts(o) /\ FileFacts(o)
    BY DEF DumpInv, FileInv
  <2>2. (HashKnown(o)' => HashKnown(o)) /\ Fed(o)' = Fed(o)
    BY <1>1 DEF HashKnown, InDump, Fed
  <2>3. fp[o] /\ ~full[o] /\ out => Len(file[o]) + Len(buf[o]) = 2 * i
    BY <1>1, <2>1 DEF FileFacts, LengthKnown, Due, Passed
  <2> QED
    BY <1>1, <1>3, <2>1, <2>2, <2>3 DEF DumpFacts
<1> QED
  BY <1>5, <1>6

\* The hash of what dumper_prepare keeps of a file is the hash of that part of
\* the disc.
LEMMA KeptPart ==
  ASSUME NEW s \in Seq(Nat), IsImage(s), NEW n \in Nat, 2 * n <= Len(s)
  PROVE  /\ TruncatedTo(s, n) \in Seq(Nat)
         /\ IsImage(TruncatedTo(s, n))
         /\ Len(TruncatedTo(s, n)) = 2 * n
         /\ \A k \in 1 .. 2 * n : TruncatedTo(s, n)[k] = s[k]
<1>1. Len(s) \in Nat /\ 2 * n \in Nat
  BY LenProperties
<1>2. \A k \in 1 .. 2 * n : k <= Len(s) /\ k \in 1 .. Len(s) /\ s[k] \in Nat
  <2>1. \A k \in 1 .. 2 * n : k <= Len(s) /\ k \in 1 .. Len(s)
    BY <1>1
  <2> QED
    BY <2>1, ElementOfSeq
<1>3. TruncatedTo(s, n) = [k \in 1 .. 2 * n |-> s[k]]
  BY <1>2 DEF TruncatedTo
<1>4. Len(TruncatedTo(s, n)) = 2 * n /\ TruncatedTo(s, n) \in Seq(Nat)
  BY <1>1, <1>2, <1>3
<1>5. \A k \in 1 .. 2 * n : TruncatedTo(s, n)[k] = s[k]
  BY <1>3
<1>6. IsImage(TruncatedTo(s, n))
  BY <1>2, <1>4, <1>5 DEF IsImage
<1> QED
  BY <1>4, <1>5, <1>6

LEMMA DumpPrepareOutput ==
  ASSUME DumpInv, NEW p \in Outputs, PrepareOutput(p)
  PROVE  OpenFacts' /\ \A o \in Outputs : DumpFacts(o)'
<1>1. /\ TypeOK /\ SetupFacts(p) /\ FileFacts(p) /\ OpenFacts
      /\ pc = "open" /\ cur = p /\ Unprepared(p) /\ verdict = "none"
      /\ ~Complete /\ ~InDump
  BY DEF DumpInv, FileInv, SetupInv, PrepareOutput, Unprepared, Complete, InDump, Outputs
<1>2. /\ UNCHANGED <<opt, buf, start_sector, full>>
      /\ pc' \in {"open", "read", "down"}
      /\ verdict' \in {"none", "failed"}
  <2>1. outfile[p] => ~ReadBackFails(p)
    BY <1>1, LenProperties DEF SetupFacts, ReadBackFails, TypeOK
  <2>2. UNCHANGED <<opt, buf, start_sector, full>>
    BY DEF PrepareOutput
  <2>3. \E ok \in BOOLEAN : AfterOpen(p, ok)
    BY <1>1, <2>1 DEF PrepareOutput, TypeOK
  <2>4. PICK ok \in BOOLEAN : AfterOpen(p, ok)
    BY <2>3
  <2>5. pc' \in {"open", "read", "down"} /\ verdict' \in {"none", "failed"}
    BY <1>1, <2>4 DEF AfterOpen
  <2> QED
    BY <2>2, <2>5
<1>3. ~Complete' /\ opt' = opt
  BY <1>2 DEF Complete
<1>4. CASE ~outfile[p]
  <2>1. /\ AfterOpen(p, out) /\ fp' = [fp EXCEPT ![p] = FALSE] /\ UNCHANGED <<file, hash, out>>
        /\ ~fp[p] /\ p \notin opt.outs
    BY <1>1, <1>4 DEF PrepareOutput, SetupFacts, Chosen
  <2>2. fp' = fp
    BY <1>1, <2>1 DEF TypeOK
  <2>3. OpenFacts'
    BY <1>1, <1>2, <1>3, <2>1, <2>2, DumpTypes DEF AfterOpen, OpenFacts, InDump, Outputs
  <2>4. ASSUME NEW o \in Outputs PROVE DumpFacts(o)'
    <3>1. DumpFacts(o) /\ buf[o] = <<>> /\ FileFacts(o)
      BY <1>1 DEF DumpInv, FileInv, FileFacts
    <3>2. fp[o] /\ HashKnown(o)' => HashKnown(o)
      BY <1>1, <1>2, <2>1 DEF HashKnown, AfterOpen, InDump, Outputs
    <3>3. fp[o] /\ HashKnown(o)' => Fed(o)' = start_sector /\ Fed(o) = start_sector
      BY <1>1, <1>2, <2>1 DEF HashKnown, AfterOpen, InDump, Fed, Outputs
    <3> QED
      BY <1>2, <1>3, <2>1, <2>2, <3>1, <3>2, <3>3, EmptySeq DEF DumpFacts
  <2> QED
    BY <2>3, <2>4
<1>5. CASE outfile[p]
  <2>1. /\ 2 * start_sector <= Len(file[p]) /\ file[p] \in Seq(Nat) /\ start_sector \in Nat
        /\ IsImage(file[p]) /\ p \in opt.outs
    BY <1>1, <1>5, LenProperties DEF TypeOK, SetupFacts, FileFacts, Chosen
  <2>2. ~ReadBackFails(p)
    BY <2>1, LenProperties DEF ReadBackFails
  <2>3. PICK ok \in BOOLEAN : Setup(p, ok) /\ AfterOpen(p, ok)
    BY <1>5, <2>2 DEF PrepareOutput
  <2>4. /\ fp' = [fp EXCEPT ![p] = ok] /\ out' = ok
        /\ hash' = [hash EXCEPT ![p] = KeptHash(p)]
    BY <2>3 DEF Setup
  <2>5. /\ fp'[p] = ok
        /\ \A o \in Outputs \ {p} : fp'[o] = fp[o] /\ hash'[o] = hash[o]
        /\ opt.hashing => IsImage(hash'[p]) /\ Len(hash'[p]) = 2 * start_sector
    <3>1. opt.hashing => KeptHash(p) = TruncatedTo(file[p], start_sector)
      BY DEF KeptHash
    <3>2. /\ IsImage(TruncatedTo(file[p], start_sector))
          /\ Len(TruncatedTo(file[p], start_sector)) = 2 * start_sector
      BY <2>1, KeptPart
    <3> QED
      BY <1>1, <2>4, <3>1, <3>2 DEF TypeOK
  <2>6. OpenFacts'
    BY <1>1, <1>2, <1>3, <2>3, <2>4, <2>5, DumpTypes DEF AfterOpen, OpenFacts, InDump, Outputs
  <2>7. ASSUME NEW o \in Outputs PROVE DumpFacts(o)'
    <3>1. DumpFacts(o) /\ buf[o] = <<>> /\ FileFacts(o)
      BY <1>1 DEF DumpInv, FileInv, FileFacts
    <3>2. HashKnown(o)' => Fed(o)' = start_sector
      BY <1>1, <1>2, <2>3 DEF HashKnown, AfterOpen, InDump, Fed, Outputs
    <3>3. fp'[o] => o \in opt.outs
      BY <2>1, <2>5, <3>1 DEF DumpFacts
    <3>4. opt.hashing /\ fp'[o] /\ HashKnown(o)' =>
            IsImage(hash'[o]) /\ Len(hash'[o]) = 2 * start_sector
      <4>1. CASE o = p
        BY <2>5, <4>1
      <4>2. CASE o # p
        <5>1. HashKnown(o)' /\ fp'[o] => HashKnown(o) /\ Fed(o) = start_sector /\ fp[o]
          BY <1>1, <1>2, <2>3, <2>5, <4>2 DEF HashKnown, AfterOpen, InDump, Fed, Outputs, Unprepared, SetupFacts
        <5> QED
          BY <2>5, <3>1, <4>2, <5>1 DEF DumpFacts
      <4> QED
        BY <4>1, <4>2
    <3> QED
      BY <1>2, <1>3, <3>1, <3>2, <3>3, <3>4, EmptySeq DEF DumpFacts
  <2> QED
    BY <2>6, <2>7
<1> QED
  BY <1>4, <1>5

LEMMA DumpWriteRecord ==
  ASSUME DumpInv, NEW p \in Outputs, WriteRecord(p)
  PROVE  OpenFacts' /\ \A o \in Outputs : DumpFacts(o)'
<1>1. /\ TypeOK /\ OpenFacts /\ pc = "fwrite" /\ cur = p /\ verdict = "none"
      /\ pc' = "fflush" /\ UNCHANGED <<opt, cur, fp, hash, i, data, verdict, start_sector>>
  BY DEF DumpInv, FileInv, SetupInv, WriteRecord, struct
<1>2. PICK k \in Takes(p, Len(Pending(p))) :
        /\ buf' = [buf EXCEPT ![p] = BufferAfter(p, Pending(p), k)]
        /\ out' = IF fp[p] THEN out /\ data /\ k = Len(Pending(p)) ELSE out
  BY DEF WriteRecord
<1>3. ~Complete /\ ~Complete' /\ InDump /\ InDump' /\ (out' => out)
  BY <1>1, <1>2 DEF Complete, InDump
<1>4. OpenFacts'
  BY <1>1, <1>3 DEF OpenFacts
<1>5. ASSUME NEW o \in Outputs PROVE DumpFacts(o)'
  <2>1. DumpFacts(o)
    BY DEF DumpInv
  <2>2. (HashKnown(o)' => HashKnown(o)) /\ Fed(o)' = Fed(o)
    BY <1>1, <1>3 DEF HashKnown, Fed
  <2>3. /\ ~fp'[o] => buf'[o] = <<>>
        /\ opt.flushing => IF cur = o THEN Len(buf'[o]) <= 2 ELSE buf'[o] = <<>>
    <3>1. CASE o # p
      BY <1>1, <1>2, <2>1, <3>1 DEF DumpFacts, TypeOK
    <3>2. CASE o = p
      <4>1. buf'[o] = BufferAfter(p, Pending(p), k)
        BY <1>1, <1>2, <3>2 DEF TypeOK
      <4>2. CASE ~fp[p] \/ ~data
        BY <1>1, <2>1, <3>2, <4>1, <4>2, EmptySeq DEF BufferAfter, DumpFacts
      <4>3. CASE fp[p] /\ data /\ opt.flushing
        <5>1. buf[p] = <<>> /\ Len(buf[p]) = 0
          BY <1>1, <2>1, <3>2, <4>3, EmptySeq DEF DumpFacts
        <5>2. Pending(p) = <<>>
          BY <1>1, <5>1, SizesAssumption DEF Pending
        <5>3. buf'[o] = buf[p] \o Record(i)
          BY <4>1, <4>3, <5>2 DEF BufferAfter
        <5>4. Len(buf[p] \o Record(i)) = 2
          BY <1>1, <5>1, DumpTypes, RecordType, ConcatLen
        <5> QED
          BY <1>1, <3>2, <4>3, <5>3, <5>4
      <4>4. CASE fp[p] /\ data /\ ~opt.flushing
        BY <1>1, <3>2, <4>4
      <4> QED
        BY <4>2, <4>3, <4>4
    <3> QED
      BY <3>1, <3>2
  <2> QED
    BY <1>1, <1>3, <2>1, <2>2, <2>3 DEF DumpFacts
<1> QED
  BY <1>4, <1>5

\* A hash that was fed n sectors is fed the next one.
LEMMA HashFed ==
  ASSUME NEW h \in Seq(Nat), NEW n \in Nat, IsImage(h), Len(h) = 2 * n
  PROVE  IsImage(h \o Record(n)) /\ Len(h \o Record(n)) = 2 * (n + 1)
<1> DEFINE r == Record(n)
<1>1. r \in Seq(Nat) /\ Len(r) = 2 /\ r[1] = 2 * n /\ r[2] = 2 * n + 1
  BY RecordType
<1> HIDE DEF r
<1>2. /\ Len(h \o r) = 2 * n + 2
      /\ \A j \in 1 .. 2 * n + 2 : (h \o r)[j] = IF j <= 2 * n THEN h[j] ELSE r[j - 2 * n]
  <2>1. /\ Len(h \o r) = Len(h) + Len(r)
        /\ \A j \in 1 .. Len(h) + Len(r) :
             (h \o r)[j] = IF j <= Len(h) THEN h[j] ELSE r[j - Len(h)]
    BY <1>1, ConcatType
  <2> QED
    BY <1>1, <2>1
<1>3. ASSUME NEW j \in 1 .. 2 * n + 2 PROVE (h \o r)[j] = j - 1
  <2>1. CASE j <= 2 * n
    BY <1>2, <2>1 DEF IsImage
  <2>2. CASE j = 2 * n + 1
    <3>1. j - 2 * n = 1 /\ (h \o r)[j] = r[j - 2 * n]
      BY <1>2, <2>2
    <3> QED
      BY <1>1, <2>2, <3>1
  <2>3. CASE j = 2 * n + 2
    <3>1. j - 2 * n = 2 /\ (h \o r)[j] = r[j - 2 * n]
      BY <1>2, <2>3
    <3> QED
      BY <1>1, <2>3, <3>1
  <2>4. j <= 2 * n \/ j = 2 * n + 1 \/ j = 2 * n + 2
    OBVIOUS
  <2> QED
    BY <2>1, <2>2, <2>3, <2>4
<1> QED
  BY <1>2, <1>3 DEF IsImage, r

LEMMA DumpFlushAndHash ==
  ASSUME DumpInv, NEW p \in Outputs, FlushAndHash(p)
  PROVE  OpenFacts' /\ \A o \in Outputs : DumpFacts(o)'
<1>1. /\ TypeOK /\ OpenFacts /\ pc = "fflush" /\ cur = p /\ verdict = "none"
      /\ UNCHANGED <<opt, fp, out, verdict, start_sector>>
      /\ pc' = IF p = "raw" THEN "fwrite" ELSE "read"
      /\ cur' = IF p = "raw" THEN "iso" ELSE "raw"
      /\ i' = IF p = "raw" THEN i ELSE i + 1
      /\ buf' = [buf EXCEPT ![p] = IF Flushes(p) THEN <<>> ELSE @]
      /\ hash' = [hash EXCEPT ![p] = IF fp[p] /\ opt.hashing /\ out
                                     THEN @ \o Record(i) ELSE @]
  BY DEF DumpInv, FileInv, SetupInv, FlushAndHash, struct, NextSector
<1>2. ~Complete /\ ~Complete' /\ InDump /\ InDump'
  BY <1>1 DEF Complete, InDump
<1>3. OpenFacts'
  BY <1>1, <1>2 DEF OpenFacts
<1>4. ASSUME NEW o \in Outputs PROVE DumpFacts(o)'
  <2>1. DumpFacts(o)
    BY DEF DumpInv
  <2>2. /\ ~fp'[o] => buf'[o] = <<>>
        /\ opt.flushing => buf'[o] = <<>>
    <3>1. CASE o # p
      BY <1>1, <2>1, <3>1 DEF DumpFacts, TypeOK
    <3>2. CASE o = p
      BY <1>1, <2>1, <3>2 DEF DumpFacts, TypeOK, Flushes
    <3> QED
      BY <3>1, <3>2
  <2>3. opt.hashing /\ fp[o] /\ out => IsImage(hash'[o]) /\ Len(hash'[o]) = 2 * Fed(o)'
    <3> SUFFICES ASSUME opt.hashing, fp[o], out
                 PROVE  IsImage(hash'[o]) /\ Len(hash'[o]) = 2 * Fed(o)'
      OBVIOUS
    <3>1. IsImage(hash[o]) /\ Len(hash[o]) = 2 * Fed(o) /\ hash[o] \in Seq(Nat) /\ i \in Nat
      BY <1>1, <1>2, <2>1, DumpTypes DEF DumpFacts, HashKnown
    <3>2. CASE o # p
      <4>1. hash'[o] = hash[o] /\ Fed(o)' = Fed(o)
        BY <1>1, <3>2 DEF Fed, TypeOK, Outputs
      <4> QED
        BY <3>1, <4>1
    <3>3. CASE o = p
      <4>1. hash'[o] = hash[o] \o Record(i) /\ Fed(o) = i /\ Fed(o)' = i + 1
        BY <1>1, <3>3 DEF Fed, TypeOK, Outputs
      <4> QED
        BY <3>1, <4>1, HashFed
    <3> QED
      BY <3>2, <3>3
  <2>4. HashKnown(o)' => out
    BY <1>1 DEF HashKnown
  <2>5. ~(pc' = "fflush")
    BY <1>1
  <2> QED
    BY <1>1, <1>2, <2>1, <2>2, <2>3, <2>4, <2>5 DEF DumpFacts
<1> QED
  BY <1>3, <1>4

LEMMA DumpClose ==
  ASSUME DumpInv, NEW p \in Outputs, Close(p)
  PROVE  OpenFacts' /\ \A o \in Outputs : DumpFacts(o)'
<1>1. /\ TypeOK /\ OpenFacts /\ pc = "close" /\ cur = p /\ verdict = "none"
      /\ UNCHANGED <<opt, fp, hash, out, i, start_sector>>
      /\ pc' = IF p = "raw" THEN "close" ELSE "down"
      /\ cur' = IF p = "raw" THEN "iso" ELSE "raw"
      /\ verdict' = IF p = "raw" THEN verdict ELSE IF out THEN "success" ELSE "failed"
      /\ buf' = [buf EXCEPT ![p] = <<>>]
  BY DEF DumpInv, FileInv, SetupInv, Close, struct, loop
<1>2. PICK k \in Takes(cur, Len(Pending(cur))) :
        Accept(cur, Pending(cur), k) /\ Fills(cur, Len(Pending(cur)), k)
  BY <1>1 DEF Close
<1>3. /\ k \in 0 .. Len(Pending(cur))
      /\ Len(file'[cur]) = Len(file[cur]) + k
      /\ \A q \in Outputs \ {cur} : file'[q] = file[q] /\ full'[q] = full[q]
      /\ ~full'[cur] => ~full[cur] /\ k = Len(Pending(cur))
  BY <1>2, WriteFacts DEF DumpInv
<1>4. InDump /\ (Complete' => Complete /\ out)
  BY <1>1 DEF InDump, Complete
<1>5. OpenFacts'
  BY <1>1, <1>4 DEF OpenFacts
<1>6. ASSUME NEW o \in Outputs PROVE DumpFacts(o)'
  <2>1. DumpFacts(o)
    BY DEF DumpInv
  <2>2. (~fp'[o] => buf'[o] = <<>>) /\ (opt.flushing => buf'[o] = <<>>)
    <3>1. CASE o # p
      BY <1>1, <2>1, <3>1 DEF DumpFacts, TypeOK
    <3>2. CASE o = p
      BY <1>1, <3>2 DEF TypeOK
    <3> QED
      BY <3>1, <3>2
  <2>3. (HashKnown(o)' => HashKnown(o)) /\ Fed(o)' = Fed(o)
    BY <1>1, <1>4 DEF HashKnown, InDump, Fed
  <2>4. fp[o] /\ ~full'[o] /\ Complete' => Len(file'[o]) + Len(buf'[o]) = 2 * i
    <3> SUFFICES ASSUME fp[o], ~full'[o], Complete'
                 PROVE  Len(file'[o]) + Len(buf'[o]) = 2 * i
      OBVIOUS
    <3>1. CASE o # p
      <4>1. UNCHANGED <<file[o], full[o], buf[o]>>
        BY <1>1, <1>3, <3>1 DEF TypeOK
      <4> QED
        BY <1>4, <2>1, <4>1 DEF DumpFacts
    <3>2. CASE o = p
      <4>1. Pending(o) = buf[o] /\ buf'[o] = <<>> /\ Len(<<>>) = 0
        BY <1>1, <3>2, EmptySeq DEF Pending, TypeOK
      <4>2. ~full[o] /\ Len(file'[o]) = Len(file[o]) + Len(buf[o])
        BY <1>1, <1>3, <3>2, <4>1
      <4>3. Len(file[o]) + Len(buf[o]) = 2 * i /\ Len(file[o]) \in Nat /\ Len(buf[o]) \in Nat
        BY <1>1, <1>4, <2>1, <4>2, DumpTypes DEF DumpFacts
      <4>4. Len(file'[o]) = 2 * i
        BY <4>2, <4>3
      <4>5. Len(buf'[o]) = 0
        BY <4>1
      <4>6. i \in Nat
        BY <1>1, DumpTypes
      <4> QED
        BY <4>4, <4>5, <4>6
    <3> QED
      BY <3>1, <3>2
  <2>5. ~(pc' = "fflush") /\ opt' = opt /\ fp' = fp /\ hash' = hash /\ i' = i
    BY <1>1
  <2> QED
    BY <2>1, <2>2, <2>3, <2>4, <2>5 DEF DumpFacts
<1> QED
  BY <1>5, <1>6

LEMMA DumpNext ==
  ASSUME DumpInv, WriteFaults # "transient", [Next]_vars
  PROVE  DumpInv'
<1>1. FileInv'
  BY FileNext DEF DumpInv
<1>2. OpenFacts' /\ \A o \in Outputs : DumpFacts(o)'
  BY DumpQuietSteps, DumpFreeSpace, DumpCrash, DumpLeaveLoop, DumpPrepareOutput,
     DumpWriteRecord, DumpFlushAndHash, DumpClose DEF Next, Step
<1> QED
  BY <1>1, <1>2 DEF DumpInv

LEMMA DumpCorrect ==
  ASSUME WriteFaults # "transient"
  PROVE  Spec => []DumpInv
<1>1. DumpInv /\ [Next]_vars => DumpInv'
  BY DumpNext
<1> QED
  BY <1>1, DumpInit, PTL DEF Spec

\* Two images of one length are one sequence.
LEMMA ImagesEqual ==
  ASSUME NEW s \in Seq(Nat), NEW t \in Seq(Nat), IsImage(s), IsImage(t), Len(s) = Len(t)
  PROVE  s = t
<1>1. \A k \in 1 .. Len(s) : s[k] = t[k]
  BY DEF IsImage
<1> QED
  BY <1>1, SeqEqual

\* What the loop leaves when it ends without an error and the streams are
\* closed: an open output whose writes all succeeded holds exactly the sectors
\* that its hash was fed, which are all the sectors of the disc.
LEMMA CompleteOutput ==
  ASSUME DumpInv, verdict = "success", NEW o \in Outputs, fp[o]
  PROVE  /\ opt.hashing => IsImage(hash[o]) /\ Len(hash[o]) >= 2 * opt.sectors_no
         /\ ~full[o] => /\ Len(file[o]) >= 2 * opt.sectors_no
                        /\ IsImage(file[o])
                        /\ opt.hashing => hash[o] = file[o]
<1>1. /\ TypeOK /\ pc = "down" /\ FileFacts(o) /\ OpenFacts /\ DumpFacts(o)
  BY DEF DumpInv, FileInv, SetupInv
<1>2. /\ Complete /\ HashKnown(o) /\ Fed(o) = i /\ opt.sectors_no <= i
      /\ i \in Nat /\ opt.sectors_no \in Nat
  BY <1>1, DumpTypes DEF Complete, HashKnown, Fed, OpenFacts
<1>3. opt.hashing => IsImage(hash[o]) /\ Len(hash[o]) = 2 * i
  BY <1>1, <1>2 DEF DumpFacts
<1>4. buf[o] = <<>> /\ IsImage(file[o]) /\ Len(file[o]) \in Nat
  BY <1>1, DumpTypes DEF FileFacts
<1>5. ~full[o] => Len(file[o]) = 2 * i
  <2>1. ~full[o] => Len(file[o]) + Len(buf[o]) = 2 * i
    BY <1>1, <1>2 DEF DumpFacts
  <2> QED
    BY <1>2, <1>4, <2>1, EmptySeq
<1>6. opt.hashing /\ ~full[o] => hash[o] = file[o]
  BY <1>1, <1>3, <1>4, <1>5, DumpTypes, ImagesEqual
<1> QED
  BY <1>2, <1>3, <1>4, <1>5, <1>6

\* A report of success is a fact about complete outputs.
LEMMA SuccessFollows == DumpInv => SuccessMeansGood
<1> SUFFICES ASSUME DumpInv, verdict = "success", AllWritten, NEW o \in opt.outs
             PROVE  \/ /\ Len(file[o]) >= 2 * opt.sectors_no
                       /\ IsImage(file[o])
                       /\ opt.hashing => hash[o] = file[o]
                    \/ o = "raw" /\ RawLeftOut
  BY DEF SuccessMeansGood
<1>1. o \in Outputs /\ ~full[o] /\ OpenFacts
  BY DumpTypes DEF DumpInv, FileInv, SetupInv, AllWritten
<1>2. CASE fp[o]
  BY <1>1, <1>2, CompleteOutput
<1>3. CASE ~fp[o]
  BY <1>1, <1>3 DEF OpenFacts, RawLeftOut, Outputs
<1> QED
  BY <1>2, <1>3

\* "Dump completed successfully!" is only printed for complete files with the
\* right hash, unless a write failed or the raw file could not be set up
\* (SuccessMeansGood).
THEOREM SuccessCorrect ==
  ASSUME WriteFaults # "transient"
  PROVE  Spec => []SuccessMeansGood
BY SuccessFollows, DumpCorrect, PTL

\* A raw output that was asked for and could not be set up: its hash has been
\* fed the sectors before the start sector, and the loop feeds it nothing.
RawHashKept ==
  /\ (pc = "open" /\ cur = "iso") \/ InDump \/ verdict = "success"
  /\ opt.hashing /\ "raw" \in opt.outs /\ ~fp["raw"]
  => IsImage(hash["raw"]) /\ Len(hash["raw"]) = 2 * start_sector

\* Setting up the raw output feeds its hash before it seeks.
LEMMA RawHashPrepareOutput ==
  ASSUME DumpInv, RawHashKept, NEW p \in Outputs, PrepareOutput(p)
  PROVE  RawHashKept'
<1>1. /\ TypeOK /\ SetupFacts(p) /\ FileFacts(p) /\ pc = "open" /\ cur = p
      /\ Unprepared(p) /\ verdict = "none" /\ Len(file[p]) \in Nat
  BY DumpTypes DEF DumpInv, FileInv, SetupInv, PrepareOutput, Unprepared, Outputs
<1>2. opt' = opt /\ start_sector' = start_sector
  BY DEF PrepareOutput
<1>3. CASE p = "iso"
  <2>1. hash'["raw"] = hash["raw"] /\ fp'["raw"] = fp["raw"]
    BY <1>1, <1>3 DEF PrepareOutput, Setup, TypeOK, Outputs
  <2> QED
    BY <1>1, <1>2, <1>3, <2>1 DEF RawHashKept
<1>4. CASE p = "raw" /\ "raw" \in opt.outs
  <2>1. outfile[p] /\ 2 * start_sector <= Len(file[p]) /\ start_sector \in Nat
    BY <1>1, <1>4, DumpTypes DEF SetupFacts, Chosen
  <2>2. ~ReadBackFails(p)
    BY <1>1, <2>1 DEF ReadBackFails
  <2>3. PICK ok \in BOOLEAN : Setup(p, ok)
    BY <2>1, <2>2 DEF PrepareOutput
  <2>4. /\ IsImage(TruncatedTo(file[p], start_sector))
        /\ Len(TruncatedTo(file[p], start_sector)) = 2 * start_sector
    BY <1>1, <2>1, KeptPart, DumpTypes DEF FileFacts
  <2>5. opt.hashing => hash'[p] = TruncatedTo(file[p], start_sector)
    BY <1>1, <2>3 DEF Setup, KeptHash, TypeOK
  <2> QED
    BY <1>2, <1>4, <2>4, <2>5 DEF RawHashKept
<1>5. CASE "raw" \notin opt.outs
  BY <1>2, <1>5 DEF RawHashKept
<1> QED
  BY <1>3, <1>4, <1>5 DEF Outputs

LEMMA RawHashNext ==
  ASSUME DumpInv, RawHashKept, [Next]_vars
  PROVE  RawHashKept'
<1>1. TypeOK /\ (pc # "down" => verdict = "none")
  BY DEF DumpInv, FileInv, SetupInv
<1>2. ASSUME NEW c \in Commands, Launch(c) PROVE RawHashKept'
  BY <1>2 DEF Launch, RawHashKept, InDump
<1>3. ASSUME NEW p \in Outputs, FreeSpace(p) PROVE RawHashKept'
  BY <1>3 DEF FreeSpace, struct, loop, RawHashKept, InDump
<1>4. CASE Crash
  BY <1>4 DEF Crash, RawHashKept, InDump
<1>5. CASE PrepareStart
  BY <1>1, <1>5 DEF PrepareStart, RawHashKept, InDump
<1>6. CASE ReadSector \/ LeaveLoop
  BY <1>6 DEF ReadSector, LeaveLoop, struct, loop, RawHashKept, InDump
<1>7. ASSUME NEW p \in Outputs, SetOutputFile(p) PROVE RawHashKept'
  BY <1>1, <1>7 DEF SetOutputFile, RawHashKept, InDump
<1>8. ASSUME NEW p \in Outputs, PrepareOutput(p) PROVE RawHashKept'
  BY <1>8, RawHashPrepareOutput
<1>9. ASSUME NEW p \in Outputs, WriteRecord(p) \/ FlushAndHash(p) \/ Close(p)
      PROVE  RawHashKept'
  <2>1. InDump /\ opt' = opt /\ start_sector' = start_sector /\ fp' = fp
    BY <1>9 DEF WriteRecord, FlushAndHash, Close, struct, InDump
  <2>2. ~fp["raw"] => hash'["raw"] = hash["raw"]
    BY <1>1, <1>9 DEF WriteRecord, FlushAndHash, Close, TypeOK, Outputs
  <2> QED
    BY <2>1, <2>2 DEF RawHashKept
<1>10. CASE UNCHANGED vars
  BY <1>10 DEF vars, RawHashKept, InDump
<1> QED
  BY <1>2, <1>3, <1>4, <1>5, <1>6, <1>7, <1>8, <1>9, <1>10 DEF Next, Step

\* Whatever writes fail, the hash printed for an output at the end is the hash of
\* the disc, through any number of resumes, or, for a raw file that could not be
\* set up, that of the sectors kept in it (PrintedHashIsOfTheDisc).
THEOREM PrintedHashCorrect ==
  ASSUME WriteFaults # "transient"
  PROVE  Spec => []PrintedHashIsOfTheDisc
<1>1. DumpInv /\ RawHashKept => PrintedHashIsOfTheDisc
  <2> SUFFICES ASSUME DumpInv, RawHashKept, verdict = "success", opt.hashing, NEW o \in opt.outs
               PROVE  /\ IsImage(hash[o])
                      /\ IF o = "raw" /\ RawLeftOut
                         THEN Len(hash[o]) = 2 * start_sector
                         ELSE Len(hash[o]) >= 2 * opt.sectors_no
    BY DEF PrintedHashIsOfTheDisc
  <2>1. o \in Outputs /\ OpenFacts
    BY DumpTypes DEF DumpInv, FileInv, SetupInv
  <2>2. CASE fp[o]
    BY <2>1, <2>2, CompleteOutput DEF RawLeftOut
  <2>3. CASE ~fp[o]
    BY <2>1, <2>3 DEF OpenFacts, RawLeftOut, RawHashKept, Outputs
  <2> QED
    BY <2>2, <2>3
<1>2. Init => RawHashKept
  BY DEF Init, RawHashKept, InDump
<1>3. DumpInv /\ RawHashKept /\ [Next]_vars => RawHashKept'
  BY RawHashNext
<1> QED
  BY <1>1, <1>2, <1>3, DumpCorrect, PTL DEF Spec

\* With flushing on, the sectors that the loop has passed are in the kernel
\* unless a write failed, so a crash costs no more than the sector in progress
\* (PassedSectorsAreSafe).
THEOREM PassedSectorsCorrect ==
  ASSUME WriteFaults # "transient"
  PROVE  Spec => []PassedSectorsAreSafe
<1>1. DumpInv => PassedSectorsAreSafe
  <2> SUFFICES ASSUME DumpInv, InDump, opt.flushing, out, AllWritten,
                      NEW o \in Outputs, fp[o]
               PROVE  Len(file[o]) >= 2 * i
    BY DEF PassedSectorsAreSafe, InDump
  <2>1. /\ TypeOK /\ FileFacts(o) /\ DumpFacts(o) /\ ~full[o] /\ i \in Nat
        /\ Len(file[o]) \in Nat /\ Len(buf[o]) \in Nat
    BY DumpTypes DEF DumpInv, FileInv, SetupInv, AllWritten
  <2>2. CASE pc = "close"
    <3>1. Len(file[o]) + Len(buf[o]) = 2 * i /\ Len(buf[o]) = 0
      BY <2>1, <2>2, EmptySeq DEF DumpFacts, Complete
    <3> QED
      BY <2>1, <3>1
  <2>3. CASE pc # "close"
    <3>1. LengthKnown(o)
      BY <2>1, <2>3 DEF LengthKnown, FileFacts, InDump
    <3>2. Len(file[o]) + Len(buf[o]) = 2 * Due(o)
      BY <2>1, <3>1 DEF FileFacts
    <3>3. CASE pc = "fflush" /\ cur = o
      <4>1. Len(buf[o]) <= 2 /\ Due(o) = i + 1
        BY <2>1, <3>3 DEF DumpFacts, Due, Passed
      <4>2. Len(file[o]) + Len(buf[o]) = 2 * (i + 1)
        BY <3>2, <4>1
      <4>3. Len(buf[o]) <= 2 /\ Len(file[o]) \in Nat /\ Len(buf[o]) \in Nat /\ i \in Nat
        BY <2>1, <4>1
      <4>4. ASSUME NEW f \in Nat, NEW b \in Nat, NEW n \in Nat, b <= 2, f + b = 2 * (n + 1)
            PROVE  f >= 2 * n
        BY <4>4
      <4> QED
        BY <4>2, <4>3, <4>4
    <3>4. CASE ~(pc = "fflush" /\ cur = o)
      <4>1. Len(buf[o]) = 0 /\ Due(o) \in {i, i + 1}
        BY <2>1, <3>4, EmptySeq DEF DumpFacts, Due
      <4>2. Len(file[o]) + Len(buf[o]) \in {2 * i, 2 * (i + 1)}
        BY <3>2, <4>1
      <4> QED
        BY <2>1, <4>1, <4>2
    <3> QED
      BY <3>3, <3>4
  <2> QED
    BY <2>2, <2>3
<1> QED
  BY <1>1, DumpCorrect, PTL

-----------------------------------------------------------------------------
\* Dumper implements DumpSpec while no write fails and no output is left out.
\* A step of the program that takes part of a file back must be a resume that
\* keeps whole blocks: the start sector is a number of whole blocks, and without
\* the resume option there is nothing to take back.

Blocks(n) == \E q \in Nat : n = q * SECTORS_PER_BLOCK

PromiseFacts(o) ==
  /\ fp[o] => exists[o]
  /\ ~exists[o] => file[o] = <<>>
  /\ pc \in {"set", "prepare"} /\ outfile[o] => Blocks(start_of[o])
  /\ pc = "open" => Blocks(start_sector)

PromiseInv == DumpInv /\ \A o \in Outputs : PromiseFacts(o)

LEMMA ResumePointBlocks ==
  ASSUME NEW n \in Nat
  PROVE  Blocks(ResumePoint(n)) /\ Blocks(0)
<1>1. (n \div 2) \div SECTORS_PER_BLOCK \in Nat
  BY SizesAssumption
<1>2. 0 = 0 * SECTORS_PER_BLOCK
  BY SizesAssumption
<1> QED
  BY <1>1, <1>2 DEF Blocks, ResumePoint

\* Whole blocks of sectors are whole blocks of units.
LEMMA BlocksOfUnits ==
  ASSUME NEW n \in Nat, Blocks(n)
  PROVE  (2 * n) % (2 * SECTORS_PER_BLOCK) = 0
<1> DEFINE w == SECTORS_PER_BLOCK
<1>1. w \in Nat \ {0}
  BY SizesAssumption
<1>2. PICK q \in Nat : n = q * w
  BY DEF Blocks
<1> HIDE DEF w
<1>3. 2 * w \in Nat \ {0} /\ 2 * n \in Nat
  BY <1>1
<1>4. 2 * n = (2 * w) * q + 0
  BY <1>1, <1>2
<1>5. 0 < 2 * w
  BY <1>1
<1>6. (2 * n) % (2 * w) = 0
  BY <1>3, <1>4, <1>5, Unique
<1> QED
  BY <1>6 DEF w

\* A write, or what a crash leaves of one, adds to an open file.
LEMMA KernelGrows ==
  ASSUME DumpInv, NEW k \in 0 .. Len(Pending(cur)), full[cur] => k = 0,
         Accept(cur, Pending(cur), k)
  PROVE  file' = file \/ (fp[cur] /\ Promise!Grow(cur))
<1>1. /\ TypeOK /\ cur \in Outputs /\ DumpFacts(cur)
      /\ file \in [Outputs -> Seq(Nat)]
  BY DEF DumpInv, FileInv, SetupInv, TypeOK
<1>2. CASE ~fp[cur]
  <2>1. Pending(cur) = <<>> /\ k = 0
    BY <1>1, <1>2, EmptySeq DEF Pending, Flushes
  <2>2. SubSeq(Pending(cur), 1, k) = <<>>
    BY <2>1, SubSeqEmpty, EmptySeq
  <2>3. file[cur] \o <<>> = file[cur]
    BY <1>1, ConcatEmptySeq
  <2> QED
    BY <1>1, <2>2, <2>3 DEF Accept
<1>3. CASE fp[cur]
  <2>1. /\ IsImage(file'[cur])
        /\ Len(file'[cur]) = Len(file[cur]) + k
        /\ \A o \in Outputs \ {cur} : file'[o] = file[o]
        /\ file' \in [Outputs -> Seq(Nat)]
    BY KernelFacts DEF DumpInv
  <2>2. Len(file[cur]) \in Nat /\ Len(Pending(cur)) \in Nat
    BY <1>1, DumpTypes, PendingType
  <2>3. Len(file'[cur]) >= Len(file[cur])
    BY <2>1, <2>2
  <2>4. file' = [file EXCEPT ![cur] = file'[cur]]
    BY <1>1, <2>1
  <2>5. cur \in opt.outs
    BY <1>1, <1>3 DEF DumpFacts
  <2>6. Promise!IsImage(file'[cur])
    BY <2>1 DEF IsImage, Promise!IsImage
  <2> QED
    BY <1>3, <2>3, <2>4, <2>5, <2>6 DEF Promise!Grow
<1> QED
  BY <1>2, <1>3

\* The same for the steps of dumper_dump and fclose, and for the crash.
LEMMA WritesGrow ==
  ASSUME DumpInv,
         Crash \/ \E p \in Outputs : WriteRecord(p) \/ FlushAndHash(p) \/ Close(p)
  PROVE  /\ file' = file \/ (fp[cur] /\ Promise!Grow(cur))
         /\ UNCHANGED <<exists, fp, opt>>
         /\ \A o \in Outputs \ {cur} : file'[o] = file[o]
<1>1. TypeOK /\ cur \in Outputs
  BY DEF DumpInv, FileInv, SetupInv, TypeOK
<1>2. \E k \in 0 .. Len(Pending(cur)) : (full[cur] => k = 0) /\ Accept(cur, Pending(cur), k)
  <2>1. CASE Crash
    <3>1. PICK k \in (IF full[cur] THEN {0} ELSE 0 .. Len(Pending(cur))) :
            Accept(cur, Pending(cur), k)
      BY <2>1 DEF Crash
    <3>2. k \in 0 .. Len(Pending(cur)) /\ (full[cur] => k = 0)
      BY <1>1, <3>1, PendingType
    <3> QED
      BY <3>1, <3>2
  <2>2. ASSUME NEW p \in Outputs, WriteRecord(p) \/ FlushAndHash(p) \/ Close(p)
        PROVE  \E k \in 0 .. Len(Pending(cur)) :
                 (full[cur] => k = 0) /\ Accept(cur, Pending(cur), k)
    <3>1. p = cur
      BY <2>2 DEF WriteRecord, FlushAndHash, Close
    <3>2. PICK k \in Takes(cur, Len(Pending(cur))) : Accept(cur, Pending(cur), k)
      BY <2>2, <3>1 DEF WriteRecord, FlushAndHash, Close
    <3>3. k \in 0 .. Len(Pending(cur)) /\ (full[cur] => k = 0)
      BY <1>1, <3>2, PendingType, TakesType DEF Takes
    <3> QED
      BY <3>2, <3>3
  <2> QED
    BY <2>1, <2>2
<1>3. UNCHANGED <<exists, fp, opt>>
  BY DEF Crash, WriteRecord, FlushAndHash, Close, struct
<1>4. file' = file \/ (fp[cur] /\ Promise!Grow(cur))
  BY <1>2, KernelGrows
<1>5. \A o \in Outputs \ {cur} : file'[o] = file[o]
  BY <1>1, <1>4 DEF Promise!Grow, TypeOK
<1> QED
  BY <1>3, <1>4, <1>5

\* Setting up an output leaves the files alone, or a resume takes the end of
\* one back to a block boundary and the program goes on.
LEMMA PrepareShrinks ==
  ASSUME PromiseInv, NEW p \in Outputs, PrepareOutput(p)
  PROVE  /\ file' = file \/ (Promise!Shrink(p) /\ pc' # "down")
         /\ UNCHANGED opt
         /\ \A o \in Outputs : fp'[o] => exists'[o]
         /\ \A o \in Outputs : ~exists'[o] => file'[o] = <<>>
         /\ pc' = "down" => verdict' # "success"
<1>1. /\ TypeOK /\ SetupFacts(p) /\ FileFacts(p) /\ pc = "open" /\ cur = p
      /\ verdict = "none" /\ Unprepared(p) /\ PromiseFacts(p)
  BY DEF PromiseInv, DumpInv, FileInv, SetupInv, PrepareOutput, Unprepared, Outputs
<1>2. \A o \in Outputs : PromiseFacts(o)
  BY DEF PromiseInv
<1>3. UNCHANGED opt
  BY DEF PrepareOutput
<1>4. CASE ~outfile[p]
  <2>1. AfterOpen(p, out) /\ UNCHANGED <<file, exists>> /\ fp' = [fp EXCEPT ![p] = FALSE]
    BY <1>4 DEF PrepareOutput
  <2> QED
    BY <1>1, <1>2, <1>3, <2>1 DEF PromiseFacts, AfterOpen, TypeOK
<1>5. CASE outfile[p]
  <2>1. /\ file[p] \in Seq(Nat) /\ start_sector \in Nat /\ 2 * start_sector <= Len(file[p])
        /\ IsImage(file[p]) /\ p \in opt.outs /\ Len(file[p]) \in Nat
        /\ ~opt.resume => ~exists[p]
    BY <1>1, <1>5, LenProperties DEF TypeOK, SetupFacts, FileFacts, Chosen
  <2>2. ~ReadBackFails(p)
    BY <2>1 DEF ReadBackFails
  <2>3. PICK ok \in BOOLEAN : Setup(p, ok) /\ AfterOpen(p, ok)
    BY <1>5, <2>2 DEF PrepareOutput
  <2>4. /\ exists' = [exists EXCEPT ![p] = TRUE]
        /\ fp' = [fp EXCEPT ![p] = ok]
        /\ file' = [file EXCEPT ![p] = IF ok THEN TruncatedTo(@, start_sector) ELSE @]
    BY <2>3 DEF Setup
  <2>5. \A o \in Outputs : (fp'[o] => exists'[o]) /\ (~exists'[o] => file'[o] = <<>>)
    BY <1>1, <1>2, <2>4 DEF PromiseFacts, TypeOK
  <2>6. pc' = "down" => ~ok /\ verdict' # "success"
    BY <1>1, <2>3 DEF AfterOpen
  <2>7. CASE ~ok
    BY <1>1, <1>3, <2>4, <2>5, <2>6, <2>7 DEF TypeOK
  <2>8. CASE ok
    <3> DEFINE s == file[p]
               n == start_sector
    <3>1. TruncatedTo(s, n) = SubSeq(s, 1, 2 * n)
      <4>1. /\ TruncatedTo(s, n) \in Seq(Nat) /\ Len(TruncatedTo(s, n)) = 2 * n
            /\ \A k \in 1 .. 2 * n : TruncatedTo(s, n)[k] = s[k]
        BY <2>1, KeptPart
      <4>2. 2 * n \in 0 .. Len(s)
        BY <2>1
      <4>3. /\ SubSeq(s, 1, 2 * n) \in Seq(Nat) /\ Len(SubSeq(s, 1, 2 * n)) = 2 * n
            /\ \A k \in 1 .. 2 * n : SubSeq(s, 1, 2 * n)[k] = s[k]
        BY <2>1, <4>2, PrefixType
      <4> QED
        BY <4>1, <4>3, SeqEqual
    <3>2. file' = [file EXCEPT ![p] = SubSeq(@, 1, 2 * n)]
      BY <2>4, <2>8, <3>1
    <3>3. CASE opt.resume
      <4>1. 2 * n \in 0 .. Len(s)
        BY <2>1
      <4>2. (2 * n) % (2 * SECTORS_PER_BLOCK) = 0
        BY <1>1, <2>1, BlocksOfUnits DEF PromiseFacts
      <4>3. Promise!Shrink(p)
        BY <2>1, <3>2, <3>3, <4>1, <4>2 DEF Promise!Shrink
      <4> QED
        BY <1>3, <2>5, <2>6, <2>8, <4>3
    <3>4. CASE ~opt.resume
      <4>1. s = <<>> /\ Len(s) = 0
        BY <1>1, <2>1, <3>4, EmptySeq DEF PromiseFacts
      <4>2. 2 * n = 0
        BY <2>1, <4>1
      <4>3. SubSeq(s, 1, 2 * n) = s
        BY <4>1, <4>2, SubSeqEmpty, EmptySeq
      <4>4. file' = file
        BY <1>1, <3>2, <4>3 DEF TypeOK
      <4> QED
        BY <1>3, <2>5, <2>6, <2>8, <4>4
    <3> QED
      BY <3>3, <3>4
  <2> QED
    BY <2>7, <2>8
<1> QED
  BY <1>4, <1>5

LEMMA PromiseInit == Init => PromiseInv
<1> SUFFICES ASSUME Init PROVE PromiseInv
  OBVIOUS
<1>1. DumpInv
  BY DumpInit
<1>2. \A o \in Outputs : PromiseFacts(o)
  BY DEF Init, PromiseFacts
<1> QED
  BY <1>1, <1>2 DEF PromiseInv

LEMMA PromiseQuietSteps ==
  ASSUME PromiseInv, NEW o \in Outputs,
         \/ \E c \in Commands : Launch(c)
         \/ \E p \in Outputs : FreeSpace(p)
         \/ ReadSector \/ LeaveLoop \/ UNCHANGED vars
  PROVE  PromiseFacts(o)'
<1>1. PromiseFacts(o)
  BY DEF PromiseInv
<1> QED
  BY <1>1 DEF Launch, FreeSpace, ReadSector, LeaveLoop, vars, disk, struct, PromiseFacts, Blocks

LEMMA PromiseSetOutputFile ==
  ASSUME PromiseInv, NEW o \in Outputs, NEW p \in Outputs, SetOutputFile(p)
  PROVE  PromiseFacts(o)'
<1>1. PromiseFacts(o) /\ TypeOK /\ SetupFacts(p) /\ Len(file[p]) \in Nat /\ pc = "set" /\ cur = p
  BY DumpTypes DEF PromiseInv, DumpInv, FileInv, SetupInv, SetOutputFile
<1>2. UNCHANGED <<file, exists, fp>> /\ pc' # "open"
  BY DEF SetOutputFile, disk
<1>3. ~outfile[p]
  BY <1>1 DEF SetupFacts, Outputs
<1>4. outfile'[o] => Blocks(start_of'[o])
  <2>1. CASE p \notin opt.outs
    BY <1>1, <2>1 DEF SetOutputFile, PromiseFacts, TypeOK
  <2>2. CASE p \in opt.outs /\ Refused(p)
    BY <1>1, <1>3, <2>2 DEF SetOutputFile, PromiseFacts, TypeOK
  <2>3. CASE p \in opt.outs /\ ~Refused(p)
    <3>1. /\ outfile' = [outfile EXCEPT ![p] = TRUE]
          /\ start_of' = [start_of EXCEPT
                            ![p] = IF exists[p] THEN ResumePoint(Len(file[p])) ELSE 0]
      BY <2>3 DEF SetOutputFile
    <3>2. Blocks(start_of'[p])
      BY <1>1, <3>1, ResumePointBlocks DEF TypeOK
    <3> QED
      BY <1>1, <3>1, <3>2 DEF PromiseFacts, TypeOK
  <2> QED
    BY <2>1, <2>2, <2>3
<1>5. outfile'[o] => Blocks(start_of[o])'
  BY <1>4 DEF Blocks
<1> QED
  BY <1>1, <1>2, <1>5 DEF PromiseFacts

LEMMA PromisePrepareStart ==
  ASSUME PromiseInv, NEW o \in Outputs, PrepareStart
  PROVE  PromiseFacts(o)'
<1>1. PromiseFacts(o) /\ TypeOK /\ pc = "prepare" /\ \A p \in Outputs : SetupFacts(p) /\ PromiseFacts(p)
  BY DEF PromiseInv, DumpInv, FileInv, SetupInv, PrepareStart
<1>2. outfile["raw"] \/ outfile["iso"]
  BY <1>1, DumpTypes DEF SetupFacts, Chosen, Outputs
<1>3. Blocks(StartSector)
  BY <1>1, <1>2 DEF PromiseFacts, StartSector, Least, Outputs
<1>4. Blocks(start_sector)'
  BY <1>3 DEF PrepareStart, Blocks
<1> QED
  BY <1>1, <1>4 DEF PrepareStart, disk, PromiseFacts

LEMMA PromisePrepareOutput ==
  ASSUME PromiseInv, NEW o \in Outputs, NEW p \in Outputs, PrepareOutput(p)
  PROVE  PromiseFacts(o)'
<1>1. PromiseFacts(o) /\ pc = "open"
  BY DEF PromiseInv, PrepareOutput
<1>2. /\ fp'[o] => exists'[o]
      /\ ~exists'[o] => file'[o] = <<>>
  BY PrepareShrinks
<1>3. UNCHANGED start_sector /\ pc' \notin {"set", "prepare"}
  BY <1>1 DEF PrepareOutput, AfterOpen
<1>4. Blocks(start_sector)'
  BY <1>1, <1>3 DEF PromiseFacts, Blocks
<1> QED
  BY <1>2, <1>3, <1>4 DEF PromiseFacts

LEMMA PromiseWrites ==
  ASSUME PromiseInv, NEW o \in Outputs,
         Crash \/ \E p \in Outputs : WriteRecord(p) \/ FlushAndHash(p) \/ Close(p)
  PROVE  PromiseFacts(o)'
<1>1. PromiseFacts(o) /\ cur \in Outputs
  BY DEF PromiseInv, DumpInv, FileInv, SetupInv, TypeOK
<1>2. /\ file' = file \/ fp[cur]
      /\ UNCHANGED <<exists, fp>>
      /\ \A q \in Outputs \ {cur} : file'[q] = file[q]
  BY WritesGrow DEF PromiseInv
<1>3. ~exists'[o] => file'[o] = <<>>
  BY <1>1, <1>2 DEF PromiseFacts
<1>4. pc' \notin {"set", "prepare", "open"}
  BY DEF Crash, WriteRecord, FlushAndHash, Close
<1> QED
  BY <1>1, <1>2, <1>3, <1>4 DEF PromiseFacts

LEMMA PromiseNext ==
  ASSUME PromiseInv, WriteFaults # "transient", [Next]_vars
  PROVE  PromiseInv'
<1>1. DumpInv'
  BY DumpNext DEF PromiseInv
<1>2. ASSUME NEW o \in Outputs PROVE PromiseFacts(o)'
  BY PromiseQuietSteps, PromiseSetOutputFile, PromisePrepareStart, PromisePrepareOutput,
     PromiseWrites DEF Next, Step
<1> QED
  BY <1>1, <1>2 DEF PromiseInv

\* What has been printed, see Promise.
Printed == IF verdict = "success" /\ opt.hashing THEN hash ELSE [o \in Outputs |-> <<>>]

\* A step inside the program that reports nothing: it does work on a file, or
\* it cannot be seen.
LEMMA WorkOrNothing ==
  ASSUME pc # "down", pc' # "down", UNCHANGED opt,
         verdict # "success", verdict' # "success",
         \/ file' = file
         \/ \E o \in opt.outs : Promise!Grow(o) \/ Promise!Shrink(o)
  PROVE  Promise!Work \/ UNCHANGED Promise!vars
BY DEF Promise!Work, Promise!vars

\* The program ends without a report of success.
LEMMA FinishWithout ==
  ASSUME pc # "down", pc' = "down", UNCHANGED opt, verdict' # "success",
         file' = file \/ \E o \in opt.outs : Promise!Grow(o)
  PROVE  Promise!Finish
BY DEF Promise!Finish, Promise!Nothing

\* The program ends with one: the fact about complete outputs is about the
\* state after fclose wrote what was left.
LEMMA FinishWith ==
  ASSUME pc # "down", pc' = "down", UNCHANGED opt, verdict' = "success",
         file' = file \/ \E o \in opt.outs : Promise!Grow(o),
         SuccessMeansGood', AllWritten', ~RawLeftOut'
  PROVE  Promise!Finish
<1>1. \A o \in opt.outs : /\ Len(file'[o]) >= 2 * opt.sectors_no
                          /\ opt.hashing => hash'[o] = file'[o]
  BY DEF SuccessMeansGood
<1> QED
  BY <1>1 DEF Promise!Finish, Promise!Nothing

\* Every step of the program is a step of the promise or changes nothing that
\* the promise is about.
LEMMA PromiseStep ==
  ASSUME PromiseInv, [Next]_vars, SuccessMeansGood', AllWritten', ~RawLeftOut'
  PROVE  [Promise!Next]_(Promise!vars)
<1>1. /\ TypeOK /\ cur \in Outputs /\ (pc # "down" => verdict = "none")
      /\ \A o \in Outputs : fp[o] => o \in opt.outs
  BY DEF PromiseInv, DumpInv, FileInv, SetupInv, TypeOK, DumpFacts
<1>2. ASSUME NEW c \in Commands, Launch(c) PROVE Promise!Start
  <2>1. c.outs \subseteq Outputs /\ c.sectors_no \in Nat /\ c.resume \in BOOLEAN
    BY CommandsAssumption DEF CommandType
  <2>2. opt' = c /\ verdict' = "none" /\ pc = "down" /\ pc' = "set" /\ UNCHANGED file
    BY <1>2 DEF Launch, disk
  <2> QED
    BY <2>1, <2>2 DEF Promise!Start, Promise!Nothing
<1>3. ASSUME NEW o \in Outputs, FreeSpace(o) PROVE UNCHANGED Promise!vars
  BY <1>3 DEF FreeSpace, Promise!vars
<1>4. CASE Crash
  <2>1. /\ file' = file \/ (fp[cur] /\ Promise!Grow(cur))
        /\ UNCHANGED opt
    BY <1>4, WritesGrow DEF PromiseInv
  <2>2. pc # "down" /\ pc' = "down" /\ verdict' # "success"
    BY <1>4 DEF Crash
  <2> QED
    BY <1>1, <2>1, <2>2, FinishWithout DEF Promise!Next
<1>5. CASE PrepareStart \/ ReadSector \/ LeaveLoop
  <2>1. /\ pc # "down" /\ pc' # "down" /\ file' = file /\ UNCHANGED <<opt, verdict>>
    BY <1>5 DEF PrepareStart, ReadSector, LeaveLoop, disk, loop
  <2> QED
    BY <1>1, <2>1, WorkOrNothing DEF Promise!Next
<1>6. ASSUME NEW p \in Outputs, SetOutputFile(p) PROVE [Promise!Next]_(Promise!vars)
  <2>1. /\ pc # "down" /\ file' = file /\ UNCHANGED opt /\ verdict' \in {verdict, "refused"}
    BY <1>6 DEF SetOutputFile, disk
  <2>2. CASE pc' = "down"
    BY <1>1, <2>1, <2>2, FinishWithout DEF Promise!Next
  <2>3. CASE pc' # "down"
    BY <1>1, <2>1, <2>3, WorkOrNothing DEF Promise!Next
  <2> QED
    BY <2>2, <2>3
<1>7. ASSUME NEW p \in Outputs, PrepareOutput(p) PROVE [Promise!Next]_(Promise!vars)
  <2>1. /\ file' = file \/ (Promise!Shrink(p) /\ pc' # "down")
        /\ UNCHANGED opt /\ pc # "down"
    BY <1>7, PrepareShrinks DEF PrepareOutput
  <2>2. verdict' # "success"
    BY <1>1, <1>7, <2>1 DEF PrepareOutput, AfterOpen
  <2>3. Promise!Shrink(p) => p \in opt.outs
    BY DEF Promise!Shrink
  <2>4. CASE pc' = "down"
    BY <2>1, <2>2, <2>4, FinishWithout DEF Promise!Next
  <2>5. CASE pc' # "down"
    BY <1>1, <2>1, <2>2, <2>3, <2>5, WorkOrNothing DEF Promise!Next
  <2> QED
    BY <2>4, <2>5
<1>8. ASSUME NEW p \in Outputs, WriteRecord(p) \/ FlushAndHash(p) \/ Close(p)
      PROVE  [Promise!Next]_(Promise!vars)
  <2>1. /\ file' = file \/ (fp[cur] /\ Promise!Grow(cur))
        /\ UNCHANGED opt
    BY <1>8, WritesGrow DEF PromiseInv
  <2>2. /\ pc # "down" /\ verdict = "none"
        /\ verdict' # "none" => pc' = "down"
    BY <1>1, <1>8 DEF WriteRecord, FlushAndHash, Close
  <2>3. CASE pc' # "down"
    BY <1>1, <2>1, <2>2, <2>3, WorkOrNothing DEF Promise!Next
  <2>4. CASE pc' = "down" /\ verdict' # "success"
    BY <1>1, <2>1, <2>2, <2>4, FinishWithout DEF Promise!Next
  <2>5. CASE pc' = "down" /\ verdict' = "success"
    BY <1>1, <2>1, <2>2, <2>5, FinishWith DEF Promise!Next
  <2> QED
    BY <2>3, <2>4, <2>5
<1>9. CASE UNCHANGED vars
  BY <1>9 DEF vars, Promise!vars
<1> QED
  BY <1>2, <1>3, <1>4, <1>5, <1>6, <1>7, <1>8, <1>9 DEF Next, Step, Promise!Next

\* The dumper implements what DumpSpec promises its user, as long as no write
\* fails and no output is left out: the files are the beginning of the disc
\* and only grow, except that a resume takes back to a block boundary, and
\* success with a hash is reported for complete files (ImplementsPromise).
THEOREM PromiseKept ==
  ASSUME WriteFaults # "transient"
  PROVE  Spec => ImplementsPromise
<1>1. Init => Promise!Init
  <2> SUFFICES ASSUME Init PROVE Promise!Init
    OBVIOUS
  <2>1. opt \in CommandType
    BY CommandsAssumption DEF Init
  <2>2. (pc # "down") = FALSE /\ (verdict = "success") = FALSE
    BY DEF Init
  <2>3. file = [o \in Outputs |-> <<>>]
    BY DEF Init
  <2> QED
    BY <2>1, <2>2, <2>3 DEF Promise!Init, Promise!Nothing, CommandType
<1>2. PromiseInv /\ [Next]_vars => PromiseInv'
  BY PromiseNext
<1>3. PromiseInv /\ [Next]_vars /\ SuccessMeansGood'
        => [AllWritten' /\ ~RawLeftOut' => Promise!Next]_(Promise!vars)
  BY PromiseStep
<1>4. PromiseInv => SuccessMeansGood
  BY SuccessFollows DEF PromiseInv
<1> QED
  BY <1>1, <1>2, <1>3, <1>4, PromiseInit, PTL DEF Spec, ImplementsPromise

-----------------------------------------------------------------------------
\* What a resume throws away.  When every process dumps both outputs with
\* flushing on and nothing fails but the processes themselves, the two files
\* are never far apart: either the raw file is ahead by what is written of one
\* record, or a process was killed between the two truncations of
\* dumper_prepare and the raw file is a number of whole blocks, less than one
\* block behind the ISO file.

Ahead(r, s) == \E n \in Nat : 2 * n <= s /\ s <= r /\ r <= 2 * n + 2

Behind(r, s) == \E q \in Nat : /\ r = 2 * (q * SECTORS_PER_BLOCK)
                               /\ r <= s /\ s < r + 2 * SECTORS_PER_BLOCK

\* A file is less than a block longer than what a resume keeps of it.
LEMMA ResumePointNear ==
  ASSUME NEW n \in Nat
  PROVE  /\ ResumePoint(n) \in Nat
         /\ n \div 2 \in Nat /\ 2 * (n \div 2) <= n /\ n < 2 * (n \div 2) + 2
         /\ ResumePoint(n) <= n \div 2 /\ n \div 2 < ResumePoint(n) + SECTORS_PER_BLOCK
         /\ n < 2 * ResumePoint(n) + 2 * SECTORS_PER_BLOCK
<1> DEFINE w == SECTORS_PER_BLOCK
           a == n \div 2
           c == a \div w
           m == a % w
<1>1. w \in Nat \ {0} /\ a \in Nat /\ 2 * a <= n /\ n < 2 * a + 2
  BY SizesAssumption
<1>2. c \in Nat /\ m \in Nat /\ m < w /\ a = w * c + m
  BY <1>1, DivMod
<1>3. ResumePoint(n) = c * w
  BY DEF ResumePoint
<1> HIDE DEF w, a, c, m
<1>4. c * w = w * c /\ c * w \in Nat
  BY <1>1, <1>2
<1>5. ResumePoint(n) \in Nat /\ a = ResumePoint(n) + m
  BY <1>2, <1>3, <1>4
<1>6. ResumePoint(n) <= a /\ a < ResumePoint(n) + w
  BY <1>1, <1>2, <1>5
<1>7. n < 2 * ResumePoint(n) + 2 * w
  BY <1>1, <1>5, <1>6
<1> QED
  BY <1>1, <1>5, <1>6, <1>7 DEF a, w

\* A number of whole blocks is kept whole.
LEMMA ResumePointWhole ==
  ASSUME NEW q \in Nat
  PROVE  ResumePoint(2 * (q * SECTORS_PER_BLOCK)) = q * SECTORS_PER_BLOCK
<1> DEFINE w == SECTORS_PER_BLOCK
<1>1. w \in Nat \ {0}
  BY SizesAssumption
<1> HIDE DEF w
<1>2. q * w \in Nat /\ q * w = w * q + 0 /\ 2 * (q * w) = 2 * (q * w) + 0 /\ 2 * (q * w) \in Nat
  BY <1>1
<1>3. (2 * (q * w)) \div 2 = q * w
  <2>1. 2 \in Nat \ {0} /\ 0 \in Nat /\ 0 < 2
    OBVIOUS
  <2> QED
    BY <1>2, <2>1, Unique
<1>4. (q * w) \div w = q
  BY <1>1, <1>2, Unique
<1> QED
  BY <1>3, <1>4 DEF ResumePoint, w

\* Whichever of the two files decides where a resume starts, neither loses more
\* than a block.
LEMMA LossBound ==
  ASSUME NEW r \in Nat, NEW s \in Nat, Ahead(r, s) \/ Behind(r, s),
         NEW m \in {ResumePoint(r), ResumePoint(s)}
  PROVE  m \in Nat /\ r <= 2 * m + 2 * SECTORS_PER_BLOCK /\ s < 2 * m + 2 * SECTORS_PER_BLOCK
<1> DEFINE w == SECTORS_PER_BLOCK
           a == ResumePoint(r)
           b == ResumePoint(s)
<1>1. /\ w \in Nat \ {0} /\ a \in Nat /\ b \in Nat
      /\ r < 2 * a + 2 * w /\ s < 2 * b + 2 * w
  BY SizesAssumption, ResumePointNear
<1>2. CASE Ahead(r, s)
  <2>1. PICK n \in Nat : 2 * n <= s /\ s <= r /\ r <= 2 * n + 2
    BY <1>2 DEF Ahead
  <2>2. s < 2 * a + 2 * w
    <3> HIDE DEF w, a, b
    <3> QED
      BY <1>1, <2>1
  <2>3. r <= 2 * b + 2 * w
    <3>1. /\ s \div 2 \in Nat /\ s < 2 * (s \div 2) + 2
          /\ s \div 2 < b + w
      BY ResumePointNear
    <3> DEFINE h == s \div 2
    <3>2. h \in Nat /\ s < 2 * h + 2 /\ h < b + w
      BY <3>1
    <3> HIDE DEF w, a, b, h
    <3>3. n <= h
      BY <2>1, <3>2
    <3> QED
      BY <1>1, <2>1, <3>2, <3>3
  <2> QED
    BY <1>1, <2>2, <2>3
<1>3. CASE Behind(r, s)
  <2>1. PICK q \in Nat : r = 2 * (q * w) /\ r <= s /\ s < r + 2 * w
    BY <1>3 DEF Behind
  <2>2. a = q * w
    BY <2>1, ResumePointWhole
  <2>3. r = 2 * a
    BY <2>1, <2>2
  <2>4. s < 2 * a + 2 * w
    BY <2>1, <2>3
  <2>5. r <= 2 * b + 2 * w
    <3> HIDE DEF w, a, b
    <3> QED
      BY <1>1, <2>1
  <2> QED
    BY <1>1, <2>4, <2>5
<1> QED
  BY <1>2, <1>3

\* Every process dumps both outputs and flushes, and nothing fails but it.
AlwaysBoth ==
  /\ \A c \in Commands : c.outs = Outputs /\ c.flushing
  /\ WriteFaults = "none" /\ ~SetupFaults

Raw == Len(file["raw"])
Iso == Len(file["iso"])

LevelFacts ==
  /\ \A o \in Outputs : ~full[o]
  /\ pc \in {"set", "prepare"} =>
       \A o \in Outputs : outfile[o] => start_of[o] = ResumePoint(Len(file[o]))
  /\ pc = "open" =>
       /\ Iso < 2 * start_sector + 2 * SECTORS_PER_BLOCK
       /\ cur = "raw" => Raw <= 2 * start_sector + 2 * SECTORS_PER_BLOCK
       /\ cur = "iso" => fp["raw"]
  /\ Ahead(Raw, Iso) \/ Behind(Raw, Iso)
  /\ InDump => fp["raw"] /\ fp["iso"] /\ Ahead(Raw, Iso)
  /\ pc \in {"fwrite", "fflush"} =>
       /\ Iso = 2 * i
       /\ Raw = IF cur = "iso" /\ data THEN 2 * i + 2 ELSE 2 * i
  /\ pc = "fflush" /\ ~data => buf[cur] = <<>>

LevelInv == PromiseInv /\ LevelFacts

LEMMA LevelTypes ==
  ASSUME LevelInv, AlwaysBoth
  PROVE  /\ TypeOK /\ LevelFacts /\ opt.outs = Outputs /\ opt.flushing
         /\ cur \in Outputs /\ i \in Nat /\ Raw \in Nat /\ Iso \in Nat /\ start_sector \in Nat
         /\ \A o \in Outputs : /\ FileFacts(o) /\ SetupFacts(o) /\ DumpFacts(o) /\ PromiseFacts(o)
                               /\ file[o] \in Seq(Nat) /\ buf[o] \in Seq(Nat)
                               /\ Len(file[o]) \in Nat /\ Len(buf[o]) \in Nat
<1>1. /\ TypeOK /\ LevelFacts /\ opt \in Commands
      /\ \A o \in Outputs : FileFacts(o) /\ SetupFacts(o) /\ DumpFacts(o) /\ PromiseFacts(o)
  BY DEF LevelInv, PromiseInv, DumpInv, FileInv, SetupInv, TypeOK
<1> QED
  BY <1>1, DumpTypes DEF AlwaysBoth, Raw, Iso, Outputs

\* Only fflush has something to hand to the kernel: the record that the loop is
\* busy with.
LEMMA OnlyFlushWrites ==
  ASSUME LevelInv, AlwaysBoth
  PROVE  /\ ~(pc = "fflush" /\ data) => Pending(cur) = <<>>
         /\ pc = "fflush" /\ data => Pending(cur) = buf[cur] /\ Len(buf[cur]) = 2
<1>1. /\ TypeOK /\ LevelFacts /\ opt.flushing /\ cur \in Outputs /\ i \in Nat
      /\ DumpFacts(cur) /\ FileFacts(cur) /\ buf[cur] \in Seq(Nat) /\ Len(buf[cur]) \in Nat
      /\ Len(file[cur]) \in Nat
  BY LevelTypes
<1>2. pc # "fflush" => buf[cur] = <<>>
  BY <1>1 DEF DumpFacts
<1>3. pc = "fwrite" => Pending(cur) = <<>>
  BY <1>2, EmptySeq, SizesAssumption DEF Pending
<1>4. pc = "fflush" => Pending(cur) = buf[cur]
  BY <1>1 DEF Pending, Flushes, LevelFacts, InDump, Outputs
<1>5. pc = "fflush" /\ data => Len(buf[cur]) = 2
  <2> SUFFICES ASSUME pc = "fflush", data PROVE Len(buf[cur]) = 2
    OBVIOUS
  <2>1. fp[cur] /\ ~full[cur] /\ Len(file[cur]) = (IF cur = "iso" THEN Iso ELSE Raw)
    BY <1>1 DEF LevelFacts, InDump, Raw, Iso, Outputs
  <2>2. Len(file[cur]) + Len(buf[cur]) = 2 * Due(cur) /\ Due(cur) = i + 1
    BY <1>1, <2>1 DEF FileFacts, LengthKnown, Passed, Due
  <2>3. Len(file[cur]) = 2 * i
    BY <1>1, <2>1 DEF LevelFacts, Outputs
  <2>4. 2 * i + Len(buf[cur]) = 2 * (i + 1)
    BY <2>2, <2>3
  <2>5. ASSUME NEW n \in Nat, NEW b \in Nat, 2 * n + b = 2 * (n + 1) PROVE b = 2
    BY <2>5
  <2>6. i \in Nat /\ Len(buf[cur]) \in Nat
    BY <1>1
  <2> QED
    BY <2>4, <2>5, <2>6
<1>6. pc = "fflush" /\ ~data => buf[cur] = <<>>
  BY <1>1 DEF LevelFacts
<1>7. pc \notin {"fwrite", "fflush", "close"} => Pending(cur) = <<>>
  BY DEF Pending
<1>8. pc = "close" => Pending(cur) = <<>>
  BY <1>2 DEF Pending
<1> QED
  BY <1>3, <1>4, <1>5, <1>6, <1>7, <1>8

\* A write of nothing.
LEMMA NothingWritten ==
  ASSUME LevelInv, AlwaysBoth, NEW k, Pending(cur) = <<>>,
         k \in 0 .. Len(Pending(cur)), Accept(cur, Pending(cur), k)
  PROVE  file' = file
<1>1. file \in [Outputs -> Seq(Nat)] /\ cur \in Outputs /\ file[cur] \in Seq(Nat)
  BY LevelTypes DEF TypeOK
<1>2. SubSeq(Pending(cur), 1, k) = <<>>
  BY SubSeqEmpty, EmptySeq
<1>3. file[cur] \o <<>> = file[cur]
  BY <1>1, ConcatEmptySeq
<1> QED
  BY <1>1, <1>2, <1>3 DEF Accept

\* Without write faults the kernel takes all it is handed.
LEMMA AllTaken ==
  ASSUME LevelInv, AlwaysBoth, NEW k \in Takes(cur, Len(Pending(cur))),
         Fills(cur, Len(Pending(cur)), k)
  PROVE  k = Len(Pending(cur)) /\ Len(Pending(cur)) \in Nat /\ full' = full
<1>1. TypeOK /\ cur \in Outputs /\ ~full[cur]
  BY LevelTypes DEF LevelFacts
<1>2. Pending(cur) \in Seq(Nat) /\ Len(Pending(cur)) \in Nat
  BY <1>1, PendingType
<1>3. k = Len(Pending(cur))
  BY <1>1 DEF Takes, AlwaysBoth
<1>4. full' = [full EXCEPT ![cur] = FALSE]
  <2>1. ~(k < Len(Pending(cur)))
    BY <1>2, <1>3
  <2>2. (full[cur] \/ k < Len(Pending(cur))) = FALSE
    BY <1>1, <2>1, Zenon
  <2> QED
    BY <2>2, Zenon DEF Fills
<1>5. full \in [Outputs -> BOOLEAN] /\ full[cur] = FALSE
  BY <1>1, Zenon DEF TypeOK
<1> QED
  BY <1>1, <1>2, <1>3, <1>4, <1>5

\* The step takes no more than a block of either file.
LittleLost == \A o \in Outputs : Len(file[o]) - Len(file'[o]) <= 2 * SECTORS_PER_BLOCK

LEMMA NothingLost ==
  ASSUME LevelInv, AlwaysBoth,
         \A o \in Outputs : Len(file'[o]) \in Nat /\ Len(file'[o]) >= Len(file[o])
  PROVE  LittleLost
<1>1. ASSUME NEW f \in Nat, NEW g \in Nat, g >= f
      PROVE  f - g <= 2 * SECTORS_PER_BLOCK
  BY <1>1, SizesAssumption
<1>2. \A o \in Outputs : Len(file[o]) \in Nat
  BY LevelTypes
<1> QED
  BY <1>1, <1>2 DEF LittleLost

LEMMA LevelInit == Init /\ AlwaysBoth => LevelInv
<1> SUFFICES ASSUME Init PROVE LevelInv
  OBVIOUS
<1>1. PromiseInv
  BY PromiseInit
<1>2. /\ Raw = 0 /\ Iso = 0
  BY EmptySeq DEF Init, Raw, Iso, Outputs
<1>3. 2 * 0 <= 0 /\ 0 <= 0 /\ 0 <= 2 * 0 + 2 /\ 0 \in Nat
  OBVIOUS
<1>4. Ahead(Raw, Iso)
  BY <1>2, <1>3 DEF Ahead
<1>5. LevelFacts
  BY <1>4 DEF Init, LevelFacts, InDump
<1> QED
  BY <1>1, <1>5 DEF LevelInv

\* Steps that leave the files alone and are not in the loop.
LEMMA LevelQuietSteps ==
  ASSUME LevelInv, AlwaysBoth,
         \/ \E c \in Commands : Launch(c)
         \/ \E p \in Outputs : FreeSpace(p)
         \/ LeaveLoop \/ UNCHANGED vars
  PROVE  LevelFacts' /\ file' = file
<1>1. LevelFacts
  BY DEF LevelInv
<1>2. ASSUME NEW c \in Commands, Launch(c) PROVE LevelFacts' /\ file' = file
  BY <1>1, <1>2 DEF Launch, disk, LevelFacts, InDump, Raw, Iso
<1>3. ASSUME NEW p \in Outputs PROVE ~FreeSpace(p)
  BY <1>1 DEF FreeSpace, LevelFacts
<1>4. CASE LeaveLoop
  BY <1>1, <1>4 DEF LeaveLoop, disk, struct, LevelFacts, InDump, Raw, Iso
<1>5. CASE UNCHANGED vars
  BY <1>1, <1>5 DEF vars, LevelFacts, InDump, Raw, Iso
<1> QED
  BY <1>2, <1>3, <1>4, <1>5

LEMMA LevelSetOutputFile ==
  ASSUME LevelInv, AlwaysBoth, NEW p \in Outputs, SetOutputFile(p)
  PROVE  LevelFacts' /\ file' = file
<1>1. /\ TypeOK /\ LevelFacts /\ opt.outs = Outputs /\ SetupFacts(p) /\ PromiseFacts(p)
      /\ pc = "set" /\ cur = p
  BY LevelTypes DEF SetOutputFile
<1>2. file' = file /\ full' = full /\ pc' \in {"down", "set", "prepare"}
  BY DEF SetOutputFile, disk
<1>3. ~outfile[p]
  BY <1>1 DEF SetupFacts, Outputs
<1>4. \A o \in Outputs : outfile'[o] => start_of'[o] = ResumePoint(Len(file[o]))
  <2>1. CASE Refused(p)
    BY <1>1, <1>3, <2>1 DEF SetOutputFile, LevelFacts, TypeOK
  <2>2. CASE ~Refused(p)
    <3>1. /\ outfile' = [outfile EXCEPT ![p] = TRUE]
          /\ start_of' = [start_of EXCEPT
                            ![p] = IF exists[p] THEN ResumePoint(Len(file[p])) ELSE 0]
      BY <1>1, <2>2 DEF SetOutputFile
    <3>2. ~exists[p] => ResumePoint(Len(file[p])) = 0
      <4>1. ~exists[p] => Len(file[p]) = 0
        BY <1>1, EmptySeq DEF PromiseFacts
      <4>2. 0 \in Nat
        OBVIOUS
      <4>3. ResumePoint(0) = 0
        BY <4>2, ResumePointNear
      <4> QED
        BY <4>1, <4>3
    <3> QED
      BY <1>1, <3>1, <3>2 DEF LevelFacts, TypeOK
  <2> QED
    BY <2>1, <2>2
<1> QED
  BY <1>1, <1>2, <1>4 DEF LevelFacts, InDump, Raw, Iso

LEMMA LevelPrepareStart ==
  ASSUME LevelInv, AlwaysBoth, PrepareStart
  PROVE  LevelFacts' /\ file' = file
<1>1. /\ TypeOK /\ LevelFacts /\ opt.outs = Outputs /\ pc = "prepare" /\ Raw \in Nat /\ Iso \in Nat
      /\ \A o \in Outputs : SetupFacts(o)
  BY LevelTypes DEF PrepareStart
<1>2. /\ file' = file /\ full' = full /\ pc' = "open" /\ cur' = "raw" /\ start_sector' = StartSector
  BY DEF PrepareStart, disk
<1>3. outfile["raw"] /\ outfile["iso"]
  BY <1>1 DEF SetupFacts, Chosen, Outputs
<1>4. start_of["raw"] = ResumePoint(Raw) /\ start_of["iso"] = ResumePoint(Iso)
  BY <1>1, <1>3 DEF LevelFacts, Raw, Iso, Outputs
<1>5. StartSector \in {ResumePoint(Raw), ResumePoint(Iso)}
  BY <1>3, <1>4 DEF StartSector, Least
<1>6. /\ Raw <= 2 * StartSector + 2 * SECTORS_PER_BLOCK
      /\ Iso < 2 * StartSector + 2 * SECTORS_PER_BLOCK
  BY <1>1, <1>5, LossBound DEF LevelFacts
<1>7. Raw' = Raw /\ Iso' = Iso
  BY <1>2 DEF Raw, Iso
<1> QED
  BY <1>1, <1>2, <1>6, <1>7 DEF LevelFacts, InDump

LEMMA LevelReadSector ==
  ASSUME LevelInv, AlwaysBoth, ReadSector
  PROVE  LevelFacts' /\ file' = file
<1>1. /\ TypeOK /\ LevelFacts /\ opt.flushing /\ i \in Nat /\ Raw \in Nat /\ Iso \in Nat
      /\ pc = "read" /\ out /\ UNCHANGED <<file, full, fp, i>>
      /\ pc' = "fwrite" /\ cur' = "raw"
  BY LevelTypes DEF ReadSector, InLoop, disk, struct
<1>2. ASSUME NEW o \in Outputs PROVE Len(file[o]) = 2 * i
  <2>1. FileFacts(o) /\ DumpFacts(o) /\ Len(file[o]) \in Nat
    BY LevelTypes
  <2>2. fp[o] /\ ~full[o] /\ LengthKnown(o) /\ Due(o) = i
    BY <1>1 DEF LevelFacts, InDump, LengthKnown, Passed, Due, Outputs
  <2>3. Len(file[o]) + Len(buf[o]) = 2 * i
    BY <2>1, <2>2 DEF FileFacts
  <2>4. Len(buf[o]) = 0
    BY <1>1, <2>1, EmptySeq DEF DumpFacts
  <2> QED
    BY <1>1, <2>1, <2>3, <2>4
<1>3. Raw = 2 * i /\ Iso = 2 * i
  BY <1>2 DEF Raw, Iso, Outputs
<1>4. Raw' = Raw /\ Iso' = Iso
  BY <1>1 DEF Raw, Iso
<1> QED
  BY <1>1, <1>3, <1>4 DEF LevelFacts, InDump

LEMMA LevelPrepareOutput ==
  ASSUME LevelInv, AlwaysBoth, NEW p \in Outputs, PrepareOutput(p)
  PROVE  LevelFacts' /\ LittleLost
<1>1. /\ TypeOK /\ LevelFacts /\ opt.outs = Outputs /\ Raw \in Nat /\ Iso \in Nat
      /\ start_sector \in Nat /\ pc = "open" /\ cur = p /\ Unprepared(p) /\ SetupFacts(p)
      /\ IsImage(file[p]) /\ file[p] \in Seq(Nat) /\ Len(file[p]) \in Nat
      /\ \A o \in Outputs : PromiseFacts(o) /\ FileFacts(o)
  BY LevelTypes DEF PrepareOutput, Unprepared, FileFacts, Outputs
<1>2. outfile[p] /\ 2 * start_sector <= Len(file[p])
  BY <1>1 DEF SetupFacts, Chosen
<1>3. ~ReadBackFails(p)
  BY <1>1, <1>2 DEF ReadBackFails
<1>4. Setup(p, TRUE) /\ AfterOpen(p, TRUE)
  BY <1>2, <1>3 DEF PrepareOutput, AlwaysBoth
<1>5. UNCHANGED <<full, start_sector, start_of, outfile>>
  BY DEF PrepareOutput
<1>6. /\ Len(file'[p]) = 2 * start_sector
      /\ \A o \in Outputs \ {p} : file'[o] = file[o] /\ fp'[o] = fp[o]
      /\ fp'[p]
  <2>1. Len(TruncatedTo(file[p], start_sector)) = 2 * start_sector
    BY <1>1, <1>2, KeptPart
  <2> QED
    BY <1>1, <1>4, <2>1 DEF Setup, TypeOK
<1>7. PICK q \in Nat : start_sector = q * SECTORS_PER_BLOCK
  BY <1>1 DEF PromiseFacts, Blocks
<1>8. CASE p = "raw"
  <2>1. /\ Raw' = 2 * start_sector /\ Iso' = Iso /\ pc' = "open" /\ cur' = "iso" /\ fp'["raw"]
    BY <1>4, <1>6, <1>8 DEF AfterOpen, Raw, Iso, Outputs
  <2>2. 2 * start_sector <= Iso /\ Iso < 2 * start_sector + 2 * SECTORS_PER_BLOCK
    <3>1. SetupFacts("iso") /\ Unprepared("iso") /\ Chosen("iso")
      BY <1>1, LevelTypes DEF Unprepared, Chosen, Outputs
    <3> QED
      BY <1>1, <3>1 DEF SetupFacts, LevelFacts, Iso, Outputs
  <2>3. Behind(Raw', Iso')
    <3>1. Raw' = 2 * (q * SECTORS_PER_BLOCK)
      BY <1>7, <2>1
    <3>2. Raw' <= Iso' /\ Iso' < Raw' + 2 * SECTORS_PER_BLOCK
      BY <2>1, <2>2
    <3> QED
      BY <3>1, <3>2 DEF Behind
  <2>4. LevelFacts'
    BY <1>1, <1>5, <2>1, <2>2, <2>3 DEF LevelFacts, InDump
  <2>5. LittleLost
    <3>1. Raw - 2 * start_sector <= 2 * SECTORS_PER_BLOCK
      BY <1>1, <1>8, SizesAssumption DEF LevelFacts
    <3>2. Raw - Raw' <= 2 * SECTORS_PER_BLOCK /\ Iso - Iso' <= 2 * SECTORS_PER_BLOCK
      BY <1>1, <2>1, <3>1, SizesAssumption
    <3> QED
      BY <3>2 DEF LittleLost, Raw, Iso, Outputs
  <2> QED
    BY <2>4, <2>5
<1>9. CASE p = "iso"
  <2>1. fp["raw"] /\ Raw = 2 * start_sector
    BY <1>1, <1>9 DEF LevelFacts, FileFacts, Raw, Outputs
  <2>2. /\ Raw' = 2 * start_sector /\ Iso' = 2 * start_sector /\ pc' = "read"
        /\ fp'["raw"] /\ fp'["iso"]
    BY <1>4, <1>6, <1>9, <2>1 DEF AfterOpen, Raw, Iso, Outputs
  <2>3. Ahead(Raw', Iso')
    <3>1. 2 * start_sector <= 2 * start_sector /\ 2 * start_sector <= 2 * start_sector + 2
      BY <1>1
    <3>2. 2 * start_sector <= Iso' /\ Iso' <= Raw' /\ Raw' <= 2 * start_sector + 2
      BY <2>2, <3>1
    <3> QED
      BY <1>1, <3>2 DEF Ahead
  <2>4. LevelFacts'
    BY <1>1, <1>5, <2>2, <2>3 DEF LevelFacts, InDump
  <2>5. LittleLost
    <3>1. Iso - 2 * start_sector <= 2 * SECTORS_PER_BLOCK
      BY <1>1, <1>9, SizesAssumption DEF LevelFacts
    <3>2. Raw - Raw' <= 2 * SECTORS_PER_BLOCK /\ Iso - Iso' <= 2 * SECTORS_PER_BLOCK
      BY <1>1, <2>1, <2>2, <3>1, SizesAssumption
    <3> QED
      BY <3>2 DEF LittleLost, Raw, Iso, Outputs
  <2> QED
    BY <2>4, <2>5
<1> QED
  BY <1>8, <1>9 DEF Outputs

LEMMA LevelWriteRecord ==
  ASSUME LevelInv, AlwaysBoth, NEW p \in Outputs, WriteRecord(p)
  PROVE  LevelFacts' /\ file' = file
<1>1. /\ TypeOK /\ LevelFacts /\ opt.flushing /\ DumpFacts(cur) /\ pc = "fwrite" /\ cur = p
      /\ pc' = "fflush" /\ UNCHANGED <<cur, i, data, fp>>
  BY LevelTypes DEF WriteRecord, struct
<1>2. PICK k \in Takes(cur, Len(Pending(cur))) :
        /\ Accept(cur, Pending(cur), k) /\ Fills(cur, Len(Pending(cur)), k)
        /\ buf' = [buf EXCEPT ![cur] = BufferAfter(cur, Pending(cur), k)]
  BY <1>1 DEF WriteRecord
<1>3. Pending(cur) = <<>> /\ k = Len(Pending(cur)) /\ Len(Pending(cur)) \in Nat /\ full' = full
  BY <1>1, <1>2, OnlyFlushWrites, AllTaken
<1>4. file' = file
  <2>1. k \in 0 .. Len(Pending(cur))
    BY <1>3
  <2> QED
    BY <1>2, <1>3, <2>1, NothingWritten
<1>5. ~data => buf'[cur] = <<>>
  BY <1>1, <1>2 DEF BufferAfter, DumpFacts, TypeOK
<1>6. Raw' = Raw /\ Iso' = Iso
  BY <1>4 DEF Raw, Iso
<1> QED
  BY <1>1, <1>3, <1>4, <1>5, <1>6 DEF LevelFacts, InDump

\* What is written of the record that the loop is busy with keeps the files
\* close: c units of it, in a crash or in a whole write.
LEMMA RecordWritten ==
  ASSUME LevelInv, AlwaysBoth, pc = "fflush", NEW k \in 0 .. Len(Pending(cur)),
         Accept(cur, Pending(cur), k)
  PROVE  /\ Ahead(Raw', Iso')
         /\ Raw' = (IF cur = "raw" THEN Raw + k ELSE Raw)
         /\ Iso' = (IF cur = "iso" THEN Iso + k ELSE Iso)
         /\ k \in Nat /\ k <= 2
         /\ LittleLost
<1>1. /\ TypeOK /\ LevelFacts /\ cur \in Outputs /\ i \in Nat /\ Raw \in Nat /\ Iso \in Nat
      /\ Iso = 2 * i /\ Raw = (IF cur = "iso" /\ data THEN 2 * i + 2 ELSE 2 * i)
  BY LevelTypes DEF LevelFacts
<1>2. Pending(cur) \in Seq(Nat) /\ Len(<<>>) = 0
  BY <1>1, PendingType, EmptySeq
<1>3. k \in Nat /\ k <= 2 /\ (~data => k = 0)
  <2>1. data => Len(Pending(cur)) = 2
    BY OnlyFlushWrites
  <2>2. ~data => Len(Pending(cur)) = 0
    BY <1>2, OnlyFlushWrites
  <2>3. data => k \in 0 .. 2
    BY <2>1, Zenon
  <2>4. ~data => k \in 0 .. 0
    BY <2>2, Zenon
  <2>5. \A n \in 0 .. 2 : n \in Nat /\ n <= 2
    OBVIOUS
  <2>6. \A n \in 0 .. 0 : n = 0 /\ n \in 0 .. 2
    OBVIOUS
  <2> QED
    BY <2>3, <2>4, <2>5, <2>6, Zenon
<1>4. /\ Len(file'[cur]) = Len(file[cur]) + k
      /\ \A o \in Outputs \ {cur} : file'[o] = file[o]
  BY <1>1, <1>2, AcceptType
<1>5. /\ Raw' = (IF cur = "raw" THEN Raw + k ELSE Raw)
      /\ Iso' = (IF cur = "iso" THEN Iso + k ELSE Iso)
  BY <1>1, <1>4 DEF Raw, Iso, Outputs
<1>6. Ahead(Raw', Iso')
  <2>1. 2 * i <= Iso' /\ Iso' <= Raw' /\ Raw' <= 2 * i + 2
    <3>1. CASE cur = "raw"
      BY <1>1, <1>3, <1>5, <3>1
    <3>2. CASE cur = "iso"
      BY <1>1, <1>3, <1>5, <3>2
    <3> QED
      BY <1>1, <3>1, <3>2 DEF Outputs
  <2> QED
    BY <1>1, <2>1 DEF Ahead
<1>7. \A o \in Outputs : Len(file'[o]) \in Nat /\ Len(file'[o]) >= Len(file[o])
  BY <1>1, <1>3, <1>5 DEF Raw, Iso, Outputs
<1> QED
  BY <1>3, <1>5, <1>6, <1>7, NothingLost

LEMMA LevelFlushAndHash ==
  ASSUME LevelInv, AlwaysBoth, NEW p \in Outputs, FlushAndHash(p)
  PROVE  LevelFacts' /\ LittleLost
<1>1. /\ TypeOK /\ LevelFacts /\ cur \in Outputs /\ i \in Nat /\ pc = "fflush" /\ cur = p
      /\ UNCHANGED <<data, fp>>
      /\ pc' = IF cur = "raw" THEN "fwrite" ELSE "read"
      /\ cur' = IF cur = "raw" THEN "iso" ELSE "raw"
      /\ i' = IF cur = "raw" THEN i ELSE i + 1
      /\ Iso = 2 * i /\ Raw = (IF cur = "iso" /\ data THEN 2 * i + 2 ELSE 2 * i)
  BY LevelTypes DEF FlushAndHash, struct, NextSector, LevelFacts
<1>2. PICK k \in Takes(cur, Len(Pending(cur))) :
        Accept(cur, Pending(cur), k) /\ Fills(cur, Len(Pending(cur)), k)
  BY <1>1 DEF FlushAndHash
<1>3. k = Len(Pending(cur)) /\ Len(Pending(cur)) \in Nat /\ full' = full
  BY <1>2, AllTaken
<1>4. k \in 0 .. Len(Pending(cur))
  BY <1>3
<1>5. k = IF data THEN 2 ELSE 0
  BY <1>1, <1>3, OnlyFlushWrites, EmptySeq
<1>6. /\ Ahead(Raw', Iso') /\ LittleLost
      /\ Raw' = (IF cur = "raw" THEN Raw + k ELSE Raw)
      /\ Iso' = (IF cur = "iso" THEN Iso + k ELSE Iso)
  BY <1>1, <1>2, <1>4, RecordWritten
<1>7. cur = "raw" => Iso' = 2 * i /\ Raw' = IF data THEN 2 * i + 2 ELSE 2 * i
  BY <1>1, <1>5, <1>6
<1>8. LevelFacts'
  BY <1>1, <1>3, <1>6, <1>7 DEF LevelFacts, InDump, Outputs
<1> QED
  BY <1>6, <1>8

LEMMA LevelClose ==
  ASSUME LevelInv, AlwaysBoth, NEW p \in Outputs, Close(p)
  PROVE  LevelFacts' /\ file' = file
<1>1. /\ TypeOK /\ LevelFacts /\ pc = "close" /\ cur = p /\ pc' \in {"close", "down"}
      /\ UNCHANGED fp
  BY LevelTypes DEF Close, struct
<1>2. PICK k \in Takes(cur, Len(Pending(cur))) :
        Accept(cur, Pending(cur), k) /\ Fills(cur, Len(Pending(cur)), k)
  BY <1>1 DEF Close
<1>3. Pending(cur) = <<>> /\ k = Len(Pending(cur)) /\ Len(Pending(cur)) \in Nat /\ full' = full
  BY <1>1, <1>2, OnlyFlushWrites, AllTaken
<1>4. file' = file
  <2>1. k \in 0 .. Len(Pending(cur))
    BY <1>3
  <2> QED
    BY <1>2, <1>3, <2>1, NothingWritten
<1>5. Raw' = Raw /\ Iso' = Iso
  BY <1>4 DEF Raw, Iso
<1> QED
  BY <1>1, <1>3, <1>4, <1>5 DEF LevelFacts, InDump

LEMMA LevelCrash ==
  ASSUME LevelInv, AlwaysBoth, Crash
  PROVE  LevelFacts' /\ LittleLost
<1>1. /\ TypeOK /\ LevelFacts /\ cur \in Outputs
      /\ \A o \in Outputs : Len(file[o]) \in Nat
  BY LevelTypes
<1>2. PICK k \in (IF full[cur] THEN {0} ELSE 0 .. Len(Pending(cur))) :
        Accept(cur, Pending(cur), k)
  BY DEF Crash
<1>3. k \in 0 .. Len(Pending(cur))
  BY <1>1, <1>2, PendingType
<1>4. pc' = "down" /\ full' = full
  BY DEF Crash
<1>5. CASE pc = "fflush"
  <2>1. Ahead(Raw', Iso') /\ LittleLost
    BY <1>2, <1>3, <1>5, RecordWritten
  <2> QED
    BY <1>1, <1>4, <2>1 DEF LevelFacts, InDump
<1>6. CASE pc # "fflush"
  <2>1. file' = file
    BY <1>2, <1>3, <1>6, OnlyFlushWrites, NothingWritten
  <2>2. Raw' = Raw /\ Iso' = Iso
    BY <2>1 DEF Raw, Iso
  <2>3. LevelFacts'
    BY <1>1, <1>4, <2>2 DEF LevelFacts, InDump
  <2>4. LittleLost
    <3>1. \A o \in Outputs : Len(file'[o]) \in Nat /\ Len(file'[o]) >= Len(file[o])
      BY <1>1, <2>1
    <3> QED
      BY <3>1, NothingLost
  <2> QED
    BY <2>3, <2>4
<1> QED
  BY <1>5, <1>6

LEMMA LevelNext ==
  ASSUME LevelInv, AlwaysBoth, [Next]_vars
  PROVE  LevelInv' /\ LittleLost
<1>1. PromiseInv'
  BY PromiseNext DEF LevelInv, AlwaysBoth
<1>2. file' = file => LittleLost
  <2>1. \A o \in Outputs : Len(file[o]) \in Nat
    BY LevelTypes
  <2> QED
    BY <2>1, NothingLost
<1>3. LevelFacts' /\ LittleLost
  BY <1>2, LevelQuietSteps, LevelSetOutputFile, LevelPrepareStart, LevelReadSector,
     LevelPrepareOutput, LevelWriteRecord, LevelFlushAndHash, LevelClose, LevelCrash
  DEF Next, Step
<1> QED
  BY <1>1, <1>3 DEF LevelInv

\* When every process dumps both outputs with flushing on, and nothing fails
\* but the processes, which may be killed anywhere, a resume throws away no
\* more than one block of either file (ResumeDiscardsAtMostABlock).
THEOREM ResumeCorrect ==
  ASSUME AlwaysBoth
  PROVE  Spec => ResumeDiscardsAtMostABlock
<1>1. Init => LevelInv
  BY LevelInit
<1>2. LevelInv /\ [Next]_vars => LevelInv'
  BY LevelNext
<1>3. LevelInv /\ [Next]_vars
        => [\A o \in Outputs :
              Len(file[o]) - Len(file'[o]) <= 2 * SECTORS_PER_BLOCK]_vars
  BY LevelNext DEF LittleLost
<1> QED
  BY <1>1, <1>2, <1>3, PTL DEF Spec, ResumeDiscardsAtMostABlock
=============================================================================
