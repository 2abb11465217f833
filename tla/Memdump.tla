------------------------------ MODULE Memdump -------------------------------
(***************************************************************************)
(* Memory dumps: dvd_memdump of libfriidump/dvd_drive.c, the five backends *)
(* it calls, the privileges they run with (misc.c), and the requests that  *)
(* the read methods of disc.c make.                                        *)
(*                                                                         *)
(* The callers see the RAM of a drive as raw sectors of 2064 bytes, one    *)
(* after the other, the first being what the last READ named.  Some drives *)
(* are so; others store sectors of 2384 bytes, with parity after each of   *)
(* 12 rows and after them all.                                             *)
(*                                                                         *)
(* Data: of each sector a few watched bytes are followed.  A byte is the   *)
(* number of its sector and its place there, or 0 after dvd_init_command   *)
(* cleared the buffer, or marked by a failed sequence check, or old: what  *)
(* the caller had in its buffer.  The correction of errors by rs_decode,   *)
(* which liteon.c does beforehand, is left out.                            *)
(*                                                                         *)
(* Operators whose names end in Slip are what a programming slip would     *)
(* have made of the operator they precede.                                 *)
(***************************************************************************)
EXTENDS Integers

CONSTANTS
  RAW_SECTOR_SIZE, SECTORS_PER_BLOCK,
  HITACHI_MEM_BASE,     \* 80000000h, more than TLC can count
  Watched,              \* places of the bytes in a sector that are followed
  Steps,                \* values of sec_mem
  Rams,                 \* what the RAM may hold: sector numbers
  Users                 \* see UserType

\* The sectors are stored in 12 rows of 172 bytes and 10 bytes of parity, and 200
\* bytes of parity follow.
Rows == 12
Row == 172
RowParity == 10
ColumnParity == 200
STORED_SIZE == Rows * (Row + RowParity) + ColumnParity

Backends == {"vanilla_2064", "vanilla_2384", "hitachi", "liteon", "renesas"}
Stored   == {"vanilla_2384", "liteon"}      \* dump sectors with parity
Checked  == Backends \ {"hitachi"}          \* check the sequence of sectors

\* Who runs the program, and whether it is set-uid root.
UserType == [uid : Nat, setuid : BOOLEAN]

ASSUME MemdumpAssumption ==
  /\ RAW_SECTOR_SIZE = Rows * Row
  /\ SECTORS_PER_BLOCK \in Nat \ {0} /\ HITACHI_MEM_BASE \in Nat
  /\ Watched \subseteq 0 .. RAW_SECTOR_SIZE - 1 /\ 1 \in Watched
  /\ Steps \subseteq Nat \ {0}
  /\ \A r \in Rams : r \in [DOMAIN r -> Nat]
  /\ Users \subseteq UserType

VARIABLES
  user, memdump,        \* one of Users and the backend, for good
  euid,                 \* the effective user
  ram,                  \* the sectors in the RAM of the drive
  pc, request,          \* what dvd_memdump was asked for
  buf,                  \* the watched bytes at and behind the caller's pointer
  got,                  \* how many bytes the drive has sent
  out

hardware == <<user, memdump>>
vars     == <<hardware, euid, ram, pc, request, buf, got, out>>

-----------------------------------------------------------------------------
\* The requests: where they begin and how long they are.

Request == [offset : Nat, size : Nat]
Nothing == [offset |-> 0, size |-> 0]
Lesser(a, b) == IF a < b THEN a ELSE b

\* Methods 0 to 6 ask for sec_mem sectors, 27 at a time, as these still fit with
\* their parity; the last try asks for a block.
MostSectorsSlip == 32
MostSectors == 27
ASSUME PieceAssumption == SECTORS_PER_BLOCK <= MostSectors

Pieces(step) == (step + MostSectors - 1) \div MostSectors
PieceRequests(step) ==
  {[offset |-> b * MostSectors * RAW_SECTOR_SIZE,
    size   |-> Lesser(step, MostSectors) * RAW_SECTOR_SIZE] : b \in 0 .. Pieces(step) - 1}

\* Method 7 asks for five blocks one by one.
Ahead == 5
BlockRequests ==
  {[offset |-> j * SECTORS_PER_BLOCK * RAW_SECTOR_SIZE,
    size   |-> SECTORS_PER_BLOCK * RAW_SECTOR_SIZE] : j \in 0 .. Ahead - 1}

\* Methods 8 and 9 ask for what is before and after the user data of each sector;
\* 9 joins the end of one with the beginning of the next.
HeaderRequests ==
  UNION {{[offset |-> k * RAW_SECTOR_SIZE, size |-> 12],
          [offset |-> k * RAW_SECTOR_SIZE + 2060, size |-> 4],
          [offset |-> k * RAW_SECTOR_SIZE + 2060, size |-> 16]} :
            k \in 0 .. Ahead * SECTORS_PER_BLOCK - 1}

\* Methods 8 and 9 are meant for the drives without parity.
Requests ==
  (UNION {PieceRequests(step) : step \in Steps}) \cup BlockRequests
    \cup (IF memdump \in Stored THEN {} ELSE HeaderRequests)

\* The RAM is as large as what the read methods ask for.
SectorsOf(r) ==
  r.offset \div RAW_SECTOR_SIZE .. (r.offset + r.size - 1) \div RAW_SECTOR_SIZE
ASSUME RamAssumption ==
  \A contents \in Rams :
    \A r \in (UNION {PieceRequests(step) : step \in Steps}) \cup BlockRequests \cup HeaderRequests :
      SectorsOf(r) \subseteq DOMAIN contents

-----------------------------------------------------------------------------
\* The addresses the backends send to the drive.

\* The RAM begins here.
Base == IF memdump = "hitachi" THEN HITACHI_MEM_BASE ELSE 0

raw_offsetSlip(o) == Base + o
raw_offset(o) ==
  IF memdump \in Stored THEN (o \div RAW_SECTOR_SIZE) * STORED_SIZE ELSE Base + o
raw_block_size(n) ==
  IF memdump \in Stored THEN (n \div RAW_SECTOR_SIZE) * STORED_SIZE ELSE n

Refused(r) ==
  \/ r.size = 0
  \/ raw_block_size(r.size) > (IF memdump = "liteon" THEN 65534 ELSE 65535)

\* The byte at an address of the RAM; parity is of no interest.
Parity == <<-1, -1>>
At(address) ==
  IF memdump \in Stored
  THEN LET within == (address - Base) % STORED_SIZE
       IN  IF within < Rows * (Row + RowParity) /\ within % (Row + RowParity) < Row
           THEN <<ram[(address - Base) \div STORED_SIZE],
                  (within \div (Row + RowParity)) * Row + (within % (Row + RowParity))>>
           ELSE Parity
  ELSE <<ram[(address - Base) \div RAW_SECTOR_SIZE], (address - Base) % RAW_SECTOR_SIZE>>

\* Where in what the drive sent the byte x of the buffer comes from: row after row
\* is copied without its parity.
CopiedFromSlip(x) ==
  IF memdump \in Stored
  THEN (x \div RAW_SECTOR_SIZE) * STORED_SIZE + (x % RAW_SECTOR_SIZE)
  ELSE x
CopiedFrom(x) ==
  IF memdump \in Stored
  THEN (x \div RAW_SECTOR_SIZE) * STORED_SIZE
         + ((x % RAW_SECTOR_SIZE) \div Row) * (Row + RowParity) + ((x % RAW_SECTOR_SIZE) % Row)
  ELSE x

\* The places in the buffer of a request that are followed.
Places(r) ==
  {x \in {k * RAW_SECTOR_SIZE + w - r.offset :
            k \in r.offset \div RAW_SECTOR_SIZE .. (r.offset + r.size) \div RAW_SECTOR_SIZE,
            w \in Watched} : 0 <= x /\ x < r.size}

-----------------------------------------------------------------------------
Old    == <<-2, -2>>
Zero   == <<0, 0>>
Marked == <<-3, -3>>

\* The buffer after the drive sent n bytes; the buffer, or the temporary one that
\* the stored sectors go to, was cleared before.
Sent(r, n) ==
  [x \in Places(r) |->
     IF CopiedFrom(x) < n THEN At(raw_offset(r.offset) + CopiedFrom(x)) ELSE Zero]

\* The sectors whose numbers are compared: as often as a whole one is in the
\* stored data, and once for what is left in data without parity.
SectorsIn(r) ==
  IF memdump \in Stored THEN r.size \div RAW_SECTOR_SIZE
  ELSE (r.size + RAW_SECTOR_SIZE - 1) \div RAW_SECTOR_SIZE

NumberOf(b, j) == b[j * RAW_SECTOR_SIZE + 1][1]

OutOfSequenceSlip(b, j) == NumberOf(b, j) < NumberOf(b, 0) + j
OutOfSequence(b, j) == NumberOf(b, j) # NumberOf(b, 0) + j

\* The first sectors that follow each other, all of them if nothing is checked.
InSequence(b, r) ==
  IF memdump \in Checked /\ \E j \in 1 .. SectorsIn(r) - 1 : OutOfSequence(b, j)
  THEN CHOOSE j \in 1 .. SectorsIn(r) - 1 :
         OutOfSequence(b, j) /\ \A i \in 1 .. j - 1 : ~OutOfSequence(b, i)
  ELSE SectorsIn(r)

\* Without parity the buffer is the caller's: a sector out of sequence is marked.
DeliveredInPlace(b, r) ==
  LET n == InSequence(b, r)
  IN  [x \in Places(r) |->
         IF x \div RAW_SECTOR_SIZE = n /\ x % RAW_SECTOR_SIZE < 4 THEN Marked ELSE b[x]]

\* With parity the rows of each sector are copied, up to one out of sequence.
DeliveredByRows(b, r) ==
  LET n == InSequence(b, r)
  IN  [x \in Places(r) |-> IF x \div RAW_SECTOR_SIZE < n THEN b[x] ELSE Old]

Delivered(b, r) ==
  IF memdump \in Stored THEN DeliveredByRows(b, r) ELSE DeliveredInPlace(b, r)

-----------------------------------------------------------------------------
Init ==
  /\ user \in Users /\ memdump \in Backends
  /\ euid = IF user.setuid THEN 0 ELSE user.uid
  /\ ram \in Rams
  /\ pc = "main" /\ request = Nothing
  /\ buf = <<>> /\ got = 0 /\ out = 0

drop_euidSlip(e) == IF e # 0 THEN user.uid ELSE e
drop_euid(e) == IF user.uid # 0 THEN user.uid ELSE e

\* seteuid to root succeeds only in a set-uid program.
upgrade_euid(e) == IF user.uid # 0 /\ user.setuid THEN 0 ELSE e

\* The first thing that main does.
Start ==
  /\ pc = "main"
  /\ euid' = drop_euid(euid)
  /\ pc' = "idle"
  /\ UNCHANGED <<hardware, ram, request, buf, got, out>>

\* A READ, of this program or of another one: the device is not opened for
\* exclusive use.
Read ==
  /\ pc # "main"
  /\ ram' \in Rams
  /\ UNCHANGED <<hardware, euid, pc, request, buf, got, out>>

\* A read method calls dvd_memdump.
dvd_memdump ==
  /\ pc = "idle"
  /\ request' \in Requests
  /\ buf' = [x \in Places(request') |-> Old]
  /\ euid' = upgrade_euid(euid)
  /\ pc' = "dump"
  /\ UNCHANGED <<hardware, ram, got, out>>

\* How much the drive may send.
Amounts(r) ==
  LET size == raw_block_size(r.size)
      sector == IF memdump \in Stored THEN STORED_SIZE ELSE RAW_SECTOR_SIZE
  IN  {0, Lesser(sector, size), Lesser(sector + 12, size), size}

\* The backend: an invalid size is refused; a command may fail, or send all or only
\* the beginning of what was asked for, but no header in part.
Dump ==
  /\ pc = "dump"
  /\ IF Refused(request)
     THEN out' = -2 /\ got' = 0 /\ UNCHANGED buf
     ELSE /\ got' \in Amounts(request)
          /\ LET sent == Sent(request, got')
             IN  /\ buf' = Delivered(sent, request)
                 /\ IF InSequence(sent, request) < SectorsIn(request)
                    THEN out' = -3
                    ELSE out' \in {0, -1}
  /\ pc' = "drop"
  /\ UNCHANGED <<hardware, euid, ram, request>>

\* The caller goes on with its buffer.
Return ==
  /\ pc = "drop"
  /\ euid' = drop_euid(euid)
  /\ pc' = "idle" /\ request' = Nothing /\ buf' = <<>> /\ got' = 0
  /\ UNCHANGED <<hardware, ram, out>>

Next == Start \/ Read \/ dvd_memdump \/ Dump \/ Return

Spec == Init /\ [][Next]_vars

-----------------------------------------------------------------------------
\* The values the variables take; above all no parity gets into a buffer.
TypeOK ==
  /\ user \in Users /\ memdump \in Backends /\ ram \in Rams
  /\ euid \in {0, user.uid}
  /\ pc \in {"main", "idle", "dump", "drop"}
  /\ request \in Request
  /\ DOMAIN buf \subseteq Nat
  /\ \A x \in DOMAIN buf : buf[x] \in {Old, Zero, Marked} \cup (Nat \X Watched)
  /\ got \in Nat /\ out \in {0, -1, -2, -3}

\* dvd_drive.c:357 says "in our model, privileges are only used to execute memory
\* dump commands": however a dump ends and whoever runs the program, it is the
\* user's otherwise; and every dump has the privileges that it can get.
PrivilegesOnlyInDumps ==
  /\ pc = "idle" => euid = user.uid
  /\ pc = "dump" /\ user.setuid => euid = 0

\* No read method asks for more than the backends accept, whatever backend and
\* sec_mem the user has chosen.
NeverRefused ==
  out # -2

\* A dump that succeeds with a backend that checks the sequence has consecutive
\* sectors, however few the drive has sent and whatever was in its RAM; the
\* number of sectors may differ from those the caller wanted.
SuccessMeansInSequence ==
  pc = "drop" /\ out >= 0 /\ memdump \in Checked /\ request.size > RAW_SECTOR_SIZE =>
    \A j \in 1 .. SectorsIn(request) - 1 : NumberOf(buf, j) = NumberOf(buf, 0) + j

\* What a successful dump hands to the read methods is, with every backend, what
\* they take the RAM to be: sector after sector from the beginning, without
\* parity, as far as the drive has sent it.
DumpsWhatIsThere ==
  [][Dump /\ out' >= 0 =>
       \A x \in Places(request) :
         CopiedFrom(x) < got' =>
           buf'[x] = <<ram[(request.offset + x) \div RAW_SECTOR_SIZE],
                       (request.offset + x) % RAW_SECTOR_SIZE>>]_vars
=============================================================================
