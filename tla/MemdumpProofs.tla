--------------------------- MODULE MemdumpProofs ----------------------------
(***************************************************************************)
(* Theorems about memory dumps: that the five backends make the RAM of the *)
(* drives look alike, that what is dumped with success is in sequence,     *)
(* that no request is refused, and that the privileges of root last as     *)
(* long as a dump; for every RAM, whatever a drive sends and whoever runs  *)
(* the program.                                                            *)
(*                                                                         *)
(* The inductive invariant says what requests the read methods make; the   *)
(* rest is arithmetic on the layout of a sector.                           *)
(***************************************************************************)
EXTENDS Memdump, Arithmetic, TLAPS

\* The sizes of a sector, as the drives store it and as the callers see it.
LEMMA SectorSizes == RAW_SECTOR_SIZE = 2064 /\ STORED_SIZE = 2384
BY MemdumpAssumption DEF STORED_SIZE, Rows, Row, RowParity, ColumnParity

\* A request that begins and ends with sectors.
Aligned(r) ==
  /\ r.offset \in Nat /\ r.size \in Nat \ {0}
  /\ \E q \in Nat : r.offset = 2064 * q
  /\ \E n \in 1 .. MostSectors : r.size = 2064 * n

\* One for less than a sector.
Short(r) == r.offset \in Nat /\ r.size \in 1 .. 16 /\ memdump \notin Stored

LEMMA RequestsMade ==
  ASSUME NEW r \in Requests
  PROVE  Aligned(r) \/ Short(r)
<1>1. ASSUME NEW step \in Steps, r \in PieceRequests(step)
      PROVE  Aligned(r)
  <2>1. step \in Nat \ {0}
    BY MemdumpAssumption
  <2>2. PICK b \in 0 .. Pieces(step) - 1 :
          r = [offset |-> b * MostSectors * RAW_SECTOR_SIZE,
               size   |-> Lesser(step, MostSectors) * RAW_SECTOR_SIZE]
    BY <1>1 DEF PieceRequests
  <2>3. b \in Nat
    BY <2>1 DEF Pieces, MostSectors
  <2>4. r.offset = 2064 * (27 * b) /\ 27 * b \in Nat
    BY <2>2, <2>3, SectorSizes DEF MostSectors
  <2>5. r.size = 2064 * Lesser(step, MostSectors) /\ Lesser(step, MostSectors) \in 1 .. MostSectors
    BY <2>1, <2>2, SectorSizes DEF Lesser, MostSectors
  <2> QED
    BY <2>4, <2>5 DEF Aligned, MostSectors
<1>2. CASE r \in BlockRequests
  <2>1. PICK j \in 0 .. Ahead - 1 :
          r = [offset |-> j * SECTORS_PER_BLOCK * RAW_SECTOR_SIZE,
               size   |-> SECTORS_PER_BLOCK * RAW_SECTOR_SIZE]
    BY <1>2 DEF BlockRequests
  <2>2. SECTORS_PER_BLOCK \in 1 .. MostSectors /\ j \in Nat
    BY MemdumpAssumption, PieceAssumption DEF MostSectors, Ahead
  <2> DEFINE q == j * SECTORS_PER_BLOCK
  <2>3. q \in Nat
    BY <2>2 DEF MostSectors
  <2>4. r.offset = q * RAW_SECTOR_SIZE /\ r.size = SECTORS_PER_BLOCK * RAW_SECTOR_SIZE
    BY <2>1
  <2> HIDE DEF q
  <2>5. r.offset = 2064 * q /\ r.size = 2064 * SECTORS_PER_BLOCK
    BY <2>2, <2>3, <2>4, SectorSizes DEF MostSectors
  <2> QED
    BY <2>2, <2>3, <2>5 DEF Aligned, MostSectors
<1>3. CASE memdump \notin Stored /\ r \in HeaderRequests
  <2>1. PICK k \in 0 .. Ahead * SECTORS_PER_BLOCK - 1 :
          r \in {[offset |-> k * RAW_SECTOR_SIZE, size |-> 12],
                [offset |-> k * RAW_SECTOR_SIZE + 2060, size |-> 4],
                [offset |-> k * RAW_SECTOR_SIZE + 2060, size |-> 16]}
    BY <1>3 DEF HeaderRequests
  <2>2. k \in Nat
    BY MemdumpAssumption DEF Ahead
  <2>3. k * RAW_SECTOR_SIZE = 2064 * k
    BY <2>2, SectorSizes
  <2> QED
    BY <1>3, <2>1, <2>2, <2>3 DEF Short
<1> QED
  BY <1>1, <1>2, <1>3 DEF Requests

\* The invariant: dvd_memdump is asked for nothing else.
RequestInv ==
  /\ memdump \in Backends /\ user \in Users /\ euid \in {0, user.uid}
  /\ pc \in {"main", "idle", "dump", "drop"}
  /\ pc \in {"dump", "drop"} => request \in Requests

LEMMA RequestStart == Init => RequestInv
BY DEF Init, RequestInv

LEMMA RequestStep == RequestInv /\ [Next]_vars => RequestInv'
<1> SUFFICES ASSUME RequestInv, [Next]_vars PROVE RequestInv'
  OBVIOUS
<1>1. UNCHANGED hardware
  BY DEF Next, Start, Read, dvd_memdump, Dump, Return, vars
<1>2. Requests' = Requests
  BY <1>1
     DEF hardware, Requests, HeaderRequests, BlockRequests, PieceRequests, Pieces
<1> USE <1>1 DEF hardware, RequestInv
<1>3. CASE Start
  BY <1>3 DEF Start, drop_euid
<1>4. CASE Read
  BY <1>2, <1>4 DEF Read
<1>5. CASE dvd_memdump
  BY <1>2, <1>5 DEF dvd_memdump, upgrade_euid
<1>6. CASE Dump
  BY <1>2, <1>6 DEF Dump
<1>7. CASE Return
  BY <1>7 DEF Return, drop_euid
<1>8. CASE UNCHANGED vars
  BY <1>2, <1>8 DEF vars
<1> QED
  BY <1>3, <1>4, <1>5, <1>6, <1>7, <1>8 DEF Next

-----------------------------------------------------------------------------
\* A request is as long as its sectors, and none is refused.
LEMMA NotRefused ==
  ASSUME memdump \in Backends, NEW r \in Requests
  PROVE  ~Refused(r)
<1>1. CASE Aligned(r)
  <2>1. PICK n \in 1 .. MostSectors : r.size = 2064 * n
    BY <1>1 DEF Aligned
  <2>2. n \in 1 .. 27
    BY DEF MostSectors
  <2>3. r.size \div RAW_SECTOR_SIZE = n
    BY <2>1, <2>2, SectorSizes
  <2>4. raw_block_size(r.size) \in {2384 * n, 2064 * n}
    BY <2>1, <2>2, <2>3, SectorSizes DEF raw_block_size
  <2> QED
    BY <2>1, <2>2, <2>4 DEF Refused
<1>2. CASE Short(r)
  BY <1>2 DEF Short, Refused, raw_block_size, Stored
<1> QED
  BY <1>1, <1>2, RequestsMade

\* No read method asks for more than a backend accepts.
THEOREM NeverRefusedCorrect == Spec => []NeverRefused
<1>1. Init => NeverRefused
  BY DEF Init, NeverRefused
<1>2. RequestInv /\ NeverRefused /\ [Next]_vars => NeverRefused'
  <2> SUFFICES ASSUME RequestInv, NeverRefused, [Next]_vars PROVE NeverRefused'
    OBVIOUS
  <2>1. CASE Dump
    <3>1. ~Refused(request)
      BY <2>1, NotRefused DEF Dump, RequestInv
    <3> QED
      BY <2>1, <3>1 DEF Dump, NeverRefused
  <2> QED
    BY <2>1 DEF Next, Start, Read, dvd_memdump, Return, vars, NeverRefused
<1> QED
  BY <1>1, <1>2, RequestStart, RequestStep, PTL DEF Spec

\* Privileges are used to execute memory dump commands only.
THEOREM PrivilegesCorrect == Spec => []PrivilegesOnlyInDumps
<1>1. Init => PrivilegesOnlyInDumps
  BY DEF Init, PrivilegesOnlyInDumps
<1>2. RequestInv /\ PrivilegesOnlyInDumps /\ [Next]_vars => PrivilegesOnlyInDumps'
  <2> SUFFICES ASSUME RequestInv, PrivilegesOnlyInDumps, [Next]_vars
               PROVE  PrivilegesOnlyInDumps'
    OBVIOUS
  <2> USE DEF PrivilegesOnlyInDumps, RequestInv, hardware
  <2>1. CASE Start \/ Return
    BY <2>1 DEF Start, Return, drop_euid
  <2>2. CASE dvd_memdump
    BY <2>2 DEF dvd_memdump, upgrade_euid
  <2>3. CASE Read \/ Dump \/ UNCHANGED vars
    BY <2>3 DEF Read, Dump, vars
  <2> QED
    BY <2>1, <2>2, <2>3 DEF Next
<1> QED
  BY <1>1, <1>2, RequestStart, RequestStep, PTL DEF Spec

-----------------------------------------------------------------------------
\* If nothing is found out of sequence, every pair of sectors has been compared.
LEMMA AllInSequence ==
  ASSUME NEW b, NEW r, SectorsIn(r) \in Int, ~(InSequence(b, r) < SectorsIn(r))
  PROVE  /\ InSequence(b, r) = SectorsIn(r)
         /\ memdump \in Checked => \A j \in 1 .. SectorsIn(r) - 1 : ~OutOfSequence(b, j)
<1> DEFINE T == {j \in 1 .. SectorsIn(r) - 1 : OutOfSequence(b, j)}
<1>1. CASE memdump \in Checked /\ T # {}
  <2>1. T \subseteq Nat
    OBVIOUS
  <2>2. PICK j \in T : \A i \in T : j <= i
    BY <1>1, <2>1, LeastNat
  <2>3. \A i \in 1 .. j - 1 : ~OutOfSequence(b, i)
    <3> TAKE i \in 1 .. j - 1
    <3>1. i \notin T
      BY <2>1, <2>2
    <3> QED
      BY <2>2, <3>1
  <2>4. InSequence(b, r) \in 1 .. SectorsIn(r) - 1
    BY <1>1, <2>2, <2>3 DEF InSequence
  <2> QED
    BY <2>4
<1>2. CASE ~(memdump \in Checked /\ T # {})
  BY <1>2 DEF InSequence
<1> QED
  BY <1>1, <1>2

\* The places that are followed are inside the request.
LEMMA PlacesInside ==
  ASSUME NEW r \in Requests, NEW x \in Places(r)
  PROVE  x \in Nat /\ x < r.size
<1>1. r.offset \in Nat /\ r.size \in Nat
  BY RequestsMade DEF Aligned, Short
<1>2. r.offset \div RAW_SECTOR_SIZE \in Int /\ (r.offset + r.size) \div RAW_SECTOR_SIZE \in Int
  BY <1>1, SectorSizes
<1>3. PICK k \in r.offset \div RAW_SECTOR_SIZE .. (r.offset + r.size) \div RAW_SECTOR_SIZE,
           w \in Watched :
        x = k * RAW_SECTOR_SIZE + w - r.offset /\ 0 <= x /\ x < r.size
  BY DEF Places
<1>4. k * RAW_SECTOR_SIZE \in Int /\ w \in Int
  BY <1>2, <1>3, MemdumpAssumption, SectorSizes
<1> QED
  BY <1>1, <1>3, <1>4

\* What was sent is handed over unchanged, if it is in sequence.
LEMMA DeliveredWhole ==
  ASSUME memdump \in Backends, NEW r \in Requests, NEW b, NEW x \in Places(r),
         ~(InSequence(b, r) < SectorsIn(r))
  PROVE  Delivered(b, r)[x] = b[x]
<1>1. x \in Nat /\ x < r.size /\ r.size \in Nat
  BY PlacesInside, RequestsMade DEF Aligned, Short
<1>2. SectorsIn(r) \in Int
  BY <1>1, SectorSizes DEF SectorsIn
<1>3. InSequence(b, r) = SectorsIn(r)
  BY <1>2, AllInSequence
<1>4. CASE memdump \in Stored
  <2>1. PICK n \in 1 .. MostSectors : r.size = 2064 * n
    BY <1>4, RequestsMade DEF Aligned, Short
  <2>2. SectorsIn(r) = n
    BY <1>4, <2>1, SectorSizes DEF SectorsIn, MostSectors
  <2>3. x \div RAW_SECTOR_SIZE < n
    BY <1>1, <2>1, SectorSizes DEF MostSectors
  <2> QED
    BY <1>3, <1>4, <2>2, <2>3 DEF Delivered, DeliveredByRows
<1>5. CASE memdump \notin Stored
  <2>1. SectorsIn(r) = (r.size + 2063) \div 2064
    BY <1>1, <1>5, SectorSizes DEF SectorsIn
  <2>2. x \div RAW_SECTOR_SIZE < SectorsIn(r)
    BY <1>1, <2>1, SectorSizes
  <2>3. x \div RAW_SECTOR_SIZE # InSequence(b, r)
    BY <1>1, <1>2, <1>3, <2>2, SectorSizes
  <2> QED
    BY <1>5, <2>3 DEF Delivered, DeliveredInPlace
<1> QED
  BY <1>4, <1>5

\* A dump that succeeded.
LEMMA Succeeded ==
  ASSUME RequestInv, Dump, out' >= 0
  PROVE  LET sent == Sent(request, got')
         IN  /\ request \in Requests
             /\ ~(InSequence(sent, request) < SectorsIn(request))
             /\ buf' = Delivered(sent, request)
<1>1. request \in Requests
  BY DEF RequestInv, Dump
<1>2. ~Refused(request)
  BY <1>1, NotRefused DEF RequestInv
<1>3. buf' = Delivered(Sent(request, got'), request)
  BY <1>2 DEF Dump
<1>4. InSequence(Sent(request, got'), request) < SectorsIn(request) => out' = -3
  BY <1>2 DEF Dump
<1> QED
  BY <1>1, <1>3, <1>4

-----------------------------------------------------------------------------
\* A success of a backend that checks means that the sectors are consecutive.
LEMMA SequenceDumped ==
  ASSUME RequestInv, Dump, out' >= 0, memdump \in Checked, request.size > RAW_SECTOR_SIZE
  PROVE  \A j \in 1 .. SectorsIn(request) - 1 : NumberOf(buf', j) = NumberOf(buf', 0) + j
<1> DEFINE sent == Sent(request, got')
           r == request
<1>1. /\ r \in Requests /\ ~(InSequence(sent, r) < SectorsIn(r))
      /\ buf' = Delivered(sent, r) /\ memdump \in Backends
  BY Succeeded DEF RequestInv
<1>2. Aligned(r)
  BY <1>1, SectorSizes, RequestsMade DEF Short
<1>3. PICK q \in Nat, n \in 1 .. MostSectors : r.offset = 2064 * q /\ r.size = 2064 * n
  BY <1>2 DEF Aligned
<1> HIDE DEF sent, r
<1>4. SectorsIn(r) = n
  BY <1>3, SectorSizes DEF SectorsIn, MostSectors
<1>5. \A j \in 0 .. n - 1 : j * RAW_SECTOR_SIZE + 1 \in Places(r)
  <2> TAKE j \in 0 .. n - 1
  <2>1. n \in 1 .. 27 /\ j \in 0 .. 26
    BY DEF MostSectors
  <2>2. /\ r.offset \div RAW_SECTOR_SIZE = q
        /\ (r.offset + r.size) \div RAW_SECTOR_SIZE = q + n
    BY <1>3, <2>1, SectorSizes
  <2>3. q + j \in q .. q + n
    BY <2>1
  <2>4. j * RAW_SECTOR_SIZE + 1 = (q + j) * RAW_SECTOR_SIZE + 1 - r.offset
    BY <1>3, <2>1, SectorSizes
  <2>5. 0 <= j * RAW_SECTOR_SIZE + 1 /\ j * RAW_SECTOR_SIZE + 1 < r.size
    BY <1>3, <2>1, SectorSizes
  <2>6. 1 \in Watched
    BY MemdumpAssumption
  <2> QED
    BY <2>2, <2>3, <2>4, <2>5, <2>6 DEF Places
<1>6. \A j \in 0 .. n - 1 : NumberOf(buf', j) = NumberOf(sent, j)
  BY <1>1, <1>5, DeliveredWhole DEF NumberOf
<1>7. \A j \in 1 .. n - 1 : NumberOf(sent, j) = NumberOf(sent, 0) + j
  BY <1>1, <1>4, AllInSequence DEF OutOfSequence, MostSectors
<1>8. 0 \in 0 .. n - 1 /\ \A j \in 1 .. n - 1 : j \in 0 .. n - 1
  BY DEF MostSectors
<1> QED
  BY <1>4, <1>6, <1>7, <1>8 DEF r

THEOREM SequenceCorrect == Spec => []SuccessMeansInSequence
<1>1. Init => SuccessMeansInSequence
  BY DEF Init, SuccessMeansInSequence
<1>2. RequestInv /\ SuccessMeansInSequence /\ [Next]_vars => SuccessMeansInSequence'
  <2> SUFFICES ASSUME RequestInv, SuccessMeansInSequence, [Next]_vars
               PROVE  SuccessMeansInSequence'
    OBVIOUS
  <2>1. CASE Dump
    <3>1. UNCHANGED <<memdump, request>>
      BY <2>1 DEF Dump, hardware
    <3> QED
      BY <2>1, <3>1, SequenceDumped DEF SuccessMeansInSequence, SectorsIn, NumberOf
  <2>2. CASE Start \/ dvd_memdump \/ Return
    BY <2>2 DEF Start, dvd_memdump, Return, SuccessMeansInSequence
  <2>3. CASE Read \/ UNCHANGED vars
    BY <2>3 DEF Read, vars, hardware, SuccessMeansInSequence, SectorsIn, NumberOf
  <2> QED
    BY <2>1, <2>2, <2>3 DEF Next
<1> QED
  BY <1>1, <1>2, RequestStart, RequestStep, PTL DEF Spec

-----------------------------------------------------------------------------
\* The byte at an address.  In drives that store parity it is found by its row.
InRow(w) == w < Rows * (Row + RowParity) /\ w % (Row + RowParity) < Row
PlaceOf(w) == (w \div (Row + RowParity)) * Row + (w % (Row + RowParity))

LEMMA StoredByte ==
  ASSUME memdump \in Stored, NEW address, NEW a, address - Base = a,
         NEW s, a \div STORED_SIZE = s, NEW w, a % STORED_SIZE = w, InRow(w),
         NEW m, PlaceOf(w) = m
  PROVE  At(address) = <<ram[s], m>>
BY Zenon DEF At, InRow, PlaceOf

LEMMA PlainByte ==
  ASSUME memdump \notin Stored, NEW address, NEW a, address - Base = a
  PROVE  At(address) = <<ram[a \div RAW_SECTOR_SIZE], a % RAW_SECTOR_SIZE>>
BY Zenon DEF At

\* Where a byte of the buffer comes from: stored or not, it is the one that the
\* callers mean.
LEMMA LayoutsAlike ==
  ASSUME memdump \in Backends, NEW r \in Requests, NEW x \in Places(r)
  PROVE  At(raw_offset(r.offset) + CopiedFrom(x)) =
           <<ram[(r.offset + x) \div RAW_SECTOR_SIZE], (r.offset + x) % RAW_SECTOR_SIZE>>
<1>1. x \in Nat /\ r.offset \in Nat
  BY PlacesInside, RequestsMade DEF Aligned, Short
<1>2. CASE memdump \in Stored
  <2>1. PICK q \in Nat : r.offset = 2064 * q
    BY <1>2, RequestsMade DEF Aligned, Short
  <2> DEFINE k == x \div 2064
             m == x % 2064
             row == m \div 172
             col == m % 172
  <2>2. k \in Nat /\ m \in 0 .. 2063 /\ x = 2064 * k + m
    BY <1>1
  <2> HIDE DEF k, m
  <2>3. row \in 0 .. 11 /\ col \in 0 .. 171 /\ m = 172 * row + col
    BY <2>2
  <2> USE DEF k, m
  <2>4. raw_offset(r.offset) = 2384 * q
    BY <1>2, <2>1, SectorSizes DEF raw_offset
  <2>5. CopiedFrom(x) = 2384 * k + 182 * row + col
    BY <1>2, <2>2, <2>3, SectorSizes DEF CopiedFrom, Row, RowParity
  <2> HIDE DEF k, m, row, col
  <2> DEFINE a == (raw_offset(r.offset) + CopiedFrom(x)) - Base
             w == 182 * row + col
  <2>6. a = 2384 * (q + k) + w /\ w \in 0 .. 2183
    <3>1. Base = 0
      BY <1>2 DEF Base, Stored
    <3> QED
      BY <2>2, <2>3, <2>4, <2>5, <3>1
  <2>7. w \div 182 = row /\ w % 182 = col
    BY <2>3
  <2> HIDE DEF w, a
  <2>8. a \div STORED_SIZE = q + k /\ a % STORED_SIZE = w
    BY <2>2, <2>6, SectorSizes
  <2>9. At(raw_offset(r.offset) + CopiedFrom(x)) = <<ram[q + k], m>>
    <3>1. InRow(w)
      BY <2>3, <2>6, <2>7 DEF InRow, Rows, Row, RowParity
    <3>2. PlaceOf(w) = m
      BY <2>3, <2>7 DEF PlaceOf, Row, RowParity
    <3> QED
      BY <1>2, <2>8, <3>1, <3>2, StoredByte, Zenon DEF a
  <2>10. (r.offset + x) \div RAW_SECTOR_SIZE = q + k /\ (r.offset + x) % RAW_SECTOR_SIZE = m
    BY <2>1, <2>2, SectorSizes
  <2> QED
    BY <2>9, <2>10
<1>3. CASE memdump \notin Stored
  <2>1. Base \in Nat
    BY MemdumpAssumption DEF Base
  <2>2. (raw_offset(r.offset) + CopiedFrom(x)) - Base = r.offset + x
    BY <1>1, <1>3, <2>1 DEF raw_offset, CopiedFrom
  <2> QED
    BY <1>3, <2>2, PlainByte, Zenon
<1> QED
  BY <1>2, <1>3

\* What a successful dump hands over is what the callers take the RAM to be, with every
\* backend, for every request of a read method and every place of a sector.
THEOREM DumpsCorrect == Spec => DumpsWhatIsThere
<1> DEFINE Right ==
      \A x \in Places(request) :
        CopiedFrom(x) < got' =>
          buf'[x] = <<ram[(request.offset + x) \div RAW_SECTOR_SIZE],
                      (request.offset + x) % RAW_SECTOR_SIZE>>
<1>1. ASSUME RequestInv, Dump, out' >= 0
      PROVE  Right
  <2> SUFFICES ASSUME NEW x \in Places(request), CopiedFrom(x) < got'
               PROVE  buf'[x] = <<ram[(request.offset + x) \div RAW_SECTOR_SIZE],
                                  (request.offset + x) % RAW_SECTOR_SIZE>>
    OBVIOUS
  <2>1. /\ request \in Requests /\ memdump \in Backends
        /\ buf'[x] = Sent(request, got')[x]
    BY <1>1, Succeeded, DeliveredWhole DEF RequestInv
  <2>2. buf'[x] = At(raw_offset(request.offset) + CopiedFrom(x))
    BY <2>1 DEF Sent
  <2> QED
    BY <2>1, <2>2, LayoutsAlike
<1>2. RequestInv /\ [Next]_vars => [Dump /\ out' >= 0 => Right]_vars
  BY <1>1
<1> QED
  BY <1>2, RequestStart, RequestStep, PTL DEF Spec, DumpsWhatIsThere

-----------------------------------------------------------------------------
\* The values of the variables.  That a buffer holds bytes of sectors, and no
\* parity, needs the layout again, and that the RAM holds what is asked for.

Byte == {Old, Zero, Marked} \cup (Nat \X Watched)

LEMMA RequestTypes ==
  ASSUME NEW r \in Requests
  PROVE  r \in Request
<1>1. r = [offset |-> r.offset, size |-> r.size]
  BY DEF Requests, PieceRequests, BlockRequests, HeaderRequests
<1>2. r.offset \in Nat /\ r.size \in Nat
  BY RequestsMade DEF Aligned, Short
<1> QED
  BY <1>1, <1>2 DEF Request

\* A sector does not begin behind a byte that it holds.
LEMMA BeginsBefore ==
  ASSUME NEW k \in Nat, NEW w \in Nat, NEW end \in Int, 2064 * k + w <= end
  PROVE  2064 * k <= end
OBVIOUS

\* A byte that the drive sent is one of a sector.
LEMMA ByteSent ==
  ASSUME memdump \in Backends, ram \in Rams, NEW r \in Requests, NEW x \in Places(r)
  PROVE  At(raw_offset(r.offset) + CopiedFrom(x)) \in Nat \X Watched
<1>1. /\ x \in Nat /\ x < r.size /\ r.offset \in Nat /\ r.size \in Nat
  BY PlacesInside, RequestsMade DEF Aligned, Short
<1>2. PICK k \in r.offset \div RAW_SECTOR_SIZE .. (r.offset + r.size) \div RAW_SECTOR_SIZE,
           w \in Watched :
        x = k * RAW_SECTOR_SIZE + w - r.offset
  BY DEF Places
<1>3. k \in Nat /\ w \in 0 .. 2063
  BY <1>1, <1>2, SectorSizes, MemdumpAssumption
<1>4. r.offset + x = 2064 * k + w
  BY <1>1, <1>2, <1>3, SectorSizes
<1>5. (r.offset + x) \div RAW_SECTOR_SIZE = k /\ (r.offset + x) % RAW_SECTOR_SIZE = w
  BY <1>1, <1>3, <1>4, SectorSizes
<1>6. k \in SectorsOf(r)
  <2>1. 2064 * k <= r.offset + r.size - 1
    <3> DEFINE at == r.offset + x
               end == r.offset + r.size - 1
    <3>1. end \in Int /\ at <= end /\ at = 2064 * k + w
      BY <1>1, <1>4
    <3>2. k \in Nat /\ w \in Nat
      BY <1>3
    <3> HIDE DEF at, end
    <3>3. 2064 * k <= end
      BY <3>1, <3>2, BeginsBefore
    <3> QED
      BY <3>3 DEF end
  <2>2. k <= (r.offset + r.size - 1) \div RAW_SECTOR_SIZE
    BY <1>1, <1>3, <2>1, SectorSizes
  <2> QED
    BY <1>2, <2>2 DEF SectorsOf
<1>7. ram[k] \in Nat
  <2>1. k \in DOMAIN ram
    BY <1>6, RamAssumption DEF Requests
  <2>2. ram \in [DOMAIN ram -> Nat]
    BY MemdumpAssumption
  <2> QED
    BY <2>1, <2>2
<1> QED
  BY <1>2, <1>5, <1>7, LayoutsAlike

\* So is what the backend hands over.
LEMMA BytesDelivered ==
  ASSUME memdump \in Backends, ram \in Rams, NEW r \in Requests, NEW n
  PROVE  LET b == Delivered(Sent(r, n), r)
         IN  DOMAIN b = Places(r) /\ \A x \in DOMAIN b : b[x] \in Byte
<1> DEFINE sent == Sent(r, n)
           b == Delivered(sent, r)
<1>1. \A x \in Places(r) : sent[x] \in Byte
  BY ByteSent DEF Sent, Byte
<1> HIDE DEF sent
<1>2. DOMAIN b = Places(r) /\ \A x \in Places(r) : b[x] \in {sent[x], Old, Marked}
  BY DEF Delivered, DeliveredByRows, DeliveredInPlace
<1> QED
  BY <1>1, <1>2 DEF Byte, sent

\* Every variable keeps its type; above all no parity gets into a buffer (TypeOK).
THEOREM TypeCorrect == Spec => []TypeOK
<1>1. Init => TypeOK
  BY DEF Init, TypeOK, Request, Nothing
<1>2. RequestInv /\ TypeOK /\ [Next]_vars => TypeOK'
  <2> SUFFICES ASSUME RequestInv, TypeOK, [Next]_vars PROVE TypeOK'
    OBVIOUS
  <2> USE DEF TypeOK, hardware
  <2>1. CASE Start
    BY <2>1 DEF Start, drop_euid
  <2>2. CASE Read
    BY <2>2 DEF Read
  <2>3. CASE dvd_memdump
    <3>1. request' \in Requests /\ buf' = [x \in Places(request') |-> Old]
      BY <2>3 DEF dvd_memdump
    <3>2. request' \in Request /\ Places(request') \subseteq Nat
      BY <3>1, RequestTypes, PlacesInside
    <3> QED
      BY <2>3, <3>1, <3>2 DEF dvd_memdump, upgrade_euid
  <2>4. CASE Dump
    <3>1. request \in Requests /\ memdump \in Backends /\ ram \in Rams /\ pc' = "drop"
          /\ UNCHANGED <<hardware, euid, ram, request>>
      BY <2>4 DEF RequestInv, Dump
    <3>2. ~Refused(request)
      BY <3>1, NotRefused
    <3>3. /\ got' \in Amounts(request)
          /\ buf' = Delivered(Sent(request, got'), request)
          /\ out' \in {-3, 0, -1}
      BY <2>4, <3>2 DEF Dump
    <3>4. Amounts(request) \subseteq Nat
      <4>1. request.size \in Nat
        BY <3>1, RequestsMade DEF Aligned, Short
      <4>2. request.size \div RAW_SECTOR_SIZE \in Nat
        BY <4>1, SectorSizes
      <4>3. raw_block_size(request.size) \in Nat
        BY <4>1, <4>2, SectorSizes DEF raw_block_size
      <4> QED
        BY <4>3, SectorSizes DEF Amounts, Lesser
    <3>5. DOMAIN buf' = Places(request) /\ \A x \in DOMAIN buf' : buf'[x] \in Byte
      BY <3>1, <3>3, BytesDelivered
    <3>6. DOMAIN buf' \subseteq Nat
      BY <3>1, <3>5, PlacesInside
    <3> QED
      BY <3>1, <3>3, <3>4, <3>5, <3>6 DEF Byte
  <2>5. CASE Return
    BY <2>5 DEF Return, drop_euid, Request, Nothing
  <2>6. CASE UNCHANGED vars
    BY <2>6 DEF vars
  <2> QED
    BY <2>1, <2>2, <2>3, <2>4, <2>5, <2>6 DEF Next
<1> QED
  BY <1>1, <1>2, RequestStart, RequestStep, PTL DEF Spec
=============================================================================
