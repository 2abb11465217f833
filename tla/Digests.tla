------------------------------ MODULE Digests -------------------------------
(***************************************************************************)
(* The message digests of libmultihash (md5.c, sha1.c, md4.c, edonkey.c)   *)
(* with their contexts: what is counted, what waits in the buffer for the  *)
(* rest of its block, and which blocks were compressed.                    *)
(*                                                                         *)
(* Data: the compression functions are left out.  A digest is the sequence *)
(* of the blocks compressed, so that two digests are equal when the same   *)
(* blocks were compressed in the same order.  Block, length field and word *)
(* have any size; unsigned longs have 4 bytes, as the code takes them to.  *)
(*                                                                         *)
(* Operators whose names end in Slip are what a programming slip would     *)
(* have made of the operator they precede.                                 *)
(***************************************************************************)
EXTENDS Integers, Sequences

CONSTANTS
  BLOCK,                \* 64, the bytes of a block
  LENGTH,               \* 8, the bytes at its end that tell the length
  WORD,                 \* 2^32
  ED2KHASH_CHUNKSIZE,
  MD4_DIGESTSIZE

ASSUME DigestAssumption ==
  /\ BLOCK \in Nat \ {0} /\ LENGTH \in Nat \ {0} /\ LENGTH < BLOCK
  /\ WORD \in Nat \ {0} /\ WORD % (8 * BLOCK) = 0
  /\ ED2KHASH_CHUNKSIZE \in Nat \ {0} /\ ED2KHASH_CHUNKSIZE < WORD
  /\ MD4_DIGESTSIZE \in Nat \ {0} /\ MD4_DIGESTSIZE < WORD

\* Bytes: of the message, of the padding, of the length, of another digest, and
\* those that are no longer what they were.
Byte(kind, n, digest) == [kind |-> kind, n |-> n, digest |-> digest]
MessageByte(n) == Byte("message", n, <<>>)
Mark           == Byte("80h", 0, <<>>)
Zero           == Byte("zero", 0, <<>>)
LengthByte(w)  == Byte("length", w, <<>>)
Spoilt         == Byte("spoilt", 0, <<>>)

Message(from, n) == [k \in 1 .. n |-> MessageByte(from + k)]
Zeros(n)         == [k \in 1 .. n |-> Zero]
Padding(n)       == <<Mark>> \o Zeros(n - 1)

\* The length, as two words.
TwoWords(first, second) ==
  [k \in 1 .. LENGTH |-> LengthByte(IF 2 * k <= LENGTH THEN first ELSE second)]

DigestBytes(digest) == [k \in 1 .. MD4_DIGESTSIZE |-> Byte("digest", k, digest)]

\* Digests one after the other.
HashList(hashes) ==
  [k \in 1 .. Len(hashes) * MD4_DIGESTSIZE |->
     DigestBytes(hashes[((k - 1) \div MD4_DIGESTSIZE) + 1])[((k - 1) % MD4_DIGESTSIZE) + 1]]

\* The blocks that fill up as the bytes of s come in one by one.
Cut(s) == [j \in 1 .. Len(s) \div BLOCK |-> SubSeq(s, (j - 1) * BLOCK + 1, j * BLOCK)]

\* What is left of s then.
Remainder(s) == SubSeq(s, (Len(s) \div BLOCK) * BLOCK + 1, Len(s))

\* A buffer after the bytes of s, which are no more than a block, were put at its
\* beginning; and after those of any s, the buffer being full again and again.
Overlaid(buffer, s) == [k \in 1 .. BLOCK |-> IF k <= Len(s) THEN s[k] ELSE buffer[k]]
Refilled(buffer, s) ==
  Overlaid(IF Len(s) < BLOCK THEN buffer
           ELSE SubSeq(s, Len(s) - Len(Remainder(s)) - BLOCK + 1, Len(s) - Len(Remainder(s))),
           Remainder(s))

NewBuffer == [k \in 1 .. BLOCK |-> Zero]

-----------------------------------------------------------------------------
\* What RFC 1320, RFC 1321 and FIPS 180 have digested: the message, a mark, as
\* many zeros as it takes, and the length in bits, modulo the square of WORD.
Padded(message, length) ==
  LET n == Len(message)
      zeros == (2 * BLOCK - LENGTH - 1 - (n % BLOCK)) % BLOCK
  IN  Cut(message \o <<Mark>> \o Zeros(zeros) \o length)

Low(message)  == (8 * Len(message)) % WORD
High(message) == ((8 * Len(message)) \div WORD) % WORD

LittleEndianDigest(message) == Padded(message, TwoWords(Low(message), High(message)))
BigEndianDigest(message)    == Padded(message, TwoWords(High(message), Low(message)))

\* edonkey.c:23, "The file data is divided into full chunks of 9728000 bytes plus
\* a remainder chunk, and a separate 128-bit MD4 checksum is computed for each."
Chunks(message) ==
  [j \in 1 .. Len(message) \div ED2KHASH_CHUNKSIZE + 1 |->
     SubSeq(message, (j - 1) * ED2KHASH_CHUNKSIZE + 1,
            IF j * ED2KHASH_CHUNKSIZE < Len(message)
            THEN j * ED2KHASH_CHUNKSIZE ELSE Len(message))]

Ed2kDigest(message) ==
  LET hashes == [j \in DOMAIN Chunks(message) |-> LittleEndianDigest(Chunks(message)[j])]
  IN  IF Len(hashes) = 1 THEN hashes[1]
      ELSE LittleEndianDigest(HashList(hashes))

-----------------------------------------------------------------------------
\* md5.c and sha1.c count bits in two words.

BitsOf(n)     == (8 * n) % WORD             \* n << 3
HighBitsOf(n) == n \div (WORD \div 8)       \* n >> 29

CountedSlip(count, n) ==
  <<(count[1] + BitsOf(n)) % WORD, (count[2] + HighBitsOf(n)) % WORD>>
Counted(count, n) ==
  LET low   == (count[1] + BitsOf(n)) % WORD
      carry == IF low < BitsOf(n) THEN 1 ELSE 0
  IN  <<low, (count[2] + carry + HighBitsOf(n)) % WORD>>

\* MD5Update compares with the old count instead.
CarrySlip(low, i) == low <= i
Carry(low, i) == low < i

MD5Init == [i |-> <<0, 0>>, in |-> NewBuffer, buf |-> <<>>]

\* The next position in the buffer is told from the number of bits.
InBuffer(count) == (count[1] \div 8) % BLOCK

MD5Update(c, data) ==
  LET stream == SubSeq(c.in, 1, InBuffer(c.i)) \o data
      low    == (c.i[1] + BitsOf(Len(data))) % WORD
      carry  == IF Carry(low, c.i[1]) THEN 1 ELSE 0
  IN  [i   |-> <<low, (c.i[2] + carry + HighBitsOf(Len(data))) % WORD>>,
       in  |-> Refilled(c.in, stream),
       buf |-> c.buf \o Cut(stream)]

\* The bytes of padding, for MD5 and MD4.
PadLenSlip(n) == 2 * BLOCK - LENGTH - n
PadLen(n) == IF n < BLOCK - LENGTH THEN BLOCK - LENGTH - n ELSE 2 * BLOCK - LENGTH - n

MD5Final(c) ==
  LET padded == MD5Update(c, Padding(PadLen(InBuffer(c.i))))
  IN  Append(padded.buf, SubSeq(padded.in, 1, BLOCK - LENGTH) \o TwoWords(c.i[1], c.i[2]))

-----------------------------------------------------------------------------
\* sha1.c compresses blocks where they are, which spoils them: the first one in
\* its buffer, the others in the data of the caller.

SHA1Init == [count |-> <<0, 0>>, buffer |-> NewBuffer, state |-> <<>>]

\* Does data of n bytes fill the buffer?
Fills(c, n) == InBuffer(c.count) + n >= BLOCK

\* The bytes of n that go into the buffer, and those compressed after it.
FirstPart(c) == BLOCK - InBuffer(c.count)
Done(c, n) ==
  FirstPart(c) + ((n - FirstPart(c)) \div BLOCK) * BLOCK

SHA1Update(c, data) ==
  LET first == SubSeq(c.buffer, 1, InBuffer(c.count)) \o SubSeq(data, 1, FirstPart(c))
      rest  == SubSeq(data, Done(c, Len(data)) + 1, Len(data))
  IN  [count  |-> Counted(c.count, Len(data)),
       buffer |-> IF Fills(c, Len(data))
                  THEN Overlaid([k \in 1 .. BLOCK |-> Spoilt], rest)
                  ELSE Overlaid(c.buffer, SubSeq(c.buffer, 1, InBuffer(c.count)) \o data),
       state  |-> IF Fills(c, Len(data))
                  THEN c.state \o <<first>>
                         \o Cut(SubSeq(data, FirstPart(c) + 1, Done(c, Len(data))))
                  ELSE c.state]

\* The bytes of the caller's data that are not what they were.  (Words of twice the
\* bytes would reach a block further.)
SpoiltBytesSlip(c, n) ==
  IF Fills(c, n) THEN FirstPart(c) + 1 .. Done(c, n) + BLOCK ELSE {}
SpoiltBytes(c, n) == IF Fills(c, n) THEN FirstPart(c) + 1 .. Done(c, n) ELSE {}

\* The mark and zeros, one by one, until there is room for the length alone.
SHA1Final(c) ==
  LET zeros  == (2 * BLOCK - LENGTH - 1 - InBuffer(c.count)) % BLOCK
      padded == SHA1Update(c, Padding(zeros + 1))
  IN  SHA1Update(padded, TwoWords(c.count[2], c.count[1])).state

-----------------------------------------------------------------------------
\* md4.c counts bytes.

md4_starts == [total |-> <<0, 0>>, buffer |-> NewBuffer, state |-> <<>>]

TotalSlip(total, n) == <<(total[1] + n) % WORD, total[2]>>
Total(total, n) ==
  LET low == (total[1] + n) % WORD
  IN  <<low, IF low < n THEN (total[2] + 1) % WORD ELSE total[2]>>

md4_update(c, input) ==
  LET left   == c.total[1] % BLOCK
      stream == SubSeq(c.buffer, 1, left) \o input
      filled == left > 0 /\ Len(stream) >= BLOCK     \* else blocks stay in the input
  IN  IF Len(input) = 0 THEN c
      ELSE [total  |-> Total(c.total, Len(input)),
            buffer |-> Overlaid(IF filled THEN SubSeq(stream, 1, BLOCK) ELSE c.buffer,
                                Remainder(stream)),
            state  |-> c.state \o Cut(stream)]

md4_finish(c) ==
  LET high   == HighBitsOf(c.total[1]) + 8 * c.total[2]
      padded == md4_update(c, Padding(PadLen(c.total[1] % BLOCK)))
  IN  md4_update(padded, TwoWords(BitsOf(c.total[1]), high % WORD)).state

-----------------------------------------------------------------------------
\* edonkey.c

ed2khash_starts ==
  [md4cur |-> md4_starts, md4final |-> md4_starts, bytes_processed |-> 0, chunks |-> 0]

\* Of n bytes, those taken at once: no further than the end of the chunk.
PieceSize(processed, n) ==
  IF processed + n >= ED2KHASH_CHUNKSIZE THEN ED2KHASH_CHUNKSIZE - processed ELSE n

ChunkEndsSlip(processed) == processed > ED2KHASH_CHUNKSIZE
ChunkEnds(processed) == processed % ED2KHASH_CHUNKSIZE = 0

WithPiece(c, piece) ==
  LET cur == md4_update(c.md4cur, piece)
      processed == c.bytes_processed + Len(piece)
  IN  IF ChunkEnds(processed)
      THEN [md4cur |-> md4_starts,
            md4final |-> md4_update(c.md4final, DigestBytes(md4_finish(cur))),
            bytes_processed |-> 0, chunks |-> c.chunks + 1]
      ELSE [c EXCEPT !.md4cur = cur, !.bytes_processed = processed]

ed2khash_finish(c) ==
  IF c.chunks > 0
  THEN md4_finish(md4_update(c.md4final, DigestBytes(md4_finish(c.md4cur))))
  ELSE md4_finish(c.md4cur)
=============================================================================
