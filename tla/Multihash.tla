----------------------------- MODULE Multihash ------------------------------
(***************************************************************************)
(* libmultihash/multihash.c: the structure with all digests of one         *)
(* message, and, on its own, the ed2k hash (and with it MD4) that the      *)
(* library offers and multihash.c initializes and finishes, but never      *)
(* updates.                                                                *)
(*                                                                         *)
(* Operators whose names end in Slip are what a programming slip would     *)
(* have made of the operator they precede.                                 *)
(***************************************************************************)
EXTENDS Digests

CONSTANTS
  Lengths,          \* of the data handed to an update
  MaxLength         \* of a message: the bound of the model

ASSUME MultihashAssumption == Lengths \subseteq Nat /\ MaxLength \in Nat

VARIABLES
  mh,               \* struct multihash
  ed2k,             \* an ed2khash_context in other hands
  input,            \* what ed2khash_update has not taken of its data
  length,           \* history: the bytes of the message so far
  spoilt,           \* history: the bytes of the last data that were overwritten
  digests,          \* what was printed, or None
  pc

vars == <<mh, ed2k, input, length, spoilt, digests, pc>>

None == <<>>

message == Message(0, length)

\* multihash_init, or ed2khash_starts
Init ==
  /\ mh = [crc32 |-> <<>>, md4 |-> md4_starts, md5 |-> MD5Init,
           ed2k |-> ed2khash_starts, sha1 |-> SHA1Init]
  /\ ed2k = ed2khash_starts
  /\ input = <<>>
  /\ length = 0 /\ spoilt = {}
  /\ digests = None
  /\ pc \in {"multihash", "ed2k"}

\* A CRC takes one byte after the other and knows no length.
CrcUpdate(crc, data) == crc \o data

\* The data as each digest finds them: SHA1Update comes last, because it spoils
\* them.
ForSHA1(data) == data
ForMD5Slip(data) ==
  [k \in DOMAIN data |-> IF k \in SpoiltBytes(mh.sha1, Len(data)) THEN Spoilt ELSE data[k]]
ForMD5(data) == data

multihash_update(data) ==
  /\ pc = "multihash"
  /\ mh' = [mh EXCEPT !.crc32 = CrcUpdate(@, ForMD5(data)),
                      !.md5 = MD5Update(@, ForMD5(data)),
                      !.sha1 = SHA1Update(@, ForSHA1(data))]
  /\ spoilt' = SpoiltBytes(mh.sha1, Len(data))
  /\ length' = length + Len(data)
  /\ UNCHANGED <<ed2k, input, digests, pc>>

multihash_finish ==
  /\ pc = "multihash"
  /\ digests' = [crc32 |-> mh.crc32, md4 |-> md4_finish(mh.md4), md5 |-> MD5Final(mh.md5),
                 ed2k |-> ed2khash_finish(mh.ed2k), sha1 |-> SHA1Final(mh.sha1)]
  /\ pc' = "finished"
  /\ UNCHANGED <<mh, ed2k, input, length, spoilt>>

\* The data are there; the loop of ed2khash_update takes them piece by piece.
UpdateEd2k(data) ==
  /\ pc = "ed2k" /\ input = <<>>
  /\ input' = data
  /\ length' = length + Len(data)
  /\ UNCHANGED <<mh, ed2k, spoilt, digests, pc>>

TakePiece ==
  /\ pc = "ed2k" /\ input # <<>>
  /\ LET x == PieceSize(ed2k.bytes_processed, Len(input))
     IN  /\ ed2k' = WithPiece(ed2k, SubSeq(input, 1, x))
         /\ input' = SubSeq(input, x + 1, Len(input))
  /\ UNCHANGED <<mh, length, spoilt, digests, pc>>

FinishEd2k ==
  /\ pc = "ed2k" /\ input = <<>>
  /\ digests' = [ed2k |-> ed2khash_finish(ed2k)]
  /\ pc' = "finished"
  /\ UNCHANGED <<mh, ed2k, input, length, spoilt>>

Update ==
  \E n \in Lengths :
    /\ length + n <= MaxLength
    /\ multihash_update(Message(length, n)) \/ UpdateEd2k(Message(length, n))

Over == pc = "finished" /\ UNCHANGED vars

Next == Update \/ TakePiece \/ multihash_finish \/ FinishEd2k \/ Over

Spec == Init /\ [][Next]_vars

-----------------------------------------------------------------------------
Word == 0 .. WORD - 1

\* The counters stay words, although both halves are added to.
CountersOK ==
  /\ mh.md5.i \in Word \X Word
  /\ mh.sha1.count \in Word \X Word
  /\ length \in Nat

\* The two words of MD5 and of SHA-1 hold the number of the bits of the message,
\* whatever updates it came in: no carry is lost and none is made twice.  A disc
\* image has more bits than a word holds.
CountsBits ==
  \A count \in {mh.md5.i, mh.sha1.count} :
    pc = "multihash" =>
      (count[2] * WORD + count[1]) % (WORD * WORD) = (8 * length) % (WORD * WORD)

\* The digests are those of the message, whatever updates it came in, wherever it
\* ends in a block, and although SHA1Update spoils the data it is given: CRC, MD5
\* and SHA-1, which are printed, and the ed2k hash of a context of its own.
DigestsOfTheMessage ==
  digests # None =>
    IF "md5" \in DOMAIN digests
    THEN /\ digests.md5 = LittleEndianDigest(message)
         /\ digests.sha1 = BigEndianDigest(message)
         /\ digests.crc32 = message
    ELSE digests.ed2k = Ed2kDigest(message)

\* SHA1Update spoils what its caller passes, and nothing behind it.
OnlyTheDataAreSpoilt ==
  [][length' # length => spoilt' \subseteq 1 .. length' - length]_vars
=============================================================================
