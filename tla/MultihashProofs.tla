-------------------------- MODULE MultihashProofs ---------------------------
(***************************************************************************)
(* Theorems about a message of any length in updates of any size, for      *)
(* every size of a word, a block and a length field.                       *)
(*                                                                         *)
(* The counters (Counting): a step is a sum.  Both are told apart into     *)
(* quotient and remainder by the bytes whose bits fill the lower word, and *)
(* a carry is made if and only if the sum of the remainders fills it.      *)
(*                                                                         *)
(* The digests (Hashing): a context has seen s if it compressed the blocks *)
(* of s and its buffer begins with what is left.  Either update takes a    *)
(* context that has seen s to one that has seen s and the data, because    *)
(* blocks depend on what came first only by what is left of it             *)
(* (Continued).                                                            *)
(*                                                                         *)
(* The ed2k hash (HashingEd2k): of the bytes taken, those of the chunk     *)
(* that is going on are in one MD4 context and the digests of the chunks   *)
(* done in another, whatever is left of the data in hand.                  *)
(***************************************************************************)
EXTENDS Multihash, Arithmetic, SequenceTheorems, TLAPS

-----------------------------------------------------------------------------
\* A word holds the bits of Bytes bytes.
Bytes == WORD \div 8

LEMMA BytesOfWord == Bytes \in Nat \ {0} /\ WORD = 8 * Bytes
<1> DEFINE e == 8 * BLOCK
           k == WORD \div e
           rest == WORD % e
<1>1. WORD \in Nat \ {0} /\ e \in Nat \ {0} /\ rest = 0
  BY DigestAssumption
<1> HIDE DEF e
<1>2. k \in Nat /\ WORD = e * k + rest
  BY <1>1, DivMod
<1> HIDE DEF k, rest
<1>3. BLOCK * k \in Nat /\ e * k = 8 * (BLOCK * k)
  BY <1>2, DigestAssumption DEF e
<1>4. WORD = 8 * (BLOCK * k) + 0
  BY <1>1, <1>2, <1>3
<1>5. WORD \div 8 = BLOCK * k
  BY <1>1, <1>3, <1>4, Unique
<1> QED
  BY <1>1, <1>2, <1>3, <1>5 DEF Bytes

\* What n bytes add to either word.
LEMMA BitsOfBytes ==
  ASSUME NEW n \in Nat
  PROVE  /\ (8 * n) % WORD = 8 * (n % Bytes) /\ BitsOf(n) = 8 * (n % Bytes)
         /\ (8 * n) \div WORD = n \div Bytes /\ HighBitsOf(n) = n \div Bytes
<1> DEFINE q == n \div Bytes
           r == n % Bytes
<1>1. q \in Nat /\ r \in Nat /\ r < Bytes /\ n = Bytes * q + r
  BY BytesOfWord, DivMod
<1> HIDE DEF q, r
<1>2. WORD * q = 8 * (Bytes * q)
  BY <1>1, BytesOfWord
<1>3. 8 * n = WORD * q + 8 * r
  BY <1>1, <1>2, BytesOfWord, Bytes * q \in Nat
<1>4. 8 * r < WORD
  BY <1>1, BytesOfWord
<1>5. (8 * n) \div WORD = q /\ (8 * n) % WORD = 8 * r
  BY <1>1, <1>3, <1>4, BytesOfWord, Unique, 8 * n \in Nat, 8 * r \in Nat, WORD \in Nat \ {0}
<1> QED
  BY <1>5 DEF q, r, BitsOf, HighBitsOf, Bytes

-----------------------------------------------------------------------------
\* The two words after n bytes.
CountOf(n) == <<(8 * n) % WORD, ((8 * n) \div WORD) % WORD>>

\* The sum of the lower words, whether it makes a carry, which is told from either
\* summand, and the sum of the higher ones.
LEMMA Summed ==
  ASSUME NEW m \in Nat, NEW n \in Nat, NEW low, NEW carry,
         low = (CountOf(m)[1] + BitsOf(n)) % WORD,
         carry = IF low < BitsOf(n) THEN 1 ELSE 0
  PROVE  /\ low < BitsOf(n) <=> low < CountOf(m)[1]
         /\ <<low, (CountOf(m)[2] + carry + HighBitsOf(n)) % WORD>> = CountOf(m + n)
<1> DEFINE p == m \div Bytes
           a == m % Bytes
           q == n \div Bytes
           b == n % Bytes
<1>1. p \in Nat /\ a \in Nat /\ a < Bytes /\ m = Bytes * p + a
  BY BytesOfWord, DivMod
<1>2. q \in Nat /\ b \in Nat /\ b < Bytes /\ n = Bytes * q + b
  BY BytesOfWord, DivMod
<1>3. CountOf(m) = <<8 * a, p % WORD>> /\ BitsOf(n) = 8 * b /\ HighBitsOf(n) = q
  BY BitsOfBytes DEF CountOf
<1> HIDE DEF p, a, q, b
<1> DEFINE c == IF a + b < Bytes THEN 0 ELSE 1
           r == IF a + b < Bytes THEN a + b ELSE a + b - Bytes
<1>4. /\ c \in Nat /\ r \in Nat /\ r < Bytes
      /\ r < b <=> c = 1
      /\ r < a <=> c = 1
      /\ 8 * a + 8 * b = WORD * c + 8 * r
      /\ a + b = Bytes * c + r
  BY <1>1, <1>2, BytesOfWord
<1> HIDE DEF c, r
<1>5. low = 8 * r
  <2>1. 8 * a + 8 * b \in Nat /\ 8 * r \in Nat /\ 8 * r < WORD /\ WORD \in Nat \ {0}
    BY <1>1, <1>2, <1>4, BytesOfWord
  <2> DEFINE sum == 8 * a + 8 * b
             rest == 8 * r
  <2>2. sum \in Nat /\ rest \in Nat /\ rest < WORD /\ sum = WORD * c + rest
    BY <1>4, <2>1
  <2> HIDE DEF sum, rest
  <2>3. sum % WORD = rest
    BY <1>4, <2>1, <2>2, Unique
  <2> QED
    BY <1>3, <2>3 DEF sum, rest
<1>6. carry = c /\ (low < BitsOf(n) <=> low < CountOf(m)[1])
  <2>1. low < BitsOf(n) <=> c = 1
    BY <1>2, <1>3, <1>4, <1>5
  <2>2. low < CountOf(m)[1] <=> c = 1
    BY <1>1, <1>3, <1>4, <1>5
  <2>3. c \in {0, 1}
    BY DEF c
  <2> QED
    BY <2>1, <2>2, <2>3
<1>7. m + n = Bytes * (p + c + q) + r
  <2>1. Bytes * (p + c + q) = Bytes * p + Bytes * c + Bytes * q
    BY <1>1, <1>2, <1>4, BytesOfWord
  <2>2. Bytes * p \in Nat /\ Bytes * c \in Nat /\ Bytes * q \in Nat
    BY <1>1, <1>2, <1>4, BytesOfWord
  <2> QED
    BY <1>1, <1>2, <1>4, <2>1, <2>2
<1>8. (m + n) \div Bytes = p + c + q /\ (m + n) % Bytes = r
  <2> DEFINE sum == m + n
             quot == p + c + q
  <2>1. sum \in Nat /\ quot \in Nat /\ sum = Bytes * quot + r
    BY <1>1, <1>2, <1>4, <1>7
  <2> HIDE DEF sum, quot
  <2>2. sum \div Bytes = quot /\ sum % Bytes = r
    BY <1>4, <2>1, BytesOfWord, Unique
  <2> QED
    BY <2>2 DEF sum, quot
<1>9. CountOf(m + n) = <<8 * r, (p + c + q) % WORD>>
  BY <1>8, BitsOfBytes, m + n \in Nat DEF CountOf
<1>10. ((p % WORD) + (c + q)) % WORD = (p + (c + q)) % WORD
  <2> DEFINE y == c + q
  <2>1. WORD \in Nat \ {0} /\ y \in Nat
    BY <1>2, <1>4, BytesOfWord
  <2> HIDE DEF y
  <2>2. ((p % WORD) + y) % WORD = (p + y) % WORD
    BY <1>1, <2>1, ModOfSum
  <2> QED
    BY <2>2 DEF y
<1>11. (p % WORD) + (c + q) = (p % WORD) + c + q /\ p + (c + q) = p + c + q
  BY <1>1, <1>2, <1>4, BytesOfWord
<1>12. (CountOf(m)[2] + carry + HighBitsOf(n)) % WORD = (p + c + q) % WORD
  BY <1>3, <1>6, <1>10, <1>11
<1> QED
  BY <1>5, <1>6, <1>9, <1>12

-----------------------------------------------------------------------------
\* The inductive invariant: of CountersOK, that the context of MD5 and that of SHA-1
\* are there, and what their words are while the message grows.
Counting ==
  /\ CountersOK
  /\ {"md5", "sha1"} \subseteq DOMAIN mh
  /\ pc = "multihash" => mh.md5.i = CountOf(length) /\ mh.sha1.count = CountOf(length)

\* Both words are words.
LEMMA CountTyped ==
  ASSUME NEW n \in Nat
  PROVE  CountOf(n) \in Word \X Word
<1>1. 8 * n \in Nat /\ WORD \in Nat \ {0}
  BY BytesOfWord
<1>2. (8 * n) \div WORD \in Nat
  BY <1>1, DivMod
<1>3. (8 * n) % WORD \in Word /\ ((8 * n) \div WORD) % WORD \in Word
  BY <1>1, <1>2, DivMod DEF Word
<1> QED
  BY <1>3 DEF CountOf

LEMMA CountingInit == Init => Counting
<1> SUFFICES ASSUME Init PROVE Counting
  OBVIOUS
<1>1. CountOf(0) = <<0, 0>>
  <2>1. (8 * 0) \div WORD = 0 /\ (8 * 0) % WORD = 0
    BY BytesOfWord, Unique, 8 * 0 = WORD * 0 + 0
  <2>2. 0 % WORD = 0
    BY <2>1
  <2> QED
    BY <2>1, <2>2 DEF CountOf
<1>2. length = 0 /\ mh.md5.i = <<0, 0>> /\ mh.sha1.count = <<0, 0>>
  BY DEF Init, MD5Init, SHA1Init
<1>3. {"md5", "sha1"} \subseteq DOMAIN mh
  BY DEF Init
<1>4. CountOf(0) \in Word \X Word
  BY CountTyped
<1> QED
  BY <1>1, <1>2, <1>3, <1>4 DEF Counting, CountersOK

LEMMA WordsAfterMD5Update ==
  ASSUME NEW c, NEW data, NEW n, Len(data) = n, NEW count, c.i = count
  PROVE  LET low == (count[1] + BitsOf(n)) % WORD
             carry == IF low < count[1] THEN 1 ELSE 0
         IN  MD5Update(c, data).i = <<low, (count[2] + carry + HighBitsOf(n)) % WORD>>
BY DEF MD5Update, Carry

\* Either update counts the bytes it is given.
LEMMA CountingUpdate ==
  ASSUME Counting, NEW n \in Nat, multihash_update(Message(length, n))
  PROVE  Counting'
<1> DEFINE data == Message(length, n)
<1>1. Len(data) = n
  <2>1. data \in Seq({MessageByte(length + k) : k \in 1 .. n})
    BY DEF Message
  <2> QED
    BY <2>1 DEF Message
<1>2. /\ length \in Nat /\ length' = length + n /\ length' \in Nat
      /\ mh.md5.i = CountOf(length) /\ mh.sha1.count = CountOf(length)
      /\ pc = "multihash" /\ pc' = pc
  BY <1>1 DEF Counting, CountersOK, multihash_update
<1>3. /\ DOMAIN mh' = DOMAIN mh
      /\ mh'.md5 = MD5Update(mh.md5, data)
      /\ mh'.sha1 = SHA1Update(mh.sha1, data)
  BY DEF Counting, multihash_update, ForMD5, ForSHA1
<1>4. mh'.md5.i = CountOf(length + n)
  <2> DEFINE low == (CountOf(length)[1] + BitsOf(n)) % WORD
             carry == IF low < BitsOf(n) THEN 1 ELSE 0
             other == IF low < CountOf(length)[1] THEN 1 ELSE 0
  <2>1. /\ low < BitsOf(n) <=> low < CountOf(length)[1]
        /\ <<low, (CountOf(length)[2] + carry + HighBitsOf(n)) % WORD>> = CountOf(length + n)
    BY <1>2, Summed
  <2>2. carry = other
    BY <2>1
  <2>3. mh'.md5.i = <<low, (CountOf(length)[2] + other + HighBitsOf(n)) % WORD>>
    BY <1>1, <1>2, <1>3, WordsAfterMD5Update
  <2> HIDE DEF low, carry, other
  <2> QED
    BY <2>1, <2>2, <2>3
<1>5. mh'.sha1.count = CountOf(length + n)
  <2> DEFINE low == (CountOf(length)[1] + BitsOf(n)) % WORD
             carry == IF low < BitsOf(n) THEN 1 ELSE 0
  <2>1. <<low, (CountOf(length)[2] + carry + HighBitsOf(n)) % WORD>> = CountOf(length + n)
    BY <1>2, Summed
  <2>2. mh'.sha1.count = <<low, (CountOf(length)[2] + carry + HighBitsOf(n)) % WORD>>
    BY <1>1, <1>2, <1>3 DEF SHA1Update, Counted
  <2> QED
    BY <2>1, <2>2
<1>6. CountOf(length') \in Word \X Word
  BY <1>2, CountTyped
<1> QED
  BY <1>2, <1>3, <1>4, <1>5, <1>6 DEF Counting, CountersOK, Word

LEMMA CountingNext == Counting /\ [Next]_vars => Counting'
<1> SUFFICES ASSUME Counting, [Next]_vars PROVE Counting'
  OBVIOUS
<1>1. CASE Update
  <2>1. PICK n \in Lengths : multihash_update(Message(length, n)) \/ UpdateEd2k(Message(length, n))
    BY <1>1 DEF Update
  <2>2. n \in Nat
    BY MultihashAssumption
  <2>3. CASE multihash_update(Message(length, n))
    BY <2>2, <2>3, CountingUpdate
  <2>4. CASE UpdateEd2k(Message(length, n))
    <3>1. Len(Message(length, n)) = n
      <4>1. Message(length, n) \in Seq({MessageByte(length + k) : k \in 1 .. n})
        BY <2>2 DEF Message
      <4> QED
        BY <2>2, <4>1 DEF Message
    <3> QED
      BY <2>2, <2>4, <3>1 DEF UpdateEd2k, Counting, CountersOK, Word
  <2> QED
    BY <2>1, <2>3, <2>4
<1>2. CASE multihash_finish
  BY <1>2 DEF multihash_finish, Counting, CountersOK, Word
<1>3. CASE TakePiece \/ FinishEd2k
  BY <1>3 DEF TakePiece, FinishEd2k, Counting, CountersOK, Word
<1>4. CASE Over \/ UNCHANGED vars
  BY <1>4 DEF Over, vars, Counting, CountersOK, Word
<1> QED
  BY <1>1, <1>2, <1>3, <1>4 DEF Next

\* Two words, one above the other, are a number modulo the square of a word.
LEMMA WordsOfCount ==
  ASSUME NEW n \in Nat
  PROVE  (CountOf(n)[2] * WORD + CountOf(n)[1]) % (WORD * WORD) = (8 * n) % (WORD * WORD)
<1> DEFINE x == 8 * n
           q == x \div WORD
           r == x % WORD
           p == q \div WORD
           t == q % WORD
<1>1. x \in Nat /\ WORD \in Nat \ {0}
  BY BytesOfWord
<1>2. q \in Nat /\ r \in Nat /\ r < WORD /\ x = WORD * q + r
  BY <1>1, DivMod
<1>3. p \in Nat /\ t \in Nat /\ t < WORD /\ q = WORD * p + t
  BY <1>1, <1>2, DivMod
<1>4. CountOf(n)[1] = r /\ CountOf(n)[2] = t
  BY DEF CountOf
<1> HIDE DEF p, t, q, r, x
<1> DEFINE square == WORD * WORD
           two == WORD * t + r
<1>5. square \in Nat \ {0} /\ two \in Nat /\ two < square
  <2>1. PICK d \in Nat : WORD = t + d /\ d >= 1
    BY <1>1, <1>3, WORD - t \in Nat, WORD = t + (WORD - t)
  <2>2. WORD * WORD = WORD * t + WORD * d
    BY <1>1, <1>3, <2>1
  <2>3. WORD * d >= WORD /\ WORD * d \in Nat /\ WORD * t \in Nat
    BY <1>1, <1>3, <2>1, Multiple
  <2> QED
    BY <1>1, <1>2, <2>2, <2>3
<1>6. x = square * p + two
  <2>1. WORD * (WORD * p + t) = WORD * (WORD * p) + WORD * t
    BY <1>1, <1>3
  <2>2. WORD * (WORD * p) = square * p
    BY <1>1, <1>3
  <2>3. square * p \in Nat /\ WORD * t \in Nat
    BY <1>1, <1>3
  <2> QED
    BY <1>2, <1>3, <2>1, <2>2, <2>3
<1>7. two = square * 0 + two /\ t * WORD + r = two
  BY <1>1, <1>2, <1>3, <1>5
<1> HIDE DEF square, two
<1>8. x % square = two /\ two % square = two
  BY <1>1, <1>3, <1>5, <1>6, <1>7, Unique
<1> QED
  BY <1>4, <1>7, <1>8 DEF square, x

\* The words of MD5 and of SHA-1 stay words, whatever updates there are.
THEOREM CountersTyped == Spec => []CountersOK
<1>1. Counting => CountersOK
  BY DEF Counting
<1> QED
  BY <1>1, CountingInit, CountingNext, PTL DEF Spec

\* They hold the number of bits of the message, for words of every size and messages of
\* every length: MD5Update and SHA1Update, which tell the carry from different
\* summands, both lose none and make none twice.
THEOREM CountsCorrect == Spec => []CountsBits
<1>1. Counting => CountsBits
  BY WordsOfCount DEF Counting, CountersOK, CountsBits
<1> QED
  BY <1>1, CountingInit, CountingNext, PTL DEF Spec

-----------------------------------------------------------------------------
\* What SHA1Update overwrites lies in the data that it is given.
LEMMA SpoiltInside ==
  ASSUME NEW c, InBuffer(c.count) \in 0 .. BLOCK - 1, NEW n \in Nat
  PROVE  SpoiltBytes(c, n) \subseteq 1 .. n
<1> DEFINE first == FirstPart(c)
           left == n - first
<1>1. BLOCK \in Nat \ {0}
  BY DigestAssumption
<1>2. first \in Nat \ {0}
  BY <1>1 DEF FirstPart
<1>3. CASE Fills(c, n)
  <2>1. left \in Nat /\ n = first + left
    BY <1>1, <1>3 DEF Fills, FirstPart
  <2> HIDE DEF left
  <2>2. left \div BLOCK \in Nat /\ left % BLOCK \in Nat
        /\ left = BLOCK * (left \div BLOCK) + (left % BLOCK)
    BY <1>1, <2>1, DivMod
  <2>3. (left \div BLOCK) * BLOCK \in Nat /\ (left \div BLOCK) * BLOCK <= left
    BY <1>1, <2>1, <2>2
  <2>4. Done(c, n) = first + (left \div BLOCK) * BLOCK
    BY DEF Done, left
  <2> HIDE DEF first
  <2>5. Done(c, n) \in Nat /\ Done(c, n) <= n
    BY <1>2, <2>1, <2>3, <2>4
  <2>6. SpoiltBytes(c, n) = first + 1 .. Done(c, n)
    BY <1>3 DEF SpoiltBytes, first
  <2> QED
    BY <1>2, <2>5, <2>6
<1>4. CASE ~Fills(c, n)
  BY <1>4 DEF SpoiltBytes
<1> QED
  BY <1>3, <1>4

\* The ed2k hash spoils nothing.
SpoiltInv == Counting /\ (pc = "ed2k" => spoilt = {})

LEMMA SpoiltStep == SpoiltInv /\ [Next]_vars => SpoiltInv'
<1>1. (pc = "ed2k" => spoilt = {}) /\ [Next]_vars => (pc = "ed2k" => spoilt = {})'
  BY DEF Next, Update, multihash_update, UpdateEd2k, TakePiece, multihash_finish, FinishEd2k, Over,
         vars
<1> QED
  BY <1>1, CountingNext DEF SpoiltInv

\* SHA1Update overwrites what its caller passes, and nothing behind it, for blocks and
\* updates of every size.
THEOREM OnlyTheDataCorrect == Spec => OnlyTheDataAreSpoilt
<1>1. Init => SpoiltInv
  BY CountingInit DEF Init, SpoiltInv
<1>2. SpoiltInv /\ [Next]_vars => [length' # length => spoilt' \subseteq 1 .. length' - length]_vars
  <2> SUFFICES ASSUME SpoiltInv, Next, length' # length
               PROVE  spoilt' \subseteq 1 .. length' - length
    OBVIOUS
  <2>1. Update
    BY DEF Next, TakePiece, multihash_finish, FinishEd2k, Over, vars
  <2>2. PICK n \in Lengths :
          multihash_update(Message(length, n)) \/ UpdateEd2k(Message(length, n))
    BY <2>1 DEF Update
  <2>3. n \in Nat /\ length \in Nat
    BY MultihashAssumption DEF SpoiltInv, Counting, CountersOK
  <2>4. Len(Message(length, n)) = n
    BY <2>3 DEF Message
  <2>5. CASE multihash_update(Message(length, n))
    <3>1. spoilt' = SpoiltBytes(mh.sha1, n) /\ length' = length + n
      BY <2>4, <2>5 DEF multihash_update
    <3>2. InBuffer(mh.sha1.count) \in 0 .. BLOCK - 1
      <4>1. mh.sha1.count[1] \in Nat /\ BLOCK \in Nat \ {0}
        BY DigestAssumption DEF SpoiltInv, Counting, CountersOK, Word
      <4>2. mh.sha1.count[1] \div 8 \in Nat
        BY <4>1
      <4> QED
        BY <4>1, <4>2, DivMod DEF InBuffer
    <3>3. spoilt' \subseteq 1 .. n
      BY <2>3, <3>1, <3>2, SpoiltInside
    <3> QED
      BY <2>3, <3>1, <3>3
  <2>6. CASE UpdateEd2k(Message(length, n))
    BY <2>6 DEF UpdateEd2k, SpoiltInv
  <2> QED
    BY <2>2, <2>5, <2>6
<1> QED
  BY <1>1, <1>2, SpoiltStep, PTL DEF Spec, OnlyTheDataAreSpoilt

-----------------------------------------------------------------------------
\* A digest does not depend on the updates in which its message comes.

\* The kth byte of the jth of q blocks.
LEMMA Within ==
  ASSUME NEW q \in Nat, NEW j \in 1 .. q
  PROVE  /\ BLOCK * (j - 1) \in Nat /\ BLOCK * j \in Nat /\ BLOCK * q \in Nat
         /\ (j - 1) * BLOCK = BLOCK * (j - 1) /\ j * BLOCK = BLOCK * j
         /\ BLOCK * j = BLOCK * (j - 1) + BLOCK /\ BLOCK * j <= BLOCK * q
<1>1. BLOCK \in Nat \ {0}
  BY DigestAssumption
<1>2. PICK d \in Nat : q = j + d
  BY q - j \in Nat, q = j + (q - j)
<1>3. PICK i \in Nat : j = i + 1
  BY j - 1 \in Nat, j = (j - 1) + 1
<1>4. BLOCK * q = BLOCK * j + BLOCK * d /\ BLOCK * d \in Nat
  BY <1>1, <1>2
<1>5. BLOCK * j = BLOCK * i + BLOCK /\ BLOCK * i \in Nat
  BY <1>1, <1>3
<1>6. j - 1 = i
  BY <1>3
<1>7. BLOCK * j \in Nat /\ BLOCK * q \in Nat /\ BLOCK * j <= BLOCK * q
  BY <1>1, <1>4, <1>5
<1> QED
  BY <1>1, <1>5, <1>6, <1>7

\* Whole blocks and the rest, byte by byte.
LEMMA Divided ==
  ASSUME NEW S, NEW s \in Seq(S), NEW q, NEW m,
         q = Len(s) \div BLOCK, m = Len(s) % BLOCK
  PROVE  /\ q \in Nat /\ m \in Nat /\ m < BLOCK /\ Len(s) = BLOCK * q + m
         /\ BLOCK * q \in Nat /\ q * BLOCK = BLOCK * q
<1>1. BLOCK \in Nat \ {0} /\ Len(s) \in Nat
  BY DigestAssumption
<1>2. q \in Nat /\ m \in Nat /\ m < BLOCK /\ Len(s) = BLOCK * q + m
  BY <1>1, DivMod
<1> QED
  BY <1>1, <1>2

LEMMA TheRemainder ==
  ASSUME NEW S, NEW s \in Seq(S), NEW q, NEW m,
         q = Len(s) \div BLOCK, m = Len(s) % BLOCK
  PROVE  /\ Remainder(s) \in Seq(S) /\ Len(Remainder(s)) = m
         /\ \A k \in 1 .. m : Remainder(s)[k] = s[BLOCK * q + k]
<1>1. /\ q \in Nat /\ m \in Nat /\ m < BLOCK /\ Len(s) = BLOCK * q + m
      /\ BLOCK * q \in Nat /\ q * BLOCK = BLOCK * q
  BY Divided
<1> DEFINE from == BLOCK * q + 1
           to == Len(s)
<1>2. Remainder(s) = SubSeq(s, from, to)
  BY <1>1 DEF Remainder
<1>3. from \in Int /\ to \in Int /\ to - from + 1 = m /\ \A i \in from .. to : s[i] \in S
  <2>1. from \in Int /\ to \in Int /\ to - from + 1 = m
    BY <1>1
  <2>2. ASSUME NEW i \in from .. to PROVE s[i] \in S
    <3>1. i \in 1 .. Len(s)
      BY <1>1
    <3> QED
      BY <3>1, ElementOfSeq
  <2> QED
    BY <2>1, <2>2
<1>4. \A k \in 1 .. m : from + k - 1 = BLOCK * q + k
  BY <1>1
<1>5. m = IF from <= to THEN to - from + 1 ELSE 0
  BY <1>1
<1> HIDE DEF from, to
<1> QED
  BY <1>2, <1>3, <1>4, <1>5, SubSeqProperties

\* The same, without names for the numbers of blocks and of bytes left.
LEMMA RemainderOf ==
  ASSUME NEW S, NEW s \in Seq(S)
  PROVE  /\ Len(s) \div BLOCK \in Nat /\ Len(s) % BLOCK \in Nat /\ Len(s) % BLOCK < BLOCK
         /\ Len(s) = BLOCK * (Len(s) \div BLOCK) + (Len(s) % BLOCK)
         /\ BLOCK * (Len(s) \div BLOCK) \in Nat
         /\ Remainder(s) \in Seq(S) /\ Len(Remainder(s)) = Len(s) % BLOCK
         /\ \A k \in 1 .. Len(s) % BLOCK :
              Remainder(s)[k] = s[BLOCK * (Len(s) \div BLOCK) + k]
<1>1. PICK q, m : q = Len(s) \div BLOCK /\ m = Len(s) % BLOCK
  OBVIOUS
<1>2. q \in Nat /\ m \in Nat /\ m < BLOCK /\ Len(s) = BLOCK * q + m /\ BLOCK * q \in Nat
  BY <1>1, Divided
<1>3. /\ Remainder(s) \in Seq(S) /\ Len(Remainder(s)) = m
      /\ \A k \in 1 .. m : Remainder(s)[k] = s[BLOCK * q + k]
  BY <1>1, TheRemainder
<1> QED
  BY <1>1, <1>2, <1>3, Zenon

\* A sequence is cut into its whole blocks.
LEMMA BlocksOf ==
  ASSUME NEW S, NEW s \in Seq(S)
  PROVE  /\ Cut(s) \in Seq(Seq(S)) /\ Len(Cut(s)) = Len(s) \div BLOCK
         /\ \A j \in 1 .. Len(Cut(s)) :
              /\ Cut(s)[j] \in Seq(S) /\ Len(Cut(s)[j]) = BLOCK
              /\ \A k \in 1 .. BLOCK : Cut(s)[j][k] = s[BLOCK * (j - 1) + k]
<1>8. PICK q : q = Len(s) \div BLOCK
  OBVIOUS
<1>1. BLOCK \in Nat \ {0}
  BY DigestAssumption
<1>2. PICK m : m = Len(s) % BLOCK
  OBVIOUS
<1>3. q \in Nat /\ m \in Nat /\ Len(s) = BLOCK * q + m /\ BLOCK * q \in Nat
  BY <1>2, <1>8, Divided
<1> DEFINE Block(j) == SubSeq(s, (j - 1) * BLOCK + 1, j * BLOCK)
<1>4. ASSUME NEW j \in 1 .. q
      PROVE  /\ Block(j) \in Seq(S) /\ Len(Block(j)) = BLOCK
             /\ \A k \in 1 .. BLOCK : Block(j)[k] = s[BLOCK * (j - 1) + k]
  <2> DEFINE from == BLOCK * (j - 1) + 1
             to == BLOCK * j
  <2>1. /\ BLOCK * (j - 1) \in Nat /\ BLOCK * j \in Nat
        /\ (j - 1) * BLOCK = BLOCK * (j - 1) /\ j * BLOCK = BLOCK * j
        /\ BLOCK * j = BLOCK * (j - 1) + BLOCK /\ BLOCK * j <= BLOCK * q
    BY <1>3, Within
  <2>2. Block(j) = SubSeq(s, from, to)
    BY <2>1
  <2>3. from \in Int /\ to \in Int /\ to - from + 1 = BLOCK /\ from <= to
    BY <1>1, <2>1
  <2>4. \A i \in from .. to : s[i] \in S
    <3>1. from \in Nat /\ 1 <= from /\ to \in Nat /\ to <= Len(s)
      BY <1>3, <2>1
    <3> HIDE DEF from, to
    <3> QED
      BY <3>1, ElementOfSeq
  <2>5. \A k \in 1 .. BLOCK : from + k - 1 = BLOCK * (j - 1) + k
    BY <1>1, <2>1
  <2> HIDE DEF from, to, Block
  <2> QED
    BY <2>2, <2>3, <2>4, <2>5, SubSeqProperties
<1>5. Cut(s) = [j \in 1 .. q |-> Block(j)]
  BY <1>8 DEF Cut
<1> HIDE DEF Block
<1>6. Cut(s) \in [1 .. q -> Seq(S)]
  BY <1>4, <1>5
<1>7. Cut(s) \in Seq(Seq(S)) /\ Len(Cut(s)) = q
  BY <1>3, <1>6
<1>9. \A j \in 1 .. q : /\ Cut(s)[j] \in Seq(S) /\ Len(Cut(s)[j]) = BLOCK
                        /\ \A k \in 1 .. BLOCK : Cut(s)[j][k] = s[BLOCK * (j - 1) + k]
  BY <1>4, <1>5
<1> QED
  BY <1>7, <1>8, <1>9, Zenon

\* The same, with a name for the number of blocks.
LEMMA TheBlocks ==
  ASSUME NEW S, NEW s \in Seq(S), NEW q, q = Len(s) \div BLOCK
  PROVE  /\ Cut(s) \in Seq(Seq(S)) /\ Len(Cut(s)) = q
         /\ \A j \in 1 .. q : /\ Cut(s)[j] \in Seq(S) /\ Len(Cut(s)[j]) = BLOCK
                              /\ \A k \in 1 .. BLOCK : Cut(s)[j][k] = s[BLOCK * (j - 1) + k]
<1>1. /\ Cut(s) \in Seq(Seq(S)) /\ Len(Cut(s)) = Len(s) \div BLOCK
      /\ \A j \in 1 .. Len(Cut(s)) :
           /\ Cut(s)[j] \in Seq(S) /\ Len(Cut(s)[j]) = BLOCK
           /\ \A k \in 1 .. BLOCK : Cut(s)[j][k] = s[BLOCK * (j - 1) + k]
  BY BlocksOf, Zenon
<1>2. Len(Cut(s)) = q
  BY <1>1, Zenon
<1> QED
  BY <1>1, <1>2, Zenon

\* The blocks of a message and what is left of it depend on what came first only
\* by what was left of that.
LEMMA Continued ==
  ASSUME NEW S, NEW s \in Seq(S), NEW t \in Seq(S)
  PROVE  /\ Cut(s \o t) = Cut(s) \o Cut(Remainder(s) \o t)
         /\ Remainder(s \o t) = Remainder(Remainder(s) \o t)
<1> DEFINE u == s \o t
           v == Remainder(s) \o t
           q == Len(s) \div BLOCK
           m == Len(s) % BLOCK
           p == Len(v) \div BLOCK
           l == Len(v) % BLOCK
<1>1. /\ q \in Nat /\ m \in Nat /\ Len(s) = BLOCK * q + m /\ BLOCK * q \in Nat
      /\ Remainder(s) \in Seq(S) /\ Len(Remainder(s)) = m
      /\ \A k \in 1 .. m : Remainder(s)[k] = s[BLOCK * q + k]
  BY RemainderOf, Zenon
<1>2. /\ u \in Seq(S) /\ Len(u) = Len(s) + Len(t) /\ Len(t) \in Nat
      /\ \A i \in 1 .. Len(s) + Len(t) : u[i] = IF i <= Len(s) THEN s[i] ELSE t[i - Len(s)]
  BY ConcatProperties, LenProperties
<1>3. /\ v \in Seq(S) /\ Len(v) = m + Len(t)
      /\ \A i \in 1 .. m + Len(t) : v[i] = IF i <= m THEN Remainder(s)[i] ELSE t[i - m]
  <2>1. Remainder(s) \in Seq(S) /\ Len(Remainder(s)) = m
    BY <1>1
  <2> HIDE DEF m
  <2> QED
    BY <2>1, ConcatProperties
<1>4. p \in Nat /\ l \in Nat /\ l < BLOCK /\ Len(v) = BLOCK * p + l /\ BLOCK * p \in Nat
  <2>1. v \in Seq(S)
    BY <1>3
  <2> HIDE DEF v
  <2> QED
    BY <2>1, RemainderOf, Zenon
<1> HIDE DEF u, v, q, m, p, l
<1>5. Len(u) = BLOCK * q + Len(v)
  BY <1>1, <1>2, <1>3
<1>10. p = Len(v) \div BLOCK /\ l = Len(v) % BLOCK /\ q = Len(s) \div BLOCK
  BY DEF p, l, q
<1>11. u \in Seq(S) /\ v \in Seq(S)
  BY <1>2, <1>3
<1>6. ASSUME NEW i \in 1 .. Len(v)
      PROVE  v[i] = u[BLOCK * q + i]
  <2>1. CASE i <= m
    <3>1. i \in 1 .. m /\ BLOCK * q + i \in 1 .. Len(s) + Len(t) /\ BLOCK * q + i <= Len(s)
      <4>1. PICK x \in Nat : x = BLOCK * q
        BY <1>1
      <4>2. Len(s) = x + m /\ m \in Nat /\ Len(t) \in Nat
        BY <1>1, <1>2, <4>1
      <4>3. i \in 1 .. m /\ x + i \in 1 .. Len(s) + Len(t) /\ x + i <= Len(s)
        BY <2>1, <4>2
      <4> QED
        BY <4>1, <4>3
    <3>2. v[i] = s[BLOCK * q + i] /\ i \in 1 .. m + Len(t)
      BY <1>1, <1>2, <1>3, <2>1, <3>1
    <3>3. u[BLOCK * q + i] = s[BLOCK * q + i]
      BY <1>2, <3>1, Zenon
    <3> QED
      BY <3>2, <3>3
  <2>2. CASE i > m
    <3>1. i \in 1 .. m + Len(t) /\ ~(i <= m)
      BY <1>1, <1>2, <1>3, <2>2
    <3>2. v[i] = t[i - m]
      BY <1>3, <3>1
    <3>3. BLOCK * q + i \in 1 .. Len(s) + Len(t) /\ ~(BLOCK * q + i <= Len(s))
          /\ (BLOCK * q + i) - Len(s) = i - m
      <4>1. PICK x \in Nat : x = BLOCK * q
        BY <1>1
      <4>2. Len(s) = x + m /\ m \in Nat /\ Len(t) \in Nat
        BY <1>1, <1>2, <4>1
      <4>3. x + i \in 1 .. Len(s) + Len(t) /\ ~(x + i <= Len(s)) /\ (x + i) - Len(s) = i - m
        BY <3>1, <4>2
      <4> QED
        BY <4>1, <4>3
    <3>4. u[BLOCK * q + i] = t[(BLOCK * q + i) - Len(s)]
      BY <1>2, <3>3
    <3> QED
      BY <3>2, <3>3, <3>4
  <2> QED
    BY <1>1, <1>3, <1>2, <2>1, <2>2
<1>7. q + p = Len(u) \div BLOCK /\ l = Len(u) % BLOCK
  <2>1. BLOCK \in Nat \ {0} /\ BLOCK * (q + p) = BLOCK * q + BLOCK * p /\ q + p \in Nat
    BY <1>1, <1>4, DigestAssumption
  <2>2. Len(u) \in Nat /\ Len(u) = BLOCK * (q + p) + l
    <3> DEFINE x == BLOCK * q
               y == BLOCK * p
               z == BLOCK * (q + p)
    <3>1. x \in Nat /\ y \in Nat /\ z = x + y /\ Len(u) = x + Len(v) /\ Len(v) = y + l /\ l \in Nat
      BY <1>1, <1>4, <1>5, <2>1
    <3> HIDE DEF x, y, z
    <3>2. Len(u) \in Nat /\ Len(u) = z + l
      BY <3>1
    <3> QED
      BY <3>2 DEF z
  <2> DEFINE n == Len(u)
             r == q + p
  <2>3. n \in Nat /\ n = BLOCK * r + l /\ r \in Nat
    BY <2>1, <2>2
  <2> HIDE DEF n, r
  <2>4. n \div BLOCK = r /\ n % BLOCK = l
    BY <1>4, <2>1, <2>3, Unique
  <2> QED
    BY <2>4 DEF n, r
<1>8. Remainder(u) = Remainder(v)
  <2>1. /\ Remainder(v) \in Seq(S) /\ Len(Remainder(v)) = l
        /\ \A k \in 1 .. l : Remainder(v)[k] = v[BLOCK * p + k]
    BY <1>10, <1>11, TheRemainder
  <2>2. /\ Remainder(u) \in Seq(S) /\ Len(Remainder(u)) = l
        /\ \A k \in 1 .. l : Remainder(u)[k] = u[BLOCK * (q + p) + k]
    BY <1>7, <1>11, TheRemainder
  <2>3. ASSUME NEW k \in 1 .. l
        PROVE  Remainder(u)[k] = Remainder(v)[k]
    <3>1. BLOCK * p + k \in 1 .. Len(v)
      BY <1>4
    <3>2. BLOCK * (q + p) + k = BLOCK * q + (BLOCK * p + k)
      <4>1. BLOCK * (q + p) = BLOCK * q + BLOCK * p
        BY <1>1, <1>4, DigestAssumption
      <4> QED
        BY <1>1, <1>4, <4>1
    <3> QED
      BY <1>6, <2>1, <2>2, <3>1, <3>2
  <2> QED
    BY <2>1, <2>2, <2>3, SeqEqual
<1>9. Cut(u) = Cut(s) \o Cut(v)
  <2> DEFINE w == Cut(s) \o Cut(v)
  <2>1. /\ Cut(s) \in Seq(Seq(S)) /\ Len(Cut(s)) = q
        /\ \A j \in 1 .. q : /\ Cut(s)[j] \in Seq(S) /\ Len(Cut(s)[j]) = BLOCK
                             /\ \A k \in 1 .. BLOCK : Cut(s)[j][k] = s[BLOCK * (j - 1) + k]
    BY <1>10, TheBlocks
  <2>2. /\ Cut(v) \in Seq(Seq(S)) /\ Len(Cut(v)) = p
        /\ \A j \in 1 .. p : /\ Cut(v)[j] \in Seq(S) /\ Len(Cut(v)[j]) = BLOCK
                             /\ \A k \in 1 .. BLOCK : Cut(v)[j][k] = v[BLOCK * (j - 1) + k]
    BY <1>10, <1>11, TheBlocks
  <2>3. /\ Cut(u) \in Seq(Seq(S)) /\ Len(Cut(u)) = q + p
        /\ \A j \in 1 .. q + p : /\ Cut(u)[j] \in Seq(S) /\ Len(Cut(u)[j]) = BLOCK
                                 /\ \A k \in 1 .. BLOCK : Cut(u)[j][k] = u[BLOCK * (j - 1) + k]
    BY <1>7, <1>11, TheBlocks
  <2>4. /\ w \in Seq(Seq(S)) /\ Len(w) = q + p
        /\ \A j \in 1 .. q + p : w[j] = IF j <= q THEN Cut(s)[j] ELSE Cut(v)[j - q]
    <3> DEFINE a == Cut(s)
               b == Cut(v)
    <3>1. a \in Seq(Seq(S)) /\ b \in Seq(Seq(S)) /\ Len(a) = q /\ Len(b) = p
      BY <2>1, <2>2
    <3> HIDE DEF a, b
    <3>2. /\ a \o b \in Seq(Seq(S)) /\ Len(a \o b) = q + p
          /\ \A j \in 1 .. q + p : (a \o b)[j] = IF j <= q THEN a[j] ELSE b[j - q]
      BY <3>1, ConcatProperties
    <3> QED
      BY <3>2 DEF a, b
  <2> HIDE DEF w
  <2>5. ASSUME NEW j \in 1 .. q + p
        PROVE  Cut(u)[j] = w[j]
    <3>1. CASE j <= q
      <4>1. j \in 1 .. q /\ w[j] = Cut(s)[j]
        BY <1>1, <2>4, <3>1
      <4>2. ASSUME NEW k \in 1 .. BLOCK
            PROVE  Cut(u)[j][k] = Cut(s)[j][k]
        <5>1. BLOCK * (j - 1) + k \in 1 .. Len(s)
          <6>1. /\ BLOCK * (j - 1) \in Nat /\ BLOCK * j \in Nat
                /\ BLOCK * j = BLOCK * (j - 1) + BLOCK /\ BLOCK * j <= BLOCK * q
            BY <1>1, <4>1, Within
          <6> DEFINE x == BLOCK * (j - 1)
                     z == BLOCK * q
          <6>2. x \in Nat /\ z \in Nat /\ x + BLOCK <= z /\ Len(s) = z + m /\ BLOCK \in Nat
            BY <1>1, <6>1, DigestAssumption
          <6> HIDE DEF x, z
          <6>3. x + k \in 1 .. Len(s)
            BY <1>1, <6>2
          <6> QED
            BY <6>3 DEF x
        <5>2. u[BLOCK * (j - 1) + k] = s[BLOCK * (j - 1) + k]
          BY <1>1, <1>2, <5>1
        <5> QED
          BY <2>1, <2>3, <4>1, <5>2
      <4> QED
        BY <2>1, <2>3, <4>1, <4>2, SeqEqual
    <3>2. CASE ~(j <= q)
      <4> DEFINE i == j - q
      <4>1. i \in 1 .. p /\ w[j] = Cut(v)[i]
        <5>1. q \in Nat /\ p \in Nat
          BY <1>1, <1>4
        <5>2. i \in 1 .. p
          BY <3>2, <5>1
        <5>3. w[j] = Cut(v)[j - q]
          BY <2>4, <3>2, Zenon
        <5> QED
          BY <5>2, <5>3
      <4>2. BLOCK * (j - 1) = BLOCK * q + BLOCK * (i - 1)
        BY <1>1, <4>1, DigestAssumption
      <4> HIDE DEF i
      <4>3. ASSUME NEW k \in 1 .. BLOCK
            PROVE  Cut(u)[j][k] = Cut(v)[i][k]
        <5>1. BLOCK * (i - 1) \in Nat /\ BLOCK * (i - 1) + k \in 1 .. Len(v)
          <6>1. /\ BLOCK * (i - 1) \in Nat /\ BLOCK * i \in Nat
                /\ BLOCK * i = BLOCK * (i - 1) + BLOCK /\ BLOCK * i <= BLOCK * p
            BY <1>4, <4>1, Within
          <6> DEFINE x == BLOCK * (i - 1)
                     z == BLOCK * p
          <6>2. x \in Nat /\ z \in Nat /\ x + BLOCK <= z /\ Len(v) = z + l /\ BLOCK \in Nat
            BY <1>4, <6>1, DigestAssumption
          <6> HIDE DEF x, z
          <6>3. x + k \in 1 .. Len(v)
            BY <1>4, <6>2
          <6> QED
            BY <6>2, <6>3 DEF x
        <5>2. BLOCK * (j - 1) + k = BLOCK * q + (BLOCK * (i - 1) + k)
          BY <1>1, <4>2, <5>1
        <5>3. Cut(u)[j][k] = u[BLOCK * (j - 1) + k]
          BY <2>3
        <5>4. Cut(v)[i][k] = v[BLOCK * (i - 1) + k]
          BY <2>2, <4>1
        <5>5. v[BLOCK * (i - 1) + k] = u[BLOCK * q + (BLOCK * (i - 1) + k)]
          BY <1>6, <5>1
        <5> QED
          BY <5>2, <5>3, <5>4, <5>5
      <4> QED
        BY <2>2, <2>3, <4>1, <4>3, SeqEqual
    <3> QED
      BY <3>1, <3>2
  <2> QED
    BY <2>3, <2>4, <2>5, SeqEqual DEF w
<1> QED
  BY <1>8, <1>9 DEF u, v

-----------------------------------------------------------------------------
\* What the counters tell of the buffer, whose length a word is made of.
LEMMA PlaceInBuffer ==
  ASSUME NEW n \in Nat
  PROVE  InBuffer(CountOf(n)) = n % BLOCK
<1> DEFINE e == 8 * BLOCK
           k == WORD \div e
           rest == WORD % e
<1>1. BLOCK \in Nat \ {0} /\ WORD \in Nat \ {0} /\ e \in Nat \ {0} /\ rest = 0
  BY DigestAssumption
<1> HIDE DEF e
<1>2. k \in Nat /\ WORD = e * k + rest
  BY <1>1, DivMod
<1> HIDE DEF k, rest
<1>3. BLOCK * k \in Nat /\ e * k = 8 * (BLOCK * k)
  BY <1>1, <1>2 DEF e
<1>4. Bytes = BLOCK * k
  BY <1>1, <1>2, <1>3, BytesOfWord
<1> DEFINE q == n \div Bytes
           r == n % Bytes
           p == r \div BLOCK
           l == r % BLOCK
<1>5. q \in Nat /\ r \in Nat /\ n = Bytes * q + r
  BY BytesOfWord, DivMod
<1>6. CountOf(n)[1] = 8 * r
  BY BitsOfBytes DEF CountOf
<1> HIDE DEF q, r
<1>7. p \in Nat /\ l \in Nat /\ l < BLOCK /\ r = BLOCK * p + l
  BY <1>1, <1>5, DivMod
<1>8. l = r % BLOCK
  OBVIOUS
<1> HIDE DEF p, l
<1>9. n = BLOCK * (k * q + p) + l /\ k * q + p \in Nat
  <2>1. Bytes * q = BLOCK * (k * q) /\ k * q \in Nat
    BY <1>1, <1>2, <1>4, <1>5
  <2>2. BLOCK * (k * q + p) = BLOCK * (k * q) + BLOCK * p
    BY <1>1, <1>7, <2>1
  <2> DEFINE x == BLOCK * (k * q)
             y == BLOCK * p
             z == BLOCK * (k * q + p)
  <2>3. x \in Nat /\ y \in Nat /\ z = x + y /\ n = x + r /\ r = y + l
    BY <1>1, <1>5, <1>7, <2>1, <2>2
  <2> HIDE DEF x, y, z
  <2>4. n = z + l
    BY <1>7, <2>3
  <2> QED
    BY <1>7, <2>1, <2>4 DEF z
<1>10. n % BLOCK = l
  <2> DEFINE x == k * q + p
  <2>1. x \in Nat /\ n = BLOCK * x + l
    BY <1>9
  <2> HIDE DEF x
  <2> QED
    BY <1>1, <1>7, <2>1, Unique
<1>11. (8 * r) \div 8 = r
  BY <1>5
<1> QED
  BY <1>6, <1>8, <1>10, <1>11 DEF InBuffer

-----------------------------------------------------------------------------
\* The bytes there are.
Octets ==
  {MessageByte(n) : n \in Nat} \cup {LengthByte(n) : n \in Nat} \cup {Mark, Zero, Spoilt}
    \cup {Byte("digest", n, LittleEndianDigest(Message(a, b))) : n \in Nat, a \in Nat, b \in Nat}

LEMMA MessageIs ==
  ASSUME NEW a \in Nat, NEW b \in Nat
  PROVE  /\ Message(a, b) \in Seq(Octets) /\ Len(Message(a, b)) = b
         /\ \A k \in 1 .. b : Message(a, b)[k] = MessageByte(a + k)
<1>1. \A k \in 1 .. b : MessageByte(a + k) \in Octets
  BY DEF Octets
<1>2. Message(a, b) \in [1 .. b -> Octets]
  BY <1>1 DEF Message
<1> QED
  BY <1>2 DEF Message

\* A message goes on where its first part ends.
LEMMA MessageOn ==
  ASSUME NEW a \in Nat, NEW m \in Nat, NEW n \in Nat
  PROVE  Message(a, m) \o Message(a + m, n) = Message(a, m + n)
<1> DEFINE s == Message(a, m)
           t == Message(a + m, n)
           u == Message(a, m + n)
<1>2. /\ s \in Seq(Octets) /\ Len(s) = m /\ \A k \in 1 .. m : s[k] = MessageByte(a + k)
      /\ t \in Seq(Octets) /\ Len(t) = n /\ \A k \in 1 .. n : t[k] = MessageByte(a + m + k)
  BY MessageIs, a + m \in Nat
<1>3. /\ u \in Seq(Octets) /\ Len(u) = m + n /\ \A k \in 1 .. m + n : u[k] = MessageByte(a + k)
  BY MessageIs, m + n \in Nat
<1> HIDE DEF s, t, u
<1>4. /\ s \o t \in Seq(Octets) /\ Len(s \o t) = m + n
      /\ \A k \in 1 .. m + n : (s \o t)[k] = IF k <= m THEN s[k] ELSE t[k - m]
  BY <1>2, ConcatProperties
<1>5. ASSUME NEW k \in 1 .. m + n PROVE (s \o t)[k] = u[k]
  <2>1. CASE k <= m
    BY <1>2, <1>3, <1>4, <2>1
  <2>2. CASE ~(k <= m)
    <3>1. k - m \in 1 .. n /\ a + m + (k - m) = a + k
      BY <2>2
    <3> QED
      BY <1>2, <1>3, <1>4, <2>2, <3>1
  <2> QED
    BY <2>1, <2>2
<1> QED
  BY <1>3, <1>4, <1>5, SeqEqual DEF s, t, u

\* A part of a message is a message.
IsPart(a, n, from, y, b, l) == SubSeq(Message(a, n), from, y) = Message(b, l)

LEMMA MessagePart ==
  ASSUME NEW a \in Nat, NEW n \in Nat, NEW from \in Nat \ {0}, NEW y \in Nat, from <= y + 1, y <= n,
         NEW b, b = a + from - 1, NEW l, l = y - from + 1
  PROVE  IsPart(a, n, from, y, b, l)
<1> DEFINE s == Message(a, n)
           t == SubSeq(s, from, y)
<1>1. Len(s) = n /\ \A k \in 1 .. n : s[k] = MessageByte(a + k) /\ s[k] \in Octets
  <2>1. s \in Seq(Octets) /\ Len(s) = n /\ \A k \in 1 .. n : s[k] = MessageByte(a + k)
    BY MessageIs
  <2> QED
    BY <2>1, ElementOfSeq
<1>2. /\ l \in Nat /\ b \in Nat /\ from \in Int /\ y \in Int
      /\ l = IF from <= y THEN y - from + 1 ELSE 0
  OBVIOUS
<1> HIDE DEF s
<1>3. \A i \in from .. y : s[i] \in Octets
  BY <1>1
<1>4. \A k \in 1 .. l : from + k - 1 \in 1 .. n /\ a + (from + k - 1) = b + k
  OBVIOUS
<1>5. t \in Seq(Octets) /\ Len(t) = l /\ \A k \in 1 .. l : t[k] = s[from + k - 1]
  BY <1>2, <1>3, SubSeqProperties
<1> HIDE DEF t
<1>6. /\ Message(b, l) \in Seq(Octets) /\ Len(Message(b, l)) = l
      /\ \A k \in 1 .. l : Message(b, l)[k] = MessageByte(b + k)
  BY <1>2, MessageIs
<1>7. ASSUME NEW k \in 1 .. l PROVE t[k] = Message(b, l)[k]
  <2>1. t[k] = s[from + k - 1] /\ from + k - 1 \in 1 .. n
    BY <1>4, <1>5
  <2>2. t[k] = MessageByte(a + (from + k - 1))
    BY <1>1, <2>1
  <2> QED
    BY <1>4, <1>6, <2>2
<1>8. t = Message(b, l)
  BY <1>5, <1>6, <1>7, SeqEqual
<1> QED
  BY <1>8 DEF t, s, IsPart

LEMMA MessageBytes ==
  ASSUME NEW m \in Nat, NEW n \in Nat
  PROVE  /\ Message(m, n) \in Seq(Octets) /\ Len(Message(m, n)) = n
         /\ Message(0, m) \o Message(m, n) = Message(0, m + n)
<1>1. Message(0, m) \o Message(0 + m, n) = Message(0, m + n)
  BY MessageOn, 0 \in Nat
<1>3. 0 + m = m
  OBVIOUS
<1>2. Message(m, n) \in Seq(Octets) /\ Len(Message(m, n)) = n
  BY MessageIs
<1> QED
  BY <1>1, <1>2, <1>3

LEMMA FunctionIsSequence ==
  ASSUME NEW n \in Nat, NEW S, NEW f \in [1 .. n -> S]
  PROVE  f \in Seq(S) /\ Len(f) = n
OBVIOUS

LEMMA PaddingBytes ==
  ASSUME NEW n \in Nat \ {0}
  PROVE  Padding(n) \in Seq(Octets) /\ Len(Padding(n)) = n
<1>1. Mark \in Octets /\ Zero \in Octets
  BY DEF Octets
<1>2. Zeros(n - 1) \in [1 .. n - 1 -> Octets] /\ n - 1 \in Nat
  BY <1>1 DEF Zeros
<1>3. Zeros(n - 1) \in Seq(Octets) /\ Len(Zeros(n - 1)) = n - 1
  BY <1>2
<1>4. <<Mark>> \in Seq(Octets) /\ Len(<<Mark>>) = 1
  BY <1>1
<1> HIDE DEF Mark
<1> QED
  BY <1>3, <1>4, ConcatProperties DEF Padding

LEMMA LengthBytes ==
  ASSUME NEW a \in Nat, NEW b \in Nat
  PROVE  TwoWords(a, b) \in Seq(Octets) /\ Len(TwoWords(a, b)) = LENGTH
<1>1. LengthByte(a) \in Octets /\ LengthByte(b) \in Octets
  BY DEF Octets
<1>2. LENGTH \in Nat
  BY DigestAssumption
<1>3. TwoWords(a, b) \in [1 .. LENGTH -> Octets]
  BY <1>1 DEF TwoWords
<1> QED
  BY <1>2, <1>3

-----------------------------------------------------------------------------
\* The buffer begins with s.
Holds(buffer, s) == buffer \in [1 .. BLOCK -> Octets] /\ SubSeq(buffer, 1, Len(s)) = s

LEMMA BufferIsSequence ==
  ASSUME NEW buffer \in [1 .. BLOCK -> Octets]
  PROVE  buffer \in Seq(Octets) /\ Len(buffer) = BLOCK
BY DigestAssumption

LEMMA OverlaidHolds ==
  ASSUME NEW buffer \in [1 .. BLOCK -> Octets], NEW s \in Seq(Octets), Len(s) <= BLOCK
  PROVE  Holds(Overlaid(buffer, s), s)
<1> DEFINE new == Overlaid(buffer, s)
<1>1. BLOCK \in Nat /\ Len(s) \in Nat
  BY DigestAssumption
<1>2. ASSUME NEW k \in 1 .. BLOCK
      PROVE  (IF k <= Len(s) THEN s[k] ELSE buffer[k]) \in Octets
  <2>1. CASE k <= Len(s)
    <3>1. k \in 1 .. Len(s)
      BY <1>1, <2>1
    <3> QED
      BY <2>1, <3>1, ElementOfSeq
  <2> QED
    BY <2>1
<1>7. new \in [1 .. BLOCK -> Octets]
  BY <1>2 DEF Overlaid
<1>8. ASSUME NEW k \in 1 .. Len(s) PROVE new[k] = s[k]
  <2>1. k \in 1 .. BLOCK /\ k <= Len(s)
    BY <1>1
  <2> QED
    BY <2>1 DEF Overlaid
<1>3. new \in [1 .. BLOCK -> Octets] /\ \A k \in 1 .. Len(s) : new[k] = s[k]
  BY <1>7, <1>8
<1> HIDE DEF new
<1>4. \A k \in 1 .. Len(s) : new[k] \in Octets
  BY <1>1, <1>3
<1>5. /\ SubSeq(new, 1, Len(s)) \in Seq(Octets)
      /\ Len(SubSeq(new, 1, Len(s))) = Len(s)
      /\ \A k \in 1 .. Len(s) : SubSeq(new, 1, Len(s))[k] = new[k]
  <2> DEFINE n == Len(s)
  <2>1. n \in Nat /\ \A k \in 1 .. n : new[k] \in Octets
    BY <1>1, <1>4
  <2> HIDE DEF n
  <2>2. /\ SubSeq(new, 1, n) \in Seq(Octets)
        /\ Len(SubSeq(new, 1, n)) = n
        /\ \A k \in 1 .. n : SubSeq(new, 1, n)[k] = new[k]
    BY <2>1, SubSeqProperties
  <2> QED
    BY <2>2 DEF n
<1>6. SubSeq(new, 1, Len(s)) = s
  BY <1>3, <1>5, SeqEqual
<1> QED
  BY <1>3, <1>6 DEF Holds, new

LEMMA RefilledHolds ==
  ASSUME NEW buffer \in [1 .. BLOCK -> Octets], NEW s \in Seq(Octets)
  PROVE  Holds(Refilled(buffer, s), Remainder(s))
<1> DEFINE q == Len(s) \div BLOCK
           m == Len(s) % BLOCK
           from == Len(s) - m - BLOCK + 1
           to == Len(s) - m
           last == SubSeq(s, from, to)
<1>1. /\ q \in Nat /\ m \in Nat /\ m < BLOCK /\ Len(s) = BLOCK * q + m
      /\ BLOCK \in Nat \ {0} /\ BLOCK * q \in Nat
      /\ Remainder(s) \in Seq(Octets) /\ Len(Remainder(s)) = m
  BY Divided, TheRemainder, DigestAssumption
<1>2. ASSUME ~(Len(s) < BLOCK)
      PROVE  last \in [1 .. BLOCK -> Octets]
  <2>1. q # 0
    BY <1>1, <1>2
  <2>2. BLOCK * q >= BLOCK
    BY <1>1, <2>1, Multiple
  <2>3. from \in Int /\ to \in Int /\ from <= to /\ to - from + 1 = BLOCK
    BY <1>1, <2>2
  <2>4. ASSUME NEW i \in from .. to PROVE s[i] \in Octets
    <3>1. i \in 1 .. Len(s)
      <4>1. PICK x \in Nat : x = BLOCK * q /\ x >= BLOCK
        BY <1>1, <2>2
      <4>2. BLOCK \in Nat /\ m \in Nat /\ Len(s) = x + m
        BY <1>1, <4>1
      <4> QED
        BY <4>1, <4>2
    <3> QED
      BY <3>1, ElementOfSeq
  <2> HIDE DEF from, to
  <2>5. last \in Seq(Octets) /\ Len(last) = BLOCK
    BY <2>3, <2>4, SubSeqProperties
  <2> QED
    BY <2>5, LenProperties
<1>3. Refilled(buffer, s) = Overlaid(IF Len(s) < BLOCK THEN buffer ELSE last, Remainder(s))
  BY <1>1 DEF Refilled
<1> HIDE DEF last, m
<1> DEFINE below == IF Len(s) < BLOCK THEN buffer ELSE last
<1>4. below \in [1 .. BLOCK -> Octets]
  BY <1>2
<1> HIDE DEF below
<1>5. Len(Remainder(s)) <= BLOCK
  BY <1>1
<1> QED
  BY <1>1, <1>3, <1>4, <1>5, OverlaidHolds DEF below

-----------------------------------------------------------------------------
\* The context of MD5 after the bytes of s.
InMD5(c, s) ==
  c.i = CountOf(Len(s)) /\ c.buf = Cut(s) /\ Holds(c.in, Remainder(s))

\* What is in the buffer, followed by the data.
LEMMA Stream ==
  ASSUME NEW s \in Seq(Octets), NEW buffer, Holds(buffer, Remainder(s))
  PROVE  SubSeq(buffer, 1, InBuffer(CountOf(Len(s)))) = Remainder(s)
<1> DEFINE q == Len(s) \div BLOCK
           m == Len(s) % BLOCK
<1>1. Len(Remainder(s)) = m /\ Len(s) \in Nat
  BY TheRemainder
<1>2. InBuffer(CountOf(Len(s))) = m
  BY <1>1, PlaceInBuffer
<1> HIDE DEF m
<1> QED
  BY <1>1, <1>2 DEF Holds

\* Data of n bytes are counted, whichever comparison tells the carry.
LEMMA CountedOn ==
  ASSUME NEW m \in Nat, NEW n \in Nat
  PROVE  /\ Counted(CountOf(m), n) = CountOf(m + n)
         /\ LET low == (CountOf(m)[1] + BitsOf(n)) % WORD
                carry == IF Carry(low, CountOf(m)[1]) THEN 1 ELSE 0
            IN  <<low, (CountOf(m)[2] + carry + HighBitsOf(n)) % WORD>> = CountOf(m + n)
<1> DEFINE low == (CountOf(m)[1] + BitsOf(n)) % WORD
           carry == IF low < BitsOf(n) THEN 1 ELSE 0
           other == IF Carry(low, CountOf(m)[1]) THEN 1 ELSE 0
<1>1. /\ low < BitsOf(n) <=> low < CountOf(m)[1]
      /\ <<low, (CountOf(m)[2] + carry + HighBitsOf(n)) % WORD>> = CountOf(m + n)
  BY Summed
<1>2. carry = other
  BY <1>1 DEF Carry
<1>3. Counted(CountOf(m), n) = <<low, (CountOf(m)[2] + carry + HighBitsOf(n)) % WORD>>
  BY DEF Counted
<1> HIDE DEF low, carry, other
<1>4. <<low, (CountOf(m)[2] + other + HighBitsOf(n)) % WORD>> = CountOf(m + n)
  BY <1>1, <1>2
<1> QED
  BY <1>1, <1>3, <1>4 DEF low, other

LEMMA MD5Continued ==
  ASSUME NEW c, NEW s \in Seq(Octets), NEW t \in Seq(Octets), InMD5(c, s)
  PROVE  InMD5(MD5Update(c, t), s \o t)
<1> DEFINE stream == Remainder(s) \o t
           low == (c.i[1] + BitsOf(Len(t))) % WORD
           carry == IF Carry(low, c.i[1]) THEN 1 ELSE 0
           words == <<low, (c.i[2] + carry + HighBitsOf(Len(t))) % WORD>>
<1>1. c.i = CountOf(Len(s)) /\ c.buf = Cut(s) /\ Holds(c.in, Remainder(s))
  BY DEF InMD5
<1>2. Len(s) \in Nat /\ Len(t) \in Nat /\ Len(s \o t) = Len(s) + Len(t) /\ s \o t \in Seq(Octets)
  BY ConcatProperties
<1>3. words = CountOf(Len(s) + Len(t))
  BY <1>1, <1>2, CountedOn
<1>4. SubSeq(c.in, 1, InBuffer(c.i)) = Remainder(s)
  BY <1>1, Stream
<1>5. Remainder(s) \in Seq(Octets) /\ c.in \in [1 .. BLOCK -> Octets]
  BY <1>1, TheRemainder DEF Holds
<1>6. stream \in Seq(Octets)
  BY <1>5, ConcatProperties
<1>7. MD5Update(c, t) = [i |-> words, in |-> Refilled(c.in, stream), buf |-> c.buf \o Cut(stream)]
  BY <1>4 DEF MD5Update
<1> HIDE DEF words
<1>8. Cut(s \o t) = Cut(s) \o Cut(stream) /\ Remainder(s \o t) = Remainder(stream)
  BY Continued
<1> HIDE DEF stream
<1>9. Holds(Refilled(c.in, stream), Remainder(stream))
  BY <1>5, <1>6, RefilledHolds
<1> QED
  BY <1>1, <1>2, <1>3, <1>7, <1>8, <1>9 DEF InMD5

\* A block and nothing else.
LEMMA OneBlock ==
  ASSUME NEW S, NEW b \in Seq(S), Len(b) = BLOCK
  PROVE  Cut(b) = <<b>> /\ Remainder(b) = <<>>
<1> DEFINE q == Len(b) \div BLOCK
           m == Len(b) % BLOCK
<1>1. BLOCK \in Nat \ {0} /\ BLOCK = BLOCK * 1 + 0
  BY DigestAssumption
<1>2. BLOCK \div BLOCK = 1 /\ BLOCK % BLOCK = 0
  BY <1>1, Unique
<1>3. 1 = Len(b) \div BLOCK /\ 0 = Len(b) % BLOCK
  BY <1>2
<1>4. Remainder(b) \in Seq(S) /\ Len(Remainder(b)) = 0
  BY <1>3, TheRemainder
<1>5. Remainder(b) = <<>>
  BY <1>4, EmptySeq
<1> DEFINE n == Len(Cut(b))
<1>6. /\ Cut(b) \in Seq(Seq(S)) /\ n = Len(b) \div BLOCK
      /\ \A j \in 1 .. n : /\ Cut(b)[j] \in Seq(S) /\ Len(Cut(b)[j]) = BLOCK
                           /\ \A k \in 1 .. BLOCK : Cut(b)[j][k] = b[BLOCK * (j - 1) + k]
  BY BlocksOf
<1>9. n = 1
  BY <1>3, <1>6
<1>7. Cut(b)[1] = b
  <2>1. /\ Cut(b)[1] \in Seq(S) /\ Len(Cut(b)[1]) = BLOCK
        /\ \A k \in 1 .. BLOCK : Cut(b)[1][k] = b[BLOCK * (1 - 1) + k]
    BY <1>6, <1>9, 1 \in 1 .. n
  <2>2. \A k \in 1 .. BLOCK : BLOCK * (1 - 1) + k = k
    BY <1>1
  <2>3. \A k \in 1 .. BLOCK : Cut(b)[1][k] = b[k]
    BY <2>1, <2>2
  <2> QED
    BY <2>1, <2>3, SeqEqual
<1>8. Cut(b) = <<b>>
  <2>1. <<b>> \in Seq(Seq(S)) /\ Len(<<b>>) = 1 /\ <<b>>[1] = b
    OBVIOUS
  <2>2. \A i \in 1 .. Len(Cut(b)) : Cut(b)[i] = <<b>>[i]
    BY <1>6, <1>7, <1>9, <2>1
  <2> QED
    BY <1>6, <1>9, <2>1, <2>2, SeqEqual
<1> QED
  BY <1>5, <1>8

\* Less than a block.
LEMMA NoBlock ==
  ASSUME NEW S, NEW s \in Seq(S), Len(s) < BLOCK
  PROVE  Cut(s) = <<>> /\ Remainder(s) = s
<1>1. BLOCK \in Nat \ {0} /\ Len(s) \in Nat /\ Len(s) = BLOCK * 0 + Len(s)
  BY DigestAssumption
<1>2. 0 = Len(s) \div BLOCK /\ Len(s) = Len(s) % BLOCK
  BY <1>1, Unique
<1>3. Cut(s) \in Seq(Seq(S)) /\ Len(Cut(s)) = 0
  BY <1>2, TheBlocks
<1>4. /\ Remainder(s) \in Seq(S) /\ Len(Remainder(s)) = Len(s)
      /\ \A k \in 1 .. Len(s) : Remainder(s)[k] = s[BLOCK * 0 + k]
  BY <1>2, TheRemainder
<1>5. \A k \in 1 .. Len(s) : Remainder(s)[k] = s[k]
  BY <1>1, <1>4
<1> QED
  BY <1>3, <1>4, <1>5, EmptySeq, SeqEqual

-----------------------------------------------------------------------------
\* q whole blocks, m bytes more, and as many as reach the length.
LEMMA UpToTheLength ==
  ASSUME NEW q \in Nat, NEW m \in Nat, NEW rest \in Nat, rest = BLOCK - LENGTH - 1 - m
  PROVE  (BLOCK * q + m + (rest + 1)) % BLOCK = BLOCK - LENGTH
<1>1. /\ BLOCK \in Nat \ {0} /\ LENGTH \in Nat \ {0} /\ LENGTH < BLOCK
      /\ BLOCK - LENGTH \in Nat /\ BLOCK - LENGTH < BLOCK
  BY DigestAssumption
<1>2. PICK p \in Nat : p = BLOCK * q
  BY <1>1
<1>3. p + m + (rest + 1) = p + (BLOCK - LENGTH)
  BY <1>1
<1> DEFINE full == BLOCK - LENGTH
           sum == p + m + (rest + 1)
<1>4. sum = BLOCK * q + full /\ full \in Nat /\ full < BLOCK
  BY <1>1, <1>2, <1>3
<1> HIDE DEF sum, full
<1>5. sum % BLOCK = full
  BY <1>1, <1>4, Unique
<1> QED
  BY <1>2, <1>5 DEF sum, full

\* The bytes of padding after n bytes, m of them in the buffer, fill it up to where
\* the length goes.
LEMMA PaddingFits ==
  ASSUME NEW n \in Nat, NEW m, m = n % BLOCK, NEW zeros,
         zeros = (2 * BLOCK - LENGTH - 1 - m) % BLOCK
  PROVE  /\ zeros \in Nat /\ PadLen(m) = zeros + 1
         /\ (n + (zeros + 1)) % BLOCK = BLOCK - LENGTH
<1> DEFINE q == n \div BLOCK
<1>1. /\ BLOCK \in Nat \ {0} /\ LENGTH \in Nat \ {0} /\ LENGTH < BLOCK
      /\ q \in Nat /\ m \in Nat /\ m < BLOCK /\ n = BLOCK * q + m
  BY DigestAssumption, DivMod
<1> HIDE DEF q
<1>6. BLOCK \in Nat \ {0} /\ q \in Nat
  BY <1>1
<1>2. BLOCK * (q + 1) = BLOCK * q + BLOCK /\ BLOCK * q \in Nat
  BY <1>1
<1> DEFINE y == 2 * BLOCK - LENGTH - 1 - m
           full == BLOCK - LENGTH
           sum == n + (zeros + 1)
<1>3. full \in Nat /\ full < BLOCK
  BY <1>1
<1>4. CASE m < BLOCK - LENGTH
  <2> DEFINE rest == BLOCK - LENGTH - 1 - m
  <2>1. y \in Nat /\ rest \in Nat /\ rest < BLOCK /\ y = BLOCK * 1 + rest
    BY <1>1, <1>4
  <2> HIDE DEF y, rest
  <2>2. y % BLOCK = rest
    BY <1>1, <2>1, Unique
  <2>3. zeros = rest
    BY <2>2 DEF y
  <2>4. PadLen(m) = zeros + 1 /\ zeros \in Nat
    BY <1>1, <1>4, <2>1, <2>3 DEF PadLen, rest
  <2>5. zeros \in Nat /\ zeros = BLOCK - LENGTH - 1 - m
    BY <2>1, <2>3 DEF rest
  <2>6. (BLOCK * q + m + (zeros + 1)) % BLOCK = BLOCK - LENGTH
    <3>1. q \in Nat /\ m \in Nat
      BY <1>1
    <3> QED
      BY <2>5, <3>1, UpToTheLength, Zenon
  <2> HIDE DEF sum, full
  <2>7. (n + (zeros + 1)) % BLOCK = BLOCK - LENGTH
    BY <1>1, <2>6, Zenon
  <2> QED
    BY <2>4, <2>7
<1>5. CASE ~(m < BLOCK - LENGTH)
  <2>1. y \in Nat /\ y < BLOCK /\ y = BLOCK * 0 + y
    BY <1>1, <1>5
  <2> HIDE DEF y
  <2>2. y % BLOCK = y
    BY <1>1, <2>1, Unique
  <2>3. zeros = y
    BY <2>2 DEF y
  <2>4. PadLen(m) = zeros + 1 /\ zeros \in Nat
    <3>1. PadLen(m) = 2 * BLOCK - LENGTH - m
      BY <1>5 DEF PadLen
    <3>2. y + 1 = 2 * BLOCK - LENGTH - m
      BY <1>1 DEF y
    <3> QED
      BY <2>1, <2>3, <3>1, <3>2
  <2>5. sum = BLOCK * (q + 1) + full /\ sum \in Nat
    BY <1>1, <1>2, <2>3 DEF y
  <2> DEFINE p == q + 1
  <2>6. p \in Nat /\ sum = BLOCK * p + full
    BY <1>1, <2>5
  <2> HIDE DEF sum, full, p
  <2>7. sum % BLOCK = full
    BY <1>1, <1>3, <2>5, <2>6, Unique
  <2> QED
    BY <2>4, <2>7 DEF sum, full
<1> QED
  BY <1>4, <1>5

\* Mark and zeros are put behind a message one after the other, or together.
LEMMA PaddingOnto ==
  ASSUME NEW s \in Seq(Octets), NEW n \in Nat
  PROVE  (s \o <<Mark>>) \o Zeros(n) = s \o Padding(n + 1)
<1> DEFINE a == <<Mark>>
           z == Zeros(n)
<1>1. Mark \in Octets /\ Zero \in Octets
  BY DEF Octets
<1>2. z \in [1 .. n -> Octets]
  BY <1>1 DEF Zeros
<1>3. a \in Seq(Octets) /\ z \in Seq(Octets)
  BY <1>1, <1>2
<1>4. Padding(n + 1) = a \o z
  <2>1. (n + 1) - 1 = n
    OBVIOUS
  <2> QED
    BY <2>1 DEF Padding
<1> HIDE DEF a, z
<1>5. (s \o a) \o z = s \o (a \o z)
  BY <1>3, ConcatAssociative
<1> QED
  BY <1>4, <1>5 DEF a, z

\* What the standards have digested, with the padding as one piece.
LEMMA PaddedMessage ==
  ASSUME NEW s \in Seq(Octets), NEW zeros, NEW w \in Seq(Octets), Len(w) = LENGTH,
         zeros = (2 * BLOCK - LENGTH - 1 - (Len(s) % BLOCK)) % BLOCK
  PROVE  LET p == s \o Padding(zeros + 1)
         IN  /\ zeros \in Nat /\ Padding(zeros + 1) \in Seq(Octets)
             /\ PadLen(Len(s) % BLOCK) = zeros + 1
             /\ p \in Seq(Octets) /\ Len(Remainder(p)) = BLOCK - LENGTH
             /\ Padded(s, w) = Cut(p \o w)
             /\ Padded(s, w) = Append(Cut(p), Remainder(p) \o w)
<1> DEFINE pad == Padding(zeros + 1)
           p == s \o pad
           m == Len(s) % BLOCK
<1>1. m = Len(s) % BLOCK /\ Len(s) \in Nat
  OBVIOUS
<1>2. zeros = (2 * BLOCK - LENGTH - 1 - m) % BLOCK
  OBVIOUS
<1> HIDE DEF m
<1>3. /\ zeros \in Nat /\ PadLen(m) = zeros + 1
      /\ (Len(s) + (zeros + 1)) % BLOCK = BLOCK - LENGTH
  BY <1>1, <1>2, PaddingFits
<1>4. pad \in Seq(Octets) /\ Len(pad) = zeros + 1
  BY <1>3, PaddingBytes, zeros + 1 \in Nat \ {0}
<1>5. p \in Seq(Octets) /\ Len(p) = Len(s) + (zeros + 1)
  <2> HIDE DEF pad
  <2>1. s \o pad \in Seq(Octets) /\ Len(s \o pad) = Len(s) + Len(pad)
    BY <1>4, ConcatProperties
  <2> QED
    BY <1>4, <2>1
<1>6. Padded(s, w) = Cut(p \o w)
  <2>3. (s \o <<Mark>>) \o Zeros(zeros) = p
    BY <1>3, PaddingOnto
  <2>4. Padded(s, w) = Cut(((s \o <<Mark>>) \o Zeros(zeros)) \o w)
    BY DEF Padded
  <2> HIDE DEF p
  <2> QED
    BY <2>3, <2>4
<1> HIDE DEF p
<1>7. Remainder(p) \in Seq(Octets) /\ Len(Remainder(p)) = BLOCK - LENGTH
  <2> DEFINE l == Len(p) % BLOCK
  <2>1. l = Len(p) % BLOCK
    OBVIOUS
  <2>2. l = BLOCK - LENGTH
    BY <1>3, <1>5
  <2> HIDE DEF l
  <2>3. Remainder(p) \in Seq(Octets) /\ Len(Remainder(p)) = l
    BY <1>5, <2>1, TheRemainder
  <2> QED
    BY <2>2, <2>3
<1>8. Padded(s, w) = Append(Cut(p), Remainder(p) \o w)
  <2> DEFINE b == Remainder(p) \o w
  <2>1. b \in Seq(Octets) /\ Len(b) = BLOCK
    <3>1. /\ Remainder(p) \o w \in Seq(Octets)
          /\ Len(Remainder(p) \o w) = Len(Remainder(p)) + Len(w)
      BY <1>7, ConcatProperties
    <3> QED
      BY <1>7, <3>1, DigestAssumption
  <2>2. Cut(p \o w) = Cut(p) \o Cut(b)
    BY <1>5, Continued
  <2> HIDE DEF b
  <2>3. Cut(b) = <<b>>
    BY <2>1, OneBlock
  <2>4. Cut(p) \in Seq(Seq(Octets)) /\ b \in Seq(Octets)
    BY <1>5, <2>1, TheBlocks
  <2>5. Append(Cut(p), b) = Cut(p) \o <<b>>
    BY <2>4, AppendIsConcat
  <2> QED
    BY <1>6, <2>2, <2>3, <2>5 DEF b
<1> QED
  BY <1>3, <1>4, <1>5, <1>6, <1>7, <1>8 DEF p, m

LEMMA WordsAreLength ==
  ASSUME NEW s \in Seq(Octets), NEW i, i = CountOf(Len(s))
  PROVE  i[1] = Low(s) /\ i[2] = High(s) /\ Low(s) \in Nat /\ High(s) \in Nat
<1>1. i[1] = Low(s) /\ i[2] = High(s) /\ Len(s) \in Nat
  BY DEF CountOf, Low, High
<1>2. i \in Word \X Word
  BY <1>1, CountTyped
<1>3. Word \subseteq Nat
  BY BytesOfWord DEF Word
<1> QED
  BY <1>1, <1>2, <1>3

LEMMA MD5Finished ==
  ASSUME NEW c, NEW s \in Seq(Octets), InMD5(c, s)
  PROVE  MD5Final(c) = LittleEndianDigest(s)
<1> DEFINE m == Len(s) % BLOCK
           zeros == (2 * BLOCK - LENGTH - 1 - m) % BLOCK
           pad == Padding(zeros + 1)
           p == s \o pad
           w == TwoWords(c.i[1], c.i[2])
           padded == MD5Update(c, pad)
<1>1. c.i = CountOf(Len(s)) /\ Len(s) \in Nat
  BY DEF InMD5
<1>2. c.i[1] = Low(s) /\ c.i[2] = High(s) /\ Low(s) \in Nat /\ High(s) \in Nat
  BY <1>1, WordsAreLength
<1>3. w \in Seq(Octets) /\ Len(w) = LENGTH
  BY <1>2, LengthBytes
<1>4. InBuffer(c.i) = m
  BY <1>1, PlaceInBuffer
<1>5. LittleEndianDigest(s) = Padded(s, w)
  BY <1>2 DEF LittleEndianDigest
<1> HIDE DEF w
<1>6. /\ pad \in Seq(Octets) /\ PadLen(m) = zeros + 1
      /\ p \in Seq(Octets) /\ Len(Remainder(p)) = BLOCK - LENGTH
      /\ Padded(s, w) = Append(Cut(p), Remainder(p) \o w)
  BY <1>3, PaddedMessage
<1>7. MD5Final(c) = Append(padded.buf, SubSeq(padded.in, 1, BLOCK - LENGTH) \o w)
  BY <1>4, <1>6 DEF MD5Final, w
<1> HIDE DEF pad, zeros, m
<1>8. InMD5(padded, p)
  BY <1>6, MD5Continued
<1> HIDE DEF padded, p
<1>9. padded.buf = Cut(p) /\ SubSeq(padded.in, 1, BLOCK - LENGTH) = Remainder(p)
  BY <1>6, <1>8 DEF InMD5, Holds
<1> QED
  BY <1>5, <1>6, <1>7, <1>9

-----------------------------------------------------------------------------
\* The context of SHA-1 after the bytes of s.
InSHA1(c, s) ==
  c.count = CountOf(Len(s)) /\ c.state = Cut(s) /\ Holds(c.buffer, Remainder(s))

\* Of n bytes, f fill a buffer that holds m, q blocks are done with them where they
\* are, and l are left.
Splits(m, n, f, q, l, done) ==
  /\ f \in Nat /\ q \in Nat /\ l \in Nat /\ done \in Nat
  /\ BLOCK = m + f /\ l < BLOCK /\ done = f + BLOCK * q /\ n = done + l

LEMMA WholeBlocksDone ==
  ASSUME NEW m \in Nat, NEW n \in Nat, m < BLOCK, m + n >= BLOCK
  PROVE  LET f == BLOCK - m
         IN  \E q, l : Splits(m, n, f, q, l, f + ((n - f) \div BLOCK) * BLOCK)
<1> DEFINE f == BLOCK - m
           x == n - f
           q == x \div BLOCK
           l == x % BLOCK
           b == BLOCK * q
<1>1. BLOCK \in Nat \ {0} /\ f \in Nat /\ BLOCK = m + f /\ x \in Nat /\ n = f + x
  BY DigestAssumption
<1> HIDE DEF f, x
<1>2. q \in Nat /\ l \in Nat /\ l < BLOCK /\ x = b + l
  BY <1>1, DivMod
<1>3. f + ((n - f) \div BLOCK) * BLOCK = f + q * BLOCK
  BY DEF x
<1> HIDE DEF q, l
<1>4. q * BLOCK = b /\ b \in Nat
  BY <1>1, <1>2
<1>5. f + b = f + BLOCK * q
  OBVIOUS
<1> HIDE DEF b
<1>6. n = (f + b) + l /\ f + b \in Nat
  BY <1>1, <1>2, <1>4
<1>7. Splits(m, n, f, q, l, f + b)
  BY <1>1, <1>2, <1>5, <1>6 DEF Splits
<1> QED
  BY <1>3, <1>4, <1>7 DEF f

LEMMA Reassociated ==
  ASSUME NEW a \in Seq(Octets), NEW b \in Seq(Octets), NEW c \in Seq(Octets)
  PROVE  (a \o b) \o c = a \o (b \o c)
BY ConcatAssociative

\* Data t that fill the buffer, which holds r, are a block from both, whole blocks of t
\* and less than a block.
InParts(r, t, f, done) ==
  /\ <<r \o SubSeq(t, 1, f)>> \in Seq(Seq(Octets))
  /\ Cut(SubSeq(t, f + 1, done)) \in Seq(Seq(Octets))
  /\ SubSeq(t, done + 1, Len(t)) \in Seq(Octets)
  /\ Len(SubSeq(t, done + 1, Len(t))) < BLOCK
  /\ Cut(r \o t) = <<r \o SubSeq(t, 1, f)>> \o Cut(SubSeq(t, f + 1, done))
  /\ Remainder(r \o t) = SubSeq(t, done + 1, Len(t))

LEMMA SHA1Parts ==
  ASSUME NEW r \in Seq(Octets), NEW t \in Seq(Octets), NEW f, NEW q, NEW l, NEW done,
         Splits(Len(r), Len(t), f, q, l, done)
  PROVE  InParts(r, t, f, done)
<1> DEFINE n == Len(t)
           start == SubSeq(t, 1, f)
           first == r \o start
           middle == SubSeq(t, f + 1, done)
           rest == SubSeq(t, done + 1, n)
           b == BLOCK * q
<1>1. /\ BLOCK \in Nat \ {0} /\ n \in Nat /\ Len(r) \in Nat /\ b \in Nat
      /\ f \in Nat /\ q \in Nat /\ l \in Nat /\ done \in Nat
      /\ BLOCK = Len(r) + f /\ l < BLOCK
      /\ b = BLOCK * q + 0 /\ done = f + b /\ n = done + l /\ n = Len(t)
  BY DigestAssumption DEF Splits
<1> HIDE DEF n, b
<1>6. \A x \in Nat : \A y \in Nat :
        x <= y /\ y <= n =>
          SubSeq(t, x + 1, y) \in Seq(Octets) /\ Len(SubSeq(t, x + 1, y)) = y - x
  <2> SUFFICES ASSUME NEW x \in Nat, NEW y \in Nat, x <= y, y <= n
               PROVE  SubSeq(t, x + 1, y) \in Seq(Octets) /\ Len(SubSeq(t, x + 1, y)) = y - x
    OBVIOUS
  <2>1. ASSUME NEW i \in x + 1 .. y PROVE t[i] \in Octets
    <3>1. i \in 1 .. Len(t)
      BY <1>1
    <3> QED
      BY <3>1, ElementOfSeq
  <2> DEFINE c == x + 1
  <2>2. c \in Int /\ y \in Int /\ y - x = (IF c <= y THEN y - c + 1 ELSE 0)
    OBVIOUS
  <2>3. \A i \in c .. y : t[i] \in Octets
    BY <2>1
  <2> HIDE DEF c
  <2>4. SubSeq(t, c, y) \in Seq(Octets) /\ Len(SubSeq(t, c, y)) = (IF c <= y THEN y - c + 1 ELSE 0)
    BY <2>2, <2>3, SubSeqProperties
  <2> QED
    BY <2>2, <2>4 DEF c
<1>7. /\ start \in Seq(Octets) /\ Len(start) = f
      /\ middle \in Seq(Octets) /\ Len(middle) = b
      /\ rest \in Seq(Octets) /\ Len(rest) = l
  <2>1. 0 + 1 = 1 /\ f - 0 = f /\ 0 <= f /\ f <= n
    BY <1>1
  <2>2. f <= done /\ done <= n /\ done - f = b /\ n - done = l /\ n <= n
    BY <1>1
  <2>3. SubSeq(t, 0 + 1, f) \in Seq(Octets) /\ Len(SubSeq(t, 0 + 1, f)) = f - 0
    BY <1>1, <1>6, <2>1
  <2>4. middle \in Seq(Octets) /\ Len(middle) = done - f
    BY <1>1, <1>6, <2>2
  <2>5. rest \in Seq(Octets) /\ Len(rest) = n - done
    BY <1>1, <1>6, <2>2
  <2> QED
    BY <2>1, <2>2, <2>3, <2>4, <2>5
<1>8. t = start \o (middle \o rest)
  <2>1. f <= done /\ done <= n
    BY <1>1
  <2>2. /\ f + 1 \in 1 .. Len(t) + 1 /\ done \in (f + 1) - 1 .. Len(t) /\ n \in done .. Len(t)
        /\ 1 \in 1 .. Len(t) + 1 /\ f \in 1 - 1 .. Len(t) /\ n \in f .. Len(t) /\ n = Len(t)
    BY <1>1, <2>1
  <2>3. middle \o rest = SubSeq(t, f + 1, n)
    BY <2>2, ConcatAdjacentSubSeq
  <2>4. start \o SubSeq(t, f + 1, n) = SubSeq(t, 1, n)
    BY <2>2, ConcatAdjacentSubSeq
  <2>5. SubSeq(t, 1, n) = t
    BY <2>2, SubSeqFull
  <2> QED
    BY <2>3, <2>4, <2>5
<1> HIDE DEF start, middle, rest
<1>9. first \in Seq(Octets) /\ Len(first) = BLOCK
  BY <1>1, <1>7, ConcatProperties
<1>10. middle \o rest \in Seq(Octets)
  BY <1>7, ConcatProperties
<1>11. r \o t = first \o (middle \o rest)
  <2> DEFINE tail == middle \o rest
  <2>1. tail \in Seq(Octets) /\ start \in Seq(Octets)
    BY <1>7, <1>10
  <2>3. t = start \o tail
    BY <1>8
  <2> HIDE DEF tail, first
  <2>2. (r \o start) \o tail = r \o (start \o tail)
    BY <2>1, Reassociated
  <2> QED
    BY <2>2, <2>3 DEF tail, first
<1> HIDE DEF first
<1>12. Cut(first) = <<first>> /\ Remainder(first) = <<>>
  BY <1>9, OneBlock
<1>13. /\ Cut(r \o t) = <<first>> \o Cut(middle \o rest)
       /\ Remainder(r \o t) = Remainder(middle \o rest)
  <2>1. /\ Cut(first \o (middle \o rest)) = Cut(first) \o Cut(Remainder(first) \o (middle \o rest))
        /\ Remainder(first \o (middle \o rest)) = Remainder(Remainder(first) \o (middle \o rest))
    BY <1>9, <1>10, Continued
  <2>2. <<>> \o (middle \o rest) = middle \o rest
    BY <1>10, ConcatEmptySeq
  <2> QED
    BY <1>11, <1>12, <2>1, <2>2
<1>14. Remainder(middle) = <<>>
  <2>1. 0 \in Nat /\ 0 < BLOCK
    BY <1>1
  <2>2. b % BLOCK = 0
    BY <1>1, <2>1, Unique
  <2>4. 0 = Len(middle) % BLOCK
    BY <1>7, <2>2
  <2>3. Remainder(middle) \in Seq(Octets) /\ Len(Remainder(middle)) = 0
    BY <1>7, <2>4, TheRemainder
  <2> QED
    BY <2>3, EmptySeq
<1>17. Len(rest) < BLOCK
  BY <1>1, <1>7
<1>15. Cut(rest) = <<>> /\ Remainder(rest) = rest
  BY <1>7, <1>17, NoBlock
<1>16. Cut(middle \o rest) = Cut(middle) /\ Remainder(middle \o rest) = rest
  <2>1. /\ Cut(middle \o rest) = Cut(middle) \o Cut(Remainder(middle) \o rest)
        /\ Remainder(middle \o rest) = Remainder(Remainder(middle) \o rest)
    BY <1>7, Continued
  <2>2. <<>> \o rest = rest
    BY <1>7, ConcatEmptySeq
  <2>3. Cut(middle) \in Seq(Seq(Octets))
    BY <1>7, BlocksOf
  <2>4. Cut(middle) \o <<>> = Cut(middle)
    BY <2>3, ConcatEmptySeq
  <2> QED
    BY <1>14, <1>15, <2>1, <2>2, <2>4
<1>18. <<first>> \in Seq(Seq(Octets)) /\ Cut(middle) \in Seq(Seq(Octets))
  <2>1. <<first>> \in Seq(Seq(Octets))
    BY <1>9
  <2> QED
    BY <1>7, <2>1, BlocksOf
<1> QED
  BY <1>7, <1>13, <1>16, <1>17, <1>18 DEF InParts, first, start, middle, rest, n

LEMMA SHA1Continued ==
  ASSUME NEW c, NEW s \in Seq(Octets), NEW t \in Seq(Octets), InSHA1(c, s)
  PROVE  InSHA1(SHA1Update(c, t), s \o t)
<1> DEFINE r == Remainder(s)
           m == InBuffer(c.count)
           f == FirstPart(c)
           done == Done(c, Len(t))
           first == SubSeq(c.buffer, 1, m) \o SubSeq(t, 1, f)
           middle == SubSeq(t, f + 1, done)
           rest == SubSeq(t, done + 1, Len(t))
           new == SHA1Update(c, t)
<1>1. c.count = CountOf(Len(s)) /\ c.state = Cut(s) /\ Holds(c.buffer, r)
  BY DEF InSHA1
<1>2. Len(s) \in Nat /\ Len(t) \in Nat /\ Len(s \o t) = Len(s) + Len(t) /\ s \o t \in Seq(Octets)
  BY ConcatProperties
<1>3. SubSeq(c.buffer, 1, m) = r /\ c.buffer \in [1 .. BLOCK -> Octets]
  BY <1>1, Stream DEF Holds
<1>4. r \in Seq(Octets) /\ Len(r) = m /\ m \in Nat /\ m < BLOCK /\ BLOCK \in Nat \ {0}
  <2> DEFINE l == Len(s) % BLOCK
  <2>1. l = Len(s) % BLOCK
    OBVIOUS
  <2>2. m = l
    BY <1>1, <1>2, PlaceInBuffer
  <2>3. r \in Seq(Octets) /\ Len(r) = l
    BY TheRemainder
  <2>4. BLOCK \in Nat \ {0} /\ l \in Nat /\ l < BLOCK
    BY <1>2, DigestAssumption, DivMod
  <2> HIDE DEF l, m
  <2> QED
    BY <2>2, <2>3, <2>4
<1>5. Cut(s \o t) = Cut(s) \o Cut(r \o t) /\ Remainder(s \o t) = Remainder(r \o t)
  BY Continued
<1>6. Counted(c.count, Len(t)) = CountOf(Len(s \o t))
  BY <1>1, <1>2, CountedOn
<1>7. Fills(c, Len(t)) <=> m + Len(t) >= BLOCK
  BY DEF Fills
<1>8. f = BLOCK - Len(r) /\ done = f + ((Len(t) - f) \div BLOCK) * BLOCK
  BY <1>4 DEF FirstPart, Done
<1>9. CASE Fills(c, Len(t))
  <2>1. new = [count |-> Counted(c.count, Len(t)),
               buffer |-> Overlaid([k \in 1 .. BLOCK |-> Spoilt], rest),
               state |-> c.state \o <<first>> \o Cut(middle)]
    BY <1>9 DEF SHA1Update
  <2>2. /\ <<r \o SubSeq(t, 1, f)>> \in Seq(Seq(Octets)) /\ Cut(middle) \in Seq(Seq(Octets))
        /\ rest \in Seq(Octets) /\ Len(rest) < BLOCK
        /\ Cut(r \o t) = <<r \o SubSeq(t, 1, f)>> \o Cut(middle)
        /\ Remainder(r \o t) = rest
    <3>1. m + Len(t) >= BLOCK
      BY <1>7, <1>9
    <3>2. f = BLOCK - m
      BY DEF FirstPart
    <3> HIDE DEF r, m, f, done
    <3>3. PICK q, l : Splits(m, Len(t), BLOCK - m, q, l,
                             (BLOCK - m) + ((Len(t) - (BLOCK - m)) \div BLOCK) * BLOCK)
      BY <1>2, <1>4, <3>1, WholeBlocksDone
    <3>4. Splits(Len(r), Len(t), f, q, l, done)
      BY <1>4, <1>8, <3>2, <3>3
    <3>5. r \in Seq(Octets)
      BY <1>4
    <3>6. InParts(r, t, f, done)
      BY <3>4, <3>5, SHA1Parts
    <3> QED
      BY <3>6 DEF InParts
  <2>3. first = r \o SubSeq(t, 1, f)
    BY <1>3
  <2> HIDE DEF r, first, middle, rest, f, done, m, new
  <2>4. Cut(s) \in Seq(Seq(Octets)) /\ <<first>> \in Seq(Seq(Octets)) /\ Cut(middle) \in Seq(Seq(Octets))
    BY <2>2, <2>3, BlocksOf
  <2>5. (Cut(s) \o <<first>>) \o Cut(middle) = Cut(s) \o (<<first>> \o Cut(middle))
    BY <2>4, ConcatAssociative
  <2>6. new.state = Cut(s \o t)
    BY <1>1, <1>5, <2>1, <2>2, <2>3, <2>5
  <2>7. [k \in 1 .. BLOCK |-> Spoilt] \in [1 .. BLOCK -> Octets]
    BY DEF Octets
  <2>8. Holds(new.buffer, Remainder(s \o t))
    <3> DEFINE below == [k \in 1 .. BLOCK |-> Spoilt]
    <3>1. below \in [1 .. BLOCK -> Octets] /\ new.buffer = Overlaid(below, rest)
      BY <2>1, <2>7
    <3>2. rest \in Seq(Octets) /\ Len(rest) <= BLOCK
      <4>1. rest \in Seq(Octets) /\ Len(rest) < BLOCK
        BY <2>2
      <4> QED
        BY <1>4, <4>1
    <3> HIDE DEF below
    <3>3. Holds(Overlaid(below, rest), rest)
      BY <3>1, <3>2, OverlaidHolds
    <3> QED
      BY <1>5, <2>2, <3>1, <3>3
  <2>9. new.count = CountOf(Len(s \o t))
    BY <1>6, <2>1
  <2> QED
    BY <2>6, <2>8, <2>9 DEF InSHA1, new
<1>10. CASE ~Fills(c, Len(t))
  <2> DEFINE both == r \o t
  <2>1. new = [count |-> Counted(c.count, Len(t)),
               buffer |-> Overlaid(c.buffer, both),
               state |-> c.state]
    BY <1>3, <1>10 DEF SHA1Update
  <2>2. both \in Seq(Octets) /\ Len(both) = Len(r) + Len(t)
    <3> HIDE DEF r
    <3> QED
      BY <1>4, ConcatProperties
  <2>3. Len(both) < BLOCK /\ Len(both) <= BLOCK
    BY <1>2, <1>4, <1>7, <1>10, <2>2
  <2> HIDE DEF both, r, m, new
  <2>4. Cut(both) = <<>> /\ Remainder(both) = both
    BY <2>2, <2>3, NoBlock
  <2>5. Cut(s) \o <<>> = Cut(s)
    <3>1. Cut(s) \in Seq(Seq(Octets))
      BY BlocksOf
    <3> QED
      BY <3>1, ConcatEmptySeq
  <2>6. Cut(s \o t) = Cut(s) /\ Remainder(s \o t) = both
    BY <1>5, <2>4, <2>5 DEF both
  <2>7. Holds(Overlaid(c.buffer, both), both)
    BY <1>3, <2>2, <2>3, OverlaidHolds
  <2>8. /\ new.count = CountOf(Len(s \o t)) /\ new.state = Cut(s \o t)
        /\ Holds(new.buffer, Remainder(s \o t))
    BY <1>1, <1>6, <2>1, <2>6, <2>7
  <2> QED
    BY <2>8 DEF InSHA1, new
<1> QED
  BY <1>9, <1>10

LEMMA SHA1Finished ==
  ASSUME NEW c, NEW s \in Seq(Octets), InSHA1(c, s)
  PROVE  SHA1Final(c) = BigEndianDigest(s)
<1> DEFINE m == Len(s) % BLOCK
           zeros == (2 * BLOCK - LENGTH - 1 - m) % BLOCK
           pad == Padding(zeros + 1)
           p == s \o pad
           w == TwoWords(c.count[2], c.count[1])
           padded == SHA1Update(c, pad)
<1>1. c.count = CountOf(Len(s)) /\ Len(s) \in Nat
  BY DEF InSHA1
<1>2. c.count[1] = Low(s) /\ c.count[2] = High(s) /\ Low(s) \in Nat /\ High(s) \in Nat
  BY <1>1, WordsAreLength
<1>3. w \in Seq(Octets) /\ Len(w) = LENGTH
  BY <1>2, LengthBytes
<1>4. InBuffer(c.count) = m
  BY <1>1, PlaceInBuffer
<1>5. BigEndianDigest(s) = Padded(s, w)
  BY <1>2 DEF BigEndianDigest
<1> HIDE DEF w
<1>6. pad \in Seq(Octets) /\ p \in Seq(Octets) /\ Padded(s, w) = Cut(p \o w)
  BY <1>3, PaddedMessage
<1>7. SHA1Final(c) = SHA1Update(padded, w).state
  BY <1>4 DEF SHA1Final, w
<1> HIDE DEF pad, zeros, m
<1>8. InSHA1(padded, p)
  BY <1>6, SHA1Continued
<1> HIDE DEF padded, p
<1>9. InSHA1(SHA1Update(padded, w), p \o w)
  BY <1>3, <1>6, <1>8, SHA1Continued
<1> QED
  BY <1>5, <1>6, <1>7, <1>9 DEF InSHA1

-----------------------------------------------------------------------------
\* The inductive invariant: struct multihash has all of the message, and when it is
\* finished the digests are those of the message.
Hashing ==
  /\ length \in Nat
  /\ {"crc32", "md5", "sha1"} \subseteq DOMAIN mh
  /\ pc = "multihash" =>
       digests = None /\ mh.crc32 = message /\ InMD5(mh.md5, message) /\ InSHA1(mh.sha1, message)
  /\ pc # "multihash" =>
       /\ pc = "finished" /\ "md5" \in DOMAIN digests
       /\ digests.md5 = LittleEndianDigest(message)
       /\ digests.sha1 = BigEndianDigest(message)
       /\ digests.crc32 = message

LEMMA HashingInit == Init /\ pc = "multihash" => Hashing
<1> SUFFICES ASSUME Init, pc = "multihash" PROVE Hashing
  OBVIOUS
<1>1. /\ length = 0 /\ digests = None /\ mh.crc32 = <<>> /\ mh.md5 = MD5Init /\ mh.sha1 = SHA1Init
      /\ {"crc32", "md5", "sha1"} \subseteq DOMAIN mh
  BY DEF Init
<1>2. message = <<>> /\ <<>> \in Seq(Octets) /\ Len(<<>>) = 0
  BY <1>1 DEF message, Message
<1>3. CountOf(0) = <<0, 0>>
  <2>1. (8 * 0) \div WORD = 0 /\ (8 * 0) % WORD = 0
    BY BytesOfWord, Unique, 8 * 0 = WORD * 0 + 0
  <2>2. 0 % WORD = 0
    BY <2>1
  <2> QED
    BY <2>1, <2>2 DEF CountOf
<1>4. Cut(<<>>) = <<>> /\ Remainder(<<>>) = <<>>
  <2>1. Len(<<>>) < BLOCK
    BY DigestAssumption
  <2> QED
    BY <1>2, <2>1, NoBlock
<1>5. Holds(NewBuffer, <<>>)
  <2>1. NewBuffer \in [1 .. BLOCK -> Octets]
    BY DEF NewBuffer, Octets
  <2>2. SubSeq(NewBuffer, 1, Len(<<>>)) = <<>>
    BY <1>2, SubSeqEmpty
  <2> QED
    BY <2>1, <2>2 DEF Holds
<1>6. InMD5(MD5Init, <<>>)
  BY <1>2, <1>3, <1>4, <1>5 DEF InMD5, MD5Init
<1>7. InSHA1(SHA1Init, <<>>)
  BY <1>2, <1>3, <1>4, <1>5 DEF InSHA1, SHA1Init
<1> QED
  BY <1>1, <1>2, <1>6, <1>7 DEF Hashing

LEMMA HashingNext == Hashing /\ [Next]_vars => Hashing'
<1> SUFFICES ASSUME Hashing, [Next]_vars PROVE Hashing'
  OBVIOUS
<1>1. length \in Nat /\ message \in Seq(Octets)
  BY MessageBytes, 0 \in Nat DEF Hashing, message
<1>2. CASE Update
  <2>1. PICK n \in Lengths : multihash_update(Message(length, n)) \/ UpdateEd2k(Message(length, n))
    BY <1>2 DEF Update
  <2>2. n \in Nat
    BY MultihashAssumption
  <2> DEFINE data == Message(length, n)
  <2>3. pc # "ed2k"
    BY DEF Hashing
  <2>4. multihash_update(data)
    BY <2>1, <2>3 DEF UpdateEd2k
  <2>5. /\ data \in Seq(Octets) /\ Len(data) = n
        /\ message \o data = Message(0, length + n)
    BY <1>1, <2>2, MessageBytes DEF message
  <2> HIDE DEF data
  <2>6. /\ pc = "multihash" /\ pc' = pc /\ digests' = digests
        /\ length' = length + n /\ length' \in Nat
    BY <1>1, <2>2, <2>4, <2>5 DEF multihash_update
  <2>7. /\ mh' = [mh EXCEPT !.crc32 = @ \o data, !.md5 = MD5Update(@, data), !.sha1 = SHA1Update(@, data)]
    BY <2>4 DEF multihash_update, CrcUpdate, ForMD5, ForSHA1
  <2>8. {"crc32", "md5", "sha1"} \subseteq DOMAIN mh
    BY DEF Hashing
  <2>9. /\ mh'.crc32 = mh.crc32 \o data /\ mh'.md5 = MD5Update(mh.md5, data)
        /\ mh'.sha1 = SHA1Update(mh.sha1, data) /\ DOMAIN mh' = DOMAIN mh
    BY <2>7, <2>8
  <2>10. message' = message \o data
    BY <2>5, <2>6 DEF message
  <2>11. digests = None /\ mh.crc32 = message /\ InMD5(mh.md5, message) /\ InSHA1(mh.sha1, message)
    BY <2>6 DEF Hashing
  <2>12. InMD5(mh'.md5, message')
    BY <1>1, <2>5, <2>9, <2>10, <2>11, MD5Continued
  <2>13. InSHA1(mh'.sha1, message')
    BY <1>1, <2>5, <2>9, <2>10, <2>11, SHA1Continued
  <2> QED
    BY <2>6, <2>8, <2>9, <2>10, <2>11, <2>12, <2>13 DEF Hashing, None
<1>3. CASE multihash_finish
  <2>1. /\ pc = "multihash" /\ pc' = "finished" /\ mh' = mh /\ length' = length
        /\ "md5" \in DOMAIN digests' /\ digests'.crc32 = mh.crc32
        /\ digests'.md5 = MD5Final(mh.md5) /\ digests'.sha1 = SHA1Final(mh.sha1)
    BY <1>3 DEF multihash_finish
  <2>2. mh.crc32 = message /\ InMD5(mh.md5, message) /\ InSHA1(mh.sha1, message)
    BY <2>1 DEF Hashing
  <2>3. message' = message
    BY <2>1 DEF message
  <2>4. MD5Final(mh.md5) = LittleEndianDigest(message)
    BY <1>1, <2>2, MD5Finished
  <2>5. SHA1Final(mh.sha1) = BigEndianDigest(message)
    BY <1>1, <2>2, SHA1Finished
  <2> QED
    BY <1>1, <2>1, <2>2, <2>3, <2>4, <2>5 DEF Hashing
<1>4. CASE TakePiece \/ FinishEd2k
  BY <1>4 DEF TakePiece, FinishEd2k, Hashing
<1>5. CASE Over \/ UNCHANGED vars
  <2>1. UNCHANGED <<mh, length, digests, pc>>
    BY <1>5 DEF Over, vars
  <2>2. message' = message
    BY <2>1 DEF message
  <2> QED
    BY <2>1, <2>2 DEF Hashing
<1> QED
  BY <1>2, <1>3, <1>4, <1>5 DEF Next

\* CRC, MD5 and SHA-1 of struct multihash.
LEMMA MultihashCorrect == Spec /\ pc = "multihash" => []DigestsOfTheMessage
<1>1. Hashing => DigestsOfTheMessage
  BY DEF Hashing, DigestsOfTheMessage
<1> QED
  BY <1>1, HashingInit, HashingNext, PTL DEF Spec

-----------------------------------------------------------------------------
\* MD4 counts bytes in its two words.
TotalOf(n) == <<n % WORD, (n \div WORD) % WORD>>

\* A carry is made if and only if the sum of the lower words fills a word; a piece of a
\* word or more would be lost.
LEMMA TotalOn ==
  ASSUME NEW m \in Nat, NEW n \in Nat, n < WORD
  PROVE  Total(TotalOf(m), n) = TotalOf(m + n)
<1> DEFINE q == m \div WORD
           r == m % WORD
           low == (r + n) % WORD
<1>6. WORD \in Nat \ {0}
  BY BytesOfWord
<1>1. WORD \in Nat \ {0} /\ WORD \in Nat /\ q \in Nat /\ r \in Nat /\ r < WORD /\ m = WORD * q + r
  BY <1>6, DivMod
<1>2. Total(TotalOf(m), n) = <<low, IF low < n THEN ((q % WORD) + 1) % WORD ELSE q % WORD>>
  BY DEF Total, TotalOf
<1>3. PICK p \in Nat : p = WORD * q
  BY <1>1
<1> HIDE DEF q, r
<1>4. CASE r + n < WORD
  <2> DEFINE sum == r + n
             all == m + n
  <2>1. sum \in Nat /\ sum < WORD /\ sum = WORD * 0 + sum
    BY <1>1, <1>4
  <2>2. all \in Nat /\ all = WORD * q + sum
    BY <1>1, <1>3
  <2>3. ~(sum < n)
    BY <1>1
  <2> HIDE DEF sum, all
  <2>4. sum % WORD = sum
    BY <1>1, <2>1, Unique
  <2>5. all \div WORD = q /\ all % WORD = sum
    BY <1>1, <2>1, <2>2, Unique
  <2>6. Total(TotalOf(m), n) = <<sum, q % WORD>>
    BY <1>2, <2>3, <2>4 DEF sum
  <2> QED
    BY <2>5, <2>6 DEF TotalOf, all
<1>5. CASE ~(r + n < WORD)
  <2> DEFINE sum == r + n
             rest == sum - WORD
             all == m + n
             next == q + 1
  <2>1. sum \in Nat /\ rest \in Nat /\ rest < WORD /\ sum = WORD * 1 + rest /\ rest < n
    BY <1>1, <1>5
  <2>2. WORD * next = WORD * q + WORD /\ next \in Nat
    BY <1>1
  <2>3. all \in Nat /\ all = WORD * next + rest
    BY <1>1, <1>3, <2>2
  <2> HIDE DEF sum, all, rest, next
  <2>4. sum % WORD = rest
    BY <1>1, <2>1, Unique
  <2>5. all \div WORD = next /\ all % WORD = rest
    BY <1>1, <2>1, <2>2, <2>3, Unique
  <2>6. ((q % WORD) + 1) % WORD = next % WORD
    BY <1>1, ModOfSum DEF next
  <2>7. Total(TotalOf(m), n) = <<rest, next % WORD>>
    BY <1>2, <2>1, <2>4, <2>6 DEF sum
  <2> QED
    BY <2>5, <2>7 DEF TotalOf, all
<1> QED
  BY <1>4, <1>5

LEMMA ModOfMultiple ==
  ASSUME NEW w \in Nat \ {0}, NEW a \in Nat, NEW y \in Nat
  PROVE  (w * a + y) % w = y % w
<1> DEFINE x == w * a
<1>1. x \in Nat /\ x = w * a + 0
  OBVIOUS
<1> HIDE DEF x
<1>2. x % w = 0
  BY <1>1, Unique
<1>3. ((x % w) + y) % w = (x + y) % w
  BY <1>1, ModOfSum
<1>4. 0 + y = y
  OBVIOUS
<1> QED
  BY <1>2, <1>3, <1>4 DEF x

\* The place in the buffer is told from the lower word.
LEMMA PlaceOfTotal ==
  ASSUME NEW n \in Nat
  PROVE  TotalOf(n)[1] % BLOCK = n % BLOCK
<1> DEFINE e == 8 * BLOCK
           k == WORD \div e
           rest == WORD % e
           q == n \div WORD
           r == n % WORD
<1>1. BLOCK \in Nat \ {0} /\ WORD \in Nat \ {0} /\ e \in Nat \ {0} /\ rest = 0
  BY DigestAssumption
<1>2. q \in Nat /\ r \in Nat /\ n = WORD * q + r
  BY <1>1, DivMod
<1>3. TotalOf(n)[1] = r
  BY DEF TotalOf
<1> HIDE DEF e, q, r
<1>4. k \in Nat /\ WORD = e * k + rest
  BY <1>1, DivMod
<1> HIDE DEF k, rest
<1> DEFINE d == 8 * k * q
<1>5. d \in Nat /\ WORD * q = BLOCK * d
  <2>1. e * k = BLOCK * (8 * k)
    BY <1>1, <1>4 DEF e
  <2>2. WORD = BLOCK * (8 * k)
    BY <1>1, <1>4, <2>1
  <2> QED
    BY <1>1, <1>2, <1>4, <2>2
<1> HIDE DEF d
<1>6. (BLOCK * d + r) % BLOCK = r % BLOCK
  BY <1>1, <1>2, <1>5, ModOfMultiple
<1> QED
  BY <1>2, <1>3, <1>5, <1>6

\* The length in bits is told from the two words.
LEMMA LengthOfTotal ==
  ASSUME NEW n \in Nat
  PROVE  /\ BitsOf(TotalOf(n)[1]) = (8 * n) % WORD
         /\ (HighBitsOf(TotalOf(n)[1]) + 8 * TotalOf(n)[2]) % WORD = ((8 * n) \div WORD) % WORD
<1> DEFINE q == n \div WORD
           r == n % WORD
           p == r \div Bytes
           l == r % Bytes
           t == q % WORD
           k == q \div WORD
<1>1. WORD \in Nat \ {0} /\ Bytes \in Nat \ {0} /\ WORD = 8 * Bytes
  BY BytesOfWord
<1>2. q \in Nat /\ r \in Nat /\ n = WORD * q + r
  BY <1>1, DivMod
<1>3. TotalOf(n)[1] = r /\ TotalOf(n)[2] = t
  BY DEF TotalOf
<1>4. k \in Nat /\ t \in Nat /\ q = WORD * k + t
  BY <1>1, <1>2, DivMod
<1>5. p \in Nat /\ l \in Nat /\ l < Bytes /\ r = Bytes * p + l
  BY <1>1, <1>2, DivMod
<1>6. BitsOf(r) = 8 * l /\ HighBitsOf(r) = p
  BY <1>2, BitsOfBytes
<1> HIDE DEF q, r, p, l, t, k
<1>7. n \div Bytes = 8 * q + p /\ n % Bytes = l
  <2> DEFINE x == 8 * q + p
  <2>1. WORD * q = Bytes * (8 * q) /\ Bytes * x = Bytes * (8 * q) + Bytes * p /\ x \in Nat
    BY <1>1, <1>2, <1>5
  <2>2. Bytes * p \in Nat /\ Bytes * (8 * q) \in Nat
    BY <1>1, <1>2, <1>5
  <2> HIDE DEF x
  <2>3. n = Bytes * x + l
    BY <1>2, <1>5, <2>1, <2>2
  <2>4. n \div Bytes = x /\ n % Bytes = l
    BY <1>1, <1>5, <2>1, <2>3, Unique
  <2> QED
    BY <2>4 DEF x
<1>8. (8 * n) % WORD = 8 * l /\ (8 * n) \div WORD = 8 * q + p
  BY <1>7, BitsOfBytes
<1>9. (8 * q + p) % WORD = (p + 8 * t) % WORD
  <2> DEFINE y == p + 8 * t
             a == 8 * k
  <2>1. y \in Nat /\ a \in Nat
    BY <1>4, <1>5
  <2>2. 8 * (WORD * k) = WORD * a /\ WORD * k \in Nat
    BY <1>1, <1>4
  <2>3. 8 * q + p = WORD * a + y
    BY <1>4, <1>5, <2>2
  <2> HIDE DEF y, a
  <2>4. (WORD * a + y) % WORD = y % WORD
    BY <1>1, <2>1, ModOfMultiple
  <2> QED
    BY <2>3, <2>4 DEF y
<1> QED
  BY <1>3, <1>6, <1>8, <1>9

-----------------------------------------------------------------------------
\* The context of MD4 after the bytes of s.
InMD4(c, s) ==
  c.total = TotalOf(Len(s)) /\ c.state = Cut(s) /\ Holds(c.buffer, Remainder(s))

LEMMA MD4Started == InMD4(md4_starts, <<>>)
<1>1. <<>> \in Seq(Octets) /\ Len(<<>>) = 0
  OBVIOUS
<1>2. TotalOf(0) = <<0, 0>>
  <2>1. WORD \in Nat \ {0} /\ 0 = WORD * 0 + 0
    BY BytesOfWord
  <2>2. 0 \div WORD = 0 /\ 0 % WORD = 0
    BY <2>1, Unique
  <2> QED
    BY <2>2 DEF TotalOf
<1>3. Cut(<<>>) = <<>> /\ Remainder(<<>>) = <<>>
  <2>1. Len(<<>>) < BLOCK
    BY DigestAssumption
  <2> QED
    BY <1>1, <2>1, NoBlock
<1>4. Holds(NewBuffer, <<>>)
  <2>1. NewBuffer \in [1 .. BLOCK -> Octets]
    BY DEF NewBuffer, Octets
  <2>2. SubSeq(NewBuffer, 1, Len(<<>>)) = <<>>
    BY <1>1, SubSeqEmpty
  <2> QED
    BY <2>1, <2>2 DEF Holds
<1> QED
  BY <1>1, <1>2, <1>3, <1>4 DEF InMD4, md4_starts

\* The first block of a sequence of bytes.
LEMMA FirstBlock ==
  ASSUME NEW s \in Seq(Octets), Len(s) >= BLOCK
  PROVE  SubSeq(s, 1, BLOCK) \in [1 .. BLOCK -> Octets]
<1>1. BLOCK \in Nat \ {0}
  BY DigestAssumption
<1>2. \A i \in 1 .. BLOCK : s[i] \in Octets
  <2>1. \A i \in 1 .. BLOCK : i \in 1 .. Len(s)
    BY <1>1
  <2> QED
    BY <2>1, ElementOfSeq
<1>3. BLOCK = IF 1 <= BLOCK THEN BLOCK - 1 + 1 ELSE 0
  BY <1>1
<1>4. SubSeq(s, 1, BLOCK) \in Seq(Octets) /\ Len(SubSeq(s, 1, BLOCK)) = BLOCK
  BY <1>1, <1>2, <1>3, SubSeqProperties
<1> QED
  BY <1>4, LenProperties

LEMMA MD4Continued ==
  ASSUME NEW c, NEW s \in Seq(Octets), NEW t \in Seq(Octets), Len(t) < WORD, InMD4(c, s)
  PROVE  InMD4(md4_update(c, t), s \o t)
<1> DEFINE left == c.total[1] % BLOCK
           r == Remainder(s)
           stream == SubSeq(c.buffer, 1, left) \o t
           filled == left > 0 /\ Len(stream) >= BLOCK
           below == IF filled THEN SubSeq(stream, 1, BLOCK) ELSE c.buffer
<1>1. c.total = TotalOf(Len(s)) /\ c.state = Cut(s) /\ Holds(c.buffer, r)
  BY DEF InMD4
<1>2. Len(s) \in Nat /\ Len(t) \in Nat /\ Len(s \o t) = Len(s) + Len(t) /\ s \o t \in Seq(Octets)
  BY ConcatProperties
<1>5. Cut(s \o t) = Cut(s) \o Cut(Remainder(s) \o t) /\ Remainder(s \o t) = Remainder(Remainder(s) \o t)
  BY Continued
<1>6. Cut(s \o t) = Cut(s) \o Cut(r \o t) /\ Remainder(s \o t) = Remainder(r \o t)
  BY <1>5
<1>3. CASE Len(t) = 0
  <2>1. t = <<>>
    BY <1>3, EmptySeq
  <2>2. s \o t = s
    BY <2>1, ConcatEmptySeq
  <2>3. md4_update(c, t) = c
    BY <1>3 DEF md4_update
  <2> QED
    BY <2>2, <2>3
<1>4. CASE Len(t) # 0
  <2>1. r \in Seq(Octets) /\ Len(r) = Len(s) % BLOCK
    BY RemainderOf
  <2>2. left = Len(r)
    BY <1>1, <1>2, <2>1, PlaceOfTotal
  <2>3. SubSeq(c.buffer, 1, left) = r /\ c.buffer \in [1 .. BLOCK -> Octets]
    BY <1>1, <2>2 DEF Holds
  <2>4. stream = r \o t
    BY <2>3
  <2>5. md4_update(c, t) = [total  |-> Total(c.total, Len(t)),
                            buffer |-> Overlaid(below, Remainder(stream)),
                            state  |-> c.state \o Cut(stream)]
    BY <1>4 DEF md4_update
  <2> HIDE DEF r, left
  <2>6. stream \in Seq(Octets)
    BY <2>1, <2>4, ConcatProperties
  <2>7. Cut(s \o t) = Cut(s) \o Cut(stream) /\ Remainder(s \o t) = Remainder(stream)
    BY <1>6, <2>4
  <2> HIDE DEF stream
  <2>8. below \in [1 .. BLOCK -> Octets]
    BY <2>3, <2>6, FirstBlock
  <2> HIDE DEF below, filled
  <2>9. Remainder(stream) \in Seq(Octets) /\ Len(Remainder(stream)) <= BLOCK
    <3>1. /\ Remainder(stream) \in Seq(Octets) /\ Len(Remainder(stream)) = Len(stream) % BLOCK
          /\ Len(stream) % BLOCK < BLOCK /\ Len(stream) % BLOCK \in Nat
      BY <2>6, RemainderOf
    <3>2. BLOCK \in Nat
      BY DigestAssumption
    <3> QED
      BY <3>1, <3>2
  <2>10. Holds(Overlaid(below, Remainder(stream)), Remainder(stream))
    BY <2>8, <2>9, OverlaidHolds
  <2>11. Total(c.total, Len(t)) = TotalOf(Len(s \o t))
    BY <1>1, <1>2, TotalOn
  <2> QED
    BY <1>1, <2>5, <2>7, <2>10, <2>11 DEF InMD4
<1> QED
  BY <1>3, <1>4

\* Padding and length are shorter than what a word counts.
LEMMA BlockInWord == BLOCK < WORD
<1> DEFINE e == 8 * BLOCK
           k == WORD \div e
           rest == WORD % e
<1>1. BLOCK \in Nat \ {0} /\ WORD \in Nat \ {0} /\ e \in Nat \ {0} /\ rest = 0 /\ BLOCK < e
  BY DigestAssumption
<1> HIDE DEF e
<1>2. k \in Nat /\ WORD = e * k + rest
  BY <1>1, DivMod
<1> HIDE DEF k, rest
<1>3. k >= 1
  BY <1>1, <1>2
<1>4. e * k >= e
  BY <1>1, <1>2, <1>3, Multiple
<1>5. PICK x \in Nat : x = e * k
  BY <1>1, <1>2
<1> QED
  BY <1>1, <1>2, <1>4, <1>5

LEMMA MD4Finished ==
  ASSUME NEW c, NEW s \in Seq(Octets), InMD4(c, s)
  PROVE  md4_finish(c) = LittleEndianDigest(s)
<1> DEFINE m == Len(s) % BLOCK
           zeros == (2 * BLOCK - LENGTH - 1 - m) % BLOCK
           pad == Padding(zeros + 1)
           p == s \o pad
           high == (HighBitsOf(c.total[1]) + 8 * c.total[2]) % WORD
           w == TwoWords(BitsOf(c.total[1]), high)
           padded == md4_update(c, pad)
<1>1. c.total = TotalOf(Len(s)) /\ Len(s) \in Nat
  BY DEF InMD4
<1>2. BitsOf(c.total[1]) = Low(s) /\ high = High(s)
  BY <1>1, LengthOfTotal DEF Low, High
<1>10. Low(s) \in Nat /\ High(s) \in Nat
  <2>1. CountOf(Len(s)) = CountOf(Len(s))
    OBVIOUS
  <2> QED
    BY <2>1, WordsAreLength
<1>3. w \in Seq(Octets) /\ Len(w) = LENGTH
  BY <1>2, <1>10, LengthBytes
<1>4. c.total[1] % BLOCK = m
  BY <1>1, PlaceOfTotal
<1>5. LittleEndianDigest(s) = Padded(s, w)
  BY <1>2 DEF LittleEndianDigest
<1>7. md4_finish(c) = md4_update(md4_update(c, Padding(PadLen(m))), w).state
  BY <1>4 DEF md4_finish
<1> HIDE DEF w, high
<1>6. /\ zeros \in Nat /\ pad \in Seq(Octets) /\ PadLen(m) = zeros + 1
      /\ p \in Seq(Octets) /\ Padded(s, w) = Cut(p \o w)
  BY <1>3, PaddedMessage
<1>11. md4_finish(c) = md4_update(padded, w).state
  BY <1>6, <1>7
<1>12. Len(pad) < WORD /\ LENGTH < WORD
  <2> DEFINE y == 2 * BLOCK - LENGTH - 1 - m
  <2>1. /\ BLOCK \in Nat \ {0} /\ LENGTH \in Nat \ {0} /\ LENGTH < BLOCK /\ m \in Nat /\ m < BLOCK
    BY <1>1, DigestAssumption, DivMod
  <2> HIDE DEF m
  <2>2. y \in Nat
    BY <2>1
  <2>7. zeros = y % BLOCK
    OBVIOUS
  <2> HIDE DEF y, zeros
  <2>3. zeros < BLOCK
    BY <2>1, <2>2, <2>7, DivMod
  <2>4. Len(pad) = zeros + 1
    BY <1>6, PaddingBytes, zeros + 1 \in Nat \ {0}
  <2>5. BLOCK < WORD
    BY BlockInWord
  <2>6. WORD \in Nat
    BY BytesOfWord
  <2> QED
    BY <1>6, <2>1, <2>3, <2>4, <2>5, <2>6
<1> HIDE DEF pad, zeros, m
<1>8. InMD4(padded, p)
  BY <1>6, <1>12, MD4Continued
<1> HIDE DEF padded, p
<1>9. InMD4(md4_update(padded, w), p \o w)
  BY <1>3, <1>6, <1>8, <1>12, MD4Continued
<1> QED
  BY <1>5, <1>6, <1>9, <1>11 DEF InMD4

-----------------------------------------------------------------------------
\* The bytes of the digest of a chunk.
LEMMA BytesOfDigest ==
  ASSUME NEW a \in Nat, NEW b \in Nat
  PROVE  /\ DigestBytes(LittleEndianDigest(Message(a, b))) \in Seq(Octets)
         /\ Len(DigestBytes(LittleEndianDigest(Message(a, b)))) = MD4_DIGESTSIZE
<1>1. MD4_DIGESTSIZE \in Nat
  BY DigestAssumption
<1>2. \A k \in 1 .. MD4_DIGESTSIZE : Byte("digest", k, LittleEndianDigest(Message(a, b))) \in Octets
  BY <1>1 DEF Octets
<1> DEFINE bytes == DigestBytes(LittleEndianDigest(Message(a, b)))
<1>3. bytes \in [1 .. MD4_DIGESTSIZE -> Octets]
  BY <1>2 DEF DigestBytes
<1> HIDE DEF bytes
<1>4. bytes \in Seq(Octets) /\ Len(bytes) = MD4_DIGESTSIZE
  BY <1>1, <1>3, FunctionIsSequence
<1> QED
  BY <1>4 DEF bytes

\* The digests of the first n chunks of the file, in order.
ChunkHashes(n) ==
  [j \in 1 .. n |-> LittleEndianDigest(Message(ED2KHASH_CHUNKSIZE * (j - 1), ED2KHASH_CHUNKSIZE))]

\* The kth byte of n lists of one size is in the one before it is full.
LEMMA InList ==
  ASSUME NEW size \in Nat \ {0}, NEW n \in Nat, NEW k \in 1 .. size * n
  PROVE  /\ ((k - 1) \div size) + 1 \in 1 .. n
         /\ ((k - 1) % size) + 1 \in 1 .. size
<1> DEFINE x == k - 1
           q == x \div size
           r == x % size
<1>1. x \in Nat /\ x < size * n /\ size * n \in Nat
  OBVIOUS
<1>2. q \in Nat /\ r \in Nat /\ r < size /\ x = size * q + r
  BY <1>1, DivMod
<1> HIDE DEF q, r, x
<1>3. q < n
  <2> SUFFICES ASSUME ~(q < n) PROVE FALSE
    OBVIOUS
  <2>1. PICK d \in Nat : q = n + d
    BY <1>2, q - n \in Nat, q = n + (q - n)
  <2>2. size * q = size * n + size * d /\ size * d \in Nat
    BY <2>1
  <2> QED
    BY <1>1, <1>2, <2>2
<1> QED
  BY <1>2, <1>3 DEF q, r, x

\* One more list: its bytes come last.
LEMMA InLastList ==
  ASSUME NEW size \in Nat \ {0}, NEW n \in Nat, NEW i \in 1 .. size
  PROVE  /\ ((size * n + i) - 1) \div size = n
         /\ ((size * n + i) - 1) % size = i - 1
<1> DEFINE x == (size * n + i) - 1
           r == i - 1
<1>1. r \in Nat /\ r < size /\ size * n \in Nat
  OBVIOUS
<1>2. x \in Nat /\ x = size * n + r
  BY <1>1
<1> HIDE DEF x, r
<1>3. x \div size = n /\ x % size = r
  BY <1>1, <1>2, Unique
<1> QED
  BY <1>3 DEF x, r

\* The list of n digests, byte by byte.
IsList(hashes, n) ==
  /\ HashList(hashes) \in Seq(Octets) /\ Len(HashList(hashes)) = MD4_DIGESTSIZE * n
  /\ \A k \in 1 .. MD4_DIGESTSIZE * n :
       HashList(hashes)[k] =
         DigestBytes(hashes[((k - 1) \div MD4_DIGESTSIZE) + 1])[((k - 1) % MD4_DIGESTSIZE) + 1]

LEMMA ListOfHashes ==
  ASSUME NEW S, NEW hashes \in Seq(S), NEW n, n = Len(hashes),
         \A h \in S : DigestBytes(h) \in Seq(Octets)
  PROVE  IsList(hashes, n)
<1> DEFINE size == MD4_DIGESTSIZE
           all == size * n
           place(k) == ((k - 1) \div size) + 1
           offset(k) == ((k - 1) % size) + 1
<1>1. size \in Nat \ {0} /\ n \in Nat
  BY DigestAssumption
<1>2. all \in Nat /\ n * size = all
  BY <1>1
<1>3. HashList(hashes) = [k \in 1 .. all |-> DigestBytes(hashes[place(k)])[offset(k)]]
  BY <1>2 DEF HashList
<1>4. ASSUME NEW k \in 1 .. all PROVE DigestBytes(hashes[place(k)])[offset(k)] \in Octets
  <2>1. place(k) \in 1 .. n /\ offset(k) \in 1 .. size
    BY <1>1, InList
  <2> HIDE DEF place, offset
  <2>2. hashes[place(k)] \in S
    BY <2>1, ElementOfSeq
  <2> DEFINE bytes == DigestBytes(hashes[place(k)])
  <2>3. bytes \in Seq(Octets)
    BY <2>2
  <2>4. Len(bytes) = size
    BY <1>1 DEF DigestBytes
  <2> HIDE DEF bytes
  <2>5. bytes[offset(k)] \in Octets
    BY <2>1, <2>3, <2>4, ElementOfSeq
  <2> QED
    BY <2>5 DEF bytes
<1> HIDE DEF all
<1>5. HashList(hashes) \in [1 .. all -> Octets]
  BY <1>3, <1>4
<1>6. HashList(hashes) \in Seq(Octets) /\ Len(HashList(hashes)) = all
  BY <1>2, <1>5, FunctionIsSequence
<1>7. \A k \in 1 .. all : HashList(hashes)[k] = DigestBytes(hashes[place(k)])[offset(k)]
  BY <1>3
<1> QED
  BY <1>6, <1>7 DEF all, IsList

\* A digest more in the list is its bytes more at the end.
LEMMA HashAppended ==
  ASSUME NEW S, NEW hashes \in Seq(S), NEW h \in S,
         \A x \in S : DigestBytes(x) \in Seq(Octets)
  PROVE  HashList(Append(hashes, h)) = HashList(hashes) \o DigestBytes(h)
<1> DEFINE size == MD4_DIGESTSIZE
           n == Len(hashes)
           more == Append(hashes, h)
           a == HashList(hashes)
           b == DigestBytes(h)
           u == HashList(more)
           place(k) == ((k - 1) \div size) + 1
           offset(k) == ((k - 1) % size) + 1
<1>1. size \in Nat \ {0} /\ n \in Nat /\ n + 1 \in Nat
  BY DigestAssumption
<1>2. /\ more \in Seq(S) /\ n + 1 = Len(more) /\ more[n + 1] = h
      /\ \A i \in 1 .. n : more[i] = hashes[i]
  BY AppendProperties
<1> HIDE DEF more
<1>3. /\ a \in Seq(Octets) /\ Len(a) = size * n
      /\ \A k \in 1 .. size * n : a[k] = DigestBytes(hashes[place(k)])[offset(k)]
  <2>1. IsList(hashes, n)
    BY ListOfHashes
  <2> QED
    BY <2>1 DEF IsList
<1>4. /\ u \in Seq(Octets) /\ Len(u) = size * (n + 1)
      /\ \A k \in 1 .. size * (n + 1) : u[k] = DigestBytes(more[place(k)])[offset(k)]
  <2> DEFINE l == n + 1
  <2>1. l = Len(more) /\ more \in Seq(S)
    BY <1>2
  <2> HIDE DEF l, u, a, b, n
  <2>2. IsList(more, l)
    BY <2>1, ListOfHashes
  <2>3. /\ u \in Seq(Octets) /\ Len(u) = size * l
        /\ \A k \in 1 .. size * l : u[k] = DigestBytes(more[place(k)])[offset(k)]
    BY <2>2 DEF IsList, u
  <2> QED
    BY <2>3 DEF l
<1>5. b \in Seq(Octets) /\ Len(b) = size
  BY <1>1 DEF DigestBytes
<1>6. size * (n + 1) = size * n + size /\ size * n \in Nat
  BY <1>1
<1>7. PICK x \in Nat : x = size * n
  BY <1>6
<1> HIDE DEF a, b, u, n
<1>8. /\ a \o b \in Seq(Octets) /\ Len(a \o b) = x + size
      /\ \A k \in 1 .. x + size : (a \o b)[k] = IF k <= x THEN a[k] ELSE b[k - x]
  <2>1. a \in Seq(Octets) /\ b \in Seq(Octets) /\ Len(a) = x /\ Len(b) = size
    BY <1>3, <1>5, <1>7
  <2>2. /\ a \o b \in Seq(Octets) /\ Len(a \o b) = Len(a) + Len(b)
        /\ \A k \in 1 .. Len(a) + Len(b) : (a \o b)[k] = IF k <= Len(a) THEN a[k] ELSE b[k - Len(a)]
    BY <2>1, ConcatProperties
  <2> QED
    BY <2>1, <2>2, Zenon
<1>9. ASSUME NEW k \in 1 .. x + size PROVE u[k] = (a \o b)[k]
  <2>1. u[k] = DigestBytes(more[place(k)])[offset(k)]
    BY <1>4, <1>6, <1>7
  <2>2. CASE k <= x
    <3>1. k \in 1 .. size * n
      BY <1>7, <2>2
    <3>2. place(k) \in 1 .. n
      BY <1>1, <3>1, InList
    <3>3. more[place(k)] = hashes[place(k)]
      BY <1>2, <3>2
    <3>4. (a \o b)[k] = a[k]
      BY <1>8, <2>2, Zenon
    <3> HIDE DEF place, offset
    <3>5. a[k] = DigestBytes(hashes[place(k)])[offset(k)]
      BY <1>3, <3>1
    <3> QED
      BY <2>1, <3>3, <3>4, <3>5
  <2>3. CASE ~(k <= x)
    <3> DEFINE i == k - x
    <3>1. i \in 1 .. size /\ k = x + i
      BY <1>1, <2>3
    <3>2. (a \o b)[k] = b[i]
      BY <1>8, <2>3, Zenon
    <3> HIDE DEF i
    <3>3. ((size * n + i) - 1) \div size = n /\ ((size * n + i) - 1) % size = i - 1
      BY <1>1, <3>1, InLastList
    <3>4. k = size * n + i
      BY <1>7, <3>1
    <3>5. place(k) = n + 1 /\ offset(k) = (i - 1) + 1
      BY <3>3, <3>4
    <3>6. (i - 1) + 1 = i
      BY <3>1
    <3> HIDE DEF place, offset
    <3> QED
      BY <1>2, <2>1, <3>2, <3>5, <3>6 DEF b
  <2> QED
    BY <2>2, <2>3
<1>10. Len(u) = x + size
  BY <1>4, <1>6, <1>7
<1>11. u = a \o b
  BY <1>4, <1>8, <1>9, <1>10, SeqEqual
<1> QED
  BY <1>11 DEF a, b, u, more

-----------------------------------------------------------------------------
\* What is left of the data in hand, after n bytes of the message.
Waiting(n) ==
  /\ n \in Nat /\ n + Len(input) = length
  /\ input = Message(n, Len(input)) /\ Len(input) \in Nat

\* The context of the ed2k hash after n bytes: the MD4 of the chunk that is going on and
\* that of the digests of the chunks done.
InEd2k(c, n) ==
  /\ c.chunks \in Nat /\ c.bytes_processed \in Nat
  /\ c.bytes_processed < ED2KHASH_CHUNKSIZE
  /\ n = ED2KHASH_CHUNKSIZE * c.chunks + c.bytes_processed
  /\ DOMAIN c = {"md4cur", "md4final", "bytes_processed", "chunks"}
  /\ InMD4(c.md4cur, Message(ED2KHASH_CHUNKSIZE * c.chunks, c.bytes_processed))
  /\ InMD4(c.md4final, HashList(ChunkHashes(c.chunks)))

\* The set of the digests of chunks.
ChunkDigests == {LittleEndianDigest(Message(a, b)) : a \in Nat, b \in Nat}

LEMMA BytesOfChunkDigest == \A h \in ChunkDigests : DigestBytes(h) \in Seq(Octets)
BY BytesOfDigest DEF ChunkDigests

LEMMA HashesOfChunks ==
  ASSUME NEW n \in Nat
  PROVE  /\ ChunkHashes(n) \in Seq(ChunkDigests) /\ Len(ChunkHashes(n)) = n
         /\ \A j \in 1 .. n :
              ChunkHashes(n)[j] = LittleEndianDigest(Message(ED2KHASH_CHUNKSIZE * (j - 1), ED2KHASH_CHUNKSIZE))
<1>1. ED2KHASH_CHUNKSIZE \in Nat
  BY DigestAssumption
<1>2. \A j \in 1 .. n : ED2KHASH_CHUNKSIZE * (j - 1) \in Nat
  BY <1>1
<1>3. \A j \in 1 .. n :
        LittleEndianDigest(Message(ED2KHASH_CHUNKSIZE * (j - 1), ED2KHASH_CHUNKSIZE)) \in ChunkDigests
  BY <1>1, <1>2 DEF ChunkDigests
<1>4. ChunkHashes(n) \in [1 .. n -> ChunkDigests]
  BY <1>3 DEF ChunkHashes
<1>5. ChunkHashes(n) \in Seq(ChunkDigests) /\ Len(ChunkHashes(n)) = n
  BY <1>4, FunctionIsSequence
<1>6. \A j \in 1 .. n :
        ChunkHashes(n)[j] = LittleEndianDigest(Message(ED2KHASH_CHUNKSIZE * (j - 1), ED2KHASH_CHUNKSIZE))
  BY DEF ChunkHashes
<1> QED
  BY <1>5, <1>6

\* One chunk more.
LEMMA ChunkHashed ==
  ASSUME NEW n \in Nat
  PROVE  /\ ChunkHashes(n + 1) =
              Append(ChunkHashes(n), LittleEndianDigest(Message(ED2KHASH_CHUNKSIZE * n, ED2KHASH_CHUNKSIZE)))
         /\ HashList(ChunkHashes(n + 1)) =
              HashList(ChunkHashes(n))
                \o DigestBytes(LittleEndianDigest(Message(ED2KHASH_CHUNKSIZE * n, ED2KHASH_CHUNKSIZE)))
<1> DEFINE a == ChunkHashes(n)
           b == ChunkHashes(n + 1)
           h == LittleEndianDigest(Message(ED2KHASH_CHUNKSIZE * n, ED2KHASH_CHUNKSIZE))
<1>1. /\ a \in Seq(ChunkDigests) /\ Len(a) = n
      /\ \A j \in 1 .. n :
           a[j] = LittleEndianDigest(Message(ED2KHASH_CHUNKSIZE * (j - 1), ED2KHASH_CHUNKSIZE))
  BY HashesOfChunks
<1>2. /\ b \in Seq(ChunkDigests) /\ Len(b) = n + 1
      /\ \A j \in 1 .. n + 1 :
           b[j] = LittleEndianDigest(Message(ED2KHASH_CHUNKSIZE * (j - 1), ED2KHASH_CHUNKSIZE))
  BY HashesOfChunks, n + 1 \in Nat
<1>3. h \in ChunkDigests
  <2>1. ED2KHASH_CHUNKSIZE \in Nat /\ ED2KHASH_CHUNKSIZE * n \in Nat
    BY DigestAssumption
  <2> QED
    BY <2>1 DEF ChunkDigests
<1>4. b[n + 1] = h
  <2>1. n + 1 \in 1 .. n + 1 /\ (n + 1) - 1 = n
    OBVIOUS
  <2> QED
    BY <1>2, <2>1
<1>5. \A j \in 1 .. n : b[j] = a[j]
  <2>1. \A j \in 1 .. n : j \in 1 .. n + 1
    OBVIOUS
  <2> QED
    BY <1>1, <1>2, <2>1, Zenon
<1> HIDE DEF a, b, h
<1>6. /\ Append(a, h) \in Seq(ChunkDigests) /\ Len(Append(a, h)) = n + 1
      /\ Append(a, h)[n + 1] = h /\ \A j \in 1 .. n : Append(a, h)[j] = a[j]
  BY <1>1, <1>3, AppendProperties
<1>7. ASSUME NEW j \in 1 .. n + 1 PROVE b[j] = Append(a, h)[j]
  <2>1. j \in 1 .. n \/ j = n + 1
    OBVIOUS
  <2> QED
    BY <1>4, <1>5, <1>6, <2>1
<1>8. b = Append(a, h)
  BY <1>2, <1>6, <1>7, SeqEqual
<1>9. HashList(Append(a, h)) = HashList(a) \o DigestBytes(h)
  BY <1>1, <1>3, BytesOfChunkDigest, HashAppended
<1> QED
  BY <1>8, <1>9 DEF a, b, h

LEMMA ListIsOctets ==
  ASSUME NEW n \in Nat
  PROVE  HashList(ChunkHashes(n)) \in Seq(Octets)
<1>1. ChunkHashes(n) \in Seq(ChunkDigests)
  BY HashesOfChunks
<1> DEFINE l == Len(ChunkHashes(n))
           hashes == ChunkHashes(n)
<1>2. l = Len(hashes) /\ hashes \in Seq(ChunkDigests)
  BY <1>1
<1> HIDE DEF l, hashes
<1>4. IsList(hashes, l)
  BY <1>2, BytesOfChunkDigest, ListOfHashes
<1>3. HashList(hashes) \in Seq(Octets)
  BY <1>4 DEF IsList
<1> QED
  BY <1>3 DEF hashes

\* A piece is not empty and does not go beyond its chunk.
LEMMA PieceFits ==
  ASSUME NEW p \in Nat, p < ED2KHASH_CHUNKSIZE, NEW n \in Nat \ {0}
  PROVE  PieceSize(p, n) \in 1 .. n /\ p + PieceSize(p, n) <= ED2KHASH_CHUNKSIZE
<1>1. ED2KHASH_CHUNKSIZE \in Nat
  BY DigestAssumption
<1> QED
  BY <1>1 DEF PieceSize

\* A chunk ends when it is full, no earlier and no later.
LEMMA EndsWhenFull ==
  ASSUME NEW p \in Nat \ {0}, p <= ED2KHASH_CHUNKSIZE
  PROVE  ChunkEnds(p) <=> p = ED2KHASH_CHUNKSIZE
<1>1. ED2KHASH_CHUNKSIZE \in Nat \ {0}
  BY DigestAssumption
<1>2. CASE p = ED2KHASH_CHUNKSIZE
  <2>1. p = ED2KHASH_CHUNKSIZE * 1 + 0
    BY <1>1, <1>2
  <2>2. p % ED2KHASH_CHUNKSIZE = 0
    BY <1>1, <2>1, Unique
  <2> QED
    BY <1>2, <2>2 DEF ChunkEnds
<1>3. CASE p # ED2KHASH_CHUNKSIZE
  <2>1. p < ED2KHASH_CHUNKSIZE /\ p = ED2KHASH_CHUNKSIZE * 0 + p
    BY <1>1, <1>3
  <2>2. p % ED2KHASH_CHUNKSIZE = p
    BY <1>1, <2>1, Unique
  <2> QED
    BY <1>3, <2>2 DEF ChunkEnds
<1> QED
  BY <1>2, <1>3

\* One round of the loop.
LEMMA PieceTaken ==
  ASSUME NEW c, NEW n \in Nat, InEd2k(c, n), NEW x \in Nat \ {0},
         c.bytes_processed + x <= ED2KHASH_CHUNKSIZE
  PROVE  InEd2k(WithPiece(c, Message(n, x)), n + x)
<1> DEFINE start == ED2KHASH_CHUNKSIZE * c.chunks
           p == c.bytes_processed
           piece == Message(n, x)
           cur == md4_update(c.md4cur, piece)
           new == WithPiece(c, piece)
           hash == LittleEndianDigest(Message(start, ED2KHASH_CHUNKSIZE))
           list == HashList(ChunkHashes(c.chunks))
<1>1. /\ c.chunks \in Nat /\ p \in Nat /\ p < ED2KHASH_CHUNKSIZE /\ n = start + p
      /\ DOMAIN c = {"md4cur", "md4final", "bytes_processed", "chunks"}
      /\ InMD4(c.md4cur, Message(start, p)) /\ InMD4(c.md4final, list)
  BY DEF InEd2k
<1>2. /\ ED2KHASH_CHUNKSIZE \in Nat \ {0} /\ ED2KHASH_CHUNKSIZE < WORD
      /\ MD4_DIGESTSIZE \in Nat /\ MD4_DIGESTSIZE < WORD /\ WORD \in Nat
      /\ start \in Nat
  BY <1>1, DigestAssumption
<1>3. piece \in Seq(Octets) /\ Len(piece) = x /\ x < WORD
  <2>1. x < WORD
    BY <1>1, <1>2
  <2> QED
    BY <2>1, MessageIs
<1>4. new = IF ChunkEnds(p + x)
            THEN [md4cur |-> md4_starts,
                  md4final |-> md4_update(c.md4final, DigestBytes(md4_finish(cur))),
                  bytes_processed |-> 0, chunks |-> c.chunks + 1]
            ELSE [c EXCEPT !.md4cur = cur, !.bytes_processed = p + x]
  BY <1>3 DEF WithPiece
<1>5. Message(start, p) \o piece = Message(start, p + x) /\ Message(start, p) \in Seq(Octets)
  <2>3. start \in Nat /\ p \in Nat /\ x \in Nat
    BY <1>1, <1>2
  <2> HIDE DEF start, p
  <2>1. Message(start, p) \o Message(start + p, x) = Message(start, p + x)
    BY <2>3, MessageOn
  <2>2. Message(start, p) \in Seq(Octets)
    BY <2>3, MessageIs
  <2> QED
    BY <1>1, <2>1, <2>2
<1> HIDE DEF piece
<1>6. InMD4(cur, Message(start, p + x))
  <2>1. InMD4(md4_update(c.md4cur, piece), Message(start, p) \o piece)
    BY <1>1, <1>3, <1>5, MD4Continued
  <2> QED
    BY <1>5, <2>1
<1>7. ChunkEnds(p + x) <=> p + x = ED2KHASH_CHUNKSIZE
  <2>1. p + x \in Nat \ {0} /\ p + x <= ED2KHASH_CHUNKSIZE
    BY <1>1
  <2> QED
    BY <2>1, EndsWhenFull
<1> HIDE DEF cur, new
<1>8. CASE ChunkEnds(p + x)
  <2>1. p + x = ED2KHASH_CHUNKSIZE
    BY <1>7, <1>8
  <2>2. md4_finish(cur) = hash
    <3>1. InMD4(cur, Message(start, ED2KHASH_CHUNKSIZE))
      BY <1>6, <2>1
    <3>2. Message(start, ED2KHASH_CHUNKSIZE) \in Seq(Octets)
      BY <1>2, MessageIs
    <3> QED
      BY <3>1, <3>2, MD4Finished
  <2>3. /\ new.md4cur = md4_starts /\ new.bytes_processed = 0 /\ new.chunks = c.chunks + 1
        /\ new.md4final = md4_update(c.md4final, DigestBytes(hash))
        /\ DOMAIN new = {"md4cur", "md4final", "bytes_processed", "chunks"}
    BY <1>4, <1>8, <2>2
  <2>4. InMD4(new.md4final, HashList(ChunkHashes(c.chunks + 1)))
    <3>1. DigestBytes(hash) \in Seq(Octets) /\ Len(DigestBytes(hash)) = MD4_DIGESTSIZE
      BY <1>2, BytesOfDigest
    <3>2. list \in Seq(Octets)
      BY <1>1, ListIsOctets
    <3>3. HashList(ChunkHashes(c.chunks + 1)) = list \o DigestBytes(hash)
      BY <1>1, ChunkHashed
    <3> HIDE DEF list, hash
    <3>4. InMD4(md4_update(c.md4final, DigestBytes(hash)), list \o DigestBytes(hash))
      BY <1>1, <1>2, <3>1, <3>2, MD4Continued
    <3> QED
      BY <2>3, <3>3, <3>4
  <2>5. InMD4(new.md4cur, Message(ED2KHASH_CHUNKSIZE * new.chunks, 0))
    <3>1. Message(ED2KHASH_CHUNKSIZE * new.chunks, 0) = <<>>
      BY DEF Message
    <3> QED
      BY <2>3, <3>1, MD4Started
  <2>6. n + x = ED2KHASH_CHUNKSIZE * (c.chunks + 1) + 0
    <3>1. ED2KHASH_CHUNKSIZE * (c.chunks + 1) = start + ED2KHASH_CHUNKSIZE
      BY <1>1, <1>2
    <3> HIDE DEF start
    <3> QED
      BY <1>1, <1>2, <2>1, <3>1
  <2> QED
    BY <1>1, <1>2, <2>3, <2>4, <2>5, <2>6 DEF InEd2k, new, piece
<1>9. CASE ~ChunkEnds(p + x)
  <2>1. p + x < ED2KHASH_CHUNKSIZE /\ p + x \in Nat
    BY <1>1, <1>2, <1>7, <1>9
  <2>2. /\ new.md4cur = cur /\ new.bytes_processed = p + x /\ new.chunks = c.chunks
        /\ new.md4final = c.md4final
        /\ DOMAIN new = {"md4cur", "md4final", "bytes_processed", "chunks"}
    BY <1>1, <1>4, <1>9
  <2>3. n + x = start + (p + x)
    BY <1>1, <1>2
  <2>4. InMD4(new.md4cur, Message(ED2KHASH_CHUNKSIZE * new.chunks, new.bytes_processed))
    BY <1>6, <2>2
  <2>5. InMD4(new.md4final, HashList(ChunkHashes(new.chunks)))
    BY <1>1, <2>2
  <2> QED
    BY <1>1, <2>1, <2>2, <2>3, <2>4, <2>5 DEF InEd2k, new, piece
<1> QED
  BY <1>8, <1>9

\* The chunks that the hash is defined by: q that are full, and p bytes.
ChunksAre(n, q, p) ==
  /\ DOMAIN Chunks(Message(0, n)) = 1 .. q + 1
  /\ \A j \in 1 .. q :
       Chunks(Message(0, n))[j] = Message(ED2KHASH_CHUNKSIZE * (j - 1), ED2KHASH_CHUNKSIZE)
  /\ Chunks(Message(0, n))[q + 1] = Message(ED2KHASH_CHUNKSIZE * q, p)

LEMMA ChunksOfMessage ==
  ASSUME NEW q \in Nat, NEW p \in Nat, p < ED2KHASH_CHUNKSIZE, NEW n,
         n = ED2KHASH_CHUNKSIZE * q + p
  PROVE  ChunksAre(n, q, p)
<1> DEFINE size == ED2KHASH_CHUNKSIZE
           s == Message(0, n)
           upto(j) == IF j * size < n THEN j * size ELSE n
<1>1. size \in Nat \ {0} /\ size * q \in Nat /\ n \in Nat
  BY DigestAssumption
<1>2. n \div size = q
  BY <1>1, Unique
<1>3. Len(s) = n
  BY <1>1, MessageIs, 0 \in Nat
<1>4. Chunks(s) = [j \in 1 .. q + 1 |-> SubSeq(s, (j - 1) * size + 1, upto(j))]
  BY <1>2, <1>3 DEF Chunks
<1>5. ASSUME NEW j \in 1 .. q
      PROVE  Chunks(s)[j] = Message(size * (j - 1), size)
  <2> DEFINE from == size * (j - 1)
             to == size * j
  <2>1. PICK i \in Nat : j = i + 1 /\ q - j \in Nat
    BY j - 1 \in Nat, j = (j - 1) + 1
  <2>2. PICK d \in Nat : q = j + d
    BY <2>1, q = j + (q - j)
  <2>3. size * q = size * j + size * d /\ size * d \in Nat /\ size * j = size * i + size
    BY <1>1, <2>1, <2>2
  <2>4. from = size * i /\ (j - 1) * size = from /\ j * size = to
    BY <1>1, <2>1
  <2>5. from \in Nat /\ to \in Nat /\ to = from + size /\ to <= n
    BY <1>1, <2>1, <2>3, <2>4
  <2>6. j \in 1 .. q + 1
    OBVIOUS
  <2>7. Chunks(s)[j] = SubSeq(s, (j - 1) * size + 1, upto(j))
    BY <1>4, <2>6
  <2> HIDE DEF from, to
  <2>8. upto(j) = to
    BY <1>1, <2>4, <2>5
  <2> DEFINE first == from + 1
  <2>12. /\ first = from + 1 /\ first \in Nat \ {0} /\ first <= to + 1
         /\ from = 0 + first - 1 /\ size = to - first + 1
    BY <1>1, <2>5
  <2> HIDE DEF first
  <2>11. IsPart(0, n, first, to, from, size)
    BY <1>1, <2>5, <2>12, MessagePart
  <2>9. SubSeq(s, first, to) = Message(from, size)
    BY <2>11 DEF IsPart
  <2> QED
    BY <2>4, <2>7, <2>8, <2>9, <2>12 DEF from
<1>6. Chunks(s)[q + 1] = Message(size * q, p)
  <2> DEFINE from == size * q
             next == (q + 1) * size
  <2>1. from \in Nat /\ next = from + size /\ ((q + 1) - 1) * size = from
    BY <1>1
  <2>2. q + 1 \in 1 .. q + 1
    OBVIOUS
  <2>3. Chunks(s)[q + 1] = SubSeq(s, ((q + 1) - 1) * size + 1, upto(q + 1))
    BY <1>4, <2>2
  <2>6. n = from + p
    OBVIOUS
  <2>7. next = (q + 1) * size
    OBVIOUS
  <2> HIDE DEF from, next
  <2>4. upto(q + 1) = n
    BY <1>1, <2>1, <2>6, <2>7
  <2>9. from <= n /\ n <= n
    BY <1>1, <2>1, <2>6
  <2> DEFINE first == from + 1
  <2>10. /\ first = from + 1 /\ first \in Nat \ {0} /\ first <= n + 1
         /\ from = 0 + first - 1 /\ p = n - first + 1
    BY <1>1, <2>1, <2>6
  <2> HIDE DEF first
  <2>11. IsPart(0, n, first, n, from, p)
    BY <1>1, <2>1, <2>9, <2>10, MessagePart
  <2>5. SubSeq(s, first, n) = Message(from, p)
    BY <2>11 DEF IsPart
  <2> QED
    BY <2>1, <2>3, <2>4, <2>5, <2>10 DEF from
<1>7. DOMAIN Chunks(s) = 1 .. q + 1
  BY <1>4
<1> QED
  BY <1>5, <1>6, <1>7 DEF ChunksAre

\* What the hash is finished with is what it is defined to be.
LEMMA Ed2kFinished ==
  ASSUME NEW c, NEW n \in Nat, InEd2k(c, n)
  PROVE  ed2khash_finish(c) = Ed2kDigest(Message(0, n))
<1> DEFINE size == ED2KHASH_CHUNKSIZE
           q == c.chunks
           p == c.bytes_processed
           start == size * q
           s == Message(0, n)
           last == LittleEndianDigest(Message(start, p))
           list == HashList(ChunkHashes(q))
           hashes == [j \in DOMAIN Chunks(s) |-> LittleEndianDigest(Chunks(s)[j])]
<1>1. /\ q \in Nat /\ p \in Nat /\ p < size /\ n = size * q + p
      /\ InMD4(c.md4cur, Message(start, p)) /\ InMD4(c.md4final, list)
  BY DEF InEd2k
<1>2. size \in Nat /\ start \in Nat /\ MD4_DIGESTSIZE < WORD
  BY <1>1, DigestAssumption
<1>3. /\ DOMAIN Chunks(s) = 1 .. q + 1
      /\ \A j \in 1 .. q : Chunks(s)[j] = Message(size * (j - 1), size)
      /\ Chunks(s)[q + 1] = Message(start, p)
  <2>1. ChunksAre(n, q, p)
    BY <1>1, ChunksOfMessage
  <2> QED
    BY <2>1 DEF ChunksAre
<1>4. Ed2kDigest(s) = IF Len(hashes) = 1 THEN hashes[1] ELSE LittleEndianDigest(HashList(hashes))
  BY DEF Ed2kDigest
<1>5. md4_finish(c.md4cur) = last
  <2>1. Message(start, p) \in Seq(Octets)
    BY <1>1, <1>2, MessageIs
  <2> QED
    BY <1>1, <2>1, MD4Finished
<1>6. last \in ChunkDigests
  BY <1>1, <1>2 DEF ChunkDigests
<1>7. hashes = Append(ChunkHashes(q), last)
  <2>1. /\ ChunkHashes(q) \in Seq(ChunkDigests) /\ Len(ChunkHashes(q)) = q
        /\ \A j \in 1 .. q : ChunkHashes(q)[j] = LittleEndianDigest(Message(size * (j - 1), size))
    BY <1>1, HashesOfChunks
  <2> DEFINE a == ChunkHashes(q)
  <2>2. hashes = [j \in 1 .. q + 1 |-> LittleEndianDigest(Chunks(s)[j])]
    BY <1>3
  <2>3. hashes[q + 1] = last
    BY <1>1, <1>3, <2>2, q + 1 \in 1 .. q + 1
  <2>4. \A j \in 1 .. q : hashes[j] = a[j]
    <3>1. \A j \in 1 .. q : j \in 1 .. q + 1
      BY <1>1
    <3> QED
      BY <1>3, <2>1, <2>2, <3>1
  <2>5. /\ Append(a, last) \in Seq(ChunkDigests) /\ Len(Append(a, last)) = q + 1
        /\ Append(a, last)[q + 1] = last /\ \A j \in 1 .. q : Append(a, last)[j] = a[j]
    <3> HIDE DEF a, last
    <3> QED
      BY <1>6, <2>1, AppendProperties DEF a
  <2>6. q + 1 \in Nat
    BY <1>1
  <2> HIDE DEF a, last, hashes
  <2>7. \A j \in 1 .. q + 1 : hashes[j] = Append(a, last)[j]
    <3> TAKE j \in 1 .. q + 1
    <3>1. j \in 1 .. q \/ j = q + 1
      BY <1>1
    <3> QED
      BY <2>3, <2>4, <2>5, <3>1
  <2>8. hashes \in Seq(ChunkDigests) /\ Len(hashes) = q + 1
    <3>1. \A j \in 1 .. q + 1 : Append(a, last)[j] \in ChunkDigests
      BY <2>5, <2>6, ElementOfSeq
    <3>2. DOMAIN hashes = 1 .. q + 1 /\ hashes = [j \in 1 .. q + 1 |-> hashes[j]]
      BY <2>2
    <3>3. hashes \in [1 .. q + 1 -> ChunkDigests]
      BY <2>7, <3>1, <3>2
    <3> QED
      BY <2>6, <3>3, FunctionIsSequence
  <2> QED
    BY <2>5, <2>7, <2>8, SeqEqual DEF a
<1>8. ChunkHashes(q) \in Seq(ChunkDigests) /\ Len(ChunkHashes(q)) = q
  BY <1>1, HashesOfChunks
<1> HIDE DEF hashes, last, s, list, start, q, p
<1>9. Len(hashes) = q + 1 /\ hashes[q + 1] = last
  BY <1>1, <1>6, <1>7, <1>8, AppendProperties
<1>10. CASE q > 0
  <2>1. ed2khash_finish(c) = md4_finish(md4_update(c.md4final, DigestBytes(last)))
    BY <1>5, <1>10 DEF ed2khash_finish, q
  <2>2. HashList(hashes) = list \o DigestBytes(last)
    BY <1>6, <1>7, <1>8, BytesOfChunkDigest, HashAppended DEF list
  <2>3. DigestBytes(last) \in Seq(Octets) /\ Len(DigestBytes(last)) = MD4_DIGESTSIZE
    BY <1>1, <1>2, BytesOfDigest DEF last
  <2>4. list \in Seq(Octets)
    BY <1>1, ListIsOctets DEF list
  <2>5. InMD4(md4_update(c.md4final, DigestBytes(last)), list \o DigestBytes(last))
    BY <1>1, <1>2, <2>3, <2>4, MD4Continued
  <2>6. list \o DigestBytes(last) \in Seq(Octets)
    BY <2>3, <2>4, ConcatProperties
  <2>7. ed2khash_finish(c) = LittleEndianDigest(list \o DigestBytes(last))
    BY <2>1, <2>5, <2>6, MD4Finished
  <2>8. Len(hashes) # 1
    BY <1>1, <1>9, <1>10
  <2> QED
    BY <1>4, <2>2, <2>7, <2>8 DEF s
<1>11. CASE ~(q > 0)
  <2>1. q = 0
    BY <1>1, <1>11
  <2>2. Len(hashes) = 1 /\ hashes[1] = last
    BY <1>9, <2>1
  <2>3. ed2khash_finish(c) = last
    BY <1>5, <1>11 DEF ed2khash_finish, q
  <2> QED
    BY <1>4, <2>2, <2>3 DEF s
<1> QED
  BY <1>10, <1>11

-----------------------------------------------------------------------------
\* The inductive invariant of the ed2k hash: it has all of the message that is not in
\* hand, and when it is finished the digest is that of the message.
HashingEd2k ==
  /\ length \in Nat
  /\ pc = "ed2k" => digests = None /\ \E n : Waiting(n) /\ InEd2k(ed2k, n)
  /\ pc # "ed2k" =>
       pc = "finished" /\ DOMAIN digests = {"ed2k"} /\ digests.ed2k = Ed2kDigest(message)

LEMMA HashingEd2kInit == Init /\ pc = "ed2k" => HashingEd2k
<1> SUFFICES ASSUME Init, pc = "ed2k" PROVE HashingEd2k
  OBVIOUS
<1>1. length = 0 /\ input = <<>> /\ digests = None /\ ed2k = ed2khash_starts
  BY DEF Init
<1>2. Waiting(0)
  <2>1. Len(<<>>) = 0 /\ Message(0, 0) = <<>>
    BY DEF Message
  <2> QED
    BY <1>1, <2>1 DEF Waiting
<1>3. InEd2k(ed2k, 0)
  <2>1. /\ ed2k.chunks = 0 /\ ed2k.bytes_processed = 0
        /\ ed2k.md4cur = md4_starts /\ ed2k.md4final = md4_starts
        /\ DOMAIN ed2k = {"md4cur", "md4final", "bytes_processed", "chunks"}
    BY <1>1 DEF ed2khash_starts
  <2>2. Message(ED2KHASH_CHUNKSIZE * 0, 0) = <<>>
    BY DEF Message
  <2>3. HashList(ChunkHashes(0)) = <<>>
    <3>1. ChunkHashes(0) \in Seq(ChunkDigests) /\ 0 = Len(ChunkHashes(0))
      BY HashesOfChunks, 0 \in Nat
    <3> DEFINE list == HashList(ChunkHashes(0))
    <3>5. IsList(ChunkHashes(0), 0)
      BY <3>1, BytesOfChunkDigest, ListOfHashes
    <3>2. list \in Seq(Octets) /\ Len(list) = MD4_DIGESTSIZE * 0
      BY <3>5 DEF IsList
    <3> HIDE DEF list
    <3>3. Len(list) = 0
      BY <3>2, DigestAssumption
    <3>4. list = <<>>
      BY <3>2, <3>3, EmptySeq
    <3> QED
      BY <3>4 DEF list
  <2>4. ED2KHASH_CHUNKSIZE \in Nat \ {0} /\ 0 = ED2KHASH_CHUNKSIZE * 0 + 0
    BY DigestAssumption
  <2> QED
    BY <2>1, <2>2, <2>3, <2>4, MD4Started DEF InEd2k
<1> QED
  BY <1>1, <1>2, <1>3 DEF HashingEd2k

LEMMA HashingEd2kNext == HashingEd2k /\ [Next]_vars => HashingEd2k'
<1> SUFFICES ASSUME HashingEd2k, [Next]_vars PROVE HashingEd2k'
  OBVIOUS
<1>1. length \in Nat /\ pc # "multihash"
  BY DEF HashingEd2k
<1>2. CASE Update
  <2>1. PICK n \in Lengths : UpdateEd2k(Message(length, n))
    BY <1>1, <1>2 DEF Update, multihash_update
  <2>2. n \in Nat /\ Len(Message(length, n)) = n
    BY <1>1, <2>1, MultihashAssumption, MessageIs
  <2>3. /\ pc = "ed2k" /\ pc' = pc /\ digests' = digests /\ ed2k' = ed2k
        /\ input = <<>> /\ input' = Message(length, n) /\ length' = length + n
    BY <2>1, <2>2 DEF UpdateEd2k
  <2>4. PICK k : Waiting(k) /\ InEd2k(ed2k, k)
    BY <2>3 DEF HashingEd2k
  <2>5. k = length
    BY <2>3, <2>4 DEF Waiting
  <2>7. \E m : Waiting(m)' /\ InEd2k(ed2k', m)
    <3>1. length' - Len(input') = length
      BY <1>1, <2>2, <2>3
    <3>2. length \in Nat /\ length + Len(input') = length'
      BY <1>1, <2>2, <2>3
    <3>3. input' = Message(length, Len(input')) /\ Len(input') \in Nat
      BY <2>2, <2>3
    <3>4. /\ length \in Nat /\ length + Len(input') = length'
          /\ input' = Message(length, Len(input')) /\ Len(input') \in Nat
      BY <3>2, <3>3
    <3> QED
      BY <2>3, <2>4, <2>5, <3>4 DEF Waiting
  <2> QED
    BY <1>1, <2>2, <2>3, <2>7 DEF HashingEd2k, None
<1>3. CASE TakePiece
  <2> DEFINE l == Len(input)
             x == PieceSize(ed2k.bytes_processed, l)
  <2>1. /\ pc = "ed2k" /\ pc' = pc /\ digests' = digests /\ length' = length /\ input # <<>>
        /\ ed2k' = WithPiece(ed2k, SubSeq(input, 1, x)) /\ input' = SubSeq(input, x + 1, l)
    BY <1>3 DEF TakePiece
  <2>2. PICK n : Waiting(n) /\ InEd2k(ed2k, n)
    BY <2>1 DEF HashingEd2k
  <2>3. n \in Nat /\ n + l = length /\ input = Message(n, l) /\ l \in Nat
    BY <2>2 DEF Waiting
  <2>4. l # 0
    <3>1. Message(n, 0) = <<>>
      BY DEF Message
    <3> QED
      BY <2>1, <2>3, <3>1
  <2>5. x \in 1 .. l /\ ed2k.bytes_processed + x <= ED2KHASH_CHUNKSIZE
    <3>1. ed2k.bytes_processed \in Nat /\ ed2k.bytes_processed < ED2KHASH_CHUNKSIZE
      BY <2>2 DEF InEd2k
    <3> HIDE DEF l
    <3>2. l \in Nat \ {0}
      BY <2>3, <2>4
    <3> QED
      BY <3>1, <3>2, PieceFits
  <2> HIDE DEF x, l
  <2>6. x \in Nat \ {0} /\ x <= l /\ n + x \in Nat
    BY <2>3, <2>5
  <2>7. SubSeq(input, 1, x) = Message(n, x)
    <3>1. 1 \in Nat \ {0} /\ x \in Nat /\ 1 <= x + 1 /\ n = n + 1 - 1 /\ x = x - 1 + 1
      BY <2>3, <2>6
    <3>2. IsPart(n, l, 1, x, n, x)
      BY <2>3, <2>6, <3>1, MessagePart
    <3> QED
      BY <2>3, <3>2 DEF IsPart
  <2>8. SubSeq(input, x + 1, l) = Message(n + x, l - x)
    <3> DEFINE from == x + 1
               b == n + x
               left == l - x
    <3>1. from \in Nat \ {0} /\ from <= l + 1 /\ b = n + from - 1 /\ left = l - from + 1 /\ l <= l
      BY <2>3, <2>6
    <3> HIDE DEF from, b, left
    <3>2. IsPart(n, l, from, l, b, left)
      BY <2>3, <2>6, <3>1, MessagePart
    <3> QED
      BY <2>3, <3>2 DEF IsPart, from, b, left
  <2>9. ed2k' = WithPiece(ed2k, Message(n, x))
    BY <2>1, <2>7
  <2>10. InEd2k(ed2k', n + x)
    <3>1. InEd2k(WithPiece(ed2k, Message(n, x)), n + x)
      BY <2>2, <2>3, <2>5, <2>6, PieceTaken
    <3> QED
      BY <2>9, <3>1
  <2>11. input' = Message(n + x, l - x) /\ Len(input') = l - x /\ l - x \in Nat
    <3>1. l - x \in Nat
      BY <2>3, <2>6
    <3>2. Len(Message(n + x, l - x)) = l - x
      BY <2>6, <3>1, MessageIs
    <3> QED
      BY <2>1, <2>8, <3>1, <3>2
  <2>12. (n + x) + (l - x) = length
    BY <2>3, <2>6
  <2>13. /\ n + x \in Nat /\ (n + x) + Len(input') = length'
         /\ input' = Message(n + x, Len(input')) /\ Len(input') \in Nat
    BY <2>1, <2>6, <2>11, <2>12
  <2> DEFINE m == n + x
  <2>14. /\ m \in Nat /\ m + Len(input') = length' /\ input' = Message(m, Len(input'))
         /\ Len(input') \in Nat /\ InEd2k(ed2k', m)
    BY <2>10, <2>13
  <2> HIDE DEF m
  <2>15. \E k : Waiting(k)' /\ InEd2k(ed2k', k)
    BY <2>14 DEF Waiting
  <2> QED
    BY <1>1, <2>1, <2>2, <2>15 DEF HashingEd2k, None
<1>4. CASE FinishEd2k
  <2>1. /\ pc = "ed2k" /\ input = <<>> /\ pc' = "finished" /\ length' = length
        /\ digests' = [ed2k |-> ed2khash_finish(ed2k)]
    BY <1>4 DEF FinishEd2k
  <2>2. PICK n : Waiting(n) /\ InEd2k(ed2k, n)
    BY <2>1 DEF HashingEd2k
  <2>3. n = length
    BY <2>1, <2>2 DEF Waiting
  <2>4. ed2khash_finish(ed2k) = Ed2kDigest(message)
    BY <1>1, <2>2, <2>3, Ed2kFinished DEF message
  <2>5. message' = message
    BY <2>1 DEF message
  <2>6. DOMAIN digests' = {"ed2k"} /\ digests'.ed2k = ed2khash_finish(ed2k)
    BY <2>1
  <2> QED
    BY <1>1, <2>1, <2>4, <2>5, <2>6 DEF HashingEd2k
<1>5. CASE multihash_finish
  BY <1>1, <1>5 DEF multihash_finish
<1>6. CASE Over \/ UNCHANGED vars
  <2>1. UNCHANGED <<ed2k, input, length, digests, pc>>
    BY <1>6 DEF Over, vars
  <2>2. message' = message
    BY <2>1 DEF message
  <2>3. \A n : Waiting(n) => Waiting(n)'
    BY <2>1 DEF Waiting
  <2> QED
    BY <2>1, <2>2, <2>3 DEF HashingEd2k, None
<1> QED
  BY <1>2, <1>3, <1>4, <1>5, <1>6 DEF Next

\* The ed2k hash is the one that edonkey.c:23 describes, for chunks, blocks, words and
\* digests of every size and updates however they come, longer than a chunk or ending
\* with one.
LEMMA Ed2kCorrect == Spec /\ pc = "ed2k" => []DigestsOfTheMessage
<1>1. HashingEd2k => DigestsOfTheMessage
  <2> SUFFICES ASSUME HashingEd2k, digests # None PROVE DigestsOfTheMessage
    BY DEF DigestsOfTheMessage
  <2>1. DOMAIN digests = {"ed2k"} /\ digests.ed2k = Ed2kDigest(message)
    BY DEF HashingEd2k
  <2>2. "md5" \notin DOMAIN digests
    BY <2>1
  <2> QED
    BY <2>1, <2>2 DEF DigestsOfTheMessage
<1> QED
  BY <1>1, HashingEd2kInit, HashingEd2kNext, PTL DEF Spec

\* The digests of a message are those that the standards define, for blocks, words and
\* lengths of every size, messages of every length, and updates however they come:
\* whether one ends in a block, at its end or where the length goes.  These are CRC, MD5
\* and SHA-1 of struct multihash; and, apart from it, the ed2k hash and its MD4, which the
\* library can compute and multihash.c (58, 64) never updates.
THEOREM DigestsCorrect == Spec => []DigestsOfTheMessage
<1>1. Init => pc = "multihash" \/ pc = "ed2k"
  BY DEF Init
<1>2. Spec => Init
  BY DEF Spec
<1> QED
  BY <1>1, <1>2, MultihashCorrect, Ed2kCorrect, PTL
=============================================================================
