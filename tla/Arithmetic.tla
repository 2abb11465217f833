----------------------------- MODULE Arithmetic -----------------------------
(***************************************************************************)
(* Facts about numbers that the provers do not find alone.                 *)
(***************************************************************************)
EXTENDS Integers, TLAPS, WellFoundedInduction

\* A set of natural numbers has a least element.
LEMMA LeastNat ==
  ASSUME NEW T, T \subseteq Nat, T # {}
  PROVE  \E x \in T : \A y \in T : x <= y
<1>1. PICK x \in T : \A y \in T : <<y, x>> \notin OpToRel(<, Nat)
  BY WFMin, NatLessThanWellFounded
<1>2. \A y \in T : ~(y < x)
  BY <1>1 DEF OpToRel
<1> QED
  BY <1>2

-----------------------------------------------------------------------------
\* Quotient and remainder are unique.

\* A multiple of b by a positive number is no less than b.
LEMMA Multiple ==
  ASSUME NEW b \in Nat, NEW d \in Nat, d >= 1
  PROVE  b * d >= b
<1>1. PICK e \in Nat : d = e + 1
  BY d - 1 \in Nat, d = (d - 1) + 1
<1>2. b * d = b * e + b /\ b * e >= 0
  BY <1>1
<1> QED
  BY <1>2

\* Two representations of a number agree in their quotients.
LEMMA NotLess ==
  ASSUME NEW b \in Nat, NEW p \in Nat, NEW q \in Nat, NEW r \in Nat, NEW s \in Nat,
         r < b, b * p + r = b * q + s
  PROVE  ~(p < q)
<1> SUFFICES ASSUME p < q PROVE FALSE
  OBVIOUS
<1>1. PICK d \in Nat : q = p + d /\ d >= 1
  BY q - p \in Nat, q = p + (q - p)
<1>2. b * q = b * p + b * d
  BY <1>1
<1>3. b * d >= b
  BY <1>1, Multiple
<1>4. b * p \in Nat /\ b * d \in Nat
  BY <1>1
<1> QED
  BY <1>2, <1>3, <1>4

LEMMA DivMod ==
  ASSUME NEW b \in Nat \ {0}, NEW x \in Nat
  PROVE  /\ x \div b \in Nat /\ x % b \in Nat /\ x % b < b
         /\ x = b * (x \div b) + (x % b)
  OBVIOUS

\* x = b * q + r with r < b determines q and r.
LEMMA Unique ==
  ASSUME NEW b \in Nat \ {0}, NEW x \in Nat, NEW q \in Nat, NEW r \in Nat,
         r < b, x = b * q + r
  PROVE  x \div b = q /\ x % b = r
<1> DEFINE p == x \div b
           m == x % b
<1>1. p \in Nat /\ m \in Nat /\ m < b /\ x = b * p + m
  BY DivMod
<1> HIDE DEF p, m
<1>2. ~(p < q) /\ ~(q < p)
  BY <1>1, NotLess
<1>3. p = q
  BY <1>1, <1>2
<1>4. m = r
  BY <1>1, <1>3, b * q \in Nat
<1> QED
  BY <1>3, <1>4 DEF p, m

LEMMA ModOfSum ==
  ASSUME NEW w \in Nat \ {0}, NEW x \in Nat, NEW y \in Nat
  PROVE  ((x % w) + y) % w = (x + y) % w
<1> DEFINE z == (x % w) + y
<1>1. x \div w \in Nat /\ x % w \in Nat /\ x = w * (x \div w) + (x % w)
  BY DivMod
<1>2. z \in Nat
  BY <1>1
<1>3. /\ z \div w \in Nat /\ z % w \in Nat /\ z % w < w
      /\ z = w * (z \div w) + (z % w)
  BY <1>2, DivMod
<1> DEFINE p == x \div w
           q == z \div w
           r == z % w
<1>4. x + y = w * p + z
  BY <1>1, <1>2
<1>5. z = w * q + r
  BY <1>3
<1>6. p \in Nat /\ q \in Nat /\ r \in Nat /\ r < w
  BY <1>1, <1>3
<1> HIDE DEF p, q, r, z
<1>7. w * (p + q) = w * p + w * q
  BY <1>6
<1>8. x + y = w * (p + q) + r
  BY <1>4, <1>5, <1>6, <1>7, <1>2, w * p \in Nat, w * q \in Nat
<1>9. (x + y) % w = r
  BY <1>6, <1>8, Unique, p + q \in Nat, x + y \in Nat
<1> QED
  BY <1>9 DEF r, z
=============================================================================
