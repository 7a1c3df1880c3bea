--------------------------- MODULE Dsk2NibProofs ---------------------------
(***************************************************************************)
(* The tracks dsk2nib.c writes can be read back, sector by sector: for     *)
(* every image.                                                            *)
(***************************************************************************)
EXTENDS Dsk2Nib, FiniteSetTheorems, SequenceTheorems, WellFoundedInduction, TLAPS

-----------------------------------------------------------------------------
(* Bits.  Powers of two are known only by their values.                    *)

LEMMA BitIs ==
  ASSUME NEW b \in Int
  PROVE  /\ Bit(b, 0) = b % 2 /\ Bit(b, 1) = (b \div 2) % 2
         /\ Bit(b, 2) = (b \div 4) % 2 /\ Bit(b, 3) = (b \div 8) % 2
         /\ Bit(b, 4) = (b \div 16) % 2 /\ Bit(b, 5) = (b \div 32) % 2
         /\ Bit(b, 6) = (b \div 64) % 2 /\ Bit(b, 7) = (b \div 128) % 2
<1>1. /\ 2 ^ 0 = 1 /\ 2 ^ 1 = 2 /\ 2 ^ 2 = 4 /\ 2 ^ 3 = 8
      /\ 2 ^ 4 = 16 /\ 2 ^ 5 = 32 /\ 2 ^ 6 = 64 /\ 2 ^ 7 = 128
  OBVIOUS
<1>2. b \div 1 = b
  OBVIOUS
<1> QED
  BY <1>1, <1>2 DEF Bit

LEMMA EightBits == \A k \in 0 .. 7 : k \in {0, 1, 2, 3, 4, 5, 6, 7}
OBVIOUS

LEMMA BitType ==
  ASSUME NEW b \in Int, NEW k \in 0 .. 7
  PROVE  Bit(b, k) \in {0, 1}
<1> DEFINE B(n) == Bit(b, n) \in {0, 1}
<1>0. /\ \A x \in Int : x % 2 \in {0, 1}
      /\ b \div 2 \in Int /\ b \div 4 \in Int /\ b \div 8 \in Int /\ b \div 16 \in Int
      /\ b \div 32 \in Int /\ b \div 64 \in Int /\ b \div 128 \in Int
  OBVIOUS
<1>1. B(0) /\ B(1) /\ B(2) /\ B(3)
  <2>1. Bit(b, 0) = b % 2 /\ Bit(b, 1) = (b \div 2) % 2 /\ Bit(b, 2) = (b \div 4) % 2 /\ Bit(b, 3) = (b \div 8) % 2
    BY BitIs, Zenon
  <2> QED
    BY <1>0, <2>1, Zenon
<1>2. B(4) /\ B(5) /\ B(6) /\ B(7)
  <2>1. Bit(b, 4) = (b \div 16) % 2 /\ Bit(b, 5) = (b \div 32) % 2 /\ Bit(b, 6) = (b \div 64) % 2 /\ Bit(b, 7) = (b \div 128) % 2
    BY BitIs, Zenon
  <2> QED
    BY <1>0, <2>1, Zenon
<1> HIDE DEF B
<1>3. B(k)
  BY <1>1, <1>2, EightBits
<1> QED
  BY <1>3 DEF B

LEMMA BitsOfSum ==
  ASSUME NEW d \in [0 .. 7 -> {0, 1}]
  PROVE  FromBits(d) \in 0 .. 255 /\ \A k \in 0 .. 7 : Bit(FromBits(d), k) = d[k]
<1> DEFINE n == FromBits(d)
<1>1. /\ d[0] \in {0, 1} /\ d[1] \in {0, 1} /\ d[2] \in {0, 1} /\ d[3] \in {0, 1}
      /\ d[4] \in {0, 1} /\ d[5] \in {0, 1} /\ d[6] \in {0, 1} /\ d[7] \in {0, 1}
  OBVIOUS
<1>2. n = d[0] + 2 * d[1] + 4 * d[2] + 8 * d[3]
          + 16 * d[4] + 32 * d[5] + 64 * d[6] + 128 * d[7]
  BY DEF FromBits
<1> HIDE DEF n
<1>3. n \in 0 .. 255
  BY <1>1, <1>2
<1>4. n \in Int
  BY <1>1, <1>3
<1> DEFINE m7 == d[7]
           m6 == d[6] + 2 * m7
           m5 == d[5] + 2 * m6
           m4 == d[4] + 2 * m5
           m3 == d[3] + 2 * m4
           m2 == d[2] + 2 * m3
           m1 == d[1] + 2 * m2
           r2 == d[0] + 2 * d[1]
           r3 == r2 + 4 * d[2]
           r4 == r3 + 8 * d[3]
           r5 == r4 + 16 * d[4]
           r6 == r5 + 32 * d[5]
           r7 == r6 + 64 * d[6]
<1>5. /\ m1 \in Nat /\ m2 \in Nat /\ m3 \in Nat /\ m4 \in Nat
      /\ m5 \in Nat /\ m6 \in Nat /\ m7 \in Nat
  BY <1>1
<1>6. /\ r2 \in 0 .. 3 /\ r3 \in 0 .. 7 /\ r4 \in 0 .. 15
      /\ r5 \in 0 .. 31 /\ r6 \in 0 .. 63 /\ r7 \in 0 .. 127
  BY <1>1
<1>7. /\ n = d[0] + 2 * m1 /\ n = r2 + 4 * m2 /\ n = r3 + 8 * m3 /\ n = r4 + 16 * m4
      /\ n = r5 + 32 * m5 /\ n = r6 + 64 * m6 /\ n = r7 + 128 * m7
  BY <1>1, <1>2
<1>8. /\ n % 2 = d[0] /\ m1 % 2 = d[1] /\ m2 % 2 = d[2] /\ m3 % 2 = d[3]
      /\ m4 % 2 = d[4] /\ m5 % 2 = d[5] /\ m6 % 2 = d[6] /\ m7 % 2 = d[7]
  <2>1. \A x \in {0, 1}, m \in Nat : (x + 2 * m) % 2 = x
    OBVIOUS
  <2> HIDE DEF m1
  <2>2. n % 2 = d[0]
    <3>1. n = d[0] + 2 * m1 /\ d[0] \in {0, 1} /\ m1 \in Nat
      BY <1>1, <1>5, <1>7
    <3> QED
      BY <2>1, <3>1
  <2> USE DEF m1
  <2>3. m7 % 2 = d[7]
    BY <1>1
  <2>4. /\ m1 % 2 = d[1] /\ m2 % 2 = d[2] /\ m3 % 2 = d[3]
        /\ m4 % 2 = d[4] /\ m5 % 2 = d[5] /\ m6 % 2 = d[6]
    BY <1>1, <1>5, <2>1, ZenonT(40)
  <2> QED
    BY <2>2, <2>3, <2>4
<1> HIDE DEF m1, m2, m3, m4, m5, m6, m7, r2, r3, r4, r5, r6, r7
<1>9. /\ n \div 2 = m1 /\ n \div 4 = m2 /\ n \div 8 = m3 /\ n \div 16 = m4
      /\ n \div 32 = m5 /\ n \div 64 = m6 /\ n \div 128 = m7
  <2>1. n \div 2 = m1
    BY <1>1, <1>4, <1>5, <1>7
  <2>2. n \div 4 = m2
    <3>1. \A r \in 0 .. 3, m \in Nat : (r + 4 * m) \div 4 = m
      OBVIOUS
    <3>2. n = r2 + 4 * m2 /\ r2 \in 0 .. 3 /\ m2 \in Nat
      BY <1>5, <1>6, <1>7
    <3> QED
      BY <3>1, <3>2
  <2>3. n \div 8 = m3
    <3>1. \A r \in 0 .. 7, m \in Nat : (r + 8 * m) \div 8 = m
      OBVIOUS
    <3>2. n = r3 + 8 * m3 /\ r3 \in 0 .. 7 /\ m3 \in Nat
      BY <1>5, <1>6, <1>7
    <3> QED
      BY <3>1, <3>2
  <2>4. n \div 16 = m4
    <3>1. \A r \in 0 .. 15, m \in Nat : (r + 16 * m) \div 16 = m
      OBVIOUS
    <3>2. n = r4 + 16 * m4 /\ r4 \in 0 .. 15 /\ m4 \in Nat
      BY <1>5, <1>6, <1>7
    <3> QED
      BY <3>1, <3>2
  <2>5. n \div 32 = m5
    <3>1. \A r \in 0 .. 31, m \in Nat : (r + 32 * m) \div 32 = m
      OBVIOUS
    <3>2. n = r5 + 32 * m5 /\ r5 \in 0 .. 31 /\ m5 \in Nat
      BY <1>5, <1>6, <1>7
    <3> QED
      BY <3>1, <3>2
  <2>6. n \div 64 = m6
    <3>1. \A r \in 0 .. 63, m \in Nat : (r + 64 * m) \div 64 = m
      OBVIOUS
    <3>2. n = r6 + 64 * m6 /\ r6 \in 0 .. 63 /\ m6 \in Nat
      BY <1>5, <1>6, <1>7
    <3> QED
      BY <3>1, <3>2
  <2>7. n \div 128 = m7
    <3>1. \A r \in 0 .. 127, m \in Nat : (r + 128 * m) \div 128 = m
      OBVIOUS
    <3>2. n = r7 + 128 * m7 /\ r7 \in 0 .. 127 /\ m7 \in Nat
      BY <1>5, <1>6, <1>7
    <3> QED
      BY <3>1, <3>2
  <2> QED
    BY <2>1, <2>2, <2>3, <2>4, <2>5, <2>6, <2>7
<1> DEFINE B(k) == Bit(n, k) = d[k]
<1>10. B(0) /\ B(1) /\ B(2) /\ B(3) /\ B(4) /\ B(5) /\ B(6) /\ B(7)
  BY <1>4, <1>8, <1>9, BitIs
<1> HIDE DEF B
<1>11. \A k \in 0 .. 7 : B(k)
  BY <1>10, EightBits
<1> QED
  BY <1>3, <1>11 DEF B, n

LEMMA SumOfBits ==
  ASSUME NEW b \in 0 .. 255
  PROVE  b = Bit(b, 0) + 2 * Bit(b, 1) + 4 * Bit(b, 2) + 8 * Bit(b, 3)
             + 16 * Bit(b, 4) + 32 * Bit(b, 5) + 64 * Bit(b, 6) + 128 * Bit(b, 7)
<1> DEFINE d == [k \in 0 .. 7 |-> Bit(b, k)]
           c(k) == b \div k
<1>1. /\ c(2) \in Nat /\ c(4) \in Nat /\ c(8) \in Nat /\ c(16) \in Nat
      /\ c(32) \in Nat /\ c(64) \in Nat /\ c(128) \in {0, 1}
  OBVIOUS
<1>2. b = (b % 2) + 2 * c(2)
  OBVIOUS
<1>3. \A x \in Nat : x = (x % 2) + 2 * (x \div 2)
  OBVIOUS
<1>4. /\ c(4) = c(2) \div 2 /\ c(8) = c(4) \div 2 /\ c(16) = c(8) \div 2
  OBVIOUS
<1>5. /\ c(32) = c(16) \div 2 /\ c(64) = c(32) \div 2 /\ c(128) = c(64) \div 2
  OBVIOUS
<1>6. /\ c(2) = (c(2) % 2) + 2 * c(4) /\ c(4) = (c(4) % 2) + 2 * c(8)
      /\ c(8) = (c(8) % 2) + 2 * c(16) /\ c(16) = (c(16) % 2) + 2 * c(32)
      /\ c(32) = (c(32) % 2) + 2 * c(64) /\ c(64) = (c(64) % 2) + 2 * c(128)
  <2> HIDE DEF c
  <2> QED
    BY <1>1, <1>3, <1>4, <1>5, ZenonT(40)
<1>7. c(128) % 2 = c(128)
  <2> HIDE DEF c
  <2> QED
    BY <1>1
<1>8. /\ Bit(b, 0) = b % 2 /\ Bit(b, 1) = c(2) % 2 /\ Bit(b, 2) = c(4) % 2
      /\ Bit(b, 3) = c(8) % 2 /\ Bit(b, 4) = c(16) % 2 /\ Bit(b, 5) = c(32) % 2
      /\ Bit(b, 6) = c(64) % 2 /\ Bit(b, 7) = c(128) % 2
  <2>1. b \in Int
    OBVIOUS
  <2> QED
    BY <2>1, BitIs, ZenonT(40)
<1> HIDE DEF c
<1>9. /\ Bit(b, 0) \in Int /\ Bit(b, 1) \in Int /\ Bit(b, 2) \in Int /\ Bit(b, 3) \in Int
      /\ Bit(b, 4) \in Int /\ Bit(b, 5) \in Int /\ Bit(b, 6) \in Int /\ Bit(b, 7) \in Int
  BY BitType
<1>10. /\ b = Bit(b, 0) + 2 * c(2) /\ c(2) = Bit(b, 1) + 2 * c(4) /\ c(4) = Bit(b, 2) + 2 * c(8)
       /\ c(8) = Bit(b, 3) + 2 * c(16) /\ c(16) = Bit(b, 4) + 2 * c(32)
       /\ c(32) = Bit(b, 5) + 2 * c(64) /\ c(64) = Bit(b, 6) + 2 * c(128) /\ c(128) = Bit(b, 7)
  BY <1>2, <1>6, <1>7, <1>8, Zenon
<1>11. /\ c(64) = Bit(b, 6) + 2 * Bit(b, 7)
       /\ c(32) = Bit(b, 5) + 2 * Bit(b, 6) + 4 * Bit(b, 7)
       /\ c(16) = Bit(b, 4) + 2 * Bit(b, 5) + 4 * Bit(b, 6) + 8 * Bit(b, 7)
       /\ c(8) = Bit(b, 3) + 2 * Bit(b, 4) + 4 * Bit(b, 5) + 8 * Bit(b, 6) + 16 * Bit(b, 7)
  BY <1>9, <1>10
<1> QED
  BY <1>9, <1>10, <1>11

LEMMA SameBits ==
  ASSUME NEW a \in 0 .. 255, NEW b \in 0 .. 255, \A k \in 0 .. 7 : Bit(a, k) = Bit(b, k)
  PROVE  a = b
<1>1. /\ Bit(a, 0) = Bit(b, 0) /\ Bit(a, 1) = Bit(b, 1) /\ Bit(a, 2) = Bit(b, 2) /\ Bit(a, 3) = Bit(b, 3)
      /\ Bit(a, 4) = Bit(b, 4) /\ Bit(a, 5) = Bit(b, 5) /\ Bit(a, 6) = Bit(b, 6) /\ Bit(a, 7) = Bit(b, 7)
  OBVIOUS
<1> QED
  BY <1>1, SumOfBits

LEMMA BitByBit ==
  ASSUME NEW a \in Int, NEW b \in Int
  PROVE  /\ Or(a, b) \in 0 .. 255 /\ And(a, b) \in 0 .. 255 /\ Xor(a, b) \in 0 .. 255
         /\ \A k \in 0 .. 7 :
              /\ Bit(Or(a, b), k) = IF Bit(a, k) = 1 \/ Bit(b, k) = 1 THEN 1 ELSE 0
              /\ Bit(And(a, b), k) = IF Bit(a, k) = 1 /\ Bit(b, k) = 1 THEN 1 ELSE 0
              /\ Bit(Xor(a, b), k) = IF Bit(a, k) # Bit(b, k) THEN 1 ELSE 0
<1> DEFINE o == [k \in 0 .. 7 |-> IF Bit(a, k) = 1 \/ Bit(b, k) = 1 THEN 1 ELSE 0]
           n == [k \in 0 .. 7 |-> IF Bit(a, k) = 1 /\ Bit(b, k) = 1 THEN 1 ELSE 0]
           x == [k \in 0 .. 7 |-> IF Bit(a, k) # Bit(b, k) THEN 1 ELSE 0]
<1>1. o \in [0 .. 7 -> {0, 1}] /\ n \in [0 .. 7 -> {0, 1}] /\ x \in [0 .. 7 -> {0, 1}]
  OBVIOUS
<1>2. /\ FromBits(o) \in 0 .. 255 /\ \A k \in 0 .. 7 : Bit(FromBits(o), k) = o[k]
      /\ FromBits(n) \in 0 .. 255 /\ \A k \in 0 .. 7 : Bit(FromBits(n), k) = n[k]
      /\ FromBits(x) \in 0 .. 255 /\ \A k \in 0 .. 7 : Bit(FromBits(x), k) = x[k]
  BY <1>1, BitsOfSum
<1>3. Or(a, b) = FromBits(o) /\ And(a, b) = FromBits(n) /\ Xor(a, b) = FromBits(x)
  BY DEF Or, And, Xor
<1> QED
  BY <1>2, <1>3, ZenonT(40)

-----------------------------------------------------------------------------
(* A set of numbers has a least one.                                       *)
LEMMA Least ==
  ASSUME NEW T \in SUBSET Nat, T # {}
  PROVE  \E m \in T : \A k \in T : m <= k
<1> DEFINE R == OpToRel(<, Nat)
<1>1. IsWellFoundedOn(R, Nat)
  BY NatLessThanWellFounded
<1> HIDE DEF R
<1>2. PICK m \in T : \A k \in T : ~(<<k, m>> \in R)
  BY <1>1, WFMin
<1>3. \A k \in T : ~(k < m)
  <2> SUFFICES ASSUME NEW k \in T, k < m PROVE FALSE
    OBVIOUS
  <2>1. <<k, m>> \in R
    BY DEF R, OpToRel
  <2> QED
    BY <1>2, <2>1
<1> QED
  BY <1>3

(* Induction, for a set of numbers in place of a predicate.                *)
LEMMA SetInduction ==
  ASSUME NEW S \in SUBSET Nat, 0 \in S, \A n \in S : n + 1 \in S
  PROVE  S = Nat
<1> SUFFICES ASSUME Nat \ S # {} PROVE FALSE
  OBVIOUS
<1>1. PICK m \in Nat \ S : \A k \in Nat \ S : m <= k
  BY Least
<1>2. m # 0 /\ m - 1 \in Nat
  BY <1>1
<1>3. m - 1 \in S
  BY <1>1, <1>2
<1>4. (m - 1) + 1 \in S
  BY <1>3
<1> QED
  BY <1>1, <1>4


LEMMA XorType ==
  ASSUME NEW a \in Int, NEW b \in Int
  PROVE  Xor(a, b) \in 0 .. 255 /\ Xor(a, b) \in Int
<1>1. Xor(a, b) \in 0 .. 255
  BY BitByBit
<1> QED
  BY <1>1

(* Sums without carry.                                                     *)
XorSums(a, b, c) ==
  /\ Xor(a, a) = 0 /\ Xor(0, a) = a
  /\ Xor(Xor(a, b), Xor(b, c)) = Xor(a, c)

LEMMA XorFacts ==
  ASSUME NEW a \in 0 .. 255, NEW b \in 0 .. 255, NEW c \in 0 .. 255
  PROVE  XorSums(a, b, c)
<1>1. a \in Int /\ b \in Int /\ c \in Int /\ 0 \in Int /\ 0 \in 0 .. 255
  OBVIOUS
<1> DEFINE U(x, y) == IF x # y THEN 1 ELSE 0
<1>2. \A x, y \in Int : /\ Xor(x, y) \in 0 .. 255 /\ Xor(x, y) \in Int
                        /\ \A k \in 0 .. 7 : Bit(Xor(x, y), k) = U(Bit(x, k), Bit(y, k))
  <2> SUFFICES ASSUME NEW x \in Int, NEW y \in Int
               PROVE  /\ Xor(x, y) \in 0 .. 255 /\ Xor(x, y) \in Int
                      /\ \A k \in 0 .. 7 : Bit(Xor(x, y), k) = U(Bit(x, k), Bit(y, k))
    OBVIOUS
  <2>1. Xor(x, y) \in 0 .. 255 /\ \A k \in 0 .. 7 : Bit(Xor(x, y), k) = U(Bit(x, k), Bit(y, k))
    BY BitByBit
  <2> QED
    BY <2>1
<1>3. \A x, y \in 0 .. 255 : (\A k \in 0 .. 7 : Bit(x, k) = Bit(y, k)) => x = y
  BY SameBits
<1>4. \A k \in 0 .. 7 : Bit(0, k) = 0
  <2> DEFINE Z(k) == Bit(0, k) = 0
  <2>1. Z(0) /\ Z(1) /\ Z(2) /\ Z(3) /\ Z(4) /\ Z(5) /\ Z(6) /\ Z(7)
    <3>1. /\ 0 % 2 = 0 /\ 0 \div 2 = 0 /\ 0 \div 4 = 0 /\ 0 \div 8 = 0 /\ 0 \div 16 = 0
          /\ 0 \div 32 = 0 /\ 0 \div 64 = 0 /\ 0 \div 128 = 0
      OBVIOUS
    <3> QED
      BY <1>1, <3>1, BitIs
  <2> HIDE DEF Z
  <2>2. \A k \in 0 .. 7 : Z(k)
    BY <2>1, EightBits
  <2> QED
    BY <2>2 DEF Z
<1>5. \A k \in 0 .. 7 : Bit(a, k) \in {0, 1} /\ Bit(b, k) \in {0, 1} /\ Bit(c, k) \in {0, 1}
  BY <1>1, BitType
<1>6. \A x, y, z \in {0, 1} : U(x, x) = 0 /\ U(0, x) = x /\ U(U(x, y), U(y, z)) = U(x, z)
  OBVIOUS
<1> HIDE DEF U
<1>7. \A k \in 0 .. 7 : Bit(Xor(a, a), k) = Bit(0, k)
  <2>1. \A k \in 0 .. 7 : Bit(Xor(a, a), k) = U(Bit(a, k), Bit(a, k))
    BY <1>1, <1>2, Zenon
  <2>2. \A k \in 0 .. 7 : U(Bit(a, k), Bit(a, k)) = 0
    BY <1>5, <1>6, Zenon
  <2> QED
    BY <1>4, <2>1, <2>2, Zenon
<1>8. \A k \in 0 .. 7 : Bit(Xor(0, a), k) = Bit(a, k)
  <2>1. \A k \in 0 .. 7 : Bit(Xor(0, a), k) = U(Bit(0, k), Bit(a, k))
    BY <1>1, <1>2, Zenon
  <2>2. \A k \in 0 .. 7 : U(0, Bit(a, k)) = Bit(a, k)
    BY <1>5, <1>6, Zenon
  <2> QED
    BY <1>4, <2>1, <2>2, Zenon
<1>9. \A k \in 0 .. 7 : Bit(Xor(Xor(a, b), Xor(b, c)), k) = Bit(Xor(a, c), k)
  <2> SUFFICES ASSUME NEW k \in 0 .. 7
               PROVE  Bit(Xor(Xor(a, b), Xor(b, c)), k) = Bit(Xor(a, c), k)
    OBVIOUS
  <2>1. /\ Bit(Xor(a, b), k) = U(Bit(a, k), Bit(b, k)) /\ Bit(Xor(b, c), k) = U(Bit(b, k), Bit(c, k))
        /\ Bit(Xor(a, c), k) = U(Bit(a, k), Bit(c, k)) /\ Xor(a, b) \in Int /\ Xor(b, c) \in Int
    <3>1. Bit(Xor(a, b), k) = U(Bit(a, k), Bit(b, k))
      BY <1>1, <1>2, ZenonT(40)
    <3>2. Bit(Xor(b, c), k) = U(Bit(b, k), Bit(c, k))
      BY <1>1, <1>2, ZenonT(40)
    <3>3. Bit(Xor(a, c), k) = U(Bit(a, k), Bit(c, k))
      BY <1>1, <1>2, ZenonT(40)
    <3>4. Xor(a, b) \in Int /\ Xor(b, c) \in Int
      BY <1>1, <1>2, Zenon
    <3> QED
      BY <3>1, <3>2, <3>3, <3>4
  <2>2. Bit(Xor(Xor(a, b), Xor(b, c)), k) = U(Bit(Xor(a, b), k), Bit(Xor(b, c), k))
    BY <1>2, <2>1
  <2> QED
    BY <1>5, <1>6, <2>1, <2>2
<1> QED
  <2>1. Xor(a, a) = 0
    BY <1>1, <1>2, <1>3, <1>7, ZenonT(40)
  <2>2. Xor(0, a) = a
    BY <1>1, <1>2, <1>3, <1>8, ZenonT(40)
  <2>3. Xor(Xor(a, b), Xor(b, c)) = Xor(a, c)
    <3>1. Xor(Xor(a, b), Xor(b, c)) \in 0 .. 255 /\ Xor(a, c) \in 0 .. 255
      BY <1>1, <1>2
    <3> QED
      BY <1>3, <1>9, <3>1
  <2> QED
    BY <2>1, <2>2, <2>3 DEF XorSums

LEMMA SixBits ==
  ASSUME NEW x \in 0 .. 255
  PROVE  x \in 0 .. 63 <=> Bit(x, 6) = 0 /\ Bit(x, 7) = 0
<1>1. x = Bit(x, 0) + 2 * Bit(x, 1) + 4 * Bit(x, 2) + 8 * Bit(x, 3)
          + 16 * Bit(x, 4) + 32 * Bit(x, 5) + 64 * Bit(x, 6) + 128 * Bit(x, 7)
  BY SumOfBits
<1>2. /\ Bit(x, 0) \in {0, 1} /\ Bit(x, 1) \in {0, 1} /\ Bit(x, 2) \in {0, 1} /\ Bit(x, 3) \in {0, 1}
      /\ Bit(x, 4) \in {0, 1} /\ Bit(x, 5) \in {0, 1} /\ Bit(x, 6) \in {0, 1} /\ Bit(x, 7) \in {0, 1}
  BY BitType
<1> QED
  BY <1>1, <1>2

LEMMA XorOfSix ==
  ASSUME NEW a \in 0 .. 63, NEW b \in 0 .. 63
  PROVE  Xor(a, b) \in 0 .. 63
<1>1. a \in Int /\ b \in Int /\ a \in 0 .. 255 /\ b \in 0 .. 255 /\ 6 \in 0 .. 7 /\ 7 \in 0 .. 7
  OBVIOUS
<1>2. Xor(a, b) \in 0 .. 255 /\ Bit(Xor(a, b), 6) = 0 /\ Bit(Xor(a, b), 7) = 0
  <2>1. /\ Xor(a, b) \in 0 .. 255
        /\ \A k \in 0 .. 7 : Bit(Xor(a, b), k) = IF Bit(a, k) # Bit(b, k) THEN 1 ELSE 0
    BY <1>1, BitByBit, ZenonT(40)
  <2>2. Bit(a, 6) = 0 /\ Bit(a, 7) = 0 /\ Bit(b, 6) = 0 /\ Bit(b, 7) = 0
    BY <1>1, SixBits
  <2> QED
    BY <1>1, <2>1, <2>2
<1> QED
  BY <1>2, SixBits

(* Two bits put below others.                                              *)
LEMMA OrBelow ==
  ASSUME NEW x \in Nat, NEW y \in 0 .. 3
  PROVE  Or((x * 4) % 256, y) = ((x * 4) % 256) + y
<1> DEFINE u == (x * 4) % 256
<1>1. u \in 0 .. 252 /\ u % 4 = 0
  <2> DEFINE q == (x * 4) \div 256
  <2>1. q \in Nat /\ u \in 0 .. 255 /\ x * 4 = 256 * q + u
    OBVIOUS
  <2> HIDE DEF q, u
  <2>2. u = 4 * (x - 64 * q)
    BY <2>1
  <2> QED
    BY <2>1, <2>2
<1> HIDE DEF u
<1>2. u \in 0 .. 255 /\ y \in 0 .. 255 /\ u \in Int /\ y \in Int
  BY <1>1
<1>3. Bit(u, 0) = 0 /\ Bit(u, 1) = 0
  <2>1. u % 2 = 0 /\ (u \div 2) % 2 = 0
    BY <1>1
  <2> QED
    BY <1>2, <2>1, BitIs
<1>4. /\ Bit(y, 2) = 0 /\ Bit(y, 3) = 0 /\ Bit(y, 4) = 0 /\ Bit(y, 5) = 0
      /\ Bit(y, 6) = 0 /\ Bit(y, 7) = 0
  <2>1. /\ y \div 4 = 0 /\ y \div 8 = 0 /\ y \div 16 = 0 /\ y \div 32 = 0
        /\ y \div 64 = 0 /\ y \div 128 = 0 /\ 0 % 2 = 0
    OBVIOUS
  <2>2. /\ Bit(y, 2) = (y \div 4) % 2 /\ Bit(y, 3) = (y \div 8) % 2 /\ Bit(y, 4) = (y \div 16) % 2
        /\ Bit(y, 5) = (y \div 32) % 2 /\ Bit(y, 6) = (y \div 64) % 2 /\ Bit(y, 7) = (y \div 128) % 2
    BY <1>2, BitIs, ZenonT(40)
  <2> QED
    BY <2>1, <2>2, Zenon
<1> DEFINE o == Or(u, y)
<1>5. /\ o \in 0 .. 255
      /\ \A k \in 0 .. 7 : Bit(o, k) = IF Bit(u, k) = 1 \/ Bit(y, k) = 1 THEN 1 ELSE 0
  BY <1>2, BitByBit, ZenonT(40)
<1>6. \A k \in 0 .. 7 : Bit(u, k) \in {0, 1} /\ Bit(y, k) \in {0, 1}
  BY <1>2, BitType
<1> HIDE DEF o
<1>7. \A k \in {0, 1} : Bit(o, k) = Bit(y, k)
  BY <1>3, <1>5, <1>6
<1>8. \A k \in {2, 3, 4, 5, 6, 7} : Bit(o, k) = Bit(u, k)
  BY <1>4, <1>5, <1>6
<1>9. /\ o = Bit(y, 0) + 2 * Bit(y, 1) + 4 * Bit(u, 2) + 8 * Bit(u, 3)
             + 16 * Bit(u, 4) + 32 * Bit(u, 5) + 64 * Bit(u, 6) + 128 * Bit(u, 7)
      /\ y = Bit(y, 0) + 2 * Bit(y, 1)
      /\ u = 4 * Bit(u, 2) + 8 * Bit(u, 3)
             + 16 * Bit(u, 4) + 32 * Bit(u, 5) + 64 * Bit(u, 6) + 128 * Bit(u, 7)
  <2>1. \A x0, x1, x2, x3, x4, x5, x6, x7 \in {0, 1} :
          /\ x0 + 2 * x1 + 4 * 0 + 8 * 0 + 16 * 0 + 32 * 0 + 64 * 0 + 128 * 0 = x0 + 2 * x1
          /\ 0 + 2 * 0 + 4 * x2 + 8 * x3 + 16 * x4 + 32 * x5 + 64 * x6 + 128 * x7
               = 4 * x2 + 8 * x3 + 16 * x4 + 32 * x5 + 64 * x6 + 128 * x7
    OBVIOUS
  <2>2. o = Bit(o, 0) + 2 * Bit(o, 1) + 4 * Bit(o, 2) + 8 * Bit(o, 3)
            + 16 * Bit(o, 4) + 32 * Bit(o, 5) + 64 * Bit(o, 6) + 128 * Bit(o, 7)
    BY <1>5, SumOfBits
  <2>3. o = Bit(y, 0) + 2 * Bit(y, 1) + 4 * Bit(u, 2) + 8 * Bit(u, 3)
            + 16 * Bit(u, 4) + 32 * Bit(u, 5) + 64 * Bit(u, 6) + 128 * Bit(u, 7)
    BY <1>7, <1>8, <2>2
  <2>4. y = Bit(y, 0) + 2 * Bit(y, 1) + 4 * 0 + 8 * 0 + 16 * 0 + 32 * 0 + 64 * 0 + 128 * 0
    BY <1>2, <1>4, SumOfBits
  <2>5. u = 0 + 2 * 0 + 4 * Bit(u, 2) + 8 * Bit(u, 3)
            + 16 * Bit(u, 4) + 32 * Bit(u, 5) + 64 * Bit(u, 6) + 128 * Bit(u, 7)
    BY <1>2, <1>3, SumOfBits
  <2> QED
    BY <1>6, <2>1, <2>3, <2>4, <2>5
<1>10. o = u + y
  BY <1>2, <1>6, <1>9
<1> QED
  BY <1>10 DEF o, u

-----------------------------------------------------------------------------
(* Address fields: two bytes hold the odd and the even bits of a value,    *)
(* and neither of them is 0xD5.                                            *)

LEMMA HalfBits ==
  ASSUME NEW x \in 0 .. 255
  PROVE  /\ x \div 2 \in Int
         /\ \A k \in 0 .. 6 : Bit(x \div 2, k) = Bit(x, k + 1)
<1> DEFINE h == x \div 2
<1>1. /\ h \div 2 = x \div 4 /\ h \div 4 = x \div 8 /\ h \div 8 = x \div 16
      /\ h \div 16 = x \div 32 /\ h \div 32 = x \div 64 /\ h \div 64 = x \div 128
      /\ h \in Int /\ x \in Int
  OBVIOUS
<1>2. /\ Bit(x, 1) = h % 2 /\ Bit(x, 2) = (x \div 4) % 2 /\ Bit(x, 3) = (x \div 8) % 2
      /\ Bit(x, 4) = (x \div 16) % 2 /\ Bit(x, 5) = (x \div 32) % 2
      /\ Bit(x, 6) = (x \div 64) % 2 /\ Bit(x, 7) = (x \div 128) % 2
  BY <1>1, BitIs, ZenonT(40)
<1> HIDE DEF h
<1>3. /\ Bit(h, 0) = h % 2 /\ Bit(h, 1) = (h \div 2) % 2 /\ Bit(h, 2) = (h \div 4) % 2
      /\ Bit(h, 3) = (h \div 8) % 2 /\ Bit(h, 4) = (h \div 16) % 2
      /\ Bit(h, 5) = (h \div 32) % 2 /\ Bit(h, 6) = (h \div 64) % 2
  BY <1>1, BitIs, ZenonT(40)
<1>4. /\ Bit(h, 0) = Bit(x, 1) /\ Bit(h, 1) = Bit(x, 2) /\ Bit(h, 2) = Bit(x, 3) /\ Bit(h, 3) = Bit(x, 4)
      /\ Bit(h, 4) = Bit(x, 5) /\ Bit(h, 5) = Bit(x, 6) /\ Bit(h, 6) = Bit(x, 7)
  <2>1. Bit(h, 0) = Bit(x, 1) /\ Bit(h, 1) = Bit(x, 2) /\ Bit(h, 2) = Bit(x, 3) /\ Bit(h, 3) = Bit(x, 4)
    BY <1>1, <1>2, <1>3
  <2>2. Bit(h, 4) = Bit(x, 5) /\ Bit(h, 5) = Bit(x, 6) /\ Bit(h, 6) = Bit(x, 7)
    BY <1>1, <1>2, <1>3
  <2> QED
    BY <2>1, <2>2
<1>5. \A k \in 0 .. 6 : Bit(h, k) = Bit(x, k + 1)
  <2>1. /\ 0 + 1 = 1 /\ 1 + 1 = 2 /\ 2 + 1 = 3 /\ 3 + 1 = 4 /\ 4 + 1 = 5 /\ 5 + 1 = 6 /\ 6 + 1 = 7
        /\ \A k \in 0 .. 6 : k \in {0, 1, 2, 3, 4, 5, 6}
    OBVIOUS
  <2> QED
    BY <1>4, <2>1
<1> QED
  BY <1>1, <1>5 DEF h

LEMMA ClockBits ==
  /\ Bit(170, 0) = 0 /\ Bit(170, 1) = 1 /\ Bit(170, 2) = 0 /\ Bit(170, 3) = 1
  /\ Bit(170, 4) = 0 /\ Bit(170, 5) = 1 /\ Bit(170, 6) = 0 /\ Bit(170, 7) = 1
  /\ Bit(213, 1) = 0
<1>1. \A b \in Int : b = 170 =>
        /\ b % 2 = 0 /\ (b \div 2) % 2 = 1 /\ (b \div 4) % 2 = 0 /\ (b \div 8) % 2 = 1
        /\ (b \div 16) % 2 = 0 /\ (b \div 32) % 2 = 1 /\ (b \div 64) % 2 = 0 /\ (b \div 128) % 2 = 1
  OBVIOUS
<1>2. \A b \in Int : b = 213 => (b \div 2) % 2 = 0
  OBVIOUS
<1>3. ASSUME NEW b \in Int, b = 170
      PROVE  /\ Bit(b, 0) = 0 /\ Bit(b, 1) = 1 /\ Bit(b, 2) = 0 /\ Bit(b, 3) = 1
             /\ Bit(b, 4) = 0 /\ Bit(b, 5) = 1 /\ Bit(b, 6) = 0 /\ Bit(b, 7) = 1
  <2>1. /\ b % 2 = 0 /\ (b \div 2) % 2 = 1 /\ (b \div 4) % 2 = 0 /\ (b \div 8) % 2 = 1
        /\ (b \div 16) % 2 = 0 /\ (b \div 32) % 2 = 1 /\ (b \div 64) % 2 = 0 /\ (b \div 128) % 2 = 1
    BY <1>1, <1>3
  <2>2. Bit(b, 0) = 0 /\ Bit(b, 1) = 1 /\ Bit(b, 2) = 0 /\ Bit(b, 3) = 1
    BY <2>1, BitIs, Zenon
  <2>3. Bit(b, 4) = 0 /\ Bit(b, 5) = 1 /\ Bit(b, 6) = 0 /\ Bit(b, 7) = 1
    BY <2>1, BitIs, Zenon
  <2> QED
    BY <2>2, <2>3
<1>4. ASSUME NEW b \in Int, b = 213 PROVE Bit(b, 1) = 0
  <2>1. (b \div 2) % 2 = 0
    BY <1>2, <1>4
  <2> QED
    BY <2>1, BitIs, Zenon
<1>5. 170 \in Int /\ 213 \in Int
  OBVIOUS
<1> QED
  BY <1>3, <1>4, <1>5

LEMMA OrClock ==
  ASSUME NEW x \in Int
  PROVE  /\ Or(x, 170) \in 128 .. 255 /\ Or(x, 170) # 213
         /\ Bit(Or(x, 170), 1) = 1 /\ Bit(Or(x, 170), 3) = 1
         /\ Bit(Or(x, 170), 5) = 1 /\ Bit(Or(x, 170), 7) = 1
         /\ Bit(Or(x, 170), 0) = Bit(x, 0) /\ Bit(Or(x, 170), 2) = Bit(x, 2)
         /\ Bit(Or(x, 170), 4) = Bit(x, 4) /\ Bit(Or(x, 170), 6) = Bit(x, 6)
<1> DEFINE o == Or(x, 170)
<1>1. /\ o \in 0 .. 255
      /\ \A k \in 0 .. 7 : Bit(o, k) = IF Bit(x, k) = 1 \/ Bit(170, k) = 1 THEN 1 ELSE 0
  <2>1. 170 \in Int
    OBVIOUS
  <2> QED
    BY <2>1, BitByBit
<1>2. \A k \in 0 .. 7 : Bit(x, k) \in {0, 1}
  BY BitType
<1> HIDE DEF o
<1>3. /\ Bit(o, 1) = 1 /\ Bit(o, 3) = 1 /\ Bit(o, 5) = 1 /\ Bit(o, 7) = 1
      /\ Bit(o, 0) = Bit(x, 0) /\ Bit(o, 2) = Bit(x, 2)
      /\ Bit(o, 4) = Bit(x, 4) /\ Bit(o, 6) = Bit(x, 6)
  BY <1>1, <1>2, ClockBits
<1>4. o # 213
  BY <1>3, ClockBits
<1>5. o >= 128
  <2>1. \A k \in 0 .. 7 : Bit(o, k) \in {0, 1}
    BY <1>1, BitType
  <2>2. /\ Bit(o, 0) \in {0, 1} /\ Bit(o, 1) \in {0, 1} /\ Bit(o, 2) \in {0, 1} /\ Bit(o, 3) \in {0, 1}
        /\ Bit(o, 4) \in {0, 1} /\ Bit(o, 5) \in {0, 1} /\ Bit(o, 6) \in {0, 1} /\ Bit(o, 7) = 1
    BY <1>3, <2>1
  <2>3. o = Bit(o, 0) + 2 * Bit(o, 1) + 4 * Bit(o, 2) + 8 * Bit(o, 3)
            + 16 * Bit(o, 4) + 32 * Bit(o, 5) + 64 * Bit(o, 6) + 128 * Bit(o, 7)
    BY <1>1, SumOfBits
  <2> QED
    BY <2>2, <2>3
<1> QED
  BY <1>1, <1>3, <1>4, <1>5 DEF o

(* The upper byte moved up by one, with a one below it.                    *)
LEMMA UpperBits ==
  ASSUME NEW a \in 0 .. 255
  PROVE  /\ (a % 128) * 2 + 1 \in Int /\ Bit((a % 128) * 2 + 1, 0) = 1
         /\ \A k \in 0 .. 6 : Bit((a % 128) * 2 + 1, k + 1) = Bit(a, k)
<1> DEFINE e == [k \in 0 .. 7 |-> IF k = 0 THEN 1 ELSE Bit(a, k - 1)]
           w == (a % 128) * 2 + 1
<1>1. \A k \in 0 .. 7 : Bit(a, k) \in {0, 1}
  BY BitType
<1>2. e \in [0 .. 7 -> {0, 1}]
  <2>1. \A k \in 0 .. 7 : k # 0 => k - 1 \in 0 .. 7
    OBVIOUS
  <2> QED
    BY <1>1, <2>1
<1>3. /\ e[0] = 1 /\ e[1] = Bit(a, 0) /\ e[2] = Bit(a, 1) /\ e[3] = Bit(a, 2)
      /\ e[4] = Bit(a, 3) /\ e[5] = Bit(a, 4) /\ e[6] = Bit(a, 5) /\ e[7] = Bit(a, 6)
  OBVIOUS
<1>4. \A k \in 0 .. 6 : e[k + 1] = Bit(a, k) /\ k + 1 \in 0 .. 7
  <2>1. \A k \in 0 .. 6 : k + 1 \in 0 .. 7 /\ k + 1 # 0 /\ (k + 1) - 1 = k
    OBVIOUS
  <2> QED
    BY <2>1
<1> HIDE DEF e
<1>5. w = FromBits(e)
  <2>1. a = Bit(a, 0) + 2 * Bit(a, 1) + 4 * Bit(a, 2) + 8 * Bit(a, 3)
            + 16 * Bit(a, 4) + 32 * Bit(a, 5) + 64 * Bit(a, 6) + 128 * Bit(a, 7)
    BY SumOfBits
  <2>2. /\ Bit(a, 0) \in {0, 1} /\ Bit(a, 1) \in {0, 1} /\ Bit(a, 2) \in {0, 1} /\ Bit(a, 3) \in {0, 1}
        /\ Bit(a, 4) \in {0, 1} /\ Bit(a, 5) \in {0, 1} /\ Bit(a, 6) \in {0, 1} /\ Bit(a, 7) \in {0, 1}
    BY <1>1
  <2> DEFINE low == Bit(a, 0) + 2 * Bit(a, 1) + 4 * Bit(a, 2) + 8 * Bit(a, 3)
                    + 16 * Bit(a, 4) + 32 * Bit(a, 5) + 64 * Bit(a, 6)
  <2>3. low \in 0 .. 127 /\ a = low + 128 * Bit(a, 7)
    BY <2>1, <2>2
  <2>4. a % 128 = low
    <3> HIDE DEF low
    <3> QED
      BY <2>2, <2>3
  <2>5. FromBits(e) = 1 + 2 * low
    BY <1>3, <2>2 DEF FromBits
  <2> HIDE DEF low
  <2> QED
    BY <2>3, <2>4, <2>5
<1>6. w \in 0 .. 255 /\ \A k \in 0 .. 7 : Bit(w, k) = e[k]
  BY <1>2, <1>5, BitsOfSum
<1> HIDE DEF w
<1>7. Bit(w, 0) = 1 /\ \A k \in 0 .. 6 : Bit(w, k + 1) = Bit(a, k)
  BY <1>3, <1>4, <1>6
<1> QED
  BY <1>6, <1>7 DEF w

LEMMA PairRead ==
  ASSUME NEW x \in 0 .. 255
  PROVE  And((Or(x \div 2, 170) % 128) * 2 + 1, Or(x, 170)) = x
<1> DEFINE a == Or(x \div 2, 170)
           b == Or(x, 170)
           w == (a % 128) * 2 + 1
           r == And(w, b)
<1>1. x \in Int /\ x \div 2 \in Int
  OBVIOUS
<1>2. /\ a \in 128 .. 255 /\ b \in 128 .. 255
      /\ Bit(a, 1) = 1 /\ Bit(a, 3) = 1 /\ Bit(a, 5) = 1 /\ Bit(a, 0) = Bit(x \div 2, 0)
      /\ Bit(a, 2) = Bit(x \div 2, 2) /\ Bit(a, 4) = Bit(x \div 2, 4) /\ Bit(a, 6) = Bit(x \div 2, 6)
  BY <1>1, OrClock, ZenonT(40)
<1>3. /\ Bit(b, 1) = 1 /\ Bit(b, 3) = 1 /\ Bit(b, 5) = 1 /\ Bit(b, 7) = 1
      /\ Bit(b, 0) = Bit(x, 0) /\ Bit(b, 2) = Bit(x, 2)
      /\ Bit(b, 4) = Bit(x, 4) /\ Bit(b, 6) = Bit(x, 6)
  BY <1>1, OrClock
<1>4. /\ Bit(x \div 2, 0) = Bit(x, 1) /\ Bit(x \div 2, 2) = Bit(x, 3)
      /\ Bit(x \div 2, 4) = Bit(x, 5) /\ Bit(x \div 2, 6) = Bit(x, 7)
  BY HalfBits
<1> HIDE DEF a, b
<1>5. /\ w \in Int /\ Bit(w, 0) = 1
      /\ \A k \in 0 .. 6 : Bit(w, k + 1) = Bit(a, k)
  <2>1. a \in 0 .. 255
    BY <1>2
  <2> QED
    BY <2>1, UpperBits
<1> HIDE DEF w
<1>6. /\ Bit(w, 0) = 1 /\ Bit(w, 1) = Bit(x, 1) /\ Bit(w, 2) = 1 /\ Bit(w, 3) = Bit(x, 3)
      /\ Bit(w, 4) = 1 /\ Bit(w, 5) = Bit(x, 5) /\ Bit(w, 6) = 1 /\ Bit(w, 7) = Bit(x, 7)
  <2>1. /\ Bit(w, 0 + 1) = Bit(a, 0) /\ Bit(w, 1 + 1) = Bit(a, 1) /\ Bit(w, 2 + 1) = Bit(a, 2)
        /\ Bit(w, 3 + 1) = Bit(a, 3) /\ Bit(w, 4 + 1) = Bit(a, 4) /\ Bit(w, 5 + 1) = Bit(a, 5)
        /\ Bit(w, 6 + 1) = Bit(a, 6)
    BY <1>5
  <2> QED
    BY <1>2, <1>4, <1>5, <2>1
<1>7. /\ r \in 0 .. 255
      /\ \A k \in 0 .. 7 : Bit(r, k) = IF Bit(w, k) = 1 /\ Bit(b, k) = 1 THEN 1 ELSE 0
  <2>1. b \in Int
    BY <1>2
  <2> QED
    BY <1>5, <2>1, BitByBit
<1>8. \A k \in 0 .. 7 : Bit(x, k) \in {0, 1}
  BY <1>1, BitType
<1> HIDE DEF r
<1> DEFINE B(k) == Bit(r, k) = Bit(x, k)
<1>9. B(0) /\ B(1) /\ B(2) /\ B(3) /\ B(4) /\ B(5) /\ B(6) /\ B(7)
  BY <1>3, <1>6, <1>7, <1>8
<1> HIDE DEF B
<1>10. \A k \in 0 .. 7 : B(k)
  BY <1>9, EightBits
<1>11. r = x
  BY <1>7, <1>10, SameBits DEF B
<1> QED
  BY <1>11 DEF r, w, a, b

-----------------------------------------------------------------------------
(* The 64 bytes a drive can read are those of the table, in its order.     *)

Table == {
    150, 151, 154, 155, 157, 158, 159, 166, 167, 171, 172, 173, 174, 175, 178, 179,
    180, 181, 182, 183, 185, 186, 187, 188, 189, 190, 191, 203, 205, 206, 207, 211,
    214, 215, 217, 218, 219, 220, 221, 222, 223, 229, 230, 231, 233, 234, 235, 236,
    237, 238, 239, 242, 243, 244, 245, 246, 247, 249, 250, 251, 252, 253, 254, 255}

LEMMA TableValues ==
  /\ GCR(0) = 150 /\ GCR(1) = 151 /\ GCR(2) = 154 /\ GCR(3) = 155
  /\ GCR(4) = 157 /\ GCR(5) = 158 /\ GCR(6) = 159 /\ GCR(7) = 166
  /\ GCR(8) = 167 /\ GCR(9) = 171 /\ GCR(10) = 172 /\ GCR(11) = 173
  /\ GCR(12) = 174 /\ GCR(13) = 175 /\ GCR(14) = 178 /\ GCR(15) = 179
  /\ GCR(16) = 180 /\ GCR(17) = 181 /\ GCR(18) = 182 /\ GCR(19) = 183
  /\ GCR(20) = 185 /\ GCR(21) = 186 /\ GCR(22) = 187 /\ GCR(23) = 188
  /\ GCR(24) = 189 /\ GCR(25) = 190 /\ GCR(26) = 191 /\ GCR(27) = 203
  /\ GCR(28) = 205 /\ GCR(29) = 206 /\ GCR(30) = 207 /\ GCR(31) = 211
  /\ GCR(32) = 214 /\ GCR(33) = 215 /\ GCR(34) = 217 /\ GCR(35) = 218
  /\ GCR(36) = 219 /\ GCR(37) = 220 /\ GCR(38) = 221 /\ GCR(39) = 222
  /\ GCR(40) = 223 /\ GCR(41) = 229 /\ GCR(42) = 230 /\ GCR(43) = 231
  /\ GCR(44) = 233 /\ GCR(45) = 234 /\ GCR(46) = 235 /\ GCR(47) = 236
  /\ GCR(48) = 237 /\ GCR(49) = 238 /\ GCR(50) = 239 /\ GCR(51) = 242
  /\ GCR(52) = 243 /\ GCR(53) = 244 /\ GCR(54) = 245 /\ GCR(55) = 246
  /\ GCR(56) = 247 /\ GCR(57) = 249 /\ GCR(58) = 250 /\ GCR(59) = 251
  /\ GCR(60) = 252 /\ GCR(61) = 253 /\ GCR(62) = 254 /\ GCR(63) = 255
<1>1. /\ GCR(0) = 150 /\ GCR(1) = 151 /\ GCR(2) = 154 /\ GCR(3) = 155
      /\ GCR(4) = 157 /\ GCR(5) = 158 /\ GCR(6) = 159 /\ GCR(7) = 166
  BY DEF GCR, GCR_encoding_table
<1>2. /\ GCR(8) = 167 /\ GCR(9) = 171 /\ GCR(10) = 172 /\ GCR(11) = 173
      /\ GCR(12) = 174 /\ GCR(13) = 175 /\ GCR(14) = 178 /\ GCR(15) = 179
  BY DEF GCR, GCR_encoding_table
<1>3. /\ GCR(16) = 180 /\ GCR(17) = 181 /\ GCR(18) = 182 /\ GCR(19) = 183
      /\ GCR(20) = 185 /\ GCR(21) = 186 /\ GCR(22) = 187 /\ GCR(23) = 188
  BY DEF GCR, GCR_encoding_table
<1>4. /\ GCR(24) = 189 /\ GCR(25) = 190 /\ GCR(26) = 191 /\ GCR(27) = 203
      /\ GCR(28) = 205 /\ GCR(29) = 206 /\ GCR(30) = 207 /\ GCR(31) = 211
  BY DEF GCR, GCR_encoding_table
<1>5. /\ GCR(32) = 214 /\ GCR(33) = 215 /\ GCR(34) = 217 /\ GCR(35) = 218
      /\ GCR(36) = 219 /\ GCR(37) = 220 /\ GCR(38) = 221 /\ GCR(39) = 222
  BY DEF GCR, GCR_encoding_table
<1>6. /\ GCR(40) = 223 /\ GCR(41) = 229 /\ GCR(42) = 230 /\ GCR(43) = 231
      /\ GCR(44) = 233 /\ GCR(45) = 234 /\ GCR(46) = 235 /\ GCR(47) = 236
  BY DEF GCR, GCR_encoding_table
<1>7. /\ GCR(48) = 237 /\ GCR(49) = 238 /\ GCR(50) = 239 /\ GCR(51) = 242
      /\ GCR(52) = 243 /\ GCR(53) = 244 /\ GCR(54) = 245 /\ GCR(55) = 246
  BY DEF GCR, GCR_encoding_table
<1>8. /\ GCR(56) = 247 /\ GCR(57) = 249 /\ GCR(58) = 250 /\ GCR(59) = 251
      /\ GCR(60) = 252 /\ GCR(61) = 253 /\ GCR(62) = 254 /\ GCR(63) = 255
  BY DEF GCR, GCR_encoding_table
<1> QED
  BY <1>1, <1>2, <1>3, <1>4, <1>5, <1>6, <1>7, <1>8

LEMMA DiskBytesAre ==
  ASSUME NEW b \in 128 .. 255
  PROVE  b \in DiskBytes <=> b \in Table
<1> DEFINE x(k) == Bit(b, k)
<1>1. /\ x(0) \in {0, 1} /\ x(1) \in {0, 1} /\ x(2) \in {0, 1} /\ x(3) \in {0, 1}
      /\ x(4) \in {0, 1} /\ x(5) \in {0, 1} /\ x(6) \in {0, 1} /\ x(7) \in {0, 1}
  BY BitType
<1>2. b = x(0) + 2 * x(1) + 4 * x(2) + 8 * x(3) + 16 * x(4) + 32 * x(5) + 64 * x(6) + 128 * x(7)
  BY SumOfBits
<1> DEFINE pair == \E k \in 0 .. 5 : Bit(b, k) = 1 /\ Bit(b, k + 1) = 1
           once == \A k, m \in 0 .. 6 : Zeros(b, k) /\ Zeros(b, m) => k = m
           z(k) == Zeros(b, k)
<1>3. b \in DiskBytes <=> pair /\ once /\ b # 213
  BY DEF DiskBytes
<1>4. pair <=> \/ (x(0) = 1 /\ x(1) = 1)
               \/ (x(1) = 1 /\ x(2) = 1)
               \/ (x(2) = 1 /\ x(3) = 1)
               \/ (x(3) = 1 /\ x(4) = 1)
               \/ (x(4) = 1 /\ x(5) = 1)
               \/ (x(5) = 1 /\ x(6) = 1)
  <2>1. /\ 0 + 1 = 1 /\ 1 + 1 = 2 /\ 2 + 1 = 3 /\ 3 + 1 = 4 /\ 4 + 1 = 5 /\ 5 + 1 = 6
        /\ \A k \in 0 .. 5 : k \in {0, 1, 2, 3, 4, 5}
        /\ \A k \in {0, 1, 2, 3, 4, 5} : k \in 0 .. 5
    OBVIOUS
  <2> QED
    BY <2>1
<1>5. /\ z(0) <=> x(0) = 0 /\ x(1) = 0
      /\ z(1) <=> x(1) = 0 /\ x(2) = 0
      /\ z(2) <=> x(2) = 0 /\ x(3) = 0
      /\ z(3) <=> x(3) = 0 /\ x(4) = 0
      /\ z(4) <=> x(4) = 0 /\ x(5) = 0
      /\ z(5) <=> x(5) = 0 /\ x(6) = 0
      /\ z(6) <=> x(6) = 0 /\ x(7) = 0
  BY DEF Zeros
<1> HIDE DEF z
<1>6. once <=> /\ ~(z(0) /\ z(1)) /\ ~(z(0) /\ z(2)) /\ ~(z(0) /\ z(3)) /\ ~(z(0) /\ z(4))
               /\ ~(z(0) /\ z(5)) /\ ~(z(0) /\ z(6)) /\ ~(z(1) /\ z(2)) /\ ~(z(1) /\ z(3))
               /\ ~(z(1) /\ z(4)) /\ ~(z(1) /\ z(5)) /\ ~(z(1) /\ z(6)) /\ ~(z(2) /\ z(3))
               /\ ~(z(2) /\ z(4)) /\ ~(z(2) /\ z(5)) /\ ~(z(2) /\ z(6)) /\ ~(z(3) /\ z(4))
               /\ ~(z(3) /\ z(5)) /\ ~(z(3) /\ z(6)) /\ ~(z(4) /\ z(5)) /\ ~(z(4) /\ z(6))
               /\ ~(z(5) /\ z(6))
  <2>1. /\ \A k \in 0 .. 6 : k \in {0, 1, 2, 3, 4, 5, 6}
        /\ \A k \in {0, 1, 2, 3, 4, 5, 6} : k \in 0 .. 6
    OBVIOUS
  <2> QED
    BY <2>1 DEF z
<1>7. x(7) = 1
  BY <1>1, <1>2
<1> HIDE DEF x, pair, once
<1> QED
  BY <1>1, <1>2, <1>3, <1>4, <1>5, <1>6, <1>7 DEF Table

(* The table has 64 different values, in their order, and no other byte    *)
(* that can be read is between two of them.                                *)
LEMMA TableSteps ==
  /\ \A v \in 0 .. 63 : GCR(v) \in Table
  /\ \A c \in Table : c >= GCR(0)
  /\ \A v \in 0 .. 62 : \A c \in Table : c < GCR(v + 1) <=> c < GCR(v) \/ c = GCR(v)
<1> DEFINE G(v) == GCR(v) \in Table
           S(v) == \A c \in Table : c < GCR(v + 1) <=> c < GCR(v) \/ c = GCR(v)
<1>1. \A v \in 0 .. 63 : G(v)
  BY TableValues DEF Table
<1>2. \A c \in Table : c >= GCR(0)
  BY TableValues DEF Table
<1>3. \A v \in 0 .. 62 : S(v)
  BY TableValues DEF Table
<1> QED
  BY <1>1, <1>2, <1>3

LEMMA DiskBytesTable == DiskBytes = Table
<1>1. DiskBytes \subseteq 128 .. 255 /\ Table \subseteq 128 .. 255
  BY DEF DiskBytes, Table
<1> QED
  BY <1>1, DiskBytesAre

LEMMA RankOfValue ==
  ASSUME NEW v \in 0 .. 63
  PROVE  GCR(v) \in DiskBytes /\ Rank[GCR(v)] = v
<1> DEFINE Under(u) == {c \in DiskBytes : c < GCR(u)}
           S == {u \in Nat : u <= 63 => IsFiniteSet(Under(u)) /\ Cardinality(Under(u)) = u}
<1>1. 0 \in S
  <2>1. Under(0) = {}
    <3>1. \A c \in Table : ~(c < GCR(0))
      <4>1. GCR(0) \in Int /\ \A c \in Table : c \in Int /\ c >= GCR(0)
        BY TableSteps, TableValues DEF Table
      <4> QED
        BY <4>1
    <3> QED
      BY <3>1, DiskBytesTable
  <2> HIDE DEF Under
  <2> QED
    BY <2>1, FS_EmptySet
<1>2. ASSUME NEW u \in S PROVE u + 1 \in S
  <2>0. u \in Nat /\ u + 1 \in Nat /\ (u <= 63 => IsFiniteSet(Under(u)) /\ Cardinality(Under(u)) = u)
    OBVIOUS
  <2> SUFFICES ASSUME u + 1 <= 63
               PROVE  IsFiniteSet(Under(u + 1)) /\ Cardinality(Under(u + 1)) = u + 1
    BY <2>0
  <2>1. IsFiniteSet(Under(u)) /\ Cardinality(Under(u)) = u /\ u \in 0 .. 62
    BY <2>0
  <2>2. /\ GCR(u) \in Table
        /\ \A c \in Table : c < GCR(u + 1) <=> c < GCR(u) \/ c = GCR(u)
    BY <2>1, TableSteps
  <2>3. Under(u + 1) = Under(u) \cup {GCR(u)}
    BY <2>2, DiskBytesTable
  <2>4. GCR(u) \notin Under(u)
    <3>1. GCR(u) \in Int
      BY <2>2 DEF Table
    <3> QED
      BY <3>1
  <2> HIDE DEF Under
  <2> QED
    BY <2>1, <2>3, <2>4, FS_AddElement
<1> HIDE DEF S
<1>3. S = Nat
  <2>1. S \in SUBSET Nat
    BY DEF S
  <2> QED
    BY <1>1, <1>2, <2>1, SetInduction
<1>4. Cardinality(Under(v)) = v
  <2>1. v \in Nat /\ v <= 63
    OBVIOUS
  <2> QED
    BY <1>3, <2>1 DEF S
<1>5. GCR(v) \in DiskBytes
  BY TableSteps, DiskBytesTable
<1>6. Rank[GCR(v)] = Cardinality(Under(v))
  BY <1>5 DEF Rank
<1> QED
  BY <1>4, <1>5, <1>6

-----------------------------------------------------------------------------
(* encode62 puts the two low bits of three bytes into each place of        *)
(* GCR_buffer2, whatever the places held; the first two bytes go to two.   *)

Page == [0 .. 255 -> 0 .. 255]
Groups == [0 .. 85 -> 0 .. 63]

Packed(page) ==
  [j \in 0 .. 85 |-> 16 * LowBits(page, (257 - j) % 256)
                     + 4 * LowBits(page, 171 - j) + LowBits(page, 85 - j)]

LEMMA SwapType == \A v \in 0 .. 3 : Swap_Bit(v) \in 0 .. 3 /\ Swap_Bit(Swap_Bit(v)) = v
BY DEF Swap_Bit

LEMMA LowBitsType ==
  ASSUME NEW page \in Page, NEW i \in 0 .. 255
  PROVE  LowBits(page, i) \in 0 .. 3
<1>1. page[i] % 4 \in 0 .. 3
  <2>1. page[i] \in 0 .. 255
    BY DEF Page
  <2> QED
    BY <2>1
<1> QED
  BY <1>1, SwapType DEF LowBits

LEMMA PackedType ==
  ASSUME NEW page \in Page
  PROVE  Packed(page) \in Groups
<1>1. ASSUME NEW j \in 0 .. 85
      PROVE  16 * LowBits(page, (257 - j) % 256) + 4 * LowBits(page, 171 - j) + LowBits(page, 85 - j) \in 0 .. 63
  <2>1. (257 - j) % 256 \in 0 .. 255 /\ 171 - j \in 0 .. 255 /\ 85 - j \in 0 .. 255
    OBVIOUS
  <2>2. /\ LowBits(page, (257 - j) % 256) \in 0 .. 3 /\ LowBits(page, 171 - j) \in 0 .. 3
        /\ LowBits(page, 85 - j) \in 0 .. 3
    BY <2>1, LowBitsType
  <2> QED
    BY <2>2
<1> QED
  BY <1>1 DEF Packed, Groups

(* Two bits shifted in from the right, and three times over.               *)
ShiftIn(x, y) == ((x * 4) % 256) + y

LEMMA ShiftInType ==
  ASSUME NEW u \in 0 .. 255, NEW y \in 0 .. 3
  PROVE  ShiftIn(u, y) \in 0 .. 255
<1> DEFINE q == (u * 4) \div 256
           r == (u * 4) % 256
<1>1. q \in 0 .. 3 /\ r \in 0 .. 255 /\ u * 4 = 256 * q + r
  OBVIOUS
<1>2. ShiftIn(u, y) = r + y
  BY DEF ShiftIn
<1> HIDE DEF q, r
<1>3. r = 4 * (u - 64 * q)
  BY <1>1
<1> QED
  BY <1>1, <1>2, <1>3

LEMMA ShiftInIs ==
  ASSUME NEW u \in 0 .. 255, NEW y \in 0 .. 3
  PROVE  \E q \in 0 .. 3 : ShiftIn(u, y) = u * 4 - 256 * q + y
<1> DEFINE q == (u * 4) \div 256
           r == (u * 4) % 256
<1>1. q \in 0 .. 3 /\ r \in 0 .. 255 /\ u * 4 = 256 * q + r
  OBVIOUS
<1>2. ShiftIn(u, y) = r + y
  BY DEF ShiftIn
<1> HIDE DEF q, r
<1>3. ShiftIn(u, y) = u * 4 - 256 * q + y
  BY <1>1, <1>2
<1> QED
  BY <1>1, <1>3

LEMMA ShiftInTwice ==
  ASSUME NEW u \in 0 .. 255, NEW b \in 0 .. 3, NEW c \in 0 .. 3
  PROVE  ShiftIn(ShiftIn(u, b), c) % 64 = 16 * (u % 4) + 4 * b + c
<1>1. ShiftIn(u, b) \in 0 .. 255
  BY ShiftInType
<1>2. PICK q \in 0 .. 3 : ShiftIn(u, b) = u * 4 - 256 * q + b
  BY ShiftInIs
<1>3. PICK p \in 0 .. 3 : ShiftIn(ShiftIn(u, b), c) = ShiftIn(u, b) * 4 - 256 * p + c
  BY <1>1, ShiftInIs
<1>4. ShiftIn(ShiftIn(u, b), c) = u * 16 - 1024 * q + 4 * b - 256 * p + c
  BY <1>2, <1>3
<1> DEFINE d == u \div 4
           e == u % 4
<1>5. d \in Nat /\ e \in 0 .. 3 /\ u = 4 * d + e
  OBVIOUS
<1> HIDE DEF d, e
<1> DEFINE s == ShiftIn(ShiftIn(u, b), c)
           m == d - 16 * q - 4 * p
<1>6. s = 64 * m + (16 * e + 4 * b + c) /\ m \in Int
  BY <1>4, <1>5
<1>7. 16 * e + 4 * b + c \in 0 .. 63
  BY <1>5
<1> HIDE DEF s, m
<1>8. s % 64 = 16 * e + 4 * b + c
  BY <1>6, <1>7
<1> QED
  BY <1>8 DEF s, e

LEMMA ShiftInThrice ==
  ASSUME NEW x \in 0 .. 255, NEW a \in 0 .. 3, NEW b \in 0 .. 3, NEW c \in 0 .. 3
  PROVE  ShiftIn(ShiftIn(ShiftIn(x, a), b), c) % 64 = 16 * a + 4 * b + c
<1>1. ShiftIn(x, a) \in 0 .. 255
  BY ShiftInType
<1>2. ShiftIn(x, a) % 4 = a
  <2>1. PICK q \in 0 .. 3 : ShiftIn(x, a) = x * 4 - 256 * q + a
    BY ShiftInIs
  <2>2. (x * 4 - 256 * q + a) % 4 = a
    OBVIOUS
  <2> QED
    BY <2>1, <2>2
<1>3. ShiftIn(ShiftIn(ShiftIn(x, a), b), c) % 64 = 16 * (ShiftIn(x, a) % 4) + 4 * b + c
  BY <1>1, ShiftInTwice
<1> QED
  BY <1>2, <1>3

IsTurned(f, old, page) ==
  f = [round \in 0 .. 3 |->
         IF round = 0 THEN Preset(old, page)
         ELSE [j \in 0 .. 85 |->
                 LET i == ByteFor(round, j)
                 IN  IF i < 0 THEN f[round - 1][j]
                     ELSE Or((f[round - 1][j] * 4) % 256, LowBits(page, i))]]

LEMMA TurnedExists == ASSUME NEW old, NEW page PROVE \E f : IsTurned(f, old, page)
<1> DEFINE R(t, round) == [j \in 0 .. 85 |->
                             LET i == ByteFor(round, j)
                             IN  IF i < 0 THEN t[j]
                                 ELSE Or((t[j] * 4) % 256, LowBits(page, i))]
           t0 == Preset(old, page)
           t1 == R(t0, 1)
           t2 == R(t1, 2)
           t3 == R(t2, 3)
           f == [round \in 0 .. 3 |-> CASE round = 0 -> t0 [] round = 1 -> t1
                                        [] round = 2 -> t2 [] round = 3 -> t3]
<1>1. f[0] = t0 /\ f[1] = t1 /\ f[2] = t2 /\ f[3] = t3
  <2> HIDE DEF t0, t1, t2, t3
  <2> QED
    OBVIOUS
<1>2. \A round \in 0 .. 3 : f[round] = IF round = 0 THEN t0 ELSE R(f[round - 1], round)
  <2>1. f[1] = R(f[0], 1) /\ f[2] = R(f[1], 2) /\ f[3] = R(f[2], 3)
    <3> HIDE DEF f, R, t0
    <3> QED
      BY <1>1
  <2>2. 1 - 1 = 0 /\ 2 - 1 = 1 /\ 3 - 1 = 2 /\ \A round \in 0 .. 3 : round \in {0, 1, 2, 3}
    OBVIOUS
  <2> HIDE DEF f, R, t0
  <2> DEFINE E(round) == f[round] = IF round = 0 THEN t0 ELSE R(f[round - 1], round)
  <2>3. E(0) /\ E(1) /\ E(2) /\ E(3)
    BY <1>1, <2>1, <2>2
  <2> HIDE DEF E
  <2>4. \A round \in 0 .. 3 : E(round)
    BY <2>2, <2>3
  <2> QED
    BY <2>4 DEF E
<1>3. f = [round \in 0 .. 3 |-> IF round = 0 THEN t0 ELSE R(f[round - 1], round)]
  <2>1. f = [round \in 0 .. 3 |-> f[round]]
    OBVIOUS
  <2> HIDE DEF f, R, t0
  <2> QED
    BY <1>2, <2>1
<1>4. IsTurned(f, old, page)
  <2> HIDE DEF f
  <2> QED
    BY <1>3, Zenon DEF IsTurned
<1> QED
  BY <1>4

LEMMA PresetIs ==
  ASSUME NEW old \in Groups, NEW page
  PROVE  /\ Preset(old, page)[0] = LowBits(page, 1)
         /\ Preset(old, page)[1] = LowBits(page, 0)
         /\ \A j \in 2 .. 85 : Preset(old, page)[j] = old[j]
<1> DEFINE u == LowBits(page, 1)
           v == LowBits(page, 0)
<1>1. Preset(old, page) = [old EXCEPT ![0] = u, ![1] = v]
  BY DEF Preset
<1>2. DOMAIN old = 0 .. 85
  BY DEF Groups
<1>3. 0 \in 0 .. 85 /\ 1 \in 0 .. 85 /\ \A j \in 2 .. 85 : j \in 0 .. 85 /\ j # 0 /\ j # 1
  OBVIOUS
<1> HIDE DEF u, v
<1>4. \A j \in 0 .. 85 : [old EXCEPT ![0] = u, ![1] = v][j] = IF j = 1 THEN v ELSE IF j = 0 THEN u ELSE old[j]
  BY <1>2
<1> QED
  BY <1>1, <1>3, <1>4 DEF u, v

LEMMA EncodesPage ==
  ASSUME NEW old \in Groups, NEW page \in Page
  PROVE  encode62(old, page) = Packed(page)
<1> DEFINE f == CHOOSE f : IsTurned(f, old, page)
<1>1. IsTurned(f, old, page)
  BY TurnedExists
<1>2. encode62(old, page) = [j \in 0 .. 85 |-> f[3][j] % 64]
  BY DEF encode62, IsTurned
<1> HIDE DEF f
<1>3. /\ f[0] = Preset(old, page)
      /\ \A round \in 1 .. 3, j \in 0 .. 85 :
           f[round][j] = IF ByteFor(round, j) < 0 THEN f[round - 1][j]
                         ELSE Or((f[round - 1][j] * 4) % 256, LowBits(page, ByteFor(round, j)))
  <2>1. f = [round \in 0 .. 3 |->
              IF round = 0 THEN Preset(old, page)
              ELSE [j \in 0 .. 85 |->
                      IF ByteFor(round, j) < 0 THEN f[round - 1][j]
                      ELSE Or((f[round - 1][j] * 4) % 256, LowBits(page, ByteFor(round, j)))]]
    BY <1>1, Zenon DEF IsTurned
  <2>2. \A round \in 1 .. 3 : round \in 0 .. 3 /\ round # 0
    OBVIOUS
  <2>3. f[0] = Preset(old, page)
    BY <2>1
  <2>4. \A round \in 1 .. 3 :
          f[round] = [j \in 0 .. 85 |->
                        IF ByteFor(round, j) < 0 THEN f[round - 1][j]
                        ELSE Or((f[round - 1][j] * 4) % 256, LowBits(page, ByteFor(round, j)))]
    BY <2>1, <2>2
  <2> QED
    <3>1. \A round \in 1 .. 3, j \in 0 .. 85 :
            f[round][j] = IF ByteFor(round, j) < 0 THEN f[round - 1][j]
                          ELSE Or((f[round - 1][j] * 4) % 256, LowBits(page, ByteFor(round, j)))
      <4> SUFFICES ASSUME NEW round \in 1 .. 3, NEW j \in 0 .. 85
                   PROVE  f[round][j] = IF ByteFor(round, j) < 0 THEN f[round - 1][j]
                            ELSE Or((f[round - 1][j] * 4) % 256, LowBits(page, ByteFor(round, j)))
        OBVIOUS
      <4>1. f[round] = [i \in 0 .. 85 |->
                          IF ByteFor(round, i) < 0 THEN f[round - 1][i]
                          ELSE Or((f[round - 1][i] * 4) % 256, LowBits(page, ByteFor(round, i)))]
        BY <2>4
      <4> QED
        BY <4>1
    <3> QED
      BY <2>3, <3>1, Zenon
<1>0. /\ f[0][0] = LowBits(page, 1) /\ f[0][1] = LowBits(page, 0)
      /\ \A j \in 2 .. 85 : f[0][j] = old[j]
  <2>1. f[0] = Preset(old, page)
    BY <1>3
  <2>2. /\ Preset(old, page)[0] = LowBits(page, 1) /\ Preset(old, page)[1] = LowBits(page, 0)
        /\ \A j \in 2 .. 85 : Preset(old, page)[j] = old[j]
    BY PresetIs
  <2> QED
    BY <2>1, <2>2
<1>4. \A x \in 0 .. 255, i \in 0 .. 255 : Or((x * 4) % 256, LowBits(page, i)) = ShiftIn(x, LowBits(page, i))
  <2> SUFFICES ASSUME NEW x \in 0 .. 255, NEW i \in 0 .. 255
               PROVE  Or((x * 4) % 256, LowBits(page, i)) = ShiftIn(x, LowBits(page, i))
    OBVIOUS
  <2>1. x \in Nat /\ LowBits(page, i) \in 0 .. 3
    BY LowBitsType
  <2> QED
    BY <2>1, OrBelow DEF ShiftIn
<1>5. \A x \in 0 .. 255, i \in 0 .. 255 : ShiftIn(x, LowBits(page, i)) \in 0 .. 255
  BY LowBitsType, ShiftInType
<1>6. ASSUME NEW j \in 0 .. 85 PROVE f[3][j] % 64 = Packed(page)[j]
  <2> DEFINE a == LowBits(page, (257 - j) % 256)
             b == LowBits(page, 171 - j)
             c == LowBits(page, 85 - j)
  <2>0. 171 - j \in 0 .. 255 /\ 85 - j \in 0 .. 255 /\ (257 - j) % 256 \in 0 .. 255
    OBVIOUS
  <2>1. a \in 0 .. 3 /\ b \in 0 .. 3 /\ c \in 0 .. 3
    BY <2>0, LowBitsType
  <2>2. Packed(page)[j] = 16 * a + 4 * b + c
    BY DEF Packed
  <2>3. /\ f[1][j] = IF ByteFor(1, j) < 0 THEN f[0][j]
                     ELSE Or((f[0][j] * 4) % 256, LowBits(page, ByteFor(1, j)))
        /\ f[2][j] = IF ByteFor(2, j) < 0 THEN f[1][j]
                     ELSE Or((f[1][j] * 4) % 256, LowBits(page, ByteFor(2, j)))
        /\ f[3][j] = IF ByteFor(3, j) < 0 THEN f[2][j]
                     ELSE Or((f[2][j] * 4) % 256, LowBits(page, ByteFor(3, j)))
    <3>1. 1 \in 1 .. 3 /\ 2 \in 1 .. 3 /\ 3 \in 1 .. 3 /\ 1 - 1 = 0 /\ 2 - 1 = 1 /\ 3 - 1 = 2
      OBVIOUS
    <3> QED
      BY <1>3, <3>1
  <2>4. CASE j >= 2
    <3>1. /\ ByteFor(1, j) = 257 - j /\ ByteFor(2, j) = 171 - j /\ ByteFor(3, j) = 85 - j
          /\ (257 - j) % 256 = 257 - j
      <4>1. j - 2 \in 0 .. 83 /\ (j - 2) % 86 = j - 2
        BY <2>4
      <4> QED
        BY <2>4, <4>1 DEF ByteFor
    <3>2. f[0][j] \in 0 .. 255
      <4>1. f[0][j] = old[j]
        BY <1>0, <2>4
      <4>2. old[j] \in 0 .. 63
        BY DEF Groups
      <4> QED
        BY <4>1, <4>2
    <3>3. 257 - j \in 0 .. 255 /\ ~(257 - j < 0) /\ ~(171 - j < 0) /\ ~(85 - j < 0)
      BY <2>4
    <3>4. f[1][j] = ShiftIn(f[0][j], a)
      <4>1. f[1][j] = Or((f[0][j] * 4) % 256, LowBits(page, 257 - j))
        BY <2>3, <3>1, <3>3
      <4>2. Or((f[0][j] * 4) % 256, LowBits(page, 257 - j)) = ShiftIn(f[0][j], LowBits(page, 257 - j))
        BY <1>4, <3>2, <3>3
      <4>3. a = LowBits(page, 257 - j)
        BY <3>1
      <4> HIDE DEF a
      <4> QED
        BY <4>1, <4>2, <4>3
    <3> HIDE DEF a, b, c
    <3>0. \A x \in 0 .. 255, y \in 0 .. 3 : ShiftIn(x, y) \in 0 .. 255
      BY ShiftInType
    <3>5. f[1][j] \in 0 .. 255
      BY <2>1, <3>0, <3>2, <3>4
    <3>6. f[2][j] = ShiftIn(f[1][j], b)
      <4>1. f[2][j] = Or((f[1][j] * 4) % 256, LowBits(page, 171 - j))
        BY <2>3, <3>1, <3>3
      <4> QED
        BY <1>4, <2>0, <3>5, <4>1 DEF b
    <3>7. f[2][j] \in 0 .. 255
      BY <2>1, <3>0, <3>5, <3>6, ZenonT(40)
    <3>8. f[3][j] = ShiftIn(f[2][j], c)
      <4>1. f[3][j] = Or((f[2][j] * 4) % 256, LowBits(page, 85 - j))
        BY <2>3, <3>1, <3>3
      <4> QED
        BY <1>4, <2>0, <3>7, <4>1 DEF c
    <3>9. f[3][j] % 64 = 16 * a + 4 * b + c
      <4>1. ShiftIn(ShiftIn(ShiftIn(f[0][j], a), b), c) % 64 = 16 * a + 4 * b + c
        BY <2>1, <3>2, ShiftInThrice
      <4> QED
        BY <3>4, <3>6, <3>8, <4>1
    <3> QED
      BY <2>2, <3>9 DEF a, b, c
  <2>5. CASE j < 2
    <3>1. /\ ByteFor(1, j) = 171 - j /\ ByteFor(2, j) = 85 - j /\ ByteFor(3, j) < 0
      <4>1. (j - 2) % 86 = 84 + j
        BY <2>5
      <4> QED
        BY <2>5, <4>1 DEF ByteFor
    <3>2. f[0][j] = a
      <4>1. j = 0 \/ j = 1
        BY <2>5
      <4>2. (257 - 0) % 256 = 1 /\ (257 - 1) % 256 = 0
        OBVIOUS
      <4> QED
        BY <1>0, <4>1, <4>2
    <3>3. ~(171 - j < 0) /\ ~(85 - j < 0) /\ a \in 0 .. 255
      BY <2>1, <2>5
    <3> HIDE DEF a, b, c
    <3>4. f[1][j] = ShiftIn(a, b)
      <4>1. f[1][j] = Or((a * 4) % 256, LowBits(page, 171 - j))
        BY <2>3, <3>1, <3>2, <3>3
      <4> QED
        BY <1>4, <2>0, <3>3, <4>1 DEF b
    <3>5. f[1][j] \in 0 .. 255
      <4>1. ShiftIn(a, b) \in 0 .. 255
        BY <2>1, <3>3, ShiftInType
      <4> QED
        BY <3>4, <4>1
    <3>6. f[2][j] = ShiftIn(f[1][j], c)
      <4>1. f[2][j] = Or((f[1][j] * 4) % 256, LowBits(page, 85 - j))
        BY <2>3, <3>1, <3>3
      <4> QED
        BY <1>4, <2>0, <3>5, <4>1 DEF c
    <3>7. f[3][j] = f[2][j]
      BY <2>3, <3>1
    <3>8. f[3][j] % 64 = 16 * a + 4 * b + c
      <4>1. ShiftIn(ShiftIn(a, b), c) % 64 = 16 * (a % 4) + 4 * b + c
        BY <2>1, <3>3, ShiftInTwice
      <4>2. a % 4 = a
        BY <2>1
      <4> QED
        BY <3>4, <3>6, <3>7, <4>1, <4>2
    <3> QED
      BY <2>2, <3>8 DEF a, b, c
  <2> QED
    BY <2>4, <2>5
<1> QED
  BY <1>2, <1>6 DEF Packed

-----------------------------------------------------------------------------
(* What is on a track: the fields of a sector, byte by byte.               *)

High == 128 .. 255

LEMMA Joined ==
  ASSUME NEW s \in Seq(High), NEW t \in Seq(High)
  PROVE  /\ s \o t \in Seq(High) /\ Len(s \o t) = Len(s) + Len(t)
         /\ Len(s) \in Nat /\ Len(t) \in Nat
         /\ \A i \in 1 .. Len(s) : (s \o t)[i] = s[i]
         /\ \A i \in 1 .. Len(t) : (s \o t)[Len(s) + i] = t[i]
<1>1. Len(s) \in Nat /\ Len(t) \in Nat
  BY LenProperties
<1>2. /\ s \o t \in Seq(High) /\ Len(s \o t) = Len(s) + Len(t)
      /\ \A i \in 1 .. Len(s) + Len(t) : (s \o t)[i] = IF i <= Len(s) THEN s[i] ELSE t[i - Len(s)]
  BY ConcatProperties
<1>3. \A i \in 1 .. Len(s) : i \in 1 .. Len(s) + Len(t) /\ i <= Len(s)
  BY <1>1
<1>4. \A i \in 1 .. Len(t) : /\ Len(s) + i \in 1 .. Len(s) + Len(t)
                             /\ ~(Len(s) + i <= Len(s)) /\ (Len(s) + i) - Len(s) = i
  BY <1>1
<1>5. \A i \in 1 .. Len(s) : (s \o t)[i] = s[i]
  BY <1>2, <1>3
<1>6. ASSUME NEW i \in 1 .. Len(t) PROVE (s \o t)[Len(s) + i] = t[i]
  <2>1. (s \o t)[Len(s) + i] = IF Len(s) + i <= Len(s) THEN s[Len(s) + i] ELSE t[(Len(s) + i) - Len(s)]
    BY <1>2, <1>4
  <2> QED
    BY <1>4, <2>1
<1> QED
  BY <1>1, <1>2, <1>5, <1>6

(* w is s, of length m, with t, of length n, after it.                    *)
Follows(w, s, m, t, n) ==
  /\ w \in Seq(High) /\ Len(w) = m + n
  /\ \A i \in 1 .. m : w[i] = s[i]
  /\ \A i \in 1 .. n : w[m + i] = t[i]

LEMMA JoinedAt == ASSUME NEW s \in Seq(High), NEW t \in Seq(High)
                  PROVE  Follows(s \o t, s, Len(s), t, Len(t))
BY Joined, Zenon DEF Follows

LEMMA FollowedBy ==
  ASSUME NEW s \in Seq(High), NEW t \in Seq(High), NEW w, w = s \o t,
         NEW m, NEW n, Len(s) = m, Len(t) = n
  PROVE  Follows(w, s, m, t, n)
<1>1. Follows(s \o t, s, Len(s), t, Len(t))
  BY JoinedAt
<1> QED
  BY <1>1, Zenon

LEMMA TwoJoined ==
  ASSUME NEW s \in Seq(High), NEW d \in High, NEW e \in High
  PROVE  Follows(s \o <<d, e>>, s, Len(s), <<d, e>>, 2)
<1>1. <<d, e>> \in Seq(High) /\ Len(<<d, e>>) = 2
  OBVIOUS
<1>2. Follows(s \o <<d, e>>, s, Len(s), <<d, e>>, Len(<<d, e>>))
  BY <1>1, JoinedAt, Zenon
<1> QED
  BY <1>1, <1>2, Zenon

LEMMA TwoOf ==
  1 \in 1 .. 2 /\ 2 \in 1 .. 2 /\ \A d, e : <<d, e>>[1] = d /\ <<d, e>>[2] = e
OBVIOUS

(* The byte of a sync field.                                               *)
FF == 255

IsSync(w, n) ==
  /\ w \in Seq(High) /\ Len(w) = n
  /\ \A i \in 1 .. n : w[i] = FF

LEMMA IsSequence == ASSUME NEW S, NEW n \in Nat, NEW f \in [1 .. n -> S] PROVE f \in Seq(S)
BY SeqDef

LEMMA SyncBytes == ASSUME NEW n \in Nat PROVE IsSync(write_sync(n), n)
<1>1. write_sync(n) = [k \in 1 .. n |-> 255]
  BY DEF write_sync
<1>2. write_sync(n) \in Seq(High)
  <2>1. [k \in 1 .. n |-> 255] \in [1 .. n -> High]
    BY DEF High
  <2> QED
    BY <1>1, <2>1, IsSequence
<1>3. Len(write_sync(n)) = n
  BY <1>1
<1>4. \A i \in 1 .. n : write_sync(n)[i] = FF
  BY <1>1 DEF FF
<1> QED
  BY <1>2, <1>3, <1>4, Zenon DEF IsSync

Pair(x) == <<Or(x \div 2, 170), Or(x, 170)>>

LEMMA PairType ==
  ASSUME NEW x \in Int
  PROVE  /\ Or(x \div 2, 170) \in High /\ Or(x, 170) \in High
         /\ Or(x \div 2, 170) # 213 /\ Or(x, 170) # 213
<1>1. x \div 2 \in Int
  OBVIOUS
<1> QED
  BY <1>1, OrClock DEF High

IsAddress(w, t, s) ==
  /\ w \in Seq(High) /\ Len(w) = 14
  /\ w[1] = 213 /\ w[2] = 170 /\ w[3] = 150
  /\ w[4] = Or(254 \div 2, 170) /\ w[5] = Or(254, 170)
  /\ w[6] = Or(t \div 2, 170) /\ w[7] = Or(t, 170)
  /\ w[8] = Or(s \div 2, 170) /\ w[9] = Or(s, 170)
  /\ w[10] = Or(Xor(Xor(254, t), s) \div 2, 170) /\ w[11] = Or(Xor(Xor(254, t), s), 170)
  /\ w[12] = 222 /\ w[13] = 170 /\ w[14] = 235

LEMMA AddressField ==
  ASSUME NEW t \in 0 .. 34, NEW s \in 0 .. 15
  PROVE  IsAddress(write_address_field(t, s), t, s)
<1> DEFINE w == write_address_field(t, s)
           c == Xor(Xor(254, t), s)
           b == Or(254 \div 2, 170)
           d == Or(254, 170)
           e == Or(t \div 2, 170)
           f == Or(t, 170)
           g == Or(s \div 2, 170)
           h == Or(s, 170)
           k == Or(c \div 2, 170)
           l == Or(c, 170)
<1>1. w = <<213, 170, 150>> \o <<b, d>> \o <<e, f>> \o <<g, h>> \o <<k, l>> \o <<222, 170, 235>>
  BY DEF write_address_field, FM_encode, VOLUME_NUMBER
<1>2. /\ b \in High /\ d \in High /\ e \in High /\ f \in High
      /\ g \in High /\ h \in High /\ k \in High /\ l \in High
  <2>1. 254 \in Int /\ t \in Int /\ s \in Int
    OBVIOUS
  <2>2. c \in Int
    <3>1. Xor(254, t) \in Int
      BY <2>1, XorType
    <3> QED
      BY <2>1, <3>1, XorType
  <2> HIDE DEF c
  <2> QED
    BY <2>1, <2>2, PairType
<1> HIDE DEF w, c, b, d, e, f, g, h, k, l
<1>3. 213 \in High /\ 170 \in High /\ 150 \in High /\ 222 \in High /\ 235 \in High
  BY DEF High
<1> DEFINE z == <<222, 170, 235>>
           s0 == <<213, 170, 150>>
           s1 == s0 \o <<b, d>>
           s2 == s1 \o <<e, f>>
           s3 == s2 \o <<g, h>>
           s4 == s3 \o <<k, l>>
<1>4. s0 \in Seq(High) /\ Len(s0) = 3 /\ s0[1] = 213 /\ s0[2] = 170 /\ s0[3] = 150
  BY <1>3
<1>5. z \in Seq(High) /\ Len(z) = 3 /\ z[1] = 222 /\ z[2] = 170 /\ z[3] = 235
  BY <1>3
<1>6. w = s4 \o z
  BY <1>1
<1> HIDE DEF s0, z
<1>7. /\ s1 \in Seq(High) /\ Len(s1) = 5
      /\ s1[1] = 213 /\ s1[2] = 170 /\ s1[3] = 150 /\ s1[4] = b /\ s1[5] = d
  <2>1. /\ s1 \in Seq(High) /\ Len(s1) = 3 + 2 /\ (\A i \in 1 .. 3 : s1[i] = s0[i])
        /\ s1[3 + 1] = b /\ s1[3 + 2] = d
    <3>1. b \in High /\ d \in High
      BY <1>2, Zenon
    <3>2. s0 \in Seq(High) /\ Len(s0) = 3
      BY <1>4, Zenon
    <3>3. Follows(s1, s0, Len(s0), <<b, d>>, 2)
      BY <3>1, <3>2, TwoJoined, Zenon
    <3>4. Follows(s1, s0, 3, <<b, d>>, 2)
      BY <3>2, <3>3, Zenon
    <3> HIDE DEF s1
    <3>5. s1 \in Seq(High) /\ Len(s1) = 3 + 2 /\ (\A i \in 1 .. 3 : s1[i] = s0[i])
      BY <3>4, Zenon DEF Follows
    <3>6. \A i \in 1 .. 2 : s1[3 + i] = <<b, d>>[i]
      BY <3>4, Zenon DEF Follows
    <3>7. s1[3 + 1] = b /\ s1[3 + 2] = d
      BY <3>6, TwoOf, Zenon
    <3> QED
      BY <3>5, <3>7, Zenon
  <2> HIDE DEF s1
  <2> QED
    BY <1>4, <2>1
<1> HIDE DEF s1
<1>8. /\ s2 \in Seq(High) /\ Len(s2) = 7
      /\ s2[1] = 213 /\ s2[2] = 170 /\ s2[3] = 150 /\ s2[4] = b /\ s2[5] = d
      /\ s2[6] = e /\ s2[7] = f
  <2>1. /\ s2 \in Seq(High) /\ Len(s2) = 5 + 2 /\ (\A i \in 1 .. 5 : s2[i] = s1[i])
        /\ s2[5 + 1] = e /\ s2[5 + 2] = f
    <3>1. e \in High /\ f \in High
      BY <1>2, Zenon
    <3>2. s1 \in Seq(High) /\ Len(s1) = 5
      BY <1>7, Zenon
    <3>3. Follows(s2, s1, Len(s1), <<e, f>>, 2)
      BY <3>1, <3>2, TwoJoined, Zenon
    <3>4. Follows(s2, s1, 5, <<e, f>>, 2)
      BY <3>2, <3>3, Zenon
    <3> HIDE DEF s2
    <3>5. s2 \in Seq(High) /\ Len(s2) = 5 + 2 /\ (\A i \in 1 .. 5 : s2[i] = s1[i])
      BY <3>4, Zenon DEF Follows
    <3>6. \A i \in 1 .. 2 : s2[5 + i] = <<e, f>>[i]
      BY <3>4, Zenon DEF Follows
    <3>7. s2[5 + 1] = e /\ s2[5 + 2] = f
      BY <3>6, TwoOf, Zenon
    <3> QED
      BY <3>5, <3>7, Zenon
  <2> HIDE DEF s2
  <2> QED
    BY <1>7, <2>1
<1> HIDE DEF s2
<1>9. /\ s3 \in Seq(High) /\ Len(s3) = 9
      /\ s3[1] = 213 /\ s3[2] = 170 /\ s3[3] = 150 /\ s3[4] = b /\ s3[5] = d
      /\ s3[6] = e /\ s3[7] = f /\ s3[8] = g /\ s3[9] = h
  <2>1. /\ s3 \in Seq(High) /\ Len(s3) = 7 + 2 /\ (\A i \in 1 .. 7 : s3[i] = s2[i])
        /\ s3[7 + 1] = g /\ s3[7 + 2] = h
    <3>1. g \in High /\ h \in High
      BY <1>2, Zenon
    <3>2. s2 \in Seq(High) /\ Len(s2) = 7
      BY <1>8, Zenon
    <3>3. Follows(s3, s2, Len(s2), <<g, h>>, 2)
      BY <3>1, <3>2, TwoJoined, Zenon
    <3>4. Follows(s3, s2, 7, <<g, h>>, 2)
      BY <3>2, <3>3, Zenon
    <3> HIDE DEF s3
    <3>5. s3 \in Seq(High) /\ Len(s3) = 7 + 2 /\ (\A i \in 1 .. 7 : s3[i] = s2[i])
      BY <3>4, Zenon DEF Follows
    <3>6. \A i \in 1 .. 2 : s3[7 + i] = <<g, h>>[i]
      BY <3>4, Zenon DEF Follows
    <3>7. s3[7 + 1] = g /\ s3[7 + 2] = h
      BY <3>6, TwoOf, Zenon
    <3> QED
      BY <3>5, <3>7, Zenon
  <2> HIDE DEF s3
  <2> QED
    BY <1>8, <2>1
<1> HIDE DEF s3
<1>10. /\ s4 \in Seq(High) /\ Len(s4) = 11
       /\ s4[1] = 213 /\ s4[2] = 170 /\ s4[3] = 150 /\ s4[4] = b /\ s4[5] = d
       /\ s4[6] = e /\ s4[7] = f /\ s4[8] = g /\ s4[9] = h /\ s4[10] = k /\ s4[11] = l
  <2>1. /\ s4 \in Seq(High) /\ Len(s4) = 9 + 2 /\ (\A i \in 1 .. 9 : s4[i] = s3[i])
        /\ s4[9 + 1] = k /\ s4[9 + 2] = l
    <3>1. k \in High /\ l \in High
      BY <1>2, Zenon
    <3>2. s3 \in Seq(High) /\ Len(s3) = 9
      BY <1>9, Zenon
    <3>3. Follows(s4, s3, Len(s3), <<k, l>>, 2)
      BY <3>1, <3>2, TwoJoined, Zenon
    <3>4. Follows(s4, s3, 9, <<k, l>>, 2)
      BY <3>2, <3>3, Zenon
    <3> HIDE DEF s4
    <3>5. s4 \in Seq(High) /\ Len(s4) = 9 + 2 /\ (\A i \in 1 .. 9 : s4[i] = s3[i])
      BY <3>4, Zenon DEF Follows
    <3>6. \A i \in 1 .. 2 : s4[9 + i] = <<k, l>>[i]
      BY <3>4, Zenon DEF Follows
    <3>7. s4[9 + 1] = k /\ s4[9 + 2] = l
      BY <3>6, TwoOf, Zenon
    <3> QED
      BY <3>5, <3>7, Zenon
  <2> HIDE DEF s4
  <2> QED
    BY <1>9, <2>1
<1> HIDE DEF s4
<1>11. /\ w \in Seq(High) /\ Len(w) = 11 + 3 /\ (\A i \in 1 .. 11 : w[i] = s4[i])
       /\ \A i \in 1 .. 3 : w[11 + i] = z[i]
  <2>1. Follows(w, s4, 11, z, 3)
    <3>1. s4 \in Seq(High) /\ z \in Seq(High) /\ Len(s4) = 11 /\ Len(z) = 3
      BY <1>5, <1>10, Zenon
    <3>2. Follows(s4 \o z, s4, Len(s4), z, Len(z))
      BY <3>1, JoinedAt, Zenon
    <3> QED
      BY <1>6, <3>1, <3>2, Zenon
  <2> QED
    BY <2>1, Zenon DEF Follows
<1>12. /\ w \in Seq(High) /\ Len(w) = 14
       /\ w[1] = 213 /\ w[2] = 170 /\ w[3] = 150 /\ w[4] = b /\ w[5] = d
       /\ w[6] = e /\ w[7] = f /\ w[8] = g /\ w[9] = h /\ w[10] = k /\ w[11] = l
  BY <1>10, <1>11
<1>13. w[12] = 222 /\ w[13] = 170 /\ w[14] = 235
  <2>1. w[11 + 1] = z[1] /\ w[11 + 2] = z[2] /\ w[11 + 3] = z[3]
    BY <1>11
  <2> QED
    BY <1>5, <2>1
<1> QED
  BY <1>12, <1>13, Zenon DEF IsAddress, w, c, b, d, e, f, g, h, k, l

LEMMA InPage ==
  ASSUME NEW page \in Page, NEW i \in 0 .. 255
  PROVE  page[i] \in 0 .. 255
BY DEF Page

(* The 342 values of a data field, from 1.                                 *)
Value(low, page, k) ==
  IF k = 0 THEN 0 ELSE IF k <= 86 THEN low[86 - k] ELSE page[k - 87] \div 4

LEMMA ValueType ==
  ASSUME NEW low \in Groups, NEW page \in Page, NEW k \in 0 .. 342
  PROVE  Value(low, page, k) \in 0 .. 63
<1>1. CASE k = 0
  BY <1>1 DEF Value
<1>2. CASE k \in 1 .. 86
  <2>1. 86 - k \in 0 .. 85 /\ k # 0 /\ k <= 86
    BY <1>2
  <2>2. low[86 - k] \in 0 .. 63
    BY <2>1 DEF Groups
  <2> QED
    BY <2>1, <2>2 DEF Value
<1>3. CASE k > 86
  <2>1. k - 87 \in 0 .. 255 /\ k # 0 /\ ~(k <= 86)
    BY <1>3
  <2>2. page[k - 87] \in 0 .. 255
    BY <2>1, InPage
  <2>3. page[k - 87] \div 4 \in 0 .. 63
    BY <2>2
  <2> QED
    BY <2>1, <2>3 DEF Value
<1> QED
  BY <1>1, <1>2, <1>3

LEMMA GcrType == \A v \in 0 .. 63 : GCR(v) \in High /\ GCR(v) # 213
<1>1. \A c \in Table : c \in High /\ c # 213
  BY DEF Table, High
<1> QED
  BY <1>1, TableSteps

IsData(w, low, page) ==
  /\ w \in Seq(High) /\ Len(w) = 349
  /\ w[1] = 213 /\ w[2] = 170 /\ w[3] = 173
  /\ \A k \in 1 .. 342 : w[3 + k] = GCR(Xor(Value(low, page, k - 1), Value(low, page, k)))
  /\ w[346] = GCR(Value(low, page, 342))
  /\ w[347] = 222 /\ w[348] = 170 /\ w[349] = 235

LEMMA DataField ==
  ASSUME NEW low \in Groups, NEW page \in Page
  PROVE  IsData(write_data_field(low, page), low, page)
<1> DEFINE w == write_data_field(low, page)
           m == [k \in 1 .. 342 |-> GCR(Xor(Value(low, page, k - 1), Value(low, page, k)))]
           g == GCR(Value(low, page, 342))
           x == <<213, 170, 173>>
           y == <<g, 222, 170, 235>>
<1>1. w = x \o m \o y
  BY DEF write_data_field, Value
<1>2. m \in Seq(High) /\ Len(m) = 342
  <2>1. ASSUME NEW k \in 1 .. 342
        PROVE  GCR(Xor(Value(low, page, k - 1), Value(low, page, k))) \in High
    <3>1. k - 1 \in 0 .. 342 /\ k \in 0 .. 342
      OBVIOUS
    <3>2. Value(low, page, k - 1) \in 0 .. 63 /\ Value(low, page, k) \in 0 .. 63
      BY <3>1, ValueType
    <3> QED
      BY <3>2, XorOfSix, GcrType
  <2>2. m \in [1 .. 342 -> High]
    BY <2>1
  <2>3. 342 \in Nat
    OBVIOUS
  <2>4. m \in Seq(High)
    <3> HIDE DEF m
    <3> QED
      BY <2>2, <2>3, IsSequence
  <2> QED
    BY <2>3, <2>4
<1>3. x \in Seq(High) /\ Len(x) = 3 /\ x[1] = 213 /\ x[2] = 170 /\ x[3] = 173
  <2>1. 213 \in High /\ 170 \in High /\ 173 \in High
    BY DEF High
  <2> QED
    BY <2>1
<1>4. y \in Seq(High) /\ Len(y) = 4 /\ y[1] = g /\ y[2] = 222 /\ y[3] = 170 /\ y[4] = 235
  <2>1. g \in High
    <3>1. 342 \in 0 .. 342
      OBVIOUS
    <3> QED
      BY <3>1, ValueType, GcrType
  <2>2. 222 \in High /\ 170 \in High /\ 235 \in High
    BY DEF High
  <2> HIDE DEF g
  <2> QED
    BY <2>1, <2>2
<1>5. \A k \in 1 .. 342 : m[k] = GCR(Xor(Value(low, page, k - 1), Value(low, page, k)))
  OBVIOUS
<1> HIDE DEF w, m, x, y, g
<1>6. /\ x \o m \in Seq(High) /\ Len(x \o m) = 345
      /\ \A i \in 1 .. 3 : (x \o m)[i] = x[i]
      /\ \A i \in 1 .. 342 : (x \o m)[3 + i] = m[i]
  <2>1. /\ x \o m \in Seq(High) /\ Len(x \o m) = 3 + 342
        /\ \A i \in 1 .. 3 : (x \o m)[i] = x[i]
        /\ \A i \in 1 .. 342 : (x \o m)[3 + i] = m[i]
    <3>1. Follows(x \o m, x, 3, m, 342)
      <4>0. x \in Seq(High) /\ m \in Seq(High)
        BY <1>2, <1>3, Zenon
      <4>1. Follows(x \o m, x, Len(x), m, Len(m))
        BY <4>0, JoinedAt
      <4> QED
        BY <1>2, <1>3, <4>1, Zenon
    <3> QED
      BY <3>1, Zenon DEF Follows
  <2>2. 3 + 342 = 345
    OBVIOUS
  <2> QED
    BY <2>1, <2>2, Zenon
<1> DEFINE v == x \o m
<1> HIDE DEF v
<1>7. /\ w \in Seq(High) /\ Len(w) = 349
      /\ \A i \in 1 .. 345 : w[i] = v[i]
      /\ \A i \in 1 .. 4 : w[345 + i] = y[i]
  <2>0. w = v \o y /\ v \in Seq(High) /\ Len(v) = 345
    BY <1>1, <1>6, Zenon DEF v
  <2>1. /\ w \in Seq(High) /\ Len(w) = 345 + 4
        /\ \A i \in 1 .. 345 : w[i] = v[i]
        /\ \A i \in 1 .. 4 : w[345 + i] = y[i]
    <3>1. Follows(w, v, 345, y, 4)
      <4>1. v \in Seq(High) /\ y \in Seq(High) /\ Len(v) = 345 /\ Len(y) = 4
        BY <1>4, <2>0, Zenon
      <4>2. Follows(v \o y, v, Len(v), y, Len(y))
        <5>1. v \in Seq(High) /\ y \in Seq(High)
          BY <4>1, Zenon
        <5> QED
          BY <5>1, JoinedAt
      <4> QED
        BY <2>0, <4>1, <4>2, Zenon
    <3> QED
      BY <3>1, Zenon DEF Follows
  <2>2. 345 + 4 = 349
    OBVIOUS
  <2> QED
    BY <2>1, <2>2, Zenon
<1>8. (\A i \in 1 .. 3 : v[i] = x[i]) /\ \A i \in 1 .. 342 : v[3 + i] = m[i]
  BY <1>6, Zenon DEF v
<1>9. w[1] = 213 /\ w[2] = 170 /\ w[3] = 173
  <2>1. /\ 1 \in 1 .. 345 /\ 2 \in 1 .. 345 /\ 3 \in 1 .. 345
        /\ 1 \in 1 .. 3 /\ 2 \in 1 .. 3 /\ 3 \in 1 .. 3
    OBVIOUS
  <2>2. w[1] = v[1] /\ w[2] = v[2] /\ w[3] = v[3]
    BY <1>7, <2>1, ZenonT(40)
  <2>3. v[1] = x[1] /\ v[2] = x[2] /\ v[3] = x[3]
    BY <1>8, <2>1, Zenon
  <2> QED
    BY <1>3, <2>2, <2>3
<1>10. \A k \in 1 .. 342 : w[3 + k] = m[k]
  <2>1. ASSUME NEW k \in 1 .. 342 PROVE w[3 + k] = m[k]
    <3>1. 3 + k \in 1 .. 345
      OBVIOUS
    <3>2. w[3 + k] = v[3 + k] /\ v[3 + k] = m[k]
      BY <1>7, <1>8, <3>1, Zenon
    <3> QED
      BY <3>2, Zenon
  <2> QED
    BY <2>1, Zenon
<1>11. w[346] = g /\ w[347] = 222 /\ w[348] = 170 /\ w[349] = 235
  <2>1. /\ 1 \in 1 .. 4 /\ 2 \in 1 .. 4 /\ 3 \in 1 .. 4 /\ 4 \in 1 .. 4
    OBVIOUS
  <2>3. /\ 345 + 1 = 346 /\ 345 + 2 = 347 /\ 345 + 3 = 348 /\ 345 + 4 = 349
    OBVIOUS
  <2>2. w[345 + 1] = y[1] /\ w[345 + 2] = y[2] /\ w[345 + 3] = y[3] /\ w[345 + 4] = y[4]
    <3>1. \A i \in 1 .. 4 : w[345 + i] = y[i]
      BY <1>7, Zenon
    <3> QED
      BY <2>1, <3>1, ZenonT(40)
  <2> QED
    BY <1>4, <2>2, <2>3
<1>12. \A k \in 1 .. 342 : w[3 + k] = GCR(Xor(Value(low, page, k - 1), Value(low, page, k)))
  BY <1>5, <1>10, Zenon
<1>13. w \in Seq(High) /\ Len(w) = 349
  BY <1>7, Zenon
<1> QED
  BY <1>9, <1>11, <1>12, <1>13, Zenon DEF IsData, w, g

(* Byte i of a sector on a track, from 1.                                  *)
Byte(t, s, low, page, i) ==
  IF i <= 38 THEN FF
  ELSE IF i <= 52 THEN write_address_field(t, s)[i - 38]
  ELSE IF i <= 60 THEN FF
  ELSE write_data_field(low, page)[i - 60]

AllFollow(q, r, m, a, b, c, d) ==
  /\ \A i \in 1 .. m : q[i] = r[i]
  /\ \A i \in 1 .. 38 : q[m + i] = FF
  /\ \A i \in 1 .. 14 : q[m + 38 + i] = b[i]
  /\ \A i \in 1 .. 8 : q[m + 52 + i] = FF
  /\ \A i \in 1 .. 349 : q[m + 60 + i] = d[i]

LEMMA FourJoined ==
  ASSUME NEW m \in Nat, NEW r, NEW r1, NEW r2, NEW r3, NEW r4, NEW a, NEW b, NEW c, NEW d,
         Follows(r1, r, m, a, 38), Follows(r2, r1, m + 38, b, 14),
         Follows(r3, r2, m + 52, c, 8), Follows(r4, r3, m + 60, d, 349),
         IsSync(a, 38), IsSync(c, 8)
  PROVE  AllFollow(r4, r, m, a, b, c, d)
<1>1. (\A i \in 1 .. m : r1[i] = r[i]) /\ \A i \in 1 .. 38 : r1[m + i] = a[i]
  BY Zenon DEF Follows
<1>2. (\A i \in 1 .. m + 38 : r2[i] = r1[i]) /\ \A i \in 1 .. 14 : r2[m + 38 + i] = b[i]
  BY Zenon DEF Follows
<1>3. (\A i \in 1 .. m + 52 : r3[i] = r2[i]) /\ \A i \in 1 .. 8 : r3[m + 52 + i] = c[i]
  BY Zenon DEF Follows
<1>4. (\A i \in 1 .. m + 60 : r4[i] = r3[i]) /\ \A i \in 1 .. 349 : r4[m + 60 + i] = d[i]
  BY Zenon DEF Follows
<1>5. \A i \in 1 .. m : r4[i] = r[i]
  <2>1. \A i \in 1 .. m : i \in 1 .. m + 38 /\ i \in 1 .. m + 52 /\ i \in 1 .. m + 60
    OBVIOUS
  <2> QED
    BY <1>1, <1>2, <1>3, <1>4, <2>1
<1>6. ASSUME NEW i \in 1 .. 38 PROVE r4[m + i] = FF
  <2>1. m + i \in 1 .. m + 38 /\ m + i \in 1 .. m + 52 /\ m + i \in 1 .. m + 60
    OBVIOUS
  <2>2. r4[m + i] = r3[m + i] /\ r3[m + i] = r2[m + i] /\ r2[m + i] = r1[m + i] /\ r1[m + i] = a[i]
    BY <1>1, <1>2, <1>3, <1>4, <2>1, Zenon
  <2>3. a[i] = FF
    BY Zenon DEF IsSync
  <2>4. r4[m + i] = a[i]
    BY <2>2, Zenon
  <2> QED
    BY <2>3, <2>4, Zenon
<1>7. ASSUME NEW i \in 1 .. 14 PROVE r4[m + 38 + i] = b[i]
  <2>1. m + 38 + i \in 1 .. m + 52 /\ m + 38 + i \in 1 .. m + 60
    OBVIOUS
  <2>2. r4[m + 38 + i] = r3[m + 38 + i] /\ r3[m + 38 + i] = r2[m + 38 + i] /\ r2[m + 38 + i] = b[i]
    BY <1>2, <1>3, <1>4, <2>1, Zenon
  <2> QED
    BY <2>2, Zenon
<1>8. ASSUME NEW i \in 1 .. 8 PROVE r4[m + 52 + i] = FF
  <2>1. m + 52 + i \in 1 .. m + 60
    OBVIOUS
  <2>2. r4[m + 52 + i] = r3[m + 52 + i] /\ r3[m + 52 + i] = c[i]
    BY <1>3, <1>4, <2>1, Zenon
  <2>3. c[i] = FF
    BY Zenon DEF IsSync
  <2>4. r4[m + 52 + i] = c[i]
    BY <2>2, Zenon
  <2> QED
    BY <2>3, <2>4, Zenon
<1> QED
  BY <1>4, <1>5, <1>6, <1>7, <1>8, Zenon DEF AllFollow

FieldTypes(t, s, low, page) ==
  /\ write_address_field(t, s) \in Seq(High) /\ Len(write_address_field(t, s)) = 14
  /\ write_data_field(low, page) \in Seq(High) /\ Len(write_data_field(low, page)) = 349
  /\ write_sync(38) \in Seq(High) /\ Len(write_sync(38)) = 38
  /\ write_sync(8) \in Seq(High) /\ Len(write_sync(8)) = 8
  /\ IsSync(write_sync(38), 38) /\ IsSync(write_sync(8), 8)

LEMMA FieldsTyped ==
  ASSUME NEW t \in 0 .. 34, NEW s \in 0 .. 15, NEW low \in Groups, NEW page \in Page
  PROVE  FieldTypes(t, s, low, page)
<1>1. write_address_field(t, s) \in Seq(High) /\ Len(write_address_field(t, s)) = 14
  <2>1. IsAddress(write_address_field(t, s), t, s)
    BY AddressField
  <2> QED
    BY <2>1, Zenon DEF IsAddress
<1>2. write_data_field(low, page) \in Seq(High) /\ Len(write_data_field(low, page)) = 349
  <2>1. IsData(write_data_field(low, page), low, page)
    BY DataField
  <2> QED
    BY <2>1, Zenon DEF IsData
<1>3. 38 \in Nat /\ 8 \in Nat
  OBVIOUS
<1>4. /\ write_sync(38) \in Seq(High) /\ Len(write_sync(38)) = 38
      /\ IsSync(write_sync(38), 38)
  <2>1. IsSync(write_sync(38), 38)
    BY <1>3, SyncBytes, Zenon
  <2> QED
    BY <2>1, Zenon DEF IsSync
<1>5. /\ write_sync(8) \in Seq(High) /\ Len(write_sync(8)) = 8
      /\ IsSync(write_sync(8), 8)
  <2>1. IsSync(write_sync(8), 8)
    BY <1>3, SyncBytes, Zenon
  <2> QED
    BY <2>1, Zenon DEF IsSync
<1> QED
  BY <1>1, <1>2, <1>4, <1>5, Zenon DEF FieldTypes

Appended(q, r, m, t, s, low, page) ==
  /\ q \in Seq(High) /\ Len(q) = m + 409
  /\ \A i \in 1 .. m : q[i] = r[i]
  /\ \A i \in 1 .. 409 : q[m + i] = Byte(t, s, low, page, i)

LEMMA SectorAppended ==
  ASSUME NEW r \in Seq(High), NEW m \in Nat, Len(r) = m,
         NEW t \in 0 .. 34, NEW s \in 0 .. 15, NEW low \in Groups, NEW page \in Page
  PROVE  Appended(r \o write_sync(38) \o write_address_field(t, s)
                    \o write_sync(8) \o write_data_field(low, page),
                  r, m, t, s, low, page)
<1> DEFINE a == write_sync(38)
           b == write_address_field(t, s)
           c == write_sync(8)
           d == write_data_field(low, page)
           r1 == r \o a
           r2 == r1 \o b
           r3 == r2 \o c
           r4 == r3 \o d
<1>1. /\ a \in Seq(High) /\ Len(a) = 38 /\ IsSync(a, 38) /\ IsSync(c, 8)
      /\ b \in Seq(High) /\ Len(b) = 14
      /\ c \in Seq(High) /\ Len(c) = 8
      /\ d \in Seq(High) /\ Len(d) = 349
  <2>1. FieldTypes(t, s, low, page)
    BY FieldsTyped
  <2> QED
    BY <2>1, Zenon DEF FieldTypes
<1>2. r4 = r \o write_sync(38) \o write_address_field(t, s) \o write_sync(8) \o write_data_field(low, page)
  BY Zenon
<1>3. /\ (m + 38) + 14 = m + 52 /\ (m + 52) + 8 = m + 60 /\ (m + 60) + 349 = m + 409
  OBVIOUS
<1> HIDE DEF a, b, c, d
<1>4. Follows(r1, r, m, a, 38) /\ r1 \in Seq(High) /\ Len(r1) = m + 38
  <2>1. Follows(r1, r, Len(r), a, Len(a))
    BY <1>1, JoinedAt, ZenonT(40)
  <2>2. Follows(r1, r, m, a, 38)
    BY <1>1, <2>1, Zenon
  <2> HIDE DEF r1
  <2> QED
    BY <2>2, Zenon DEF Follows
<1> HIDE DEF r1
<1>5. Follows(r2, r1, m + 38, b, 14) /\ r2 \in Seq(High) /\ Len(r2) = m + 52
  <2>1. Follows(r2, r1, Len(r1), b, Len(b))
    BY <1>1, <1>4, JoinedAt, ZenonT(40)
  <2>2. Follows(r2, r1, m + 38, b, 14)
    BY <1>1, <1>4, <2>1, Zenon
  <2> HIDE DEF r2
  <2>3. r2 \in Seq(High) /\ Len(r2) = (m + 38) + 14
    BY <2>2, Zenon DEF Follows
  <2> QED
    BY <1>3, <2>2, <2>3, Zenon
<1> HIDE DEF r2
<1>6. Follows(r3, r2, m + 52, c, 8) /\ r3 \in Seq(High) /\ Len(r3) = m + 60
  <2>1. Follows(r3, r2, Len(r2), c, Len(c))
    BY <1>1, <1>5, JoinedAt, ZenonT(40)
  <2>2. Follows(r3, r2, m + 52, c, 8)
    BY <1>1, <1>5, <2>1, Zenon
  <2> HIDE DEF r3
  <2>3. r3 \in Seq(High) /\ Len(r3) = (m + 52) + 8
    BY <2>2, Zenon DEF Follows
  <2> QED
    BY <1>3, <2>2, <2>3, Zenon
<1> HIDE DEF r3
<1>7. Follows(r4, r3, m + 60, d, 349) /\ r4 \in Seq(High) /\ Len(r4) = m + 409
  <2>1. Follows(r4, r3, Len(r3), d, Len(d))
    BY <1>1, <1>6, JoinedAt, ZenonT(40)
  <2>2. Follows(r4, r3, m + 60, d, 349)
    BY <1>1, <1>6, <2>1, Zenon
  <2> HIDE DEF r4
  <2>3. r4 \in Seq(High) /\ Len(r4) = (m + 60) + 349
    BY <2>2, Zenon DEF Follows
  <2> QED
    BY <1>3, <2>2, <2>3, Zenon
<1> HIDE DEF r4
<1>8. /\ \A i \in 1 .. m : r4[i] = r[i]
      /\ \A i \in 1 .. 38 : r4[m + i] = FF
      /\ \A i \in 1 .. 14 : r4[m + 38 + i] = b[i]
      /\ \A i \in 1 .. 8 : r4[m + 52 + i] = FF
      /\ \A i \in 1 .. 349 : r4[m + 60 + i] = d[i]
  <2>1. AllFollow(r4, r, m, a, b, c, d)
    <3>1. /\ Follows(r1, r, m, a, 38) /\ Follows(r2, r1, m + 38, b, 14)
          /\ Follows(r3, r2, m + 52, c, 8) /\ Follows(r4, r3, m + 60, d, 349)
          /\ IsSync(a, 38) /\ IsSync(c, 8)
      BY <1>1, <1>4, <1>5, <1>6, <1>7, Zenon
    <3> QED
      BY <3>1, FourJoined
  <2> QED
    BY <2>1, Zenon DEF AllFollow
<1>9. ASSUME NEW i \in 1 .. 409 PROVE r4[m + i] = Byte(t, s, low, page, i)
  <2>1. CASE i <= 38
    <3>1. i \in 1 .. 38
      BY <2>1
    <3>2. r4[m + i] = FF
      BY <1>8, <3>1, Zenon
    <3> QED
      BY <2>1, <3>2 DEF Byte
  <2>2. CASE ~(i <= 38) /\ i <= 52
    <3>1. i - 38 \in 1 .. 14 /\ m + 38 + (i - 38) = m + i
      BY <2>2
    <3>2. r4[m + 38 + (i - 38)] = b[i - 38]
      BY <1>8, <3>1
    <3>3. r4[m + i] = b[i - 38]
      BY <3>1, <3>2
    <3> QED
      BY <2>2, <3>3 DEF Byte, b
  <2>3. CASE ~(i <= 52) /\ i <= 60
    <3>1. i - 52 \in 1 .. 8 /\ m + 52 + (i - 52) = m + i /\ ~(i <= 38)
      BY <2>3
    <3>2. r4[m + 52 + (i - 52)] = FF
      BY <1>8, <3>1
    <3>3. r4[m + i] = FF
      BY <3>1, <3>2
    <3> QED
      BY <2>3, <3>1, <3>3 DEF Byte
  <2>4. CASE ~(i <= 60)
    <3>1. i - 60 \in 1 .. 349 /\ m + 60 + (i - 60) = m + i /\ ~(i <= 38) /\ ~(i <= 52)
      BY <2>4
    <3>2. r4[m + 60 + (i - 60)] = d[i - 60]
      BY <1>8, <3>1
    <3>3. r4[m + i] = d[i - 60]
      BY <3>1, <3>2
    <3> QED
      BY <2>4, <3>1, <3>3 DEF Byte, d
  <2> QED
    BY <2>1, <2>2, <2>3, <2>4
<1> QED
  BY <1>2, <1>7, <1>8, <1>9, Zenon DEF Appended

-----------------------------------------------------------------------------
(* The invariant: what has been written of the track so far is, sector by  *)
(* sector, what the image gives.                                           *)

PageOf(i, t, s) == [n \in 0 .. 255 |-> Data(i, t, Logical_Sector(s) * SECTOR_SIZE + n)]

Written(r, i, t, s) ==
  \A n \in 1 .. 409 : r[409 * s + n] = Byte(t, s, Packed(PageOf(i, t, s)), PageOf(i, t, s), n)

(* What the sectors take of a track, and what is left.                     *)
Used == 6544
Gap == 112

Types ==
  /\ image \in Images /\ length \in Lengths
  /\ pc \in {"read", "encode", "write", "done", "failed"}
  /\ track \in 0 .. 35 /\ sector \in 0 .. 16 /\ nib = track
  /\ raw \in Seq(High) /\ GCR_buffer2 \in Groups
TrackLeft == pc \in {"read", "encode", "write"} => track \in 0 .. 34
Room == Len(raw) <= Used + Gap
Filling == pc = "encode" => Len(raw) = 409 * sector
Full == pc = "write" => /\ sector = 16 /\ Len(raw) = Used + Gap
                        /\ \A n \in 1 .. Gap : raw[Used + n] = FF
Sectors == pc \in {"encode", "write"} => \A s \in 0 .. 15 : s < sector => Written(raw, image, track, s)

IInv == Types /\ TrackLeft /\ Room /\ Filling /\ Full /\ Sectors

LEMMA LogicalType == \A s \in 0 .. 15 : Logical_Sector(s) \in 0 .. 15
BY DEF Logical_Sector

LEMMA PageType ==
  ASSUME NEW i \in Images, NEW t \in 0 .. 34, NEW s \in 0 .. 15
  PROVE  PageOf(i, t, s) \in Page
<1>1. ASSUME NEW n \in 0 .. 255 PROVE Data(i, t, Logical_Sector(s) * SECTOR_SIZE + n) \in 0 .. 255
  <2> DEFINE x == Logical_Sector(s) * SECTOR_SIZE + n
  <2>1. Logical_Sector(s) \in 0 .. 15
    BY LogicalType
  <2>2. x \in 0 .. 4095
    BY <2>1 DEF SECTOR_SIZE
  <2>3. t \in 0 .. (TRACKS - 1) /\ x \in 0 .. (DOS_TRACK_BYTES - 1)
    BY <2>2 DEF TRACKS, DOS_TRACK_BYTES, SECTORS, SECTOR_SIZE
  <2> HIDE DEF x
  <2>4. Data(i, t, x) \in 0 .. 255
    BY <2>3, ImageAssumption, Zenon DEF ImageAssumption
  <2> QED
    BY <2>4, Zenon DEF x
<1> QED
  BY <1>1 DEF PageOf, Page

LEMMA InvInit == Init => IInv
<1> SUFFICES ASSUME Init PROVE IInv
  OBVIOUS
<1>1. raw = <<>> /\ Len(raw) = 0 /\ raw \in Seq(High) /\ sector = 0 /\ track = 0 /\ pc = "read"
  BY DEF Init
<1>2. GCR_buffer2 \in Groups
  BY DEF Init, Groups
<1>3. image \in Images /\ length \in Lengths /\ nib = track
  BY DEF Init
<1>4. Types
  BY <1>1, <1>2, <1>3 DEF Types
<1>5. TrackLeft /\ Filling /\ Full /\ Sectors
  BY <1>1 DEF TrackLeft, Filling, Full, Sectors
<1>6. Room
  BY <1>1 DEF Room, Used, Gap
<1> QED
  BY <1>4, <1>5, <1>6 DEF IInv

LEMMA InvReadTrack == IInv /\ ReadTrack => IInv'
<1> SUFFICES ASSUME IInv, ReadTrack PROVE IInv'
  OBVIOUS
<1> USE DEF IInv, ReadTrack
<1>1. /\ pc = "read" /\ image' = image /\ length' = length /\ track' = track
      /\ GCR_buffer2' = GCR_buffer2 /\ nib' = nib
      /\ \/ pc' = "encode" /\ raw' = <<>> /\ sector' = 0
         \/ pc' = "failed" /\ raw' = raw /\ sector' = sector
  OBVIOUS
<1>2. Types'
  <2>1. pc' \in {"read", "encode", "write", "done", "failed"}
    BY <1>1
  <2>2. sector' \in 0 .. 16
    BY <1>1 DEF Types
  <2>3. raw' \in Seq(High)
    <3>1. <<>> \in Seq(High) /\ raw \in Seq(High)
      BY DEF Types
    <3> QED
      BY <1>1, <3>1, Zenon
  <2> QED
    BY <1>1, <2>1, <2>2, <2>3 DEF Types
<1>3. TrackLeft' /\ Room' /\ Filling' /\ Full' /\ Sectors'
  <2>1. CASE pc' = "encode" /\ raw' = <<>> /\ sector' = 0
    <3>1. Len(raw') = 0 /\ \A s \in 0 .. 15 : ~(s < sector')
      BY <2>1
    <3>2. Room'
      BY <3>1 DEF Room, Used, Gap
    <3>3. Filling' /\ Full' /\ Sectors'
      BY <2>1, <3>1 DEF Filling, Full, Sectors
    <3>4. TrackLeft'
      BY <1>1 DEF TrackLeft
    <3> QED
      BY <3>2, <3>3, <3>4
  <2>2. CASE pc' = "failed" /\ raw' = raw /\ sector' = sector
    BY <1>1, <2>2 DEF TrackLeft, Room, Filling, Full, Sectors
  <2> QED
    BY <1>1, <2>1, <2>2
<1> QED
  BY <1>2, <1>3

LEMMA InvWriteSector == IInv /\ WriteSector => IInv'
<1> SUFFICES ASSUME IInv, WriteSector PROVE IInv'
  OBVIOUS
<1> DEFINE page == PageOf(image, track, sector)
           q == raw \o write_sync(38) \o write_address_field(track, sector)
                    \o write_sync(8) \o write_data_field(Packed(page), page)
<1>1. /\ pc = "encode" /\ sector < 16 /\ sector' = sector + 1
      /\ image' = image /\ length' = length /\ pc' = pc /\ track' = track /\ nib' = nib
  BY DEF WriteSector, SECTORS
<1>2. /\ image \in Images /\ length \in Lengths /\ track \in 0 .. 34 /\ sector \in 0 .. 15
      /\ raw \in Seq(High) /\ GCR_buffer2 \in Groups /\ nib = track
  BY <1>1 DEF IInv, Types, TrackLeft
<1>3. Len(raw) = 409 * sector /\ 409 * sector \in Nat
  BY <1>1, <1>2 DEF IInv, Filling
<1>4. page \in Page /\ Packed(page) \in Groups
  <2>1. page \in Page
    BY <1>2, PageType
  <2> HIDE DEF page
  <2> QED
    BY <2>1, PackedType
<1>5. GCR_buffer2' = Packed(page) /\ raw' = q
  <2>1. /\ GCR_buffer2' = encode62(GCR_buffer2, page)
        /\ raw' = raw \o write_sync(38) \o write_address_field(track, sector)
                      \o write_sync(8) \o write_data_field(encode62(GCR_buffer2, page), page)
    BY Zenon DEF WriteSector, PageOf
  <2> HIDE DEF page
  <2>2. encode62(GCR_buffer2, page) = Packed(page)
    BY <1>2, <1>4, EncodesPage
  <2> QED
    BY <2>1, <2>2, Zenon
<1>6. Appended(q, raw, 409 * sector, track, sector, Packed(page), page)
  <2> HIDE DEF page
  <2> QED
    BY <1>2, <1>3, <1>4, SectorAppended, ZenonT(40)
<1> HIDE DEF q
<1>7. /\ raw' \in Seq(High) /\ Len(raw') = 409 * sector + 409
      /\ \A n \in 1 .. 409 * sector : raw'[n] = raw[n]
      /\ \A n \in 1 .. 409 : raw'[409 * sector + n] = Byte(track, sector, Packed(page), page, n)
  <2> HIDE DEF page
  <2> QED
    BY <1>5, <1>6, Zenon DEF Appended
<1>8. Types'
  <2>1. sector' \in 0 .. 16 /\ track \in 0 .. 35
    BY <1>1, <1>2
  <2>2. GCR_buffer2' \in Groups
    BY <1>4, <1>5
  <2>3. pc' \in {"read", "encode", "write", "done", "failed"}
    BY <1>1
  <2>4. raw' \in Seq(High)
    BY <1>7
  <2>5. image' \in Images /\ length' \in Lengths /\ nib' = track'
    BY <1>1, <1>2
  <2>6. track' \in 0 .. 35
    BY <1>1, <2>1
  <2> QED
    BY <2>1, <2>2, <2>3, <2>4, <2>5, <2>6, Zenon DEF Types
<1>9. Room' /\ Filling' /\ TrackLeft' /\ Full'
  <2>1. 409 * sector + 409 = 409 * (sector + 1) /\ 409 * sector + 409 <= Used + Gap
    BY <1>2 DEF Used, Gap
  <2> QED
    BY <1>1, <1>2, <1>7, <2>1 DEF Room, Filling, TrackLeft, Full
<1>10. Sectors'
  <2> SUFFICES ASSUME NEW s \in 0 .. 15, s < sector' PROVE Written(raw', image, track, s)
    BY <1>1 DEF Sectors
  <2>1. CASE s = sector
    BY <1>7, <2>1, Zenon DEF Written
  <2>2. CASE s < sector
    <3>1. Written(raw, image, track, s)
      BY <1>1, <2>2 DEF IInv, Sectors
    <3>2. \A n \in 1 .. 409 : 409 * s + n \in 1 .. 409 * sector
      BY <1>2, <2>2
    <3>3. \A n \in 1 .. 409 : raw'[409 * s + n] = raw[409 * s + n]
      BY <1>7, <3>2, ZenonT(40)
    <3> QED
      BY <3>1, <3>3, ZenonT(40) DEF Written
  <2> QED
    BY <1>1, <1>2, <2>1, <2>2
<1> QED
  BY <1>8, <1>9, <1>10 DEF IInv

PadOf(q, r, m, n) ==
  /\ q \in Seq(High) /\ Len(q) = m + n
  /\ \A i \in 1 .. m : q[i] = r[i]
  /\ \A i \in 1 .. n : q[m + i] = FF

LEMMA Padded ==
  ASSUME NEW r \in Seq(High), NEW n \in Nat
  PROVE  PadOf(r \o write_sync(n), r, Len(r), n)
<1> DEFINE w == write_sync(n)
           q == r \o w
<1>1. IsSync(w, n)
  BY SyncBytes
<1> HIDE DEF w
<1>2. w \in Seq(High) /\ Len(w) = n /\ \A i \in 1 .. n : w[i] = FF
  BY <1>1, Zenon DEF IsSync
<1>3. Follows(q, r, Len(r), w, Len(w))
  BY <1>2, JoinedAt, Zenon
<1> HIDE DEF q
<1>4. Follows(q, r, Len(r), w, n)
  BY <1>2, <1>3, Zenon
<1>5. /\ q \in Seq(High) /\ Len(q) = Len(r) + n
      /\ \A i \in 1 .. Len(r) : q[i] = r[i]
      /\ \A i \in 1 .. n : q[Len(r) + i] = w[i]
  BY <1>4, Zenon DEF Follows
<1>6. \A i \in 1 .. n : q[Len(r) + i] = FF
  BY <1>2, <1>5, Zenon
<1>7. PadOf(q, r, Len(r), n)
  BY <1>5, <1>6, Zenon DEF PadOf
<1> QED
  BY <1>7, Zenon DEF q, w

LEMMA InvPad == IInv /\ Pad => IInv'
<1> SUFFICES ASSUME IInv, Pad PROVE IInv'
  OBVIOUS
<1>1. /\ pc = "encode" /\ sector = 16 /\ pc' = "write" /\ sector' = sector
      /\ image' = image /\ length' = length /\ track' = track /\ nib' = nib
      /\ GCR_buffer2' = GCR_buffer2
  BY DEF Pad, SECTORS
<1>2. /\ Len(raw) = Used /\ raw \in Seq(High)
      /\ image \in Images /\ length \in Lengths /\ track \in 0 .. 35 /\ nib = track
      /\ GCR_buffer2 \in Groups
  BY <1>1 DEF IInv, Filling, Types, Used
<1>3. raw' = raw \o write_sync(Gap)
  <2>1. RAW_TRACK_BYTES - Used = Gap
    BY DEF Used, Gap, RAW_TRACK_BYTES
  <2>2. raw' = raw \o write_sync(RAW_TRACK_BYTES - Len(raw))
    BY Zenon DEF Pad, write_sync
  <2> QED
    BY <1>2, <2>1, <2>2, Zenon
<1>4. PadOf(raw', raw, Used, Gap)
  <2>1. Gap \in Nat
    BY DEF Gap
  <2>2. PadOf(raw \o write_sync(Gap), raw, Len(raw), Gap)
    BY <1>2, <2>1, Padded, Zenon
  <2> QED
    BY <1>2, <1>3, <2>2, Zenon
<1>5. raw' \in Seq(High)
  BY <1>4, Zenon DEF PadOf
<1>6. /\ Len(raw') = Used + Gap
      /\ \A n \in 1 .. Used : raw'[n] = raw[n]
  BY <1>4, Zenon DEF PadOf
<1>7. \A n \in 1 .. Gap : raw'[Used + n] = FF
  BY <1>4, Zenon DEF PadOf
<1>8. Len(raw') <= Used + Gap
  <2>1. Used + Gap <= Used + Gap
    BY DEF Used, Gap
  <2> QED
    BY <1>6, <2>1, Zenon
<1>9. Types'
  <2>1. pc' \in {"read", "encode", "write", "done", "failed"} /\ sector' \in 0 .. 16
    BY <1>1
  <2> QED
    BY <1>1, <1>2, <1>5, <2>1 DEF Types
<1>10. TrackLeft' /\ Room' /\ Filling' /\ Full'
  <2>1. Room' /\ TrackLeft'
    BY <1>1, <1>8 DEF IInv, Room, TrackLeft
  <2>2. Filling'
    BY <1>1 DEF Filling
  <2>3. Full'
    <3>1. sector' = 16
      BY <1>1
    <3> QED
      BY <1>6, <1>7, <3>1, Zenon DEF Full
  <2> QED
    BY <2>1, <2>2, <2>3
<1>11. Sectors'
  <2> SUFFICES ASSUME NEW s \in 0 .. 15 PROVE Written(raw', image, track, s)
    BY <1>1 DEF Sectors
  <2>1. Written(raw, image, track, s)
    BY <1>1 DEF IInv, Sectors
  <2>2. \A n \in 1 .. 409 : 409 * s + n \in 1 .. Used
    BY DEF Used
  <2>3. \A n \in 1 .. 409 : raw'[409 * s + n] = raw[409 * s + n]
    BY <1>6, <2>2, Zenon
  <2> QED
    BY <2>1, <2>3, ZenonT(40) DEF Written
<1> QED
  BY <1>9, <1>10, <1>11 DEF IInv

LEMMA InvWriteTrack == IInv /\ WriteTrack => IInv'
<1> SUFFICES ASSUME IInv, WriteTrack PROVE IInv'
  OBVIOUS
<1>1. /\ pc = "write" /\ image' = image /\ length' = length /\ sector' = sector
      /\ raw' = raw /\ GCR_buffer2' = GCR_buffer2
      /\ \/ nib' = nib + 1 /\ track' = track + 1 /\ pc' = IF track' < 35 THEN "read" ELSE "done"
         \/ pc' = "failed" /\ nib' = nib /\ track' = track
  BY DEF WriteTrack, TRACKS
<1>2. track \in 0 .. 34
  BY <1>1 DEF IInv, TrackLeft
<1>3. /\ track' \in 0 .. 35 /\ nib' = track' /\ pc' \in {"read", "done", "failed"}
      /\ (pc' = "read" => track' \in 0 .. 34)
  <2>1. nib = track
    BY DEF IInv, Types
  <2>2. CASE nib' = nib + 1 /\ track' = track + 1 /\ pc' = IF track' < 35 THEN "read" ELSE "done"
    BY <1>2, <2>1, <2>2
  <2>3. CASE pc' = "failed" /\ nib' = nib /\ track' = track
    BY <1>2, <2>1, <2>3
  <2> QED
    BY <1>1, <2>2, <2>3
<1>4. Types'
  BY <1>1, <1>3 DEF IInv, Types
<1>5. TrackLeft' /\ Room' /\ Filling' /\ Full' /\ Sectors'
  <2>1. pc' # "encode" /\ pc' # "write"
    BY <1>3
  <2>2. Filling' /\ Full' /\ Sectors'
    BY <2>1 DEF Filling, Full, Sectors
  <2>3. Room' /\ TrackLeft'
    BY <1>1, <1>3, <2>1 DEF IInv, Room, TrackLeft
  <2> QED
    BY <2>2, <2>3
<1> QED
  BY <1>4, <1>5 DEF IInv

LEMMA InvNext == IInv /\ [Next]_vars => IInv'
<1>1. IInv /\ UNCHANGED vars => IInv'
  BY DEF vars, IInv, Types, TrackLeft, Room, Filling, Full, Sectors
<1>2. IInv /\ Exited => IInv'
  BY <1>1 DEF Exited
<1> QED
  BY <1>1, <1>2, InvReadTrack, InvWriteSector, InvPad, InvWriteTrack DEF Next

(* What has been written, and the invariant it needs, at every moment.     *)
THEOREM Invariant == Spec => []IInv
BY InvInit, InvNext, PTL DEF Spec

(* Every write into raw_track stays inside it, whatever the image: 16      *)
(* sectors of 409 bytes and the padding are exactly its length             *)
(* (dsk2nib.c:211).                                                        *)
THEOREM TypesAreKept == Spec => []TypeOK
<1>1. IInv => TypeOK
  <2> SUFFICES ASSUME IInv PROVE TypeOK
    OBVIOUS
  <2>1. Len(raw) <= RAW_TRACK_BYTES
    BY DEF IInv, Room, RAW_TRACK_BYTES, Used, Gap
  <2>2. \A k \in DOMAIN raw : raw[k] \in 128 .. 255
    <3>1. raw \in Seq(High)
      BY DEF IInv, Types
    <3>2. DOMAIN raw = 1 .. Len(raw) /\ \A k \in 1 .. Len(raw) : raw[k] \in High
      BY <3>1
    <3> QED
      BY <3>2, Zenon DEF High
  <2>3. \A j \in 0 .. 85 : GCR_buffer2[j] \in 0 .. 63
    BY DEF IInv, Types, Groups
  <2> QED
    BY <2>1, <2>2, <2>3 DEF TypeOK, IInv, Types, TRACKS, SECTORS
<1> QED
  BY <1>1, Invariant, PTL

-----------------------------------------------------------------------------
(* Reading a track that has been written: the marks are where the fields   *)
(* begin and nowhere else.                                                 *)

AddressAt(s) == 409 * s + 38
DataAt(s) == 409 * s + 60

(* Places on the track, those after the last sector, and places within a   *)
(* sector, from 0.                                                         *)
Circle == 0 .. 6655
Rest == 6544 .. 6655
Offset == 0 .. 408

ByteOf(s, k) == Byte(track, s, Packed(PageOf(image, track, s)), PageOf(image, track, s), k + 1)

OnTrack(s) == \A k \in Offset : At(409 * s + k) = ByteOf(s, k)
AfterSectors == \A p \in Rest : At(p) = FF

Readable ==
  /\ image \in Images /\ track \in 0 .. 34 /\ AfterSectors
  /\ \A s \in 0 .. 15 : OnTrack(s)

LEMMA WhatIsOnTrack == IInv /\ pc = "write" => Readable
<1> SUFFICES ASSUME IInv, pc = "write" PROVE Readable
  OBVIOUS
<1>1. ASSUME NEW s \in 0 .. 15, NEW k \in Offset PROVE At(409 * s + k) = ByteOf(s, k)
  <2>0. k \in 0 .. 408
    BY DEF Offset
  <2>1. ((409 * s + k) % 6656) + 1 = 409 * s + (k + 1) /\ k + 1 \in 1 .. 409 /\ s < 16
    <3>1. 409 * s + k \in 0 .. 6655
      BY <2>0
    <3>2. (409 * s + k) % 6656 = 409 * s + k
      <4> DEFINE x == 409 * s + k
      <4>1. x \in 0 .. 6655
        BY <3>1
      <4> HIDE DEF x
      <4>2. x % 6656 = x
        BY <4>1, SMTT(30)
      <4> QED
        BY <4>2 DEF x
    <3> QED
      BY <2>0, <3>2
  <2>2. Written(raw, image, track, s)
    BY <2>1 DEF IInv, Full, Sectors
  <2>3. raw[409 * s + (k + 1)] = ByteOf(s, k)
    <3>1. \A n \in 1 .. 409 :
            raw[409 * s + n] = Byte(track, s, Packed(PageOf(image, track, s)), PageOf(image, track, s), n)
      BY <2>2, Zenon DEF Written
    <3>2. k + 1 \in 1 .. 409
      BY <2>1
    <3> QED
      BY <3>1, <3>2, Zenon DEF ByteOf
  <2>4. At(409 * s + k) = raw[((409 * s + k) % 6656) + 1]
    BY DEF At, RAW_TRACK_BYTES
  <2> QED
    BY <2>1, <2>3, <2>4
<1>2. ASSUME NEW p \in Rest PROVE At(p) = FF
  <2>0. p \in 6544 .. 6655
    BY DEF Rest
  <2>1. (p % 6656) + 1 = 6544 + (p - 6543) /\ p - 6543 \in 1 .. 112
    <3>1. p % 6656 = p
      BY <2>0
    <3> QED
      BY <2>0, <3>1
  <2>2. \A n \in 1 .. 112 : raw[6544 + n] = FF
    <3>1. \A n \in 1 .. Gap : raw[Used + n] = FF
      BY Zenon DEF IInv, Full
    <3> QED
      BY <3>1 DEF Used, Gap
  <2>3. raw[6544 + (p - 6543)] = FF
    BY <2>1, <2>2
  <2>4. At(p) = raw[(p % 6656) + 1]
    BY DEF At, RAW_TRACK_BYTES
  <2> QED
    BY <2>1, <2>3, <2>4
<1>3. image \in Images /\ track \in 0 .. 34
  BY DEF IInv, Types, TrackLeft
<1>4. AfterSectors
  BY <1>2, Zenon DEF AfterSectors
<1>5. \A s \in 0 .. 15 : OnTrack(s)
  BY <1>1, Zenon DEF OnTrack
<1> QED
  BY <1>3, <1>4, <1>5, Zenon DEF Readable

(* The bytes of a sector on a track, with the place of each from 0.        *)
IsSector(s, page, low, c) ==
  /\ \A k \in Offset : ByteOf(s, k) = 213 <=> (k = 38 \/ k = 60)
  /\ ByteOf(s, 39) = 170 /\ ByteOf(s, 40) = 150
  /\ ByteOf(s, 41) = Or(254 \div 2, 170) /\ ByteOf(s, 42) = Or(254, 170)
  /\ ByteOf(s, 43) = Or(track \div 2, 170) /\ ByteOf(s, 44) = Or(track, 170)
  /\ ByteOf(s, 45) = Or(s \div 2, 170) /\ ByteOf(s, 46) = Or(s, 170)
  /\ ByteOf(s, 47) = Or(c \div 2, 170) /\ ByteOf(s, 48) = Or(c, 170)
  /\ ByteOf(s, 61) = 170 /\ ByteOf(s, 62) = 173
  /\ \A k \in 1 .. 342 : ByteOf(s, 62 + k) = GCR(Xor(Value(low, page, k - 1), Value(low, page, k)))
  /\ ByteOf(s, 405) = GCR(Value(low, page, 342))

(* The first byte of a field is the only one of them that is 213.          *)
MarkedOnce(w, n) == \A j \in 2 .. n : w[j] # 213

LEMMA AddressBytes ==
  ASSUME NEW w, NEW t \in Int, NEW s \in Int, IsAddress(w, t, s)
  PROVE  MarkedOnce(w, 14)
<1> DEFINE c == Xor(Xor(254, t), s)
<1>1. c \in Int
  <2>1. Xor(254, t) \in Int
    <3>1. 254 \in Int /\ t \in Int
      OBVIOUS
    <3> QED
      BY <3>1, XorType
  <2>2. s \in Int
    OBVIOUS
  <2> QED
    BY <2>1, <2>2, XorType
<1>2. /\ w[2] = 170 /\ w[3] = 150
      /\ w[4] = Or(254 \div 2, 170) /\ w[5] = Or(254, 170)
      /\ w[6] = Or(t \div 2, 170) /\ w[7] = Or(t, 170)
      /\ w[8] = Or(s \div 2, 170) /\ w[9] = Or(s, 170)
      /\ w[10] = Or(c \div 2, 170) /\ w[11] = Or(c, 170)
      /\ w[12] = 222 /\ w[13] = 170 /\ w[14] = 235
  BY DEF IsAddress
<1> HIDE DEF c
<1>3. \A x \in Int : Or(x \div 2, 170) # 213 /\ Or(x, 170) # 213
  BY PairType
<1>4. 254 \in Int /\ t \in Int /\ s \in Int
  OBVIOUS
<1>5. /\ w[4] # 213 /\ w[5] # 213 /\ w[6] # 213 /\ w[7] # 213
      /\ w[8] # 213 /\ w[9] # 213 /\ w[10] # 213 /\ w[11] # 213
  BY <1>1, <1>2, <1>3, <1>4
<1>6. w[2] # 213 /\ w[3] # 213 /\ w[12] # 213 /\ w[13] # 213 /\ w[14] # 213
  BY <1>2
<1>7. \A j \in 2 .. 14 : j \in {2, 3, 4, 5, 6, 7, 8, 9, 10, 11, 12, 13, 14}
  OBVIOUS
<1> QED
  BY <1>5, <1>6, <1>7 DEF MarkedOnce

LEMMA DataBytes ==
  ASSUME NEW w, NEW low \in Groups, NEW page \in Page, IsData(w, low, page)
  PROVE  MarkedOnce(w, 349)
<1>1. /\ w[2] = 170 /\ w[3] = 173 /\ w[347] = 222 /\ w[348] = 170 /\ w[349] = 235
      /\ w[346] = GCR(Value(low, page, 342))
  BY DEF IsData
<1>2. \A k \in 1 .. 342 : w[3 + k] # 213
  <2> SUFFICES ASSUME NEW k \in 1 .. 342 PROVE w[3 + k] # 213
    OBVIOUS
  <2>1. k - 1 \in 0 .. 342 /\ k \in 0 .. 342
    OBVIOUS
  <2>2. Value(low, page, k - 1) \in 0 .. 63 /\ Value(low, page, k) \in 0 .. 63
    BY <2>1, ValueType
  <2>3. w[3 + k] = GCR(Xor(Value(low, page, k - 1), Value(low, page, k)))
    BY Zenon DEF IsData
  <2> QED
    BY <2>2, <2>3, XorOfSix, GcrType
<1>3. w[346] # 213
  <2>1. Value(low, page, 342) \in 0 .. 63
    <3>1. 342 \in 0 .. 342
      OBVIOUS
    <3> QED
      BY <3>1, ValueType
  <2> QED
    BY <1>1, <2>1, GcrType
<1> SUFFICES ASSUME NEW j \in 2 .. 349 PROVE w[j] # 213
  BY Zenon DEF MarkedOnce
<1>4. CASE j \in 4 .. 345
  <2>1. j - 3 \in 1 .. 342 /\ 3 + (j - 3) = j
    BY <1>4
  <2> QED
    BY <1>2, <2>1
<1>5. CASE j \notin 4 .. 345
  <2>1. j \in {2, 3, 346, 347, 348, 349}
    BY <1>5
  <2> QED
    BY <1>1, <1>3, <2>1
<1> QED
  BY <1>4, <1>5

LEMMA SectorOnTrack ==
  ASSUME NEW s \in 0 .. 15, image \in Images, track \in 0 .. 34
  PROVE  IsSector(s, PageOf(image, track, s), Packed(PageOf(image, track, s)), Xor(Xor(254, track), s))
<1> DEFINE page == PageOf(image, track, s)
           low == Packed(page)
           c == Xor(Xor(254, track), s)
           a == write_address_field(track, s)
           d == write_data_field(low, page)
<1>1. page \in Page /\ low \in Groups
  <2>1. page \in Page
    BY PageType
  <2> HIDE DEF page
  <2> QED
    BY <2>1, PackedType
<1>2. \A k \in 0 .. 408 : ByteOf(s, k) = Byte(track, s, low, page, k + 1)
  BY Zenon DEF ByteOf
<1> HIDE DEF page, low
<1>3. IsAddress(a, track, s)
  BY AddressField
<1>4. IsData(d, low, page)
  BY <1>1, DataField
<1>5. /\ \A k \in 0 .. 37 : ByteOf(s, k) = 255
      /\ \A k \in 38 .. 51 : ByteOf(s, k) = a[k - 37]
      /\ \A k \in 52 .. 59 : ByteOf(s, k) = 255
      /\ \A k \in 60 .. 408 : ByteOf(s, k) = d[k - 59]
  <2>1. ASSUME NEW k \in 0 .. 37 PROVE ByteOf(s, k) = 255
    <3>1. k \in 0 .. 408 /\ k + 1 <= 38
      OBVIOUS
    <3>2. ByteOf(s, k) = FF
      BY <1>2, <3>1 DEF Byte
    <3> QED
      BY <3>2 DEF FF
  <2>2. ASSUME NEW k \in 38 .. 51 PROVE ByteOf(s, k) = a[k - 37]
    <3>1. k \in 0 .. 408 /\ ~(k + 1 <= 38) /\ k + 1 <= 52 /\ (k + 1) - 38 = k - 37
      OBVIOUS
    <3>2. ByteOf(s, k) = a[(k + 1) - 38]
      BY <1>2, <3>1 DEF Byte
    <3> QED
      BY <3>1, <3>2
  <2>3. ASSUME NEW k \in 52 .. 59 PROVE ByteOf(s, k) = 255
    <3>1. k \in 0 .. 408 /\ ~(k + 1 <= 38) /\ ~(k + 1 <= 52) /\ k + 1 <= 60
      OBVIOUS
    <3>2. ByteOf(s, k) = FF
      BY <1>2, <3>1 DEF Byte
    <3> QED
      BY <3>2 DEF FF
  <2>4. ASSUME NEW k \in 60 .. 408 PROVE ByteOf(s, k) = d[k - 59]
    <3>1. /\ k \in 0 .. 408 /\ ~(k + 1 <= 38) /\ ~(k + 1 <= 52) /\ ~(k + 1 <= 60)
          /\ (k + 1) - 60 = k - 59
      OBVIOUS
    <3>2. ByteOf(s, k) = d[(k + 1) - 60]
      BY <1>2, <3>1 DEF Byte
    <3> QED
      BY <3>1, <3>2
  <2> QED
    BY <2>1, <2>2, <2>3, <2>4
<1>6. (\A j \in 2 .. 14 : a[j] # 213) /\ \A j \in 2 .. 349 : d[j] # 213
  <2>1. \A j \in 2 .. 14 : a[j] # 213
    <3>1. track \in Int /\ s \in Int
      OBVIOUS
    <3>2. MarkedOnce(a, 14)
      BY <1>3, <3>1, AddressBytes, Zenon
    <3> HIDE DEF a
    <3> QED
      BY <3>2 DEF MarkedOnce
  <2>2. \A j \in 2 .. 349 : d[j] # 213
    <3>1. MarkedOnce(d, 349)
      BY <1>1, <1>4, DataBytes, Zenon
    <3> HIDE DEF d
    <3> QED
      BY <3>1, Zenon DEF MarkedOnce
  <2> QED
    BY <2>1, <2>2
<1>7. /\ a[1] = 213 /\ a[2] = 170 /\ a[3] = 150
      /\ a[4] = Or(254 \div 2, 170) /\ a[5] = Or(254, 170)
      /\ a[6] = Or(track \div 2, 170) /\ a[7] = Or(track, 170)
      /\ a[8] = Or(s \div 2, 170) /\ a[9] = Or(s, 170)
      /\ a[10] = Or(c \div 2, 170) /\ a[11] = Or(c, 170)
  BY <1>3, Zenon DEF IsAddress
<1>8. /\ d[1] = 213 /\ d[2] = 170 /\ d[3] = 173
      /\ \A k \in 1 .. 342 : d[3 + k] = GCR(Xor(Value(low, page, k - 1), Value(low, page, k)))
      /\ d[346] = GCR(Value(low, page, 342))
  BY <1>4, Zenon DEF IsData
<1> HIDE DEF a, d, c
<1>9. \A k \in Offset : ByteOf(s, k) = 213 <=> (k = 38 \/ k = 60)
  <2> SUFFICES ASSUME NEW k \in 0 .. 408 PROVE ByteOf(s, k) = 213 <=> (k = 38 \/ k = 60)
    BY DEF Offset
  <2>1. CASE k \in 0 .. 37 \/ k \in 52 .. 59
    BY <1>5, <2>1
  <2>2. CASE k \in 39 .. 51
    <3>1. k \in 38 .. 51 /\ k - 37 \in 2 .. 14 /\ k # 38 /\ k # 60
      BY <2>2
    <3> QED
      BY <1>5, <1>6, <3>1
  <2>3. CASE k \in 61 .. 408
    <3>1. k \in 60 .. 408 /\ k - 59 \in 2 .. 349 /\ k # 38 /\ k # 60
      BY <2>3
    <3> QED
      BY <1>5, <1>6, <3>1
  <2>4. CASE k = 38
    <3>1. 38 \in 38 .. 51 /\ 38 - 37 = 1
      OBVIOUS
    <3> QED
      BY <1>5, <1>7, <2>4, <3>1
  <2>5. CASE k = 60
    <3>1. 60 \in 60 .. 408 /\ 60 - 59 = 1
      OBVIOUS
    <3> QED
      BY <1>5, <1>8, <2>5, <3>1
  <2> QED
    BY <2>1, <2>2, <2>3, <2>4, <2>5
<1>10. /\ ByteOf(s, 39) = a[2] /\ ByteOf(s, 40) = a[3] /\ ByteOf(s, 41) = a[4]
       /\ ByteOf(s, 42) = a[5] /\ ByteOf(s, 43) = a[6] /\ ByteOf(s, 44) = a[7]
       /\ ByteOf(s, 45) = a[8] /\ ByteOf(s, 46) = a[9] /\ ByteOf(s, 47) = a[10]
       /\ ByteOf(s, 48) = a[11]
  <2>1. /\ 39 - 37 = 2 /\ 40 - 37 = 3 /\ 41 - 37 = 4 /\ 42 - 37 = 5 /\ 43 - 37 = 6
        /\ 44 - 37 = 7 /\ 45 - 37 = 8 /\ 46 - 37 = 9 /\ 47 - 37 = 10 /\ 48 - 37 = 11
    OBVIOUS
  <2>2. /\ 39 \in 38 .. 51 /\ 40 \in 38 .. 51 /\ 41 \in 38 .. 51 /\ 42 \in 38 .. 51 /\ 43 \in 38 .. 51
        /\ 44 \in 38 .. 51 /\ 45 \in 38 .. 51 /\ 46 \in 38 .. 51 /\ 47 \in 38 .. 51 /\ 48 \in 38 .. 51
    OBVIOUS
  <2> QED
    BY <1>5, <2>1, <2>2
<1>11. ByteOf(s, 61) = d[2] /\ ByteOf(s, 62) = d[3] /\ ByteOf(s, 405) = d[346]
  <2>1. /\ 61 - 59 = 2 /\ 62 - 59 = 3 /\ 405 - 59 = 346
        /\ 61 \in 60 .. 408 /\ 62 \in 60 .. 408 /\ 405 \in 60 .. 408
    OBVIOUS
  <2> QED
    BY <1>5, <2>1
<1>12. \A k \in 1 .. 342 : ByteOf(s, 62 + k) = d[3 + k]
  <2>1. \A k \in 1 .. 342 : 62 + k \in 60 .. 408 /\ (62 + k) - 59 = 3 + k
    OBVIOUS
  <2> QED
    BY <1>5, <2>1
<1>13. \A k \in 1 .. 342 : ByteOf(s, 62 + k) = GCR(Xor(Value(low, page, k - 1), Value(low, page, k)))
  BY <1>8, <1>12
<1>14. /\ ByteOf(s, 39) = 170 /\ ByteOf(s, 40) = 150
       /\ ByteOf(s, 41) = Or(254 \div 2, 170) /\ ByteOf(s, 42) = Or(254, 170)
       /\ ByteOf(s, 43) = Or(track \div 2, 170) /\ ByteOf(s, 44) = Or(track, 170)
       /\ ByteOf(s, 45) = Or(s \div 2, 170) /\ ByteOf(s, 46) = Or(s, 170)
       /\ ByteOf(s, 47) = Or(c \div 2, 170) /\ ByteOf(s, 48) = Or(c, 170)
  BY <1>7, <1>10
<1>15. ByteOf(s, 61) = 170 /\ ByteOf(s, 62) = 173 /\ ByteOf(s, 405) = GCR(Value(low, page, 342))
  BY <1>8, <1>11
<1>16. IsSector(s, page, low, c)
  BY <1>9, <1>13, <1>14, <1>15 DEF IsSector
<1> QED
  BY <1>16, Zenon DEF c, low, page

LEMMA AtSector ==
  ASSUME Readable, NEW s \in 0 .. 15
  PROVE  IsSector(s, PageOf(image, track, s), Packed(PageOf(image, track, s)), Xor(Xor(254, track), s))
<1>1. image \in Images /\ track \in 0 .. 34
  BY Zenon DEF Readable
<1> QED
  BY <1>1, SectorOnTrack

LEMMA AtPlace ==
  ASSUME Readable, NEW s \in 0 .. 15, NEW k \in Offset
  PROVE  At(409 * s + k) = ByteOf(s, k)
BY Zenon DEF Readable, OnTrack

AddressMark == 150
DataMark == 173

Starts(p) == At(p) = 213
MarkAt(p, third) == At(p) = 213 /\ At(p + 1) = 170 /\ At(p + 2) = third

LEMMA MarksAreFound ==
  ASSUME Readable, NEW s \in 0 .. 15
  PROVE  /\ AddressAt(s) \in Circle /\ MarkAt(AddressAt(s), AddressMark)
         /\ DataAt(s) \in Circle /\ MarkAt(DataAt(s), DataMark)
<1>1. /\ \A k \in Offset : ByteOf(s, k) = 213 <=> (k = 38 \/ k = 60)
      /\ ByteOf(s, 39) = 170 /\ ByteOf(s, 40) = 150
      /\ ByteOf(s, 61) = 170 /\ ByteOf(s, 62) = 173
  <2>1. IsSector(s, PageOf(image, track, s), Packed(PageOf(image, track, s)), Xor(Xor(254, track), s))
    BY AtSector
  <2> QED
    BY <2>1, Zenon DEF IsSector
<1>2. \A k \in Offset : At(409 * s + k) = ByteOf(s, k)
  BY AtPlace
<1>3. 38 \in Offset /\ 39 \in Offset /\ 40 \in Offset /\ 60 \in Offset /\ 61 \in Offset /\ 62 \in Offset
  BY DEF Offset
<1>4. /\ At(409 * s + 38) = 213 /\ At(409 * s + 39) = 170 /\ At(409 * s + 40) = 150
      /\ At(409 * s + 60) = 213 /\ At(409 * s + 61) = 170 /\ At(409 * s + 62) = 173
  BY <1>1, <1>2, <1>3
<1>5. /\ (409 * s + 38) + 1 = 409 * s + 39 /\ (409 * s + 38) + 2 = 409 * s + 40
      /\ (409 * s + 60) + 1 = 409 * s + 61 /\ (409 * s + 60) + 2 = 409 * s + 62
      /\ 409 * s + 38 \in 0 .. 6655 /\ 409 * s + 60 \in 0 .. 6655
  OBVIOUS
<1> HIDE DEF At
<1> QED
  <2>1. AddressAt(s) \in Circle /\ MarkAt(AddressAt(s), AddressMark)
    BY <1>4, <1>5 DEF AddressAt, MarkAt, AddressMark, Circle
  <2>2. DataAt(s) \in Circle /\ MarkAt(DataAt(s), DataMark)
    BY <1>4, <1>5 DEF DataAt, MarkAt, DataMark, Circle
  <2> QED
    BY <2>1, <2>2

LEMMA NoOtherMark ==
  ASSUME Readable, NEW p \in Circle, Starts(p)
  PROVE  \E s \in 0 .. 15 : p = AddressAt(s) \/ p = DataAt(s)
<1>0. At(p) = 213
  BY DEF Starts
<1>1. ~(p \in Rest)
  <2>1. AfterSectors
    BY Zenon DEF Readable
  <2>2. p \in Rest => At(p) = FF
    BY <2>1, Zenon DEF AfterSectors
  <2> QED
    BY <1>0, <2>2 DEF FF
<1> DEFINE s == p \div 409
           k == p % 409
<1>2. s \in 0 .. 15 /\ k \in Offset /\ p = 409 * s + k
  <2>1. p \in 0 .. 6543
    BY <1>1 DEF Circle, Rest
  <2> QED
    BY <2>1 DEF Offset
<1> HIDE DEF s, k
<1>3. /\ ByteOf(s, k) = 213 <=> (k = 38 \/ k = 60)
      /\ At(409 * s + k) = ByteOf(s, k)
  <2>1. IsSector(s, PageOf(image, track, s), Packed(PageOf(image, track, s)), Xor(Xor(254, track), s))
    BY <1>2, AtSector, Zenon
  <2>2. \A j \in Offset : ByteOf(s, j) = 213 <=> (j = 38 \/ j = 60)
    BY <2>1, Zenon DEF IsSector
  <2>3. At(409 * s + k) = ByteOf(s, k)
    BY <1>2, AtPlace, Zenon
  <2> QED
    BY <1>2, <2>2, <2>3, ZenonT(40)
<1>4. k = 38 \/ k = 60
  <2>1. At(p) = ByteOf(s, k)
    BY <1>2, <1>3, Zenon
  <2> QED
    BY <1>0, <1>3, <2>1
<1>5. p = AddressAt(s) \/ p = DataAt(s)
  BY <1>2, <1>4 DEF AddressAt, DataAt
<1> QED
  BY <1>2, <1>5

LEMMA MarksAre ==
  ASSUME Readable
  PROVE  /\ Marks(AddressMark) = {AddressAt(s) : s \in 0 .. 15}
         /\ Marks(DataMark) = {DataAt(s) : s \in 0 .. 15}
<1>1. \A s \in 0 .. 15 : /\ AddressAt(s) \in Circle /\ MarkAt(AddressAt(s), AddressMark)
                         /\ DataAt(s) \in Circle /\ MarkAt(DataAt(s), DataMark)
  BY MarksAreFound, Zenon
<1>2. \A p \in Circle : Starts(p) => \E s \in 0 .. 15 : p = AddressAt(s) \/ p = DataAt(s)
  BY NoOtherMark, Zenon
<1>3. \A third : Marks(third) = {p \in Circle : MarkAt(p, third)}
  <2>1. 0 .. (RAW_TRACK_BYTES - 1) = Circle
    BY DEF RAW_TRACK_BYTES, Circle
  <2>2. \A third : Marks(third) = {p \in 0 .. (RAW_TRACK_BYTES - 1) : MarkAt(p, third)}
    BY Zenon DEF Marks, MarkAt
  <2> QED
    BY <2>1, <2>2, Zenon
<1>4. \A p, third : MarkAt(p, third) => Starts(p)
  BY Zenon DEF MarkAt, Starts
<1>5. \A p : ~(MarkAt(p, AddressMark) /\ MarkAt(p, DataMark))
  <2>1. \A p, a, b : MarkAt(p, a) /\ MarkAt(p, b) => a = b
    BY Zenon DEF MarkAt
  <2>2. AddressMark # DataMark
    BY DEF AddressMark, DataMark
  <2> QED
    BY <2>1, <2>2, Zenon
<1>6. Marks(AddressMark) = {AddressAt(s) : s \in 0 .. 15}
  <2>1. ASSUME NEW p \in Marks(AddressMark) PROVE p \in {AddressAt(s) : s \in 0 .. 15}
    <3>1. p \in Circle /\ MarkAt(p, AddressMark)
      BY <1>3, Zenon
    <3>2. PICK s \in 0 .. 15 : p = AddressAt(s) \/ p = DataAt(s)
      BY <1>2, <1>4, <3>1, Zenon
    <3>3. p # DataAt(s)
      BY <1>1, <1>5, <3>1, Zenon
    <3> QED
      BY <3>2, <3>3, Zenon
  <2>2. \A s \in 0 .. 15 : AddressAt(s) \in Marks(AddressMark)
    BY <1>1, <1>3, Zenon
  <2> HIDE DEF AddressAt
  <2> QED
    BY <2>1, <2>2
<1>7. Marks(DataMark) = {DataAt(s) : s \in 0 .. 15}
  <2>1. ASSUME NEW p \in Marks(DataMark) PROVE p \in {DataAt(s) : s \in 0 .. 15}
    <3>1. p \in Circle /\ MarkAt(p, DataMark)
      BY <1>3, Zenon
    <3>2. PICK s \in 0 .. 15 : p = AddressAt(s) \/ p = DataAt(s)
      BY <1>2, <1>4, <3>1, Zenon
    <3>3. p # AddressAt(s)
      BY <1>1, <1>5, <3>1, Zenon
    <3> QED
      BY <3>2, <3>3, Zenon
  <2>2. \A s \in 0 .. 15 : DataAt(s) \in Marks(DataMark)
    BY <1>1, <1>3, Zenon
  <2> HIDE DEF DataAt
  <2> QED
    BY <2>1, <2>2
<1> QED
  BY <1>6, <1>7

LEMMA SixteenMarks ==
  /\ Cardinality({AddressAt(s) : s \in 0 .. 15}) = 16
  /\ Cardinality({DataAt(s) : s \in 0 .. 15}) = 16
<1>1. IsFiniteSet(0 .. 15) /\ Cardinality(0 .. 15) = 16
  <2>1. 0 \in Int /\ 15 \in Int /\ ~(0 > 15) /\ 15 - 0 + 1 = 16
    OBVIOUS
  <2> QED
    BY <2>1, FS_Interval
<1>2. ASSUME NEW b \in Nat PROVE Cardinality({409 * s + b : s \in 0 .. 15}) = 16
  <2> DEFINE T == {409 * s + b : s \in 0 .. 15}
             f == [s \in 0 .. 15 |-> 409 * s + b]
  <2>1. f \in [0 .. 15 -> T]
    OBVIOUS
  <2>2. \A s, t \in 0 .. 15 : f[s] = f[t] => s = t
    OBVIOUS
  <2>3. \A q \in T : \E s \in 0 .. 15 : f[s] = q
    OBVIOUS
  <2> HIDE DEF f, T
  <2>4. ExistsBijection(0 .. 15, T)
    BY <2>1, <2>2, <2>3 DEF ExistsBijection, Bijection, Injection, Surjection, IsInjective
  <2>5. Cardinality(T) = Cardinality(0 .. 15)
    BY <1>1, <2>4, FS_Bijection
  <2> QED
    BY <1>1, <2>5 DEF T
<1>3. 38 \in Nat /\ 60 \in Nat
  OBVIOUS
<1> QED
  BY <1>2, <1>3 DEF AddressAt, DataAt

(* What is read of an address field.                                       *)
LEMMA AddressRead ==
  ASSUME Readable, NEW s \in 0 .. 15
  PROVE  /\ Odd(AddressAt(s) + 3) = 254 /\ Odd(AddressAt(s) + 5) = track
         /\ Odd(AddressAt(s) + 7) = s /\ Odd(AddressAt(s) + 9) = Xor(Xor(254, track), s)
<1> DEFINE c == Xor(Xor(254, track), s)
<1>0. c \in 0 .. 255 /\ 254 \in 0 .. 255 /\ track \in 0 .. 255 /\ s \in 0 .. 255
  <2>1. 254 \in Int /\ track \in Int /\ s \in Int /\ track \in 0 .. 255
    BY DEF Readable
  <2>2. Xor(254, track) \in Int
    BY <2>1, XorType
  <2>3. c \in 0 .. 255
    BY <2>1, <2>2, XorType
  <2> HIDE DEF c
  <2> QED
    BY <2>1, <2>3
<1>1. /\ ByteOf(s, 41) = Or(254 \div 2, 170) /\ ByteOf(s, 42) = Or(254, 170)
      /\ ByteOf(s, 43) = Or(track \div 2, 170) /\ ByteOf(s, 44) = Or(track, 170)
      /\ ByteOf(s, 45) = Or(s \div 2, 170) /\ ByteOf(s, 46) = Or(s, 170)
      /\ ByteOf(s, 47) = Or(c \div 2, 170) /\ ByteOf(s, 48) = Or(c, 170)
  <2>1. IsSector(s, PageOf(image, track, s), Packed(PageOf(image, track, s)), c)
    BY AtSector
  <2> QED
    BY <2>1, Zenon DEF IsSector
<1> HIDE DEF c
<1> DEFINE PairOf(k, x) == ByteOf(s, k) = Or(x \div 2, 170) /\ ByteOf(s, k + 1) = Or(x, 170)
           ReadAs(k, x) == Odd(409 * s + k) = x
<1>2. ASSUME NEW k \in 0 .. 407, NEW x \in 0 .. 255, PairOf(k, x) PROVE ReadAs(k, x)
  <2>1. k \in Offset /\ k + 1 \in Offset /\ (409 * s + k) + 1 = 409 * s + (k + 1)
    BY DEF Offset
  <2>2. At(409 * s + k) = ByteOf(s, k) /\ At(409 * s + (k + 1)) = ByteOf(s, k + 1)
    BY <2>1, AtPlace, ZenonT(40)
  <2>3. At(409 * s + k) = Or(x \div 2, 170) /\ At((409 * s + k) + 1) = Or(x, 170)
    BY <1>2, <2>1, <2>2, Zenon
  <2>4. And((Or(x \div 2, 170) % 128) * 2 + 1, Or(x, 170)) = x
    BY PairRead
  <2>5. Odd(409 * s + k) = And((Or(x \div 2, 170) % 128) * 2 + 1, Or(x, 170))
    BY <2>3, Zenon DEF Odd
  <2> QED
    BY <2>4, <2>5, Zenon
<1>3. 41 + 1 = 42 /\ 43 + 1 = 44 /\ 45 + 1 = 46 /\ 47 + 1 = 48
  OBVIOUS
<1>4. PairOf(41, 254) /\ PairOf(43, track) /\ PairOf(45, s) /\ PairOf(47, c)
  BY <1>1, <1>3
<1> HIDE DEF PairOf, ReadAs
<1>5. 41 \in 0 .. 407 /\ 43 \in 0 .. 407 /\ 45 \in 0 .. 407 /\ 47 \in 0 .. 407
  OBVIOUS
<1>6. ReadAs(41, 254) /\ ReadAs(43, track) /\ ReadAs(45, s) /\ ReadAs(47, c)
  BY <1>0, <1>2, <1>4, <1>5
<1>7. /\ AddressAt(s) + 3 = 409 * s + 41 /\ AddressAt(s) + 5 = 409 * s + 43
      /\ AddressAt(s) + 7 = 409 * s + 45 /\ AddressAt(s) + 9 = 409 * s + 47
  BY DEF AddressAt
<1> QED
  BY <1>6, <1>7 DEF c, ReadAs

(* Whatever the image holds and whatever track is converted, a drive finds *)
(* sixteen address fields and sixteen data fields on the circle, the       *)
(* numbers and the checksum in each, and no mark where no field begins:    *)
(* none in the data, none across the end of the track (dsk2nib.c:100-108,  *)
(* 178-216).                                                               *)
THEOREM TracksAreReadable == Spec => []TrackReadable
<1>1. IInv => TrackReadable
  <2> SUFFICES ASSUME IInv, pc = "write" PROVE TrackReadable
    BY DEF TrackReadable
  <2> DEFINE addresses == {AddressAt(s) : s \in 0 .. 15}
             data == {DataAt(s) : s \in 0 .. 15}
  <2>0. Readable
    BY WhatIsOnTrack
  <2>1. Marks(150) = addresses /\ Marks(173) = data
    BY <2>0, MarksAre DEF AddressMark, DataMark
  <2>2. Cardinality(addresses) = 16 /\ Cardinality(data) = 16
    BY SixteenMarks
  <2>3. \A s \in 0 .. 15 :
          /\ Odd(AddressAt(s) + 3) = 254 /\ Odd(AddressAt(s) + 5) = track
          /\ Odd(AddressAt(s) + 7) = s /\ Odd(AddressAt(s) + 9) = Xor(Xor(254, track), s)
    BY <2>0, AddressRead
  <2>4. {Odd(p + 7) : p \in addresses} = 0 .. 15
    BY <2>3
  <2>5. ASSUME NEW p \in addresses
        PROVE  /\ Odd(p + 3) = 254 /\ Odd(p + 5) = track
               /\ Odd(p + 9) = Xor(Xor(Odd(p + 3), Odd(p + 5)), Odd(p + 7))
               /\ \E q \in data : q > p + 13 /\ q < p + 32
    <3>1. PICK s \in 0 .. 15 : p = AddressAt(s)
      OBVIOUS
    <3>2. DataAt(s) \in data /\ DataAt(s) > p + 13 /\ DataAt(s) < p + 32
      BY <3>1 DEF AddressAt, DataAt
    <3>3. /\ Odd(p + 3) = 254 /\ Odd(p + 5) = track
          /\ Odd(p + 7) = s /\ Odd(p + 9) = Xor(Xor(254, track), s)
      BY <2>3, <3>1
    <3> QED
      BY <3>2, <3>3
  <2> HIDE DEF addresses, data
  <2> QED
    BY <2>1, <2>2, <2>4, <2>5 DEF TrackReadable, SECTORS, VOLUME_NUMBER
<1> QED
  BY <1>1, Invariant, PTL

-----------------------------------------------------------------------------
(* Reading a data field: sums that begin anew every 20 values, and the sum *)
(* of what came before, give the values back.                              *)

Six == 0 .. 63
Runs == [0 .. 343 -> Six]
Block(k) == 20 * ((k - 1) \div 20)

LEMMA PlusIs ==
  ASSUME NEW a \in Six, NEW b \in Six
  PROVE  Plus[a][b] = Xor(a, b) /\ Xor(a, b) \in Six
BY XorOfSix DEF Plus, Six

LEMMA XorZero == ASSUME NEW a \in 0 .. 255 PROVE Xor(a, 0) = a
<1>1. a \in Int /\ 0 \in Int
  OBVIOUS
<1>2. /\ Xor(a, 0) \in 0 .. 255
      /\ \A k \in 0 .. 7 : Bit(Xor(a, 0), k) = IF Bit(a, k) # Bit(0, k) THEN 1 ELSE 0
  BY <1>1, BitByBit, ZenonT(40)
<1>3. \A k \in 0 .. 7 : Bit(0, k) = 0
  <2>1. /\ 0 % 2 = 0 /\ 0 \div 2 = 0 /\ 0 \div 4 = 0 /\ 0 \div 8 = 0 /\ 0 \div 16 = 0
        /\ 0 \div 32 = 0 /\ 0 \div 64 = 0 /\ 0 \div 128 = 0
    OBVIOUS
  <2>2. /\ Bit(0, 0) = 0 /\ Bit(0, 1) = 0 /\ Bit(0, 2) = 0 /\ Bit(0, 3) = 0
        /\ Bit(0, 4) = 0 /\ Bit(0, 5) = 0 /\ Bit(0, 6) = 0 /\ Bit(0, 7) = 0
    BY <1>1, <2>1, BitIs
  <2> QED
    BY <2>2, EightBits
<1>4. \A k \in 0 .. 7 : Bit(a, k) \in {0, 1}
  BY <1>1, BitType
<1>5. \A k \in 0 .. 7 : Bit(Xor(a, 0), k) = Bit(a, k)
  BY <1>2, <1>3, <1>4
<1> QED
  BY <1>2, <1>5, SameBits

(* Sums of neighbours add up to the sum of the ends.                       *)
LEMMA XorSum ==
  ASSUME NEW a \in 0 .. 255, NEW b \in 0 .. 255, NEW c \in 0 .. 255
  PROVE  Xor(Xor(a, b), Xor(b, c)) = Xor(a, c)
<1>1. XorSums(a, b, c)
  BY XorFacts
<1> QED
  BY <1>1 DEF XorSums

LEMMA XorNone == ASSUME NEW a \in 0 .. 255 PROVE Xor(0, a) = a /\ Xor(a, a) = 0
<1>1. XorSums(a, a, a)
  BY XorFacts
<1> QED
  BY <1>1 DEF XorSums

LEMMA Telescope ==
  ASSUME NEW a \in Six, NEW b \in Six, NEW c \in Six
  PROVE  Plus[Xor(a, b)][Xor(b, c)] = Xor(a, c)
<1>1. a \in 0 .. 255 /\ b \in 0 .. 255 /\ c \in 0 .. 255
  BY DEF Six
<1>2. Xor(a, b) \in Six /\ Xor(b, c) \in Six
  BY PlusIs
<1>3. Plus[Xor(a, b)][Xor(b, c)] = Xor(Xor(a, b), Xor(b, c))
  BY <1>2, PlusIs
<1> QED
  BY <1>1, <1>3, XorSum, ZenonT(40)

LEMMA FromEnds ==
  ASSUME NEW a \in Six, NEW c \in Six
  PROVE  Plus[a][Xor(a, c)] = c
<1>1. a \in 0 .. 255 /\ c \in 0 .. 255 /\ 0 \in 0 .. 255
  BY DEF Six
<1>2. Xor(a, c) \in Six
  BY PlusIs
<1>3. Plus[a][Xor(a, c)] = Xor(a, Xor(a, c))
  BY <1>2, PlusIs
<1>4. Xor(0, c) = c /\ Xor(0, a) = a
  BY <1>1, XorNone
<1>5. Xor(Xor(0, a), Xor(a, c)) = Xor(0, c)
  BY <1>1, XorSum, ZenonT(40)
<1> QED
  BY <1>3, <1>4, <1>5

SumsAt(v, p) == \A k \in 1 .. 343 : Rank[At(p + 2 + k)] = Xor(v[k - 1], v[k])

IsWithin(f, p) ==
  f = [k \in 1 .. 343 |->
         IF k % 20 = 1 THEN Rank[At(p + 2 + k)] ELSE Plus[f[k - 1]][Rank[At(p + 2 + k)]]]

IsBefore(f, w) ==
  f = [g \in 0 .. 17 |-> IF g = 0 THEN 0 ELSE Plus[f[g - 1]][w[20 * g]]]

LEMMA BlockType ==
  ASSUME NEW k \in 1 .. 343
  PROVE  /\ Block(k) \in 0 .. 343 /\ k - 1 \in 0 .. 343 /\ k \in 0 .. 343
         /\ (k - 1) \div 20 \in 0 .. 17
<1> DEFINE d == (k - 1) \div 20
<1>1. d \in 0 .. 17
  OBVIOUS
<1>2. Block(k) = 20 * d
  BY DEF Block
<1> HIDE DEF d
<1>3. Block(k) \in 0 .. 343
  BY <1>1, <1>2
<1> QED
  BY <1>1, <1>3 DEF d

LEMMA BlockBegins ==
  ASSUME NEW k \in 1 .. 343, k % 20 = 1
  PROVE  Block(k) = k - 1
<1> DEFINE d == (k - 1) \div 20
           r == (k - 1) % 20
<1>1. d \in 0 .. 17 /\ k - 1 = 20 * d + r /\ r = 0
  OBVIOUS
<1>2. Block(k) = 20 * d
  BY DEF Block
<1> HIDE DEF d, r
<1> QED
  BY <1>1, <1>2

LEMMA BlockGoesOn ==
  ASSUME NEW k \in 1 .. 343, k % 20 # 1
  PROVE  k - 1 \in 1 .. 343 /\ Block(k - 1) = Block(k)
<1> DEFINE d == (k - 1) \div 20
           r == (k - 1) % 20
           n == (k - 1) - 1
           m == r - 1
<1>1. k - 1 \in 1 .. 343
  OBVIOUS
<1>2. d \in 0 .. 17 /\ k - 1 = 20 * d + r /\ r \in 1 .. 19
  OBVIOUS
<1>3. Block(k) = 20 * d /\ Block(k - 1) = 20 * (n \div 20)
  BY DEF Block
<1> HIDE DEF d, r
<1>4. n = 20 * d + m /\ m \in 0 .. 18
  BY <1>2
<1> HIDE DEF n, m
<1>5. n \div 20 = d
  BY <1>2, <1>4
<1> QED
  BY <1>1, <1>3, <1>5

LEMMA BlockEnds ==
  ASSUME NEW g \in 1 .. 17
  PROVE  20 * g \in 1 .. 343 /\ Block(20 * g) = 20 * (g - 1)
<1> DEFINE n == 20 * g - 1
           h == g - 1
<1>1. n = 20 * h + 19 /\ h \in 0 .. 16
  OBVIOUS
<1> HIDE DEF n, h
<1>2. n \div 20 = h
  BY <1>1
<1>3. Block(20 * g) = 20 * h
  BY <1>2 DEF Block, n
<1>4. 20 * g \in 1 .. 343
  OBVIOUS
<1> QED
  BY <1>3, <1>4 DEF h

LEMMA WithinIs ==
  ASSUME NEW v \in Runs, NEW p, SumsAt(v, p), NEW f, IsWithin(f, p)
  PROVE  \A k \in 1 .. 343 : f[k] = Xor(v[Block(k)], v[k])
<1> DEFINE S == {n \in Nat : n \in 1 .. 343 => f[n] = Xor(v[Block(n)], v[n])}
<1>1. \A k \in 1 .. 343 : f[k] = IF k % 20 = 1 THEN Xor(v[k - 1], v[k])
                                 ELSE Plus[f[k - 1]][Xor(v[k - 1], v[k])]
  <2>1. f = [k \in 1 .. 343 |->
               IF k % 20 = 1 THEN Rank[At(p + 2 + k)] ELSE Plus[f[k - 1]][Rank[At(p + 2 + k)]]]
    BY Zenon DEF IsWithin
  <2>2. \A k \in 1 .. 343 : f[k] = IF k % 20 = 1 THEN Rank[At(p + 2 + k)]
                                   ELSE Plus[f[k - 1]][Rank[At(p + 2 + k)]]
    BY <2>1, Zenon
  <2> QED
    BY <2>2, Zenon DEF SumsAt
<1>2. 0 \in S
  OBVIOUS
<1>3. ASSUME NEW n \in S PROVE n + 1 \in S
  <2> DEFINE k == n + 1
  <2> SUFFICES ASSUME k \in 1 .. 343 PROVE f[k] = Xor(v[Block(k)], v[k])
    OBVIOUS
  <2>0. n \in Nat /\ k - 1 = n /\ (n \in 1 .. 343 => f[n] = Xor(v[Block(n)], v[n]))
    OBVIOUS
  <2> HIDE DEF k, S
  <2>1. CASE k % 20 = 1
    BY <1>1, <2>1, BlockBegins
  <2>2. CASE k % 20 # 1
    <3>1. k - 1 \in 1 .. 343 /\ Block(k - 1) = Block(k) /\ Block(k) \in 0 .. 343 /\ k - 1 \in 0 .. 343 /\ k \in 0 .. 343
      BY <2>2, BlockGoesOn, BlockType, ZenonT(40)
    <3>2. v[Block(k)] \in Six /\ v[k - 1] \in Six /\ v[k] \in Six
      BY <3>1 DEF Runs
    <3>3. f[k - 1] = Xor(v[Block(k)], v[k - 1])
      BY <2>0, <3>1, Zenon
    <3>4. f[k] = Plus[f[k - 1]][Xor(v[k - 1], v[k])]
      BY <1>1, <2>2
    <3>5. Plus[Xor(v[Block(k)], v[k - 1])][Xor(v[k - 1], v[k])] = Xor(v[Block(k)], v[k])
      BY <3>2, Telescope
    <3> QED
      BY <3>3, <3>4, <3>5, Zenon
  <2> QED
    BY <2>1, <2>2
<1> HIDE DEF S
<1>4. S = Nat
  <2>1. S \in SUBSET Nat
    BY DEF S
  <2> QED
    BY <1>2, <1>3, <2>1, SetInduction
<1>5. \A k \in 1 .. 343 : k \in S
  BY <1>4
<1> QED
  BY <1>5 DEF S

LEMMA WithinExists ==
  ASSUME NEW v \in Runs, NEW p, SumsAt(v, p)
  PROVE  \E f : IsWithin(f, p)
<1> DEFINE f == [k \in 1 .. 343 |-> Xor(v[Block(k)], v[k])]
<1>1. \A k \in 1 .. 343 : f[k] = Xor(v[Block(k)], v[k])
  OBVIOUS
<1>2. f = [k \in 1 .. 343 |-> f[k]]
  OBVIOUS
<1> HIDE DEF f
<1>3. ASSUME NEW k \in 1 .. 343
      PROVE  f[k] = IF k % 20 = 1 THEN Rank[At(p + 2 + k)] ELSE Plus[f[k - 1]][Rank[At(p + 2 + k)]]
  <2>0. Rank[At(p + 2 + k)] = Xor(v[k - 1], v[k])
    BY Zenon DEF SumsAt
  <2>1. CASE k % 20 = 1
    BY <1>1, <2>0, <2>1, BlockBegins
  <2>2. CASE k % 20 # 1
    <3>1. k - 1 \in 1 .. 343 /\ Block(k - 1) = Block(k) /\ Block(k) \in 0 .. 343 /\ k - 1 \in 0 .. 343 /\ k \in 0 .. 343
      BY <2>2, BlockGoesOn, BlockType, ZenonT(40)
    <3>2. v[Block(k)] \in Six /\ v[k - 1] \in Six /\ v[k] \in Six
      BY <3>1 DEF Runs
    <3>3. f[k - 1] = Xor(v[Block(k)], v[k - 1])
      BY <1>1, <3>1, Zenon
    <3>4. Plus[Xor(v[Block(k)], v[k - 1])][Xor(v[k - 1], v[k])] = Xor(v[Block(k)], v[k])
      BY <3>2, Telescope
    <3>5. f[k] = Plus[f[k - 1]][Rank[At(p + 2 + k)]]
      BY <1>1, <2>0, <3>3, <3>4, Zenon
    <3> QED
      BY <2>2, <3>5
  <2> QED
    BY <2>1, <2>2
<1>4. IsWithin(f, p)
  BY <1>2, <1>3, Zenon DEF IsWithin
<1> QED
  BY <1>4

LEMMA BeforeIs ==
  ASSUME NEW v \in Runs, v[0] = 0, NEW w, \A k \in 1 .. 343 : w[k] = Xor(v[Block(k)], v[k]),
         NEW f, IsBefore(f, w)
  PROVE  \A g \in 0 .. 17 : f[g] = v[20 * g]
<1> DEFINE S == {n \in Nat : n \in 0 .. 17 => f[n] = v[20 * n]}
<1>1. \A g \in 0 .. 17 : f[g] = IF g = 0 THEN 0 ELSE Plus[f[g - 1]][w[20 * g]]
  BY Zenon DEF IsBefore
<1>2. 0 \in S
  <2>1. f[0] = 0 /\ 20 * 0 = 0
    BY <1>1
  <2>2. f[0] = v[20 * 0]
    BY <2>1
  <2> QED
    BY <2>2
<1>3. ASSUME NEW n \in S PROVE n + 1 \in S
  <2> DEFINE g == n + 1
  <2> SUFFICES ASSUME g \in 0 .. 17 PROVE f[g] = v[20 * g]
    OBVIOUS
  <2>0. n \in Nat /\ g - 1 = n /\ g \in 1 .. 17 /\ n \in 0 .. 17 /\ f[n] = v[20 * n]
    OBVIOUS
  <2> HIDE DEF g, S
  <2>1. 20 * g \in 1 .. 343 /\ Block(20 * g) = 20 * n
    BY <2>0, BlockEnds
  <2>2. 20 * g \in 0 .. 343 /\ 20 * n \in 0 .. 343
    BY <2>0
  <2>3. v[20 * n] \in Six /\ v[20 * g] \in Six
    BY <2>2 DEF Runs
  <2>4. w[20 * g] = Xor(v[20 * n], v[20 * g])
    BY <2>1, Zenon
  <2>5. f[g] = Plus[f[n]][w[20 * g]]
    BY <1>1, <2>0
  <2>6. Plus[v[20 * n]][Xor(v[20 * n], v[20 * g])] = v[20 * g]
    BY <2>3, FromEnds
  <2> QED
    BY <2>0, <2>4, <2>5, <2>6, Zenon
<1> HIDE DEF S
<1>4. S = Nat
  <2>1. S \in SUBSET Nat
    BY DEF S
  <2> QED
    BY <1>2, <1>3, <2>1, SetInduction
<1>5. \A g \in 0 .. 17 : g \in S
  BY <1>4
<1> QED
  BY <1>5 DEF S

LEMMA BeforeExists ==
  ASSUME NEW v \in Runs, v[0] = 0, NEW w, \A k \in 1 .. 343 : w[k] = Xor(v[Block(k)], v[k])
  PROVE  \E f : IsBefore(f, w)
<1> DEFINE f == [g \in 0 .. 17 |-> v[20 * g]]
<1>1. \A g \in 0 .. 17 : f[g] = v[20 * g]
  OBVIOUS
<1>2. f = [g \in 0 .. 17 |-> f[g]]
  OBVIOUS
<1> HIDE DEF f
<1>3. ASSUME NEW g \in 0 .. 17
      PROVE  f[g] = IF g = 0 THEN 0 ELSE Plus[f[g - 1]][w[20 * g]]
  <2>1. CASE g = 0
    <3>1. 20 * 0 = 0
      OBVIOUS
    <3>2. f[0] = v[20 * 0]
      BY <1>1
    <3> QED
      BY <2>1, <3>1, <3>2
  <2>2. CASE g # 0
    <3> DEFINE n == g - 1
    <3>0. n \in 0 .. 17 /\ g \in 1 .. 17
      BY <2>2
    <3>1. 20 * g \in 1 .. 343 /\ Block(20 * g) = 20 * n
      BY <3>0, BlockEnds
    <3> HIDE DEF n
    <3>2. 20 * g \in 0 .. 343 /\ 20 * n \in 0 .. 343
      BY <3>0
    <3>3. v[20 * n] \in Six /\ v[20 * g] \in Six
      BY <3>2 DEF Runs
    <3>4. w[20 * g] = Xor(v[20 * n], v[20 * g])
      BY <3>1, Zenon
    <3>5. Plus[v[20 * n]][Xor(v[20 * n], v[20 * g])] = v[20 * g]
      BY <3>3, FromEnds
    <3>6. f[g] = Plus[f[n]][w[20 * g]]
      BY <1>1, <3>0, <3>4, <3>5, Zenon
    <3> QED
      BY <2>2, <3>6 DEF n
  <2> QED
    BY <2>1, <2>2
<1>4. IsBefore(f, w)
  BY <1>2, <1>3, Zenon DEF IsBefore
<1> QED
  BY <1>4

LEMMA ValuesAre ==
  ASSUME NEW v \in Runs, v[0] = 0, NEW p, SumsAt(v, p)
  PROVE  \A k \in 1 .. 343 : Values(p)[k] = v[k]
<1> DEFINE w == CHOOSE f : IsWithin(f, p)
           b == CHOOSE f : IsBefore(f, w)
           u == [k \in 1 .. 343 |-> Plus[b[(k - 1) \div 20]][w[k]]]
<1>1. Values(p) = <<>> \o u
  BY DEF Values, IsWithin, IsBefore
<1>2. IsWithin(w, p)
  BY WithinExists
<1> HIDE DEF w
<1>3. \A k \in 1 .. 343 : w[k] = Xor(v[Block(k)], v[k])
  BY <1>2, WithinIs, ZenonT(40)
<1>4. IsBefore(b, w)
  BY <1>3, BeforeExists
<1> HIDE DEF b
<1>5. \A g \in 0 .. 17 : b[g] = v[20 * g]
  BY <1>3, <1>4, BeforeIs, Zenon
<1>6. ASSUME NEW k \in 1 .. 343 PROVE u[k] = v[k]
  <2>1. (k - 1) \div 20 \in 0 .. 17 /\ k \in 0 .. 343 /\ Block(k) \in 0 .. 343
    BY BlockType, ZenonT(40)
  <2>2. b[(k - 1) \div 20] = v[Block(k)]
    BY <1>5, <2>1, Zenon DEF Block
  <2>3. v[Block(k)] \in Six /\ v[k] \in Six
    BY <2>1 DEF Runs
  <2>4. Plus[v[Block(k)]][Xor(v[Block(k)], v[k])] = v[k]
    BY <2>3, FromEnds
  <2>5. u[k] = Plus[b[(k - 1) \div 20]][w[k]]
    OBVIOUS
  <2> QED
    BY <1>3, <2>2, <2>4, <2>5, Zenon
<1>7. <<>> \o u = u
  <2>1. \A k \in 1 .. 343 : v[k] \in Six
    <3>1. \A k \in 1 .. 343 : k \in 0 .. 343
      OBVIOUS
    <3> QED
      BY <3>1 DEF Runs
  <2>2. \A k \in 1 .. 343 : u[k] \in Six
    BY <1>6, <2>1
  <2>3. u = [k \in 1 .. 343 |-> u[k]]
    OBVIOUS
  <2> HIDE DEF u
  <2>4. u \in Seq(Six)
    <3>1. u \in [1 .. 343 -> Six]
      BY <2>2, <2>3
    <3>2. \E m \in Nat : u \in [1 .. m -> Six]
      <4>1. 343 \in Nat
        OBVIOUS
      <4> QED
        BY <3>1, <4>1
    <3> QED
      BY <3>2, IsSequence
  <2> QED
    BY <2>4, ConcatEmptySeq
<1> HIDE DEF u
<1> QED
  BY <1>1, <1>6, <1>7, Zenon

(* The values of a page, with a last one that the checksum leaves at 0.    *)
ValuesOf(low, page) == [k \in 0 .. 343 |-> IF k = 343 THEN 0 ELSE Value(low, page, k)]

LEMMA ValuesType ==
  ASSUME NEW low \in Groups, NEW page \in Page
  PROVE  ValuesOf(low, page) \in Runs /\ ValuesOf(low, page)[0] = 0
<1>1. ASSUME NEW k \in 0 .. 343 PROVE (IF k = 343 THEN 0 ELSE Value(low, page, k)) \in Six
  <2>1. CASE k = 343
    BY <2>1 DEF Six
  <2>2. CASE k # 343
    <3>1. k \in 0 .. 342
      BY <2>2
    <3> QED
      BY <2>2, <3>1, ValueType DEF Six
  <2> QED
    BY <2>1, <2>2
<1>2. ValuesOf(low, page)[0] = 0
  BY DEF ValuesOf, Value
<1> QED
  BY <1>1, <1>2 DEF ValuesOf, Runs

(* The bytes of a data field are the sums of each value and the one before.*)
LEMMA SumsOnTrack ==
  ASSUME Readable, NEW s \in 0 .. 15, NEW page, NEW low,
         page = PageOf(image, track, s), low = Packed(page)
  PROVE  SumsAt(ValuesOf(low, page), DataAt(s))
<1> DEFINE v == ValuesOf(low, page)
<1>1. page \in Page /\ low \in Groups
  <2>1. image \in Images /\ track \in 0 .. 34
    BY Zenon DEF Readable
  <2>2. page \in Page
    BY <2>1, PageType
  <2> QED
    BY <2>2, PackedType
<1>2. v \in Runs
  BY <1>1, ValuesType
<1>3. IsSector(s, page, low, Xor(Xor(254, track), s))
  BY AtSector
<1>4. \A k \in 1 .. 342 : ByteOf(s, 62 + k) = GCR(Xor(Value(low, page, k - 1), Value(low, page, k)))
  BY <1>3, Zenon DEF IsSector
<1>5. ByteOf(s, 405) = GCR(Value(low, page, 342))
  BY <1>3, Zenon DEF IsSector
<1>6. \A k \in 0 .. 342 : v[k] = Value(low, page, k)
  BY DEF ValuesOf
<1>7. v[343] = 0
  BY DEF ValuesOf
<1> HIDE DEF v
<1>8. \A k \in 0 .. 343 : v[k] \in Six
  BY <1>2 DEF Runs
<1>9. ASSUME NEW k \in 1 .. 343
      PROVE  ByteOf(s, 62 + k) = GCR(Xor(v[k - 1], v[k]))
  <2>1. CASE k # 343
    <3>1. k \in 1 .. 342 /\ k - 1 \in 0 .. 342 /\ k \in 0 .. 342
      BY <2>1
    <3> QED
      BY <1>4, <1>6, <3>1, Zenon
  <2>2. CASE k = 343
    <3>1. 343 - 1 = 342 /\ 62 + 343 = 405 /\ 342 \in 0 .. 342 /\ 342 \in 0 .. 343
      OBVIOUS
    <3>2. v[342] \in 0 .. 255
      <4>1. v[342] \in Six
        BY <1>8, <3>1
      <4> HIDE DEF v
      <4> QED
        BY <4>1 DEF Six
    <3>3. Xor(v[342], 0) = v[342]
      BY <3>2, XorZero
    <3>4. ByteOf(s, 405) = GCR(v[342])
      BY <1>5, <1>6, <3>1
    <3> QED
      BY <1>7, <2>2, <3>1, <3>3, <3>4
  <2> QED
    BY <2>1, <2>2
<1>10. ASSUME NEW k \in 1 .. 343
       PROVE  Rank[At(DataAt(s) + 2 + k)] = Xor(v[k - 1], v[k])
  <2>1. DataAt(s) + 2 + k = 409 * s + (62 + k) /\ 62 + k \in Offset
    BY DEF DataAt, Offset
  <2>2. At(409 * s + (62 + k)) = ByteOf(s, 62 + k)
    BY <2>1, AtPlace, ZenonT(40)
  <2>3. At(DataAt(s) + 2 + k) = GCR(Xor(v[k - 1], v[k]))
    BY <1>9, <2>1, <2>2, Zenon
  <2>4. Xor(v[k - 1], v[k]) \in 0 .. 63
    <3>1. v[k - 1] \in Six /\ v[k] \in Six
      <4>1. k - 1 \in 0 .. 343 /\ k \in 0 .. 343
        OBVIOUS
      <4> QED
        BY <1>8, <4>1, Zenon
    <3> QED
      BY <3>1, PlusIs DEF Six
  <2>5. Rank[GCR(Xor(v[k - 1], v[k]))] = Xor(v[k - 1], v[k])
    BY <2>4, RankOfValue
  <2> QED
    BY <2>3, <2>5, Zenon
<1> QED
  BY <1>10, Zenon DEF SumsAt, v

(* The three pairs of bits in a place of GCR_buffer2.                      *)
LEMMA Unpacked ==
  ASSUME NEW a \in 0 .. 3, NEW b \in 0 .. 3, NEW c \in 0 .. 3, NEW n, n = 16 * a + 4 * b + c
  PROVE  /\ (n \div 4 ^ 0) % 4 = c /\ (n \div 4 ^ 1) % 4 = b /\ (n \div 4 ^ 2) % 4 = a
<1>1. 4 ^ 0 = 1 /\ 4 ^ 1 = 4 /\ 4 ^ 2 = 16
  OBVIOUS
<1>2. n \in 0 .. 63 /\ n \div 1 = n /\ n % 4 = c
  OBVIOUS
<1>3. n \div 4 = 4 * a + b
  OBVIOUS
<1>4. (4 * a + b) % 4 = b
  OBVIOUS
<1>5. n \div 16 = a
  OBVIOUS
<1>6. a % 4 = a
  OBVIOUS
<1> QED
  BY <1>1, <1>2, <1>3, <1>4, <1>5, <1>6

(* Where the pairs of a page's bytes have gone, and back.                  *)
LEMMA PageRead ==
  ASSUME NEW page \in Page, NEW values,
         \A k \in 1 .. 342 : values[k] = Value(Packed(page), page, k)
  PROVE  PageAt(values) = page
<1> DEFINE low == Packed(page)
<1>1. low \in Groups
  BY PackedType
<1>2. ASSUME NEW i \in 0 .. 255
      PROVE  values[i + 87] * 4 + Swap_Bit((values[(i % 86) + 1] \div 4 ^ (i \div 86)) % 4) = page[i]
  <2> DEFINE m == i % 86
             r == i \div 86
             j == 85 - m
  <2>1. m \in 0 .. 85 /\ r \in 0 .. 2 /\ i = 86 * r + m
    OBVIOUS
  <2>2. page[i] \in 0 .. 255
    BY DEF Page
  <2>3. values[i + 87] = page[i] \div 4
    <3>1. i + 87 \in 1 .. 342 /\ i + 87 # 0 /\ ~(i + 87 <= 86) /\ (i + 87) - 87 = i
      OBVIOUS
    <3>2. values[i + 87] = Value(Packed(page), page, i + 87)
      BY <3>1
    <3> QED
      BY <3>1, <3>2 DEF Value
  <2> HIDE DEF m, r
  <2>4. values[m + 1] = low[j]
    <3>1. m + 1 \in 1 .. 342 /\ m + 1 # 0 /\ m + 1 <= 86 /\ 86 - (m + 1) = j
      BY <2>1
    <3>2. values[m + 1] = Value(low, page, m + 1)
      BY <3>1
    <3> HIDE DEF j, low
    <3> QED
      BY <3>1, <3>2 DEF Value
  <2> DEFINE a == LowBits(page, (257 - j) % 256)
             b == LowBits(page, 171 - j)
             c == LowBits(page, 85 - j)
  <2>5. low[j] = 16 * a + 4 * b + c
    <3>1. j \in 0 .. 85
      BY <2>1
    <3> HIDE DEF j
    <3> QED
      BY <3>1 DEF Packed
  <2>6. a \in 0 .. 3 /\ b \in 0 .. 3 /\ c \in 0 .. 3
    <3>1. (257 - j) % 256 \in 0 .. 255 /\ 171 - j \in 0 .. 255 /\ 85 - j \in 0 .. 255
      BY <2>1
    <3> HIDE DEF j
    <3> QED
      BY <3>1, LowBitsType
  <2>7. 171 - j = m + 86 /\ 85 - j = m /\ 257 - j = m + 172
    BY <2>1
  <2> HIDE DEF j, a, b, c
  <2>8. /\ (low[j] \div 4 ^ 0) % 4 = c /\ (low[j] \div 4 ^ 1) % 4 = b /\ (low[j] \div 4 ^ 2) % 4 = a
    <3> HIDE DEF low
    <3> QED
      BY <2>5, <2>6, Unpacked
  <2>9. (low[j] \div 4 ^ r) % 4 = LowBits(page, i)
    <3>1. CASE r = 0
      <4>1. i = 85 - j
        BY <2>1, <2>7, <3>1
      <4> QED
        BY <2>8, <3>1, <4>1 DEF c
    <3>2. CASE r = 1
      <4>1. i = 171 - j
        BY <2>1, <2>7, <3>2
      <4> QED
        BY <2>8, <3>2, <4>1 DEF b
    <3>3. CASE r = 2
      <4>1. i = 257 - j
        BY <2>1, <2>7, <3>3
      <4>2. i % 256 = i
        OBVIOUS
      <4> QED
        BY <2>8, <3>3, <4>1, <4>2 DEF a
    <3> QED
      BY <2>1, <3>1, <3>2, <3>3
  <2>10. Swap_Bit(LowBits(page, i)) = page[i] % 4
    <3>1. page[i] % 4 \in 0 .. 3
      BY <2>2
    <3> QED
      BY <3>1, SwapType DEF LowBits
  <2>11. (page[i] \div 4) * 4 + (page[i] % 4) = page[i]
    <3> DEFINE x == page[i]
    <3>1. x \in Nat
      BY <2>2
    <3> HIDE DEF x
    <3>2. (x \div 4) * 4 + (x % 4) = x
      BY <3>1
    <3> QED
      BY <3>2 DEF x
  <2>12. values[i + 87] * 4 + Swap_Bit((values[m + 1] \div 4 ^ r) % 4) = page[i]
    <3>1. Swap_Bit((values[m + 1] \div 4 ^ r) % 4) = page[i] % 4
      BY <2>4, <2>9, <2>10, Zenon
    <3> QED
      BY <2>3, <2>11, <3>1, Zenon
  <2> QED
    BY <2>12, Zenon DEF m, r
<1>3. PageAt(values) = [i \in 0 .. 255 |-> page[i]]
  BY <1>2, Zenon DEF PageAt
<1> QED
  BY <1>3 DEF Page

LEMMA PageIsRead ==
  ASSUME Readable, NEW s \in 0 .. 15
  PROVE  Values(DataAt(s))[343] = 0 /\ PageAt(Values(DataAt(s))) = PageOf(image, track, s)
<1> DEFINE page == PageOf(image, track, s)
           low == Packed(page)
           v == ValuesOf(low, page)
           values == Values(DataAt(s))
<1>1. page \in Page
  <2>1. image \in Images /\ track \in 0 .. 34
    BY Zenon DEF Readable
  <2> QED
    BY <2>1, PageType
<1>2. SumsAt(v, DataAt(s))
  BY SumsOnTrack
<1> HIDE DEF page
<1>3. low \in Groups
  BY <1>1, PackedType
<1>4. v \in Runs /\ v[0] = 0
  <2> HIDE DEF low
  <2> QED
    BY <1>1, <1>3, ValuesType
<1>5. (\A k \in 1 .. 342 : v[k] = Value(low, page, k)) /\ v[343] = 0
  <2> HIDE DEF low
  <2> QED
    BY DEF ValuesOf
<1> HIDE DEF v
<1>6. \A k \in 1 .. 343 : values[k] = v[k]
  BY <1>2, <1>4, ValuesAre
<1> HIDE DEF values
<1>7. \A k \in 1 .. 342 : values[k] = Value(Packed(page), page, k)
  <2>1. \A k \in 1 .. 342 : k \in 1 .. 343
    OBVIOUS
  <2> QED
    BY <1>5, <1>6, <2>1
<1>8. PageAt(values) = page
  BY <1>1, <1>7, PageRead
<1>9. values[343] = 0
  BY <1>5, <1>6
<1> QED
  BY <1>8, <1>9 DEF values, page

(* A reader that knows nothing of the encoder gets from every sector of    *)
(* every track the page of the image that DOS looks for there, and a       *)
(* checksum that comes out at 0 (dsk2nib.c:77-139): the bits an earlier    *)
(* sector left in GCR_buffer2 never reach the disk.                        *)
THEOREM EverySectorDecodes == Spec => []SectorsDecode
<1>1. IInv => SectorsDecode
  <2> SUFFICES ASSUME IInv, pc = "write" PROVE SectorsDecode
    BY DEF SectorsDecode
  <2>0. Readable
    BY WhatIsOnTrack
  <2>1. /\ Marks(150) = {AddressAt(s) : s \in 0 .. 15}
        /\ Marks(173) = {DataAt(s) : s \in 0 .. 15}
    BY <2>0, MarksAre DEF AddressMark, DataMark
  <2>2. ASSUME NEW p \in {AddressAt(s) : s \in 0 .. 15}
        PROVE  \E q \in {DataAt(s) : s \in 0 .. 15} :
                 /\ q > p /\ q < p + 32
                 /\ \E values \in {Values(q)} :
                      /\ values[343] = 0
                      /\ PageAt(values) =
                           [i \in 0 .. 255 |->
                              Data(image, track, Logical_Sector(Odd(p + 7)) * SECTOR_SIZE + i)]
    <3>1. PICK s \in 0 .. 15 : p = AddressAt(s)
      OBVIOUS
    <3> DEFINE q == DataAt(s)
    <3>2. q \in {DataAt(t) : t \in 0 .. 15} /\ q > p /\ q < p + 32
      BY <3>1 DEF AddressAt, DataAt
    <3>3. Odd(p + 7) = s
      BY <2>0, <3>1, AddressRead
    <3>4. Values(q)[343] = 0 /\ PageAt(Values(q)) = PageOf(image, track, s)
      BY <2>0, PageIsRead
    <3> HIDE DEF q
    <3>5. PageOf(image, track, s) = [i \in 0 .. 255 |->
                                       Data(image, track, Logical_Sector(Odd(p + 7)) * SECTOR_SIZE + i)]
      BY <3>3, Zenon DEF PageOf
    <3> QED
      BY <3>2, <3>4, <3>5
  <2> QED
    BY <2>1, <2>2 DEF SectorsDecode
<1> QED
  BY <1>1, Invariant, PTL
=============================================================================
