-------------------------- MODULE NodeBytesProofs --------------------------
(***************************************************************************)
(* On a little-endian machine everything written is read back, for bytes   *)
(* and labels of every width, every set of values and any number of items: *)
(* the type invariant of NodeBytes, RoundTrip and Aligned.                 *)
(***************************************************************************)
EXTENDS NodeBytes, SequenceLemmas

-----------------------------------------------------------------------------
(* Arithmetic.                                                             *)

(* A product grows with its factor. *)
LEMMA ProductOrder ==
  ASSUME NEW a \in Nat, NEW b \in Nat, NEW c \in Nat, a <= b
  PROVE  a * c <= b * c
<1>1. b = a + (b - a) /\ b - a \in Nat
  OBVIOUS
<1>2. b * c = a * c + (b - a) * c
  BY <1>1
<1>3. (b - a) * c >= 0
  BY <1>1
<1>4. a * c \in Int /\ b * c \in Int /\ (b - a) * c \in Int
  OBVIOUS
<1> QED
  BY <1>2, <1>3, <1>4

LEMMA ProductIsNat ==
  ASSUME NEW a \in Nat, NEW b \in Nat
  PROVE  a * b \in Nat
OBVIOUS

(* Quotient and remainder are determined by what they add up to. *)
LEMMA QuotientOf ==
  ASSUME NEW q \in Nat, NEW m \in Nat \ {0}, NEW r \in Nat, r < m
  PROVE  /\ (q * m + r) \div m = q
         /\ (q * m + r) % m = r
OBVIOUS

LEMMA SmallRemainder ==
  ASSUME NEW m \in Nat, NEW r \in Nat, r < m
  PROVE  r % m = r
OBVIOUS

LEMMA DivisionTypes ==
  ASSUME NEW n \in Nat, NEW m \in Nat \ {0}
  PROVE  n \div m \in Nat /\ n % m \in Nat /\ n % m < m
<1>1. n \div m \in Nat
  OBVIOUS
<1>2. n % m \in Nat
  OBVIOUS
<1>3. n % m < m
  OBVIOUS
<1> QED
  BY <1>1, <1>2, <1>3

LEMMA Division ==
  ASSUME NEW n \in Nat, NEW m \in Nat \ {0}
  PROVE  n = (n \div m) * m + (n % m)
OBVIOUS

(* To shift twice is to shift by both widths. *)
LEMMA DivisionTwice ==
  ASSUME NEW n \in Nat, NEW p \in Nat \ {0}, NEW b \in Nat \ {0}
  PROVE  n \div (p * b) = (n \div p) \div b
<1> DEFINE q == n \div p
           r == n % p
           s == q \div b
           t == q % b
<1>1. q \in Nat /\ r \in Nat /\ r < p /\ n = q * p + r
  BY DivisionTypes, Division
<1>2. s \in Nat /\ t \in Nat /\ t < b /\ q = s * b + t
  BY <1>1, DivisionTypes, Division
<1> HIDE DEF q, r, s, t
<1>3. n = s * (p * b) + (t * p + r)
  <2>1. q * p = (s * b) * p + t * p
    BY <1>1, <1>2
  <2>2. (s * b) * p = s * (p * b)
    BY <1>1, <1>2
  <2>3. /\ q * p \in Nat /\ t * p \in Nat
        /\ s * (p * b) \in Nat
    BY <1>1, <1>2
  <2> QED
    BY <1>1, <2>1, <2>2, <2>3
<1>4. t * p + r < p * b
  <2>1. (t + 1) * p <= b * p
    BY <1>2, ProductOrder
  <2>2. (t + 1) * p = t * p + p
    BY <1>2
  <2>3. b * p = p * b
    OBVIOUS
  <2>4. t * p \in Nat /\ b * p \in Nat /\ p * b \in Nat
    BY <1>2
  <2> QED
    BY <1>1, <2>1, <2>2, <2>3, <2>4
<1>5. p * b \in Nat \ {0} /\ t * p + r \in Nat
  BY <1>1, <1>2
<1>6. n \div (p * b) = s
  <2> DEFINE m == p * b
             u == t * p + r
  <2>1. m \in Nat \ {0} /\ u \in Nat /\ u < m /\ n = s * m + u
    BY <1>3, <1>4, <1>5
  <2> HIDE DEF m, u
  <2>2. (s * m + u) \div m = s
    BY <1>2, <2>1, QuotientOf
  <2>3. n \div m = s
    BY <2>1, <2>2
  <2> QED
    BY <2>3 DEF m
<1> QED
  BY <1>6 DEF s, q

(* A quotient reaches t when its number reaches t times the divisor. *)
LEMMA QuotientReaches ==
  ASSUME NEW n \in Nat, NEW m \in Nat \ {0}, NEW t \in Nat
  PROVE  n \div m >= t <=> n >= t * m
<1> DEFINE q == n \div m
           r == n % m
<1>1. q \in Nat /\ r \in Nat /\ r < m /\ n = q * m + r
  BY DivisionTypes, Division
<1> HIDE DEF q, r
<1>2. q * m \in Nat /\ t * m \in Nat
  BY <1>1
<1>3. CASE q >= t
  <2>1. t * m <= q * m
    BY <1>1, <1>3, ProductOrder
  <2>2. n >= t * m
    BY <1>1, <1>2, <2>1
  <2> QED
    BY <1>3, <2>2 DEF q
<1>4. CASE ~(q >= t)
  <2>1. (q + 1) * m <= t * m
    <3>1. q + 1 \in Nat /\ q + 1 <= t
      BY <1>1, <1>4
    <3> QED
      BY <3>1, ProductOrder
  <2>2. (q + 1) * m = q * m + m
    BY <1>1
  <2>3. ~(n >= t * m)
    BY <1>1, <1>2, <2>1, <2>2
  <2> QED
    BY <1>4, <2>3 DEF q
<1> QED
  BY <1>3, <1>4

-----------------------------------------------------------------------------
(* The number of values that k bytes can hold.                             *)

(* What the assumption on the top bit says of the width of a byte. *)
LEMMA BaseIsNat == Base \in Nat /\ Base >= 4 /\ TopBit \in Nat /\ TopBit >= 2
BY TopBitAssumption DEF Base

(* The recursive definition of Capacity has a solution: powers of Base. *)
LEMMA CapacityIs ==
  /\ Capacity[0] = 1
  /\ \A k \in Nat : Capacity[k] \in Nat \ {0} /\ Capacity[k + 1] = Capacity[k] * Base
<1> DEFINE next == [k \in Nat |-> IF k = 0 THEN 0 ELSE k - 1]
           step == [k \in Nat |-> [v \in Nat \ {0} |-> Base * v]]
           S    == Nat \ {0}
<1>1. \A v \in Nat \ {0} : Base * v \in Nat \ {0}
  BY BaseIsNat
<1>2. IsRecursion(S, 1, next, step)
  BY <1>1 DEF IsRecursion
<1>3. PICK f \in [Nat -> S] :
        f[0] = 1 /\ \A n \in Nat \ {0} : f[n] = step[n][f[next[n]]]
  BY <1>2, RecursionDefines
<1>4. ASSUME NEW n \in Nat \ {0} PROVE f[n] = Base * f[n - 1]
  <2>1. next[n] = n - 1 /\ n - 1 \in Nat
    OBVIOUS
  <2>2. f[n - 1] \in S
    BY <1>3, <2>1
  <2>3. \A v \in S : step[n][v] = Base * v
    OBVIOUS
  <2>4. f[n] = step[n][f[next[n]]]
    BY <1>3
  <2> HIDE DEF S, next, step
  <2> QED
    BY <2>1, <2>2, <2>3, <2>4
<1>5. f = [k \in Nat |-> IF k = 0 THEN 1 ELSE Base * f[k - 1]]
  BY <1>3, <1>4
<1>6. Capacity = [k \in Nat |-> IF k = 0 THEN 1 ELSE Base * Capacity[k - 1]]
  BY <1>5 DEF Capacity
<1>7. Capacity[0] = 1 /\ \A n \in Nat \ {0} : Capacity[n] = Base * Capacity[n - 1]
  BY <1>6
<1>8. \A k \in Nat : Capacity[k] \in Nat \ {0}
  <2> DEFINE T == {k \in Nat : Capacity[k] \notin Nat \ {0}}
  <2>1. CASE T = {}
    BY <2>1
  <2>2. CASE T # {}
    <3>1. PICK k \in T : \A l \in T : k <= l
      BY <2>2, LeastNumber
    <3>2. k \in Nat \ {0}
      BY <3>1, <1>7
    <3>3. Capacity[k - 1] \in Nat \ {0}
      BY <3>1, <3>2
    <3> QED
      BY <1>1, <1>7, <3>1, <3>2, <3>3
  <2> QED
    BY <2>1, <2>2
<1>9. ASSUME NEW k \in Nat PROVE Capacity[k + 1] = Capacity[k] * Base
  <2>1. Capacity[k + 1] = Base * Capacity[k]
    BY <1>7
  <2> QED
    BY <1>8, <2>1, BaseIsNat
<1> QED
  BY <1>7, <1>8, <1>9

(* The bytes of a number above the lowest k, without their lowest one. *)
LEMMA NextQuotient ==
  ASSUME NEW n \in Nat, NEW k \in Nat
  PROVE  n \div Capacity[k + 1] = (n \div Capacity[k]) \div Base
<1>1. Capacity[k] \in Nat \ {0} /\ Capacity[k + 1] = Capacity[k] * Base
  BY CapacityIs
<1>2. n \div (Capacity[k] * Base) = (n \div Capacity[k]) \div Base
  <2> DEFINE c == Capacity[k]
             b == Base
  <2>1. c \in Nat \ {0} /\ b \in Nat \ {0}
    BY <1>1, BaseIsNat
  <2> HIDE DEF c, b
  <2>2. n \div (c * b) = (n \div c) \div b
    BY <2>1, DivisionTwice
  <2> QED
    BY <2>2 DEF c, b
<1> QED
  BY <1>1, <1>2

-----------------------------------------------------------------------------
(* Words.  Holds(in, at, bytes): bytes stand in the vector from at on.     *)

Holds(in, pos, bytes) ==
  /\ pos \in Nat \ {0}
  /\ pos + Len(bytes) - 1 <= Len(in)
  /\ \A j \in 1 .. Len(bytes) : in[pos + j - 1] = bytes[j]

(* What stands in the vector stands there part by part. *)
LEMMA HoldsBoth ==
  ASSUME NEW S, NEW in, NEW pos, NEW b \in Seq(S), NEW c \in Seq(S),
         Holds(in, pos, b \o c), Len(in) \in Nat
  PROVE  Holds(in, pos, b) /\ Holds(in, pos + Len(b), c)
<1>1. /\ Len(b) \in Nat /\ Len(c) \in Nat
      /\ Len(b \o c) = Len(b) + Len(c)
      /\ \A j \in 1 .. Len(b) : (b \o c)[j] = b[j]
  OBVIOUS
<1>2. \A j \in 1 .. Len(c) : (b \o c)[Len(b) + j] = c[j]
  OBVIOUS
<1>3. Holds(in, pos, b)
  BY <1>1 DEF Holds
<1>4. ASSUME NEW j \in 1 .. Len(c) PROVE in[pos + Len(b) + j - 1] = c[j]
  <2> DEFINE i == Len(b) + j
  <2>1. i \in 1 .. Len(b \o c) /\ pos + Len(b) + j - 1 = pos + i - 1
    BY <1>1 DEF Holds
  <2>2. in[pos + i - 1] = (b \o c)[i]
    BY <2>1 DEF Holds
  <2> QED
    BY <1>2, <2>1, <2>2
<1>5. pos + Len(b) \in Nat \ {0} /\ pos + Len(b) + Len(c) - 1 <= Len(in)
  BY <1>1 DEF Holds
<1> QED
  BY <1>3, <1>4, <1>5 DEF Holds

(* A word of k bytes is k bytes. *)
LEMMA PutWordIs ==
  ASSUME NEW k \in Nat, NEW n \in Nat
  PROVE  PutWord(k, n) \in Seq(Byte) /\ Len(PutWord(k, n)) = k
<1>1. ASSUME NEW i \in 1 .. k
      PROVE  (n \div Capacity[Place(k, i - 1)]) % Base \in Byte
  <2>1. Place(k, i - 1) \in Nat
    BY DEF Place
  <2>2. Capacity[Place(k, i - 1)] \in Nat \ {0}
    BY <2>1, CapacityIs
  <2>3. n \div Capacity[Place(k, i - 1)] \in Nat
    BY <2>2, DivisionTypes
  <2>4. (n \div Capacity[Place(k, i - 1)]) % Base \in Nat
    BY <2>3, BaseIsNat, DivisionTypes
  <2>5. (n \div Capacity[Place(k, i - 1)]) % Base < Base
    BY <2>3, BaseIsNat, DivisionTypes
  <2> QED
    BY <2>4, <2>5, BaseIsNat DEF Byte
<1>2. PutWord(k, n) \in [1 .. k -> Byte]
  BY <1>1 DEF PutWord
<1> QED
  BY <1>2, FunctionIsSeq

(* A word that is read is the word that was written, in any byte order. *)
LEMMA WordIsRead ==
  ASSUME NEW k \in Nat, NEW n \in UInt(k), NEW in, NEW pos,
         Holds(in, pos, PutWord(k, n))
  PROVE  GetWord(k, in, pos) = n
<1>1. n \in Nat /\ n < Capacity[k] /\ Capacity[k] \in Nat \ {0}
  BY CapacityIs DEF UInt
<1> DEFINE place(i) == pos + Place(k, k - i)
           Tops == [i \in 0 .. k |-> n \div Capacity[k - i]]
           IsTop(f) == f = [i \in 0 .. k |->
                              IF i = 0 THEN 0 ELSE f[i - 1] * Base + in[place(i)]]
           top == CHOOSE f : IsTop(f)
<1>2. n \div Capacity[k] = 0
  <2>1. (0 * Capacity[k] + n) \div Capacity[k] = 0
    BY <1>1, QuotientOf
  <2>2. 0 * Capacity[k] + n = n
    BY <1>1
  <2> QED
    BY <2>1, <2>2
<1>3. ASSUME NEW i \in 1 .. k
      PROVE  n \div Capacity[k - i] = (n \div Capacity[k - (i - 1)]) * Base + in[place(i)]
  <2> DEFINE q == n \div Capacity[k - i]
  <2>1. k - i \in Nat /\ k - (i - 1) = (k - i) + 1
    OBVIOUS
  <2>2. n \div Capacity[k - (i - 1)] = q \div Base
    BY <1>1, <2>1, NextQuotient
  <2>3. in[place(i)] = q % Base
    <3> DEFINE j == Place(k, k - i) + 1
    <3>1. j \in 1 .. k /\ Place(k, j - 1) = k - i
      BY DEF Place
    <3>2. PutWord(k, n)[j] = q % Base
      BY <3>1 DEF PutWord
    <3>3. Len(PutWord(k, n)) = k
      BY <1>1, PutWordIs
    <3>4. in[pos + j - 1] = PutWord(k, n)[j]
      BY <3>1, <3>3 DEF Holds
    <3>5. pos + j - 1 = place(i)
      BY <3>1 DEF Holds, Place
    <3> QED
      BY <3>2, <3>4, <3>5
  <2>4. q \in Nat
    <3>1. Capacity[k - i] \in Nat \ {0}
      BY <2>1, CapacityIs
    <3> QED
      BY <1>1, <3>1, DivisionTypes
  <2> HIDE DEF q
  <2>5. q = (q \div Base) * Base + (q % Base)
    BY <2>4, BaseIsNat, Division
  <2> HIDE DEF place
  <2>6. q = (n \div Capacity[k - (i - 1)]) * Base + in[place(i)]
    BY <2>2, <2>3, <2>5
  <2> QED
    BY <2>6 DEF q
<1>4. IsTop(Tops)
  <2> HIDE DEF place
  <2>1. Tops[0] = 0
    BY <1>2
  <2>2. ASSUME NEW i \in 1 .. k PROVE Tops[i] = Tops[i - 1] * Base + in[place(i)]
    BY <1>3
  <2>3. ASSUME NEW i \in 0 .. k
        PROVE  Tops[i] = IF i = 0 THEN 0 ELSE Tops[i - 1] * Base + in[place(i)]
    BY <2>1, <2>2
  <2>4. Tops = [i \in 0 .. k |-> Tops[i]]
    OBVIOUS
  <2> HIDE DEF Tops
  <2> QED
    BY <2>3, <2>4
<1>5. IsTop(top)
  BY <1>4
<1>6. GetWord(k, in, pos) = top[k]
  BY DEF GetWord
<1> HIDE DEF place, top
<1>7. \A i \in 0 .. k : Tops[i] = n \div Capacity[k - i]
  OBVIOUS
<1>8. /\ top[0] = 0 /\ Tops[0] = 0
      /\ \A i \in 1 .. k : top[i] = top[i - 1] * Base + in[place(i)]
      /\ \A i \in 1 .. k : Tops[i] = Tops[i - 1] * Base + in[place(i)]
  <2> HIDE DEF Tops
  <2> QED
    BY <1>4, <1>5
<1> HIDE DEF Tops, IsTop
<1>9. \A i \in 0 .. k : top[i] = Tops[i]
  <2> DEFINE T == {i \in Nat : i <= k /\ top[i] # Tops[i]}
  <2>1. CASE T = {}
    BY <2>1
  <2>2. CASE T # {}
    <3>1. PICK i \in T : \A l \in T : i <= l
      BY <2>2, LeastNumber
    <3>2. i \in Nat /\ i <= k /\ top[i] # Tops[i]
      BY <3>1
    <3>3. i # 0
      BY <1>8, <3>2
    <3>4. i \in 1 .. k /\ i - 1 \in Nat /\ i - 1 <= k
      BY <3>2, <3>3
    <3>5. top[i - 1] = Tops[i - 1]
      BY <3>1, <3>4
    <3>6. /\ top[i] = top[i - 1] * Base + in[place(i)]
          /\ Tops[i] = Tops[i - 1] * Base + in[place(i)]
      BY <1>8, <3>4
    <3> QED
      BY <3>2, <3>5, <3>6
  <2> QED
    BY <2>1, <2>2
<1>10. Tops[k] = n
  <2>1. Tops[k] = n \div 1
    BY <1>7, CapacityIs
  <2> QED
    BY <1>1, <2>1
<1> QED
  BY <1>6, <1>9, <1>10

-----------------------------------------------------------------------------
(* The groups of a rank.                                                   *)

GroupByte(h) == (h % TopBit) + (IF h >= TopBit THEN TopBit ELSE 0)

(* One group of a rank: its bits, its continuation bit and the rest. *)
LEMMA GroupByteIs ==
  ASSUME NEW h \in Nat
  PROVE  /\ GroupByte(h) \in Byte
         /\ GroupByte(h) % TopBit = h % TopBit
         /\ Continues(GroupByte(h)) <=> h \div TopBit > 0
         /\ h = TopBit * (h \div TopBit) + (h % TopBit)
         /\ h \div TopBit \in Nat
         /\ h # 0 => h \div TopBit < h
<1>1. TopBit \in Nat \ {0} /\ TopBit >= 2
  BY BaseIsNat
<1> DEFINE r == h % TopBit
           q == h \div TopBit
<1>2. r \in Nat /\ r < TopBit /\ q \in Nat /\ h = q * TopBit + r
  BY <1>1, DivisionTypes, Division
<1>3. q >= 1 <=> h >= 1 * TopBit
  BY <1>1, QuotientReaches
<1> HIDE DEF r, q
<1>4. h >= TopBit <=> q > 0
  BY <1>1, <1>2, <1>3
<1>5. GroupByte(h) = r + (IF h >= TopBit THEN TopBit ELSE 0)
  BY DEF GroupByte, r
<1>6. GroupByte(h) \in Byte
  BY <1>1, <1>2, <1>5 DEF Byte, Base
<1>7. Continues(GroupByte(h)) <=> q > 0
  BY <1>1, <1>2, <1>4, <1>5 DEF Continues
<1>8. GroupByte(h) % TopBit = r
  <2>1. (0 * TopBit + r) % TopBit = r /\ (1 * TopBit + r) % TopBit = r
    BY <1>1, <1>2, QuotientOf
  <2>2. 0 * TopBit + r = r /\ 1 * TopBit + r = r + TopBit
    BY <1>1, <1>2
  <2>3. r % TopBit = r /\ (r + TopBit) % TopBit = r
    BY <2>1, <2>2
  <2>4. r + 0 = r
    BY <1>2
  <2> QED
    BY <1>5, <2>3, <2>4
<1>9. h = TopBit * q + r
  BY <1>1, <1>2
<1>10. h # 0 => q < h
  <2>1. CASE q = 0
    BY <1>2, <2>1
  <2>2. CASE q # 0
    <3>1. 2 * q <= TopBit * q
      BY <1>1, <1>2, ProductOrder
    <3>2. TopBit * q \in Nat
      BY <1>1, <1>2
    <3> QED
      BY <1>2, <1>9, <2>2, <3>1, <3>2
  <2> QED
    BY <2>1, <2>2
<1> QED
  BY <1>2, <1>6, <1>7, <1>8, <1>9, <1>10 DEF q, r

(* The recursive definition of the groups has a solution. *)
LEMMA PutGroupsIs ==
  /\ PutGroups(0) = <<>>
  /\ \A h \in Nat \ {0} : PutGroups(h) = <<GroupByte(h)>> \o PutGroups(h \div TopBit)
<1> DEFINE IsGroups(f) ==
             f = [h \in Nat |->
                    IF h = 0 THEN <<>>
                    ELSE <<(h % TopBit) + (IF h >= TopBit THEN TopBit ELSE 0)>>
                           \o f[h \div TopBit]]
           groups == CHOOSE f : IsGroups(f)
           next == [h \in Nat |-> IF h = 0 THEN 0 ELSE h \div TopBit]
           step == [h \in Nat |-> [v \in Seq(Byte) |-> <<GroupByte(h)>> \o v]]
           S    == Seq(Byte)
<1>1. IsRecursion(S, <<>>, next, step)
  <2>1. next \in [Nat -> Nat]
    BY GroupByteIs
  <2>2. \A h \in Nat \ {0} : next[h] < h
    BY GroupByteIs
  <2>3. step \in [Nat -> [S -> S]]
    BY GroupByteIs
  <2> HIDE DEF next, step
  <2> QED
    BY <2>1, <2>2, <2>3 DEF IsRecursion
<1>2. PICK f \in [Nat -> S] :
        f[0] = <<>> /\ \A n \in Nat \ {0} : f[n] = step[n][f[next[n]]]
  <2> HIDE DEF next, step, S
  <2> QED
    BY <1>1, RecursionDefines
<1>3. ASSUME NEW h \in Nat \ {0} PROVE f[h] = <<GroupByte(h)>> \o f[h \div TopBit]
  <2>1. next[h] = h \div TopBit /\ h \div TopBit \in Nat
    BY GroupByteIs
  <2>2. f[h \div TopBit] \in S
    BY <1>2, <2>1
  <2>3. \A v \in S : step[h][v] = <<GroupByte(h)>> \o v
    OBVIOUS
  <2>4. f[h] = step[h][f[next[h]]]
    BY <1>2
  <2> HIDE DEF S, next, step
  <2> QED
    BY <2>1, <2>2, <2>3, <2>4
<1>4. IsGroups(f)
  <2>1. ASSUME NEW h \in Nat
        PROVE  f[h] = IF h = 0 THEN <<>> ELSE <<GroupByte(h)>> \o f[h \div TopBit]
    BY <1>2, <1>3
  <2>2. f = [h \in Nat |-> f[h]]
    BY <1>2
  <2> QED
    BY <2>1, <2>2 DEF GroupByte
<1>5. IsGroups(groups)
  BY <1>4
<1>6. \A h \in Nat : PutGroups(h) = groups[h]
  BY DEF PutGroups
<1> HIDE DEF groups
<1>7. /\ groups[0] = <<>>
      /\ \A h \in Nat \ {0} : groups[h] = <<GroupByte(h)>> \o groups[h \div TopBit]
  BY <1>5 DEF GroupByte
<1> QED
  BY <1>6, <1>7, GroupByteIs

(* All but the last of the groups have a continuation bit. *)
LEMMA PutGroupsEnd ==
  ASSUME NEW h \in Nat
  PROVE  /\ PutGroups(h) \in Seq(Byte)
         /\ h > 0 => /\ Len(PutGroups(h)) > 0
                     /\ ~Continues(PutGroups(h)[Len(PutGroups(h))])
                     /\ \A j \in 1 .. Len(PutGroups(h)) - 1 : Continues(PutGroups(h)[j])
<1> DEFINE Good(x) ==
             /\ PutGroups(x) \in Seq(Byte)
             /\ x > 0 => /\ Len(PutGroups(x)) > 0
                         /\ ~Continues(PutGroups(x)[Len(PutGroups(x))])
                         /\ \A j \in 1 .. Len(PutGroups(x)) - 1 :
                              Continues(PutGroups(x)[j])
           T == {x \in Nat : ~Good(x)}
<1>1. CASE T = {}
  BY <1>1
<1>2. CASE T # {}
  <2>1. PICK x \in T : \A l \in T : x <= l
    BY <1>2, LeastNumber
  <2>2. x \in Nat \ {0}
    <3>1. Good(0)
      <4>1. PutGroups(0) = <<>>
        BY PutGroupsIs
      <4>2. <<>> \in Seq(Byte) /\ ~(0 > 0)
        OBVIOUS
      <4> QED
        BY <4>1, <4>2, Zenon
    <3> HIDE DEF Good
    <3> QED
      BY <2>1, <3>1
  <2> DEFINE y == x \div TopBit
             b == GroupByte(x)
             p == PutGroups(y)
  <2>3. /\ y \in Nat /\ y < x
        /\ b \in Byte /\ (Continues(b) <=> y > 0)
    BY <2>2, GroupByteIs
  <2>4. PutGroups(x) = <<b>> \o p
    BY <2>2, PutGroupsIs
  <2>5. Good(y)
    BY <2>1, <2>3
  <2>6. p = <<>> \/ y > 0
    BY <2>3, PutGroupsIs
  <2>7. p \in Seq(Byte)
    BY <2>5
  <2>8. y > 0 => /\ Len(p) > 0
                 /\ ~Continues(p[Len(p)])
                 /\ \A j \in 1 .. Len(p) - 1 : Continues(p[j])
    BY <2>5
  <2> HIDE DEF y, b, p
  <2> DEFINE g == <<b>> \o p
  <2>9. /\ g \in Seq(Byte) /\ Len(g) = Len(p) + 1 /\ Len(p) \in Nat /\ g[1] = b
        /\ \A j \in 1 .. Len(p) : g[j + 1] = p[j]
    BY <2>3, <2>7
  <2>10. ~Continues(g[Len(g)]) /\ \A j \in 1 .. Len(g) - 1 : Continues(g[j])
    <3>1. CASE y > 0
      <4>1. g[Len(g)] = p[Len(p)]
        BY <2>8, <2>9, <3>1
      <4>2. ASSUME NEW j \in 1 .. Len(g) - 1 PROVE Continues(g[j])
        <5>1. CASE j = 1
          BY <2>3, <2>9, <3>1, <5>1
        <5>2. CASE j # 1
          <6>1. j - 1 \in 1 .. Len(p) - 1 /\ j - 1 \in 1 .. Len(p) /\ (j - 1) + 1 = j
            BY <2>9, <5>2
          <6>2. g[j] = p[j - 1]
            BY <2>9, <6>1
          <6> QED
            BY <2>8, <3>1, <6>1, <6>2
        <5> QED
          BY <5>1, <5>2
      <4> QED
        BY <2>8, <3>1, <4>1, <4>2
    <3>2. CASE ~(y > 0)
      <4>1. Len(g) = 1
        BY <2>6, <2>9, <3>2
      <4> QED
        BY <2>3, <2>9, <3>2, <4>1
    <3> QED
      BY <3>1, <3>2
  <2> HIDE DEF g
  <2>11. PutGroups(x) = g
    BY <2>4 DEF g
  <2>12. Good(x)
    BY <2>9, <2>10, <2>11
  <2> QED
    BY <2>1, <2>12
<1> QED
  BY <1>1, <1>2

(* The search for the last byte finds the first one that does not continue. *)
LEMMA LastByteIs ==
  ASSUME NEW in, Len(in) \in Nat, NEW pos \in Nat, NEW last \in pos .. Len(in),
         ~Continues(in[last]), \A a \in Nat : pos <= a /\ a < last => Continues(in[a])
  PROVE  LastByte(in, pos) = last
<1> DEFINE T == {a \in pos .. Len(in) : ~Continues(in[a])} \cup {Len(in)}
           IsLeast(x) == x \in T /\ \A y \in T : x <= y
<1>1. IsLeast(last)
  OBVIOUS
<1>2. \A x : IsLeast(x) => x = last
  <2>1. \A x \in T : x \in Nat
    OBVIOUS
  <2> HIDE DEF T
  <2> QED
    BY <1>1, <2>1
<1>3. Min(T) = CHOOSE x : IsLeast(x)
  BY DEF Min
<1> HIDE DEF IsLeast, T
<1>4. Min(T) = last
  BY <1>1, <1>2, <1>3
<1> QED
  BY <1>4 DEF LastByte, T

(* The groups that are read are the groups that were written. *)
LEMMA GroupsAreRead ==
  ASSUME NEW h \in Nat \ {0}, NEW in \in Seq(Nat), NEW pos,
         Holds(in, pos, PutGroups(h))
  PROVE  /\ LastByte(in, pos) = pos + Len(PutGroups(h)) - 1
         /\ GetGroups(in, pos) = h
<1> DEFINE p == PutGroups(h)
           last == pos + Len(p) - 1
<1>1. /\ p \in Seq(Byte) /\ Len(p) \in Nat /\ Len(p) > 0 /\ ~Continues(p[Len(p)])
      /\ \A j \in 1 .. Len(p) - 1 : Continues(p[j])
  <2>1. p \in Seq(Byte)
    BY PutGroupsEnd
  <2>2. /\ Len(p) > 0 /\ ~Continues(p[Len(p)])
        /\ \A j \in 1 .. Len(p) - 1 : Continues(p[j])
    <3>1. h \in Nat /\ h > 0
      OBVIOUS
    <3> QED
      BY <3>1, PutGroupsEnd
  <2> HIDE DEF p
  <2>3. Len(p) \in Nat
    BY <2>1
  <2> QED
    BY <2>1, <2>2, <2>3
<1>2. /\ pos \in Nat \ {0} /\ last <= Len(in) /\ Len(in) \in Nat
      /\ \A j \in 1 .. Len(p) : in[pos + j - 1] = p[j]
  BY DEF Holds
<1> HIDE DEF p
<1>3. last \in pos .. Len(in) /\ last \in Nat
  BY <1>1, <1>2
<1>4. ~Continues(in[last])
  <2>1. in[pos + Len(p) - 1] = p[Len(p)]
    BY <1>1, <1>2
  <2> QED
    BY <1>1, <2>1
<1>5. ASSUME NEW a \in Nat, pos <= a, a < last PROVE Continues(in[a])
  <2> DEFINE j == a - pos + 1
  <2>1. j \in 1 .. Len(p) - 1 /\ j \in 1 .. Len(p) /\ pos + j - 1 = a
    BY <1>1, <1>2, <1>5
  <2> QED
    BY <1>1, <1>2, <2>1
<1> HIDE DEF last
<1>6. LastByte(in, pos) = last
  BY <1>2, <1>3, <1>4, <1>5, LastByteIs
<1> DEFINE IsFrom(f) ==
             f = [a \in 1 .. last + 1 |->
                    IF a > last THEN 0 ELSE (in[a] % TopBit) + TopBit * f[a + 1]]
           from == CHOOSE f : IsFrom(f)
<1>7. GetGroups(in, pos) = from[pos]
  BY <1>6 DEF GetGroups
<1>8. \E f : IsFrom(f)
  <2> DEFINE digit(a) == IF a \in 1 .. last THEN in[a] % TopBit ELSE 0
             next == [n \in Nat |-> IF n = 0 THEN 0 ELSE n - 1]
             step == [n \in Nat |-> [v \in Nat |-> digit(last + 1 - n) + TopBit * v]]
  <2>1. ASSUME NEW a PROVE digit(a) \in Nat
    <3>1. CASE a \in 1 .. last
      <4>1. in[a] \in Nat
        BY <1>3, <3>1
      <4> QED
        BY <3>1, <4>1, BaseIsNat, DivisionTypes
    <3> QED
      BY <3>1
  <2> HIDE DEF digit
  <2>2. IsRecursion(Nat, 0, next, step)
    <3>1. ASSUME NEW n \in Nat, NEW v \in Nat
          PROVE  digit(last + 1 - n) + TopBit * v \in Nat
      BY <2>1, BaseIsNat
    <3> QED
      BY <3>1 DEF IsRecursion
  <2>3. PICK g \in [Nat -> Nat] :
          g[0] = 0 /\ \A n \in Nat \ {0} : g[n] = step[n][g[next[n]]]
    <3> HIDE DEF next, step
    <3> DEFINE S == Nat
    <3>1. IsRecursion(S, 0, next, step)
      BY <2>2
    <3> HIDE DEF S
    <3>2. \E g \in [Nat -> S] :
            g[0] = 0 /\ \A n \in Nat \ {0} : g[n] = step[n][g[next[n]]]
      BY <3>1, RecursionDefines
    <3> QED
      BY <3>2 DEF S
  <2>4. ASSUME NEW n \in Nat \ {0} PROVE g[n] = digit(last + 1 - n) + TopBit * g[n - 1]
    <3>1. next[n] = n - 1 /\ g[n - 1] \in Nat
      OBVIOUS
    <3>2. \A v \in Nat : step[n][v] = digit(last + 1 - n) + TopBit * v
      OBVIOUS
    <3>3. g[n] = step[n][g[next[n]]]
      BY <2>3
    <3> HIDE DEF next, step
    <3> QED
      BY <3>1, <3>2, <3>3
  <2> DEFINE f == [a \in 1 .. last + 1 |-> g[last + 1 - a]]
  <2>5. ASSUME NEW a \in 1 .. last + 1
        PROVE  f[a] = IF a > last THEN 0 ELSE (in[a] % TopBit) + TopBit * f[a + 1]
    <3>1. CASE a > last
      <4>1. last + 1 - a = 0
        BY <1>3, <3>1
      <4> QED
        BY <2>3, <3>1, <4>1
    <3>2. CASE ~(a > last)
      <4>1. /\ last + 1 - a \in Nat \ {0} /\ a \in 1 .. last /\ a + 1 \in 1 .. last + 1
            /\ last + 1 - (last + 1 - a) = a /\ (last + 1 - a) - 1 = last + 1 - (a + 1)
        BY <1>3, <3>2
      <4>2. f[a] = g[last + 1 - a] /\ f[a + 1] = g[last + 1 - (a + 1)]
        BY <4>1
      <4>3. g[last + 1 - a] = digit(a) + TopBit * g[last + 1 - (a + 1)]
        BY <2>4, <4>1
      <4>4. digit(a) = in[a] % TopBit
        BY <4>1 DEF digit
      <4> HIDE DEF f
      <4> QED
        BY <3>2, <4>2, <4>3, <4>4
    <3> QED
      BY <3>1, <3>2
  <2>6. f = [a \in 1 .. last + 1 |-> f[a]]
    OBVIOUS
  <2> HIDE DEF f
  <2>7. IsFrom(f)
    BY <2>5, <2>6
  <2> QED
    BY <2>7
<1>9. IsFrom(from)
  BY <1>8
<1> HIDE DEF from
<1>10. \A a \in 1 .. last + 1 :
         from[a] = IF a > last THEN 0 ELSE (in[a] % TopBit) + TopBit * from[a + 1]
  BY <1>9
<1> HIDE DEF IsFrom
<1> DEFINE Reads(x) ==
             \A a \in 1 .. last :
               Holds(in, a, PutGroups(x)) /\ a + Len(PutGroups(x)) - 1 = last
                 => from[a] = x
           T == {x \in Nat \ {0} : ~Reads(x)}
<1>11. T = {}
  <2> SUFFICES ASSUME T # {} PROVE FALSE
    OBVIOUS
  <2>1. PICK x \in T : \A l \in T : x <= l
    BY LeastNumber
  <2>2. PICK a \in 1 .. last : /\ Holds(in, a, PutGroups(x))
                               /\ a + Len(PutGroups(x)) - 1 = last
                               /\ from[a] # x
    BY <2>1
  <2> DEFINE y == x \div TopBit
             b == GroupByte(x)
             q == PutGroups(y)
  <2>3. /\ x \in Nat \ {0} /\ y \in Nat /\ y < x /\ b \in Byte
        /\ b % TopBit = x % TopBit
        /\ x = TopBit * y + (x % TopBit)
    BY <2>1, GroupByteIs
  <2>4. PutGroups(x) = <<b>> \o q
    BY <2>3, PutGroupsIs
  <2>5. q \in Seq(Byte) /\ Len(q) \in Nat /\ (y > 0 => Len(q) > 0)
    <3>1. q \in Seq(Byte)
      BY <2>3, PutGroupsEnd
    <3>2. y > 0 => Len(q) > 0
      BY <2>3, PutGroupsEnd
    <3> HIDE DEF q
    <3> QED
      BY <3>1, <3>2
  <2>6. y = 0 => q = <<>>
    BY PutGroupsIs
  <2> HIDE DEF y, b, q
  <2>7. Holds(in, a, <<b>>) /\ Holds(in, a + 1, q)
    <3>1. <<b>> \in Seq(Byte) /\ Len(<<b>>) = 1
      BY <2>3
    <3> DEFINE bs == <<b>>
    <3>2. Holds(in, a, bs \o q)
      BY <2>2, <2>4
    <3>3. bs \in Seq(Byte) /\ Len(bs) = 1
      BY <3>1
    <3> HIDE DEF bs
    <3>4. Holds(in, a, bs) /\ Holds(in, a + Len(bs), q)
      BY <1>2, <2>5, <3>2, <3>3, HoldsBoth
    <3> QED
      BY <3>3, <3>4 DEF bs
  <2>8. in[a] = b
    <3>1. in[a + 1 - 1] = <<b>>[1]
      BY <2>7 DEF Holds
    <3>2. a + 1 - 1 = a
      OBVIOUS
    <3> QED
      BY <3>1, <3>2
  <2>9. Len(PutGroups(x)) = Len(q) + 1
    BY <2>3, <2>4, <2>5
  <2>10. from[a] = (x % TopBit) + TopBit * from[a + 1]
    <3>1. a \in 1 .. last + 1 /\ ~(a > last)
      BY <1>3
    <3> QED
      BY <1>10, <2>3, <2>8, <3>1
  <2>11. from[a + 1] = y
    <3>1. CASE y = 0
      <4>1. a + 1 \in 1 .. last + 1 /\ a + 1 > last
        BY <1>3, <2>2, <2>6, <2>9, <3>1
      <4> QED
        BY <1>10, <3>1, <4>1
    <3>2. CASE y # 0
      <4>1. a + 1 \in 1 .. last /\ a + 1 + Len(q) - 1 = last
        <5>1. Len(q) > 0 /\ Len(q) \in Nat
          BY <2>3, <2>5, <3>2
        <5>2. a + (Len(q) + 1) - 1 = last /\ a \in Nat /\ a >= 1
          BY <2>2, <2>9
        <5> DEFINE l == Len(q)
        <5>3. l \in Nat /\ l > 0 /\ a + (l + 1) - 1 = last /\ a \in Nat /\ last \in Nat
          BY <1>3, <5>1, <5>2
        <5> HIDE DEF l
        <5>4. a + 1 \in 1 .. last /\ a + 1 + l - 1 = last
          BY <5>3
        <5> QED
          BY <5>4 DEF l
      <4>2. Reads(y)
        BY <2>1, <2>3, <3>2
      <4> QED
        BY <2>7, <4>1, <4>2 DEF q
    <3> QED
      BY <3>1, <3>2
  <2>12. x % TopBit \in Nat /\ TopBit * y \in Nat
    BY <2>3, BaseIsNat, DivisionTypes
  <2> QED
    BY <2>2, <2>3, <2>10, <2>11, <2>12
<1>12. from[pos] = h
  <2>1. pos \in 1 .. last
    BY <1>2, <1>3
  <2>2. Reads(h)
    BY <1>11
  <2>3. pos + Len(PutGroups(h)) - 1 = last
    BY DEF last, p
  <2> QED
    BY <2>1, <2>2, <2>3
<1> QED
  BY <1>6, <1>7, <1>12 DEF last, p

-----------------------------------------------------------------------------
(* The encoders.                                                           *)

(* The tag that is chosen leaves enough bytes for the value. *)
LEMMA TagIs ==
  ASSUME NEW n \in UInt(8)
  PROVE  /\ TagOf(n) \in 0 .. 3
         /\ n \in Nat
         /\ CodewordSize(TagOf(n)) \in Nat
         /\ n \in UInt(CodewordSize(TagOf(n)))
<1>1. n \in Nat
  BY CapacityIs DEF UInt
<1>2. UInt(0) = 0 .. 0
  BY CapacityIs DEF UInt
<1>3. CASE TagOf(n) = EMPTY
  <2>1. n = 0
    BY <1>3 DEF TagOf, EMPTY, UINT8, UINT16, UINT64
  <2>2. CodewordSize(TagOf(n)) = 0
    <3>1. CodewordSize(EMPTY) = 0
      BY DEF CodewordSize, EMPTY, UINT8, UINT16
    <3> QED
      BY <1>3, <3>1
  <2> QED
    BY <1>1, <1>2, <1>3, <2>1, <2>2 DEF EMPTY
<1>4. CASE TagOf(n) # EMPTY
  <2>1. \/ TagOf(n) = 1 /\ n \in UInt(1)
        \/ TagOf(n) = 2 /\ n \in UInt(2)
        \/ TagOf(n) = 3
    BY <1>4 DEF TagOf, EMPTY, UINT8, UINT16, UINT64
  <2>2. CodewordSize(1) = 1 /\ CodewordSize(2) = 2 /\ CodewordSize(3) = 8
    BY DEF CodewordSize, EMPTY, UINT8, UINT16
  <2> QED
    BY <1>1, <2>1, <2>2
<1> QED
  BY <1>3, <1>4

(* OffsetEncoder::serialise appends as many bytes as the size says. *)
LEMMA OffsetIsCoded ==
  ASSUME NEW n \in UInt(8)
  PROVE  /\ PutOffset(n) \in Seq(Byte)
         /\ Len(PutOffset(n)) = OffsetSize(n)
         /\ OffsetSize(n) \in Nat
BY TagIs, PutWordIs DEF PutOffset, OffsetSize

(* OffsetEncoder::deserialise and skip undo serialise. *)
LEMMA OffsetIsRead ==
  ASSUME NEW n \in UInt(8), NEW in, NEW pos, Holds(in, pos, PutOffset(n))
  PROVE  /\ GetOffset(in, pos, TagOf(n)) = n
         /\ SkipOffset(pos, TagOf(n)) = pos + OffsetSize(n)
BY TagIs, WordIsRead DEF PutOffset, GetOffset, SkipOffset, OffsetSize

(* The word at the start of a wide rank. *)
RankWord(n) ==
  (n % WordTop) + (IF n \div WordTop > 0 THEN WordTop ELSE 0)

(* The word of a wide rank holds its low bits, and its top bit says        *)
(* whether there are groups.                                               *)
LEMMA RankWordIs ==
  ASSUME NEW n \in Nat
  PROVE  /\ RankWord(n) \in UInt(4)
         /\ RankWord(n) \in Nat /\ RankWord(n) < Capacity[4]
         /\ WordTop \in Nat \ {0}
         /\ n \div WordTop \in Nat
         /\ n % WordTop \in Nat
         /\ RankWord(n) >= WordTop <=> n \div WordTop > 0
         /\ ~(n \div WordTop > 0) => RankWord(n) = n
         /\ RankWord(n) % WordTop = n % WordTop
         /\ n = (n % WordTop) + WordTop * (n \div WordTop)
<1> DEFINE w == WordTop
           r == n % w
           q == n \div w
<1>1. w \in Nat \ {0} /\ Capacity[4] = w + w
  <2>1. Capacity[3] \in Nat \ {0} /\ Capacity[3 + 1] = Capacity[3] * Base
    BY CapacityIs
  <2> DEFINE c == Capacity[3]
  <2>2. c \in Nat \ {0} /\ TopBit \in Nat \ {0} /\ w = TopBit * c
        /\ Capacity[4] = c * (2 * TopBit)
    BY <2>1, BaseIsNat DEF WordTop, Base
  <2> HIDE DEF c, w
  <2>3. TopBit * c \in Nat \ {0} /\ c * (2 * TopBit) = TopBit * c + TopBit * c
    BY <2>2
  <2> QED
    BY <2>2, <2>3
<1> HIDE DEF w
<1>2. r \in Nat /\ r < w /\ q \in Nat /\ n = q * w + r
  BY <1>1, DivisionTypes, Division
<1> HIDE DEF r, q
<1>3. RankWord(n) = r + (IF q > 0 THEN w ELSE 0)
  BY DEF RankWord, w, r, q
<1>4. /\ RankWord(n) \in Nat /\ RankWord(n) < Capacity[4]
      /\ RankWord(n) >= w <=> q > 0
  BY <1>1, <1>2, <1>3
<1>8. RankWord(n) \in UInt(4)
  BY <1>1, <1>4 DEF UInt
<1>5. RankWord(n) % w = r
  <2>1. (0 * w + r) % w = r /\ (1 * w + r) % w = r
    BY <1>1, <1>2, QuotientOf
  <2>2. 0 * w + r = r /\ 1 * w + r = r + w /\ r + 0 = r
    BY <1>1, <1>2
  <2> QED
    BY <1>3, <2>1, <2>2
<1>6. ~(q > 0) => RankWord(n) = n
  <2>1. q = 0 => q * w = 0
    BY <1>1
  <2> QED
    BY <1>1, <1>2, <1>3, <2>1
<1>7. n = r + w * q
  BY <1>1, <1>2
<1> QED
  BY <1>1, <1>2, <1>4, <1>5, <1>6, <1>7, <1>8 DEF w, r, q

(* A rank is a word, and groups if it is wide. *)
LEMMA PutRankIs ==
  ASSUME NEW n \in UInt(8)
  PROVE  /\ TagOf(n) # UINT64 => PutRank(n) = PutWord(CodewordSize(TagOf(n)), n)
         /\ TagOf(n) = UINT64
              => PutRank(n) = PutWord(4, RankWord(n)) \o PutGroups(n \div WordTop)
BY DEF PutRank, RankWord

(* RankEncoder::serialise appends as many bytes as the size says. *)
LEMMA RankIsCoded ==
  ASSUME NEW n \in UInt(8)
  PROVE  /\ PutRank(n) \in Seq(Byte)
         /\ Len(PutRank(n)) = RankSize(n)
         /\ RankSize(n) \in Nat
<1>1. CASE TagOf(n) # UINT64
  BY <1>1, TagIs, PutWordIs, PutRankIs DEF RankSize
<1>2. CASE TagOf(n) = UINT64
  <2> DEFINE b == PutWord(4, RankWord(n))
             c == PutGroups(n \div WordTop)
  <2>1. n \div WordTop \in Nat /\ RankWord(n) \in Nat
    BY TagIs, RankWordIs
  <2>2. b \in Seq(Byte) /\ Len(b) = 4
    BY <2>1, PutWordIs
  <2>3. c \in Seq(Byte)
    BY <2>1, PutGroupsEnd
  <2>4. PutRank(n) = b \o c /\ RankSize(n) = 4 + Len(c)
    BY <1>2, PutRankIs DEF RankSize
  <2> HIDE DEF b, c
  <2>5. b \o c \in Seq(Byte) /\ Len(b \o c) = Len(b) + Len(c) /\ Len(c) \in Nat
    <3>1. b \in Seq(Byte) /\ c \in Seq(Byte)
      BY <2>2, <2>3
    <3> QED
      BY <3>1
  <2>6. Len(b) + Len(c) = 4 + Len(c) /\ 4 + Len(c) \in Nat
    BY <2>2, <2>5
  <2> QED
    BY <2>4, <2>5, <2>6
<1> QED
  BY <1>1, <1>2

(* Where a wide rank stands, its word does, and its groups behind it. *)
LEMMA WideRankStands ==
  ASSUME NEW n \in UInt(8), TagOf(n) = UINT64, NEW in \in Seq(Nat), NEW pos,
         Holds(in, pos, PutRank(n))
  PROVE  /\ pos \in Nat \ {0}
         /\ Holds(in, pos, PutWord(4, RankWord(n)))
         /\ Holds(in, pos + 4, PutGroups(n \div WordTop))
<1> DEFINE b == PutWord(4, RankWord(n))
           c == PutGroups(n \div WordTop)
<1>1. n \div WordTop \in Nat /\ RankWord(n) \in Nat
  BY TagIs, RankWordIs
<1>2. b \in Seq(Byte) /\ Len(b) = 4 /\ c \in Seq(Byte)
  BY <1>1, PutWordIs, PutGroupsEnd
<1>3. Holds(in, pos, b \o c)
  BY PutRankIs
<1> HIDE DEF b, c
<1>4. Holds(in, pos, b) /\ Holds(in, pos + Len(b), c)
  <2>1. Len(in) \in Nat
    OBVIOUS
  <2> QED
    BY <1>2, <1>3, <2>1, HoldsBoth
<1>5. pos \in Nat \ {0}
  BY <1>3 DEF Holds
<1> QED
  BY <1>2, <1>4, <1>5 DEF b, c

(* RankEncoder::deserialise undoes serialise, in any byte order. *)
LEMMA RankIsRead ==
  ASSUME NEW n \in UInt(8), NEW in \in Seq(Nat), NEW pos,
         Holds(in, pos, PutRank(n))
  PROVE  GetRank(in, pos, TagOf(n)) = n
<1>1. CASE TagOf(n) # UINT64
  BY <1>1, TagIs, PutRankIs, WordIsRead DEF GetRank
<1>2. CASE TagOf(n) = UINT64
  <2> DEFINE word == GetWord(4, in, pos)
             h == n \div WordTop
  <2>1. n \in Nat
    BY TagIs
  <2>2. /\ Holds(in, pos, PutWord(4, RankWord(n)))
        /\ Holds(in, pos + 4, PutGroups(h))
    BY <1>2, WideRankStands
  <2>3. word = RankWord(n)
    BY <2>1, <2>2, RankWordIs, WordIsRead
  <2>4. /\ h \in Nat /\ WordTop \in Nat /\ word \in Nat
        /\ word >= WordTop <=> h > 0
        /\ ~(h > 0) => word = n
        /\ word % WordTop = n % WordTop
        /\ n = (n % WordTop) + WordTop * h
    BY <2>1, <2>3, RankWordIs
  <2>5. h > 0 => GetGroups(in, pos + 4) = h
    BY <2>2, <2>4, GroupsAreRead
  <2>6. GetRank(in, pos, TagOf(n)) =
          IF word < WordTop THEN word
          ELSE (word % WordTop) + WordTop * GetGroups(in, pos + 4)
    BY <1>2 DEF GetRank
  <2> HIDE DEF word, h
  <2>7. CASE h > 0
    BY <2>4, <2>5, <2>6, <2>7
  <2>8. CASE ~(h > 0)
    BY <2>4, <2>6, <2>8
  <2> QED
    BY <2>7, <2>8
<1> QED
  BY <1>1, <1>2

(* Where the machine puts the top of a word last, skip finds the end. *)
LEMMA RankIsSkipped ==
  ASSUME ~BigEndian, NEW n \in UInt(8), NEW in \in Seq(Nat), NEW pos,
         Holds(in, pos, PutRank(n))
  PROVE  SkipRank(in, pos, TagOf(n)) = pos + RankSize(n)
<1>1. CASE TagOf(n) # UINT64
  BY <1>1, TagIs DEF SkipRank, RankSize
<1>2. CASE TagOf(n) = UINT64
  <2> DEFINE w == RankWord(n)
             h == n \div WordTop
             g == PutGroups(h)
  <2>1. /\ n \in Nat /\ w \in Nat /\ w < Capacity[4] /\ h \in Nat
        /\ w >= WordTop <=> h > 0
    BY TagIs, RankWordIs
  <2>2. /\ pos \in Nat \ {0}
        /\ Holds(in, pos, PutWord(4, w))
        /\ Holds(in, pos + 4, g)
    BY <1>2, WideRankStands
  <2>3. in[pos + 3] = PutWord(4, w)[4]
    <3>1. Len(PutWord(4, w)) = 4
      BY <2>1, PutWordIs
    <3>2. in[pos + 4 - 1] = PutWord(4, w)[4]
      BY <2>2, <3>1 DEF Holds
    <3>3. pos + 4 - 1 = pos + 3
      BY <2>2
    <3> QED
      BY <3>2, <3>3
  <2>4. PutWord(4, w)[4] = (w \div Capacity[3]) % Base
    BY DEF PutWord, Place
  <2>5. (w \div Capacity[3]) % Base = w \div Capacity[3]
    <3> DEFINE c == Capacity[3]
               q == w \div c
    <3>1. c \in Nat \ {0} /\ Capacity[3 + 1] = c * Base
      BY CapacityIs
    <3> HIDE DEF c
    <3>2. q \in Nat /\ w = q * c + (w % c) /\ w % c \in Nat
      BY <2>1, <3>1, DivisionTypes, Division
    <3>3. q >= Base <=> w >= Base * c
      BY <2>1, <3>1, BaseIsNat, QuotientReaches
    <3>4. Capacity[4] = Base * c
      BY <3>1, BaseIsNat
    <3> HIDE DEF q, w
    <3>5. Base * c \in Nat
      BY <3>1, BaseIsNat
    <3>6. q < Base
      BY <2>1, <3>2, <3>3, <3>4, <3>5, BaseIsNat
    <3>7. q % Base = q
      BY <3>2, <3>6, BaseIsNat, SmallRemainder
    <3> QED
      BY <3>7 DEF q, c
  <2>6. Continues(in[pos + 3]) <=> h > 0
    <3>1. Capacity[3] \in Nat \ {0}
      BY CapacityIs
    <3>2. w \div Capacity[3] >= TopBit <=> w >= TopBit * Capacity[3]
      BY <2>1, <3>1, BaseIsNat, QuotientReaches
    <3> QED
      BY <2>1, <2>3, <2>4, <2>5, <3>2 DEF Continues, WordTop
  <2>7. Len(in) \in Nat /\ pos + 3 \in Nat /\ pos + 3 <= Len(in)
    <3>1. Len(PutWord(4, w)) = 4
      BY <2>1, PutWordIs
    <3> QED
      BY <2>2, <3>1 DEF Holds
  <2>8. RankSize(n) = 4 + Len(g)
    BY <1>2 DEF RankSize
  <2>9. SkipRank(in, pos, TagOf(n)) = LastByte(in, pos + 3) + 1
    BY <1>2 DEF SkipRank
  <2> HIDE DEF w
  <2>10. CASE ~(h > 0)
    <3>1. LastByte(in, pos + 3) = pos + 3
      <4>1. pos + 3 \in pos + 3 .. Len(in)
        BY <2>7
      <4>2. \A a \in Nat : ~(pos + 3 <= a /\ a < pos + 3)
        BY <2>7
      <4> QED
        BY <2>6, <2>7, <2>10, <4>1, <4>2, LastByteIs
    <3>2. g = <<>>
      BY <2>1, <2>10, PutGroupsIs
    <3> QED
      BY <2>2, <2>8, <2>9, <3>1, <3>2
  <2>11. CASE h > 0
    <3> DEFINE last == pos + 4 + Len(g) - 1
    <3>1. h \in Nat \ {0}
      BY <2>1, <2>11
    <3>2. g \in Seq(Byte)
      BY <2>1, PutGroupsEnd
    <3>3. Len(g) > 0 /\ ~Continues(g[Len(g)])
          /\ \A j \in 1 .. Len(g) - 1 : Continues(g[j])
      BY <2>1, <2>11, PutGroupsEnd
    <3> HIDE DEF g
    <3>4. Len(g) \in Nat
      BY <3>2
    <3>5. last \in Nat /\ last \in pos + 3 .. Len(in)
      BY <2>2, <2>7, <3>3, <3>4 DEF Holds
    <3>6. ~Continues(in[last])
      <4>1. Len(g) \in 1 .. Len(g)
        BY <3>3, <3>4
      <4>2. in[last] = g[Len(g)]
        BY <2>2, <4>1 DEF Holds
      <4> QED
        BY <3>3, <4>2
    <3>7. ASSUME NEW a \in Nat, pos + 3 <= a, a < last PROVE Continues(in[a])
      <4>1. CASE a = pos + 3
        BY <2>6, <2>11, <4>1
      <4>2. CASE a # pos + 3
        <5> DEFINE j == a - (pos + 4) + 1
        <5>1. /\ j \in 1 .. Len(g) - 1 /\ j \in 1 .. Len(g)
              /\ pos + 4 + j - 1 = a
          BY <2>2, <3>3, <3>4, <3>5, <3>7, <4>2
        <5> HIDE DEF j
        <5>2. in[pos + 4 + j - 1] = g[j]
          BY <2>2, <5>1 DEF Holds
        <5> QED
          BY <3>3, <5>1, <5>2
      <4> QED
        BY <4>1, <4>2
    <3> HIDE DEF last
    <3>8. LastByte(in, pos + 3) = last
      BY <2>7, <3>5, <3>6, <3>7, LastByteIs
    <3>9. last + 1 = pos + (4 + Len(g))
      BY <2>2, <3>4 DEF last
    <3> QED
      BY <2>8, <2>9, <3>8, <3>9
  <2> QED
    BY <2>10, <2>11
<1> QED
  BY <1>1, <1>2

-----------------------------------------------------------------------------
(* Nodes.                                                                  *)

(* The four fields of a header byte do not overlap. *)
LEMMA FieldsAreSeparate ==
  ASSUME NEW c \in Nat \ {0}, NEW size \in Nat, size < c, NEW leaf \in 0 .. 1,
         NEW o \in 0 .. 3, NEW r \in 0 .. 3, NEW x,
         x = size + leaf * c + o * (2 * c) + r * (4 * (2 * c))
  PROVE  /\ x \in 0 .. 4 * (4 * (2 * c)) - 1
         /\ x % c = size
         /\ (x \div c) % 2 = leaf
         /\ (x \div (2 * c)) % 4 = o
         /\ (x \div (4 * (2 * c))) % 4 = r
<1> DEFINE k == leaf + 2 * o + 8 * r
           t == o + 4 * r
<1>1. k \in Nat /\ k <= 31 /\ t \in Nat /\ k = t * 2 + leaf /\ t = r * 4 + o
  OBVIOUS
<1>2. x = k * c + size
  <2>1. k * c = leaf * c + (2 * o) * c + (8 * r) * c
    OBVIOUS
  <2>2. (2 * o) * c = o * (2 * c) /\ (8 * r) * c = r * (4 * (2 * c))
    OBVIOUS
  <2>3. /\ leaf * c \in Nat /\ o * (2 * c) \in Nat /\ r * (4 * (2 * c)) \in Nat
        /\ k * c \in Nat
    OBVIOUS
  <2> HIDE DEF k
  <2> QED
    BY <2>1, <2>2, <2>3
<1> HIDE DEF k, t
<1>3. x \div c = k /\ x % c = size
  <2>1. (k * c + size) \div c = k /\ (k * c + size) % c = size
    BY <1>1, QuotientOf
  <2> QED
    BY <1>2, <2>1
<1>4. k \div 2 = t /\ k % 2 = leaf
  BY <1>1
<1>5. t \div 4 = r /\ t % 4 = o
  BY <1>1
<1>6. x \in Nat /\ k * c \in Nat /\ k * c <= 31 * c
  BY <1>1, <1>2, ProductOrder
<1>7. x \div (2 * c) = t
  <2>1. x \div (c * 2) = (x \div c) \div 2
    BY <1>6, DivisionTwice
  <2>2. c * 2 = 2 * c
    OBVIOUS
  <2> QED
    BY <1>3, <1>4, <2>1, <2>2
<1>8. x \div (4 * (2 * c)) = r
  <2> DEFINE d == 2 * c
  <2>1. d \in Nat \ {0}
    OBVIOUS
  <2>2. x \div d = t
    BY <1>7
  <2> HIDE DEF d
  <2>3. x \div (d * 4) = (x \div d) \div 4
    BY <1>6, <2>1, DivisionTwice
  <2>4. d * 4 = 4 * d
    BY <2>1
  <2>5. x \div (4 * d) = r
    BY <1>5, <2>2, <2>3, <2>4
  <2> QED
    BY <2>5 DEF d
<1>9. x \in 0 .. 4 * (4 * (2 * c)) - 1
  <2>1. 4 * (4 * (2 * c)) = 32 * c
    OBVIOUS
  <2> QED
    BY <1>2, <1>6, <2>1
<1>10. r % 4 = r
  OBVIOUS
<1> QED
  BY <1>3, <1>4, <1>5, <1>7, <1>8, <1>9, <1>10

(* The header byte of a node that is written. *)
LEMMA HeaderIs ==
  ASSUME NEW label \in Labels, NEW rank \in Ranks, NEW offset \in Offsets,
         NEW leaf \in BOOLEAN, NEW x, x = PackHeader(label, rank, offset, leaf)
  PROVE  /\ x \in HeaderByte /\ x \in Nat
         /\ x % IS_LEAF = Len(label)
         /\ (x \div IS_LEAF) % 2 = 1 <=> leaf
         /\ (x \div OFFSET) % 4 = TagOf(offset)
         /\ (x \div RANK) % 4 = TagOf(rank)
<1> DEFINE bit == IF leaf THEN 1 ELSE 0
           o == TagOf(offset)
           r == TagOf(rank)
           c == LabelRange
           size == Len(label)
<1>1. o \in 0 .. 3 /\ r \in 0 .. 3 /\ bit \in 0 .. 1
  BY TagIs, ValuesAssumption
<1>2. size \in Nat /\ size < c /\ c \in Nat \ {0}
  BY LabelsAssumption, LabelRangeAssumption
<1>3. (IF leaf THEN IS_LEAF ELSE 0) = bit * c
  BY <1>2 DEF IS_LEAF
<1>4. x = size + bit * c + o * (2 * c) + r * (4 * (2 * c))
  BY <1>3 DEF PackHeader, OFFSET, RANK, IS_LEAF
<1>5. bit = 1 <=> leaf
  OBVIOUS
<1> HIDE DEF bit, o, r, c, size
<1>6. /\ x \in 0 .. 4 * (4 * (2 * c)) - 1
      /\ x % c = size
      /\ (x \div c) % 2 = bit
      /\ (x \div (2 * c)) % 4 = o
      /\ (x \div (4 * (2 * c))) % 4 = r
  BY <1>1, <1>2, <1>4, FieldsAreSeparate
<1>7. x \in Nat
  BY <1>2, <1>6
<1>8. IS_LEAF = c /\ OFFSET = 2 * c /\ RANK = 4 * (2 * c)
  BY DEF IS_LEAF, OFFSET, RANK, c
<1> QED
  BY <1>5, <1>6, <1>7, <1>8 DEF HeaderByte, size, o, r

(* serialise_node appends as many bytes as the fields of the node say. *)
LEMMA NodeIsCoded ==
  ASSUME NEW label \in Labels, NEW rank \in Ranks, NEW offset \in Offsets,
         NEW leaf \in BOOLEAN
  PROVE  /\ PutNode(label, rank, offset, leaf) \in Seq(Byte \cup HeaderByte)
         /\ Len(PutNode(label, rank, offset, leaf)) = NodeSize(label, rank, offset)
         /\ NodeSize(label, rank, offset) \in Nat
<1> DEFINE S == Byte \cup HeaderByte
           a == <<PackHeader(label, rank, offset, leaf)>>
           b == PutOffset(offset)
           d == PutRank(rank)
<1>1. a \in Seq(S) /\ Len(a) = 1
  BY HeaderIs
<1>2. b \in Seq(Byte) /\ Len(b) = OffsetSize(offset) /\ OffsetSize(offset) \in Nat
  BY OffsetIsCoded, ValuesAssumption
<1>3. label \in Seq(Byte)
  BY LabelsAssumption
<1>4. d \in Seq(Byte) /\ Len(d) = RankSize(rank) /\ RankSize(rank) \in Nat
  BY RankIsCoded, ValuesAssumption
<1>5. \A q \in Seq(Byte) : q \in Seq(S) /\ Len(q) \in Nat
  OBVIOUS
<1>6. b \in Seq(S) /\ label \in Seq(S) /\ d \in Seq(S) /\ Len(label) \in Nat
  BY <1>2, <1>3, <1>4, <1>5
<1>7. PutNode(label, rank, offset, leaf) = ((a \o b) \o label) \o d
  BY DEF PutNode
<1> HIDE DEF S, a, b, d
<1>8. a \o b \in Seq(S) /\ Len(a \o b) = 1 + Len(b)
  <2>1. a \in Seq(S) /\ b \in Seq(S)
    BY <1>1, <1>6
  <2>2. a \o b \in Seq(S) /\ Len(a \o b) = Len(a) + Len(b)
    BY <2>1, ConcatProperties
  <2> QED
    BY <1>1, <2>2
<1> DEFINE ab == a \o b
<1> HIDE DEF ab
<1>9. ab \o label \in Seq(S) /\ Len(ab \o label) = 1 + Len(b) + Len(label)
  <2>1. ab \in Seq(S) /\ label \in Seq(S)
    BY <1>6, <1>8 DEF ab
  <2>2. ab \o label \in Seq(S) /\ Len(ab \o label) = Len(ab) + Len(label)
    BY <2>1, ConcatProperties
  <2> QED
    BY <1>8, <2>2 DEF ab
<1> DEFINE abl == ab \o label
<1> HIDE DEF abl
<1>10. abl \o d \in Seq(S) /\ Len(abl \o d) = 1 + Len(b) + Len(label) + Len(d)
  BY <1>6, <1>9 DEF abl
<1>11. PutNode(label, rank, offset, leaf) = abl \o d
  BY <1>7 DEF abl, ab
<1> QED
  BY <1>2, <1>4, <1>6, <1>10, <1>11 DEF NodeSize, S

(* A view on a node gives back its fields, and skip leads behind it. *)
LEMMA NodeIsRead ==
  ASSUME NEW label \in Labels, NEW rank \in Ranks, NEW offset \in Offsets,
         NEW leaf \in BOOLEAN, NEW data, out \in Seq(Nat),
         Holds(out, data, PutNode(label, rank, offset, leaf))
  PROVE  /\ GetNode(data) = [kind |-> "node", label |-> label, rank |-> rank,
                             offset |-> offset, leaf |-> leaf]
         /\ ~BigEndian => SkipNode(data) = data + NodeSize(label, rank, offset)
<1> DEFINE x == PackHeader(label, rank, offset, leaf)
           a == <<x>>
           b == PutOffset(offset)
           d == PutRank(rank)
<1>1. a \in Seq(Nat) /\ Len(a) = 1 /\ a[1] = x
  BY HeaderIs
<1>2. b \in Seq(Byte) /\ Len(b) = OffsetSize(offset) /\ OffsetSize(offset) \in Nat
  BY OffsetIsCoded, ValuesAssumption
<1>3. label \in Seq(Byte)
  BY LabelsAssumption
<1>4. d \in Seq(Byte) /\ Len(d) = RankSize(rank) /\ RankSize(rank) \in Nat
  BY RankIsCoded, ValuesAssumption
<1>5. Byte \subseteq Nat
  BY BaseIsNat DEF Byte
<1>6. \A q \in Seq(Byte) : q \in Seq(Nat) /\ Len(q) \in Nat
  BY <1>5, SeqMonotonic, LenProperties
<1>7. b \in Seq(Nat) /\ label \in Seq(Nat) /\ d \in Seq(Nat) /\ Len(label) \in Nat
  BY <1>2, <1>3, <1>4, <1>6
<1>8. Holds(out, data, ((a \o b) \o label) \o d)
  BY DEF PutNode
<1>9. data \in Nat /\ Len(out) \in Nat
  BY DEF Holds
<1> DEFINE ab == a \o b
           abl == ab \o label
           pos == data + 1 + Len(b)
           end == pos + Len(label)
<1> HIDE DEF a, b, d, x
<1>10. ab \in Seq(Nat) /\ Len(ab) = 1 + Len(b)
  <2>1. a \in Seq(Nat) /\ b \in Seq(Nat)
    BY <1>1, <1>7
  <2>2. a \o b \in Seq(Nat) /\ Len(a \o b) = Len(a) + Len(b)
    BY <2>1, ConcatProperties
  <2> QED
    BY <1>1, <2>2
<1> HIDE DEF ab
<1>11. abl \in Seq(Nat) /\ Len(abl) = 1 + Len(b) + Len(label)
  <2>1. ab \in Seq(Nat) /\ label \in Seq(Nat)
    BY <1>7, <1>10
  <2>2. ab \o label \in Seq(Nat) /\ Len(ab \o label) = Len(ab) + Len(label)
    BY <2>1, ConcatProperties
  <2> QED
    BY <1>10, <2>2
<1> HIDE DEF abl
<1>12. Holds(out, data, abl) /\ Holds(out, data + Len(abl), d)
  <2>1. Holds(out, data, abl \o d)
    BY <1>8 DEF abl, ab
  <2> QED
    BY <1>7, <1>9, <1>11, <2>1, HoldsBoth
<1>13. Holds(out, data, ab) /\ Holds(out, data + Len(ab), label)
  <2>1. Holds(out, data, ab \o label)
    BY <1>12 DEF abl
  <2> QED
    BY <1>7, <1>9, <1>10, <2>1, HoldsBoth
<1>14. Holds(out, data, a) /\ Holds(out, data + Len(a), b)
  <2>1. Holds(out, data, a \o b)
    BY <1>13 DEF ab
  <2> QED
    BY <1>1, <1>7, <1>9, <2>1, HoldsBoth
<1>15. /\ Len(b) \in Nat /\ pos \in Nat /\ end \in Nat
       /\ data + Len(a) = data + 1 /\ data + Len(ab) = pos
       /\ data + Len(abl) = end
  <2>1. Len(b) \in Nat
    BY <1>2
  <2>2. pos \in Nat /\ end \in Nat
    BY <1>7, <1>9, <2>1
  <2>3. data + Len(a) = data + 1
    BY <1>1
  <2>4. data + Len(ab) = pos
    BY <1>9, <1>10, <2>1
  <2>5. data + Len(abl) = end
    BY <1>7, <1>9, <1>11, <2>1
  <2> QED
    BY <2>1, <2>2, <2>3, <2>4, <2>5
<1> HIDE DEF pos, end
<1>16. Holds(out, data + 1, b) /\ Holds(out, pos, label) /\ Holds(out, end, d)
  BY <1>12, <1>13, <1>14, <1>15
<1>17. out[data] = x
  <2>1. out[data + 1 - 1] = a[1]
    BY <1>1, <1>14 DEF Holds
  <2>2. data + 1 - 1 = data
    BY <1>9
  <2> QED
    BY <1>1, <2>1, <2>2
<1>18. /\ LabelSize(data) = Len(label)
       /\ IsLeaf(data) = leaf
       /\ OffsetTag(data) = TagOf(offset)
       /\ RankTag(data) = TagOf(rank)
  BY <1>17, HeaderIs DEF LabelSize, IsLeaf, OffsetTag, RankTag, x
<1>19. /\ GetOffset(out, data + 1, TagOf(offset)) = offset
       /\ SkipOffset(data + 1, TagOf(offset)) = data + 1 + Len(b)
  BY <1>2, <1>16, OffsetIsRead, ValuesAssumption DEF b
<1>20. LabelBegin(data) = pos /\ RankAddress(data) = end
  BY <1>18, <1>19 DEF LabelBegin, RankAddress, pos, end
<1>21. SubSeq(out, pos, end - 1) = label
  <2> DEFINE sub == SubSeq(out, pos, end - 1)
  <2>1. pos \in Nat \ {0} /\ pos + Len(label) - 1 <= Len(out)
        /\ \A j \in 1 .. Len(label) : out[pos + j - 1] = label[j]
    BY <1>16 DEF Holds
  <2>2. end - 1 = pos + Len(label) - 1
    BY <1>7, <1>15 DEF end
  <2>3. /\ sub \in Seq(Nat)
        /\ Len(sub) = Len(label)
        /\ \A j \in 1 .. Len(label) : sub[j] = out[pos + j - 1]
    <3> DEFINE last == end - 1
    <3>1. /\ pos \in Int /\ last \in Int /\ last - pos + 1 = Len(label)
          /\ Len(label) = IF pos <= last THEN last - pos + 1 ELSE 0
      BY <1>7, <2>1, <2>2
    <3>2. \A i \in pos .. last : out[i] \in Nat
      BY <1>9, <2>1, <2>2
    <3> HIDE DEF last
    <3> DEFINE part == SubSeq(out, pos, last)
    <3>3. /\ part \in Seq(Nat)
          /\ Len(part) = IF pos <= last THEN last - pos + 1 ELSE 0
          /\ \A i \in 1 .. last - pos + 1 : part[i] = out[pos + i - 1]
      BY <3>1, <3>2, SubSeqProperties
    <3> HIDE DEF part
    <3>4. sub = part
      BY DEF part, last
    <3> HIDE DEF sub
    <3> QED
      BY <3>1, <3>3, <3>4
  <2> HIDE DEF sub
  <2>4. \A j \in 1 .. Len(label) : sub[j] = label[j]
    BY <2>1, <2>3
  <2>5. sub = label
    BY <1>7, <2>3, <2>4, SeqEqual
  <2> QED
    BY <2>5 DEF sub
<1>22. GetRank(out, end, TagOf(rank)) = rank
  BY <1>16, RankIsRead, ValuesAssumption DEF d
<1>23. ~BigEndian => SkipRank(out, end, TagOf(rank)) = end + RankSize(rank)
  BY <1>16, RankIsSkipped, ValuesAssumption DEF d
<1>24. end + RankSize(rank) = data + NodeSize(label, rank, offset)
  BY <1>2, <1>4, <1>7, <1>9 DEF end, pos, NodeSize
<1>25. GetNode(data) = [kind |-> "node", label |-> label, rank |-> rank,
                        offset |-> offset, leaf |-> leaf]
  BY <1>18, <1>19, <1>20, <1>21, <1>22 DEF GetNode
<1> QED
  BY <1>18, <1>20, <1>23, <1>24, <1>25 DEF SkipNode

-----------------------------------------------------------------------------
(* Items, and the addresses at which they start.                           *)

(* The bytes that stand for an item. *)
Bytes(item) ==
  CASE item.kind = "rank"   -> PutRank(item.rank)
    [] item.kind = "offset" -> PutOffset(item.offset)
    [] item.kind = "node"   -> PutNode(item.label, item.rank, item.offset, item.leaf)

(* An item is a rank, an offset or a node. *)
LEMMA ItemKinds ==
  ASSUME NEW item \in Item
  PROVE  \/ /\ item.kind = "rank" /\ item.rank \in Ranks
            /\ item = [kind |-> "rank", rank |-> item.rank]
         \/ /\ item.kind = "offset" /\ item.offset \in Offsets
            /\ item = [kind |-> "offset", offset |-> item.offset]
         \/ /\ item.kind = "node"
            /\ item.label \in Labels /\ item.rank \in Ranks
            /\ item.offset \in Offsets /\ item.leaf \in BOOLEAN
            /\ item = [kind |-> "node", label |-> item.label, rank |-> item.rank,
                       offset |-> item.offset, leaf |-> item.leaf]
<1>1. CASE item \in [kind : {"rank"}, rank : Ranks]
  BY <1>1
<1>2. CASE item \in [kind : {"offset"}, offset : Offsets]
  BY <1>2
<1>3. CASE item \in [kind : {"node"}, label : Labels, rank : Ranks,
                     offset : Offsets, leaf : BOOLEAN]
  BY <1>3
<1> QED
  BY <1>1, <1>2, <1>3 DEF Item

(* The bytes and the size of an item, kind by kind. *)
LEMMA BytesAre ==
  ASSUME NEW item \in Item
  PROVE  /\ item.kind = "rank" =>
              Bytes(item) = PutRank(item.rank) /\ ItemSize(item) = RankSize(item.rank)
         /\ item.kind = "offset" =>
              /\ Bytes(item) = PutOffset(item.offset)
              /\ ItemSize(item) = OffsetSize(item.offset)
         /\ item.kind = "node" =>
              /\ Bytes(item) = PutNode(item.label, item.rank, item.offset, item.leaf)
              /\ ItemSize(item) = NodeSize(item.label, item.rank, item.offset)
BY DEF Bytes, ItemSize

(* The size of an item is the number of its bytes. *)
LEMMA ItemIsCoded ==
  ASSUME NEW item \in Item
  PROVE  /\ Bytes(item) \in Seq(Byte \cup HeaderByte)
         /\ item.kind # "node" => Bytes(item) \in Seq(Byte)
         /\ Len(Bytes(item)) = ItemSize(item)
         /\ ItemSize(item) \in Nat
<1> DEFINE S == Byte \cup HeaderByte
<1>1. \A q \in Seq(Byte) : q \in Seq(S)
  BY SeqMonotonic
<1> HIDE DEF S
<1>2. CASE item.kind = "rank"
  <2>1. item.rank \in UInt(8)
    BY <1>2, ItemKinds, ValuesAssumption
  <2> QED
    BY <1>1, <1>2, <2>1, BytesAre, RankIsCoded DEF S
<1>3. CASE item.kind = "offset"
  <2>1. item.offset \in UInt(8)
    BY <1>3, ItemKinds, ValuesAssumption
  <2> QED
    BY <1>1, <1>3, <2>1, BytesAre, OffsetIsCoded DEF S
<1>4. CASE item.kind = "node"
  <2>1. /\ item.label \in Labels /\ item.rank \in Ranks
        /\ item.offset \in Offsets /\ item.leaf \in BOOLEAN
    BY <1>4, ItemKinds
  <2> QED
    BY <1>4, <2>1, BytesAre, NodeIsCoded
<1> QED
  BY <1>2, <1>3, <1>4, ItemKinds

(* The recursive definition of SizeOf adds up the sizes of the items. *)
LEMMA SizeOfIs ==
  ASSUME NEW items \in Seq(Item)
  PROVE  \E f \in [0 .. Len(items) -> Nat] :
           /\ f[0] = 0
           /\ \A n \in 1 .. Len(items) : f[n] = f[n - 1] + ItemSize(items[n])
           /\ \A n \in 0 .. Len(items) : SizeOf(SubSeq(items, 1, n)) = f[n]
<1> DEFINE size(n) == IF n \in 1 .. Len(items) THEN ItemSize(items[n]) ELSE 0
           next == [n \in Nat |-> IF n = 0 THEN 0 ELSE n - 1]
           step == [n \in Nat |-> [v \in Nat |-> v + size(n)]]
           S    == Nat
<1>1. Len(items) \in Nat /\ \A n \in 1 .. Len(items) : items[n] \in Item
  OBVIOUS
<1>2. ASSUME NEW n PROVE size(n) \in Nat
  BY <1>1, ItemIsCoded
<1> HIDE DEF size
<1>3. IsRecursion(S, 0, next, step)
  BY <1>2 DEF IsRecursion
<1>4. PICK g \in [Nat -> S] :
        g[0] = 0 /\ \A n \in Nat \ {0} : g[n] = step[n][g[next[n]]]
  <2> HIDE DEF next, step, S
  <2> QED
    BY <1>3, RecursionDefines
<1>5. ASSUME NEW n \in Nat \ {0} PROVE g[n] = g[n - 1] + size(n)
  <2>1. next[n] = n - 1 /\ g[n - 1] \in Nat
    BY <1>4
  <2>2. \A v \in Nat : step[n][v] = v + size(n)
    OBVIOUS
  <2>3. g[n] = step[n][g[next[n]]]
    BY <1>4
  <2> HIDE DEF next, step
  <2> QED
    BY <2>1, <2>2, <2>3
<1>6. \A n \in Nat : g[n] \in Nat
  BY <1>4
<1> HIDE DEF next, step, S
<1>7. ASSUME NEW n \in 0 .. Len(items) PROVE SizeOf(SubSeq(items, 1, n)) = g[n]
  <2> DEFINE sub == SubSeq(items, 1, n)
             IsFirst(f) == f = [m \in 0 .. Len(sub) |->
                                  IF m = 0 THEN 0 ELSE f[m - 1] + ItemSize(sub[m])]
             first == CHOOSE f : IsFirst(f)
  <2>1. Len(sub) = n /\ n \in Nat /\ n <= Len(items)
    BY <1>1
  <2>2. \A m \in 1 .. n : sub[m] = items[m] /\ m \in 1 .. Len(items)
    BY <1>1
  <2> HIDE DEF sub
  <2>3. \A m \in 1 .. n : ItemSize(sub[m]) = size(m)
    BY <2>2 DEF size
  <2> DEFINE f == [m \in 0 .. n |-> g[m]]
  <2>4. ASSUME NEW m \in 0 .. n
        PROVE  f[m] = IF m = 0 THEN 0 ELSE f[m - 1] + ItemSize(sub[m])
    <3>1. CASE m = 0
      BY <1>4, <2>1, <3>1
    <3>2. CASE m # 0
      <4>1. m \in 1 .. n /\ m \in Nat \ {0} /\ m - 1 \in 0 .. n
        BY <2>1, <3>2
      <4>2. g[m] = g[m - 1] + size(m)
        BY <1>5, <4>1
      <4> QED
        BY <2>3, <3>2, <4>1, <4>2
    <3> QED
      BY <3>1, <3>2
  <2>5. f = [m \in 0 .. n |-> f[m]]
    OBVIOUS
  <2> HIDE DEF f
  <2>6. IsFirst(f)
    BY <2>1, <2>4, <2>5
  <2>7. IsFirst(first)
    BY <2>6
  <2>8. SizeOf(sub) = first[n]
    BY <2>1 DEF SizeOf
  <2> HIDE DEF first
  <2>9. first[0] = 0 /\ \A m \in 1 .. n : first[m] = first[m - 1] + size(m)
    <3>1. \A m \in 0 .. n :
            first[m] = IF m = 0 THEN 0 ELSE first[m - 1] + ItemSize(sub[m])
      BY <2>1, <2>7
    <3> QED
      BY <2>1, <2>3, <3>1
  <2> HIDE DEF IsFirst
  <2> DEFINE T == {m \in Nat : m <= n /\ first[m] # g[m]}
  <2>10. T = {}
    <3> SUFFICES ASSUME T # {} PROVE FALSE
      OBVIOUS
    <3>1. PICK m \in T : \A l \in T : m <= l
      BY LeastNumber
    <3>2. m \in Nat /\ m <= n /\ first[m] # g[m]
      BY <3>1
    <3>3. m # 0
      BY <1>4, <2>9, <3>2
    <3>4. m \in 1 .. n /\ m \in Nat \ {0} /\ m - 1 \in Nat /\ m - 1 <= n
      BY <3>2, <3>3
    <3>5. first[m - 1] = g[m - 1]
      BY <3>1, <3>4
    <3>6. first[m] = first[m - 1] + size(m) /\ g[m] = g[m - 1] + size(m)
      BY <1>5, <2>9, <3>4
    <3> QED
      BY <3>2, <3>5, <3>6
  <2>11. first[n] = g[n]
    BY <2>1, <2>10
  <2> QED
    BY <2>8, <2>11 DEF sub
<1> DEFINE h == [n \in 0 .. Len(items) |-> g[n]]
<1>8. h \in [0 .. Len(items) -> Nat] /\ h[0] = 0
  BY <1>1, <1>4, <1>6
<1>9. ASSUME NEW n \in 1 .. Len(items) PROVE h[n] = h[n - 1] + ItemSize(items[n])
  <2>1. n \in Nat \ {0} /\ n \in 0 .. Len(items) /\ n - 1 \in 0 .. Len(items)
    BY <1>1
  <2>2. g[n] = g[n - 1] + size(n)
    BY <1>5, <2>1
  <2> QED
    BY <2>1, <2>2 DEF size
<1>10. \A n \in 0 .. Len(items) : SizeOf(SubSeq(items, 1, n)) = h[n]
  BY <1>7
<1> HIDE DEF h
<1> QED
  BY <1>8, <1>9, <1>10

(* The size of the first n items. *)
SizeTo(items, n) == SizeOf(SubSeq(items, 1, n))

LEMMA SizeToIs ==
  ASSUME NEW items \in Seq(Item)
  PROVE  /\ SizeTo(items, 0) = 0
         /\ SizeTo(items, Len(items)) = SizeOf(items)
         /\ \A n \in 0 .. Len(items) : SizeTo(items, n) \in Nat
         /\ \A n \in 1 .. Len(items) :
              SizeTo(items, n) = SizeTo(items, n - 1) + ItemSize(items[n])
<1>1. Len(items) \in Nat
  OBVIOUS
<1>2. PICK f \in [0 .. Len(items) -> Nat] :
        /\ f[0] = 0
        /\ \A n \in 1 .. Len(items) : f[n] = f[n - 1] + ItemSize(items[n])
        /\ \A n \in 0 .. Len(items) : SizeTo(items, n) = f[n]
  BY SizeOfIs DEF SizeTo
<1>3. SubSeq(items, 1, Len(items)) = items
  BY SubSeqFull
<1>4. \A n \in 1 .. Len(items) : n \in 0 .. Len(items) /\ n - 1 \in 0 .. Len(items)
  BY <1>1
<1>5. 0 \in 0 .. Len(items)
  BY <1>1
<1> QED
  BY <1>2, <1>3, <1>4, <1>5 DEF SizeTo

(* An item that is appended does not move those before it. *)
LEMMA SizeOfAppend ==
  ASSUME NEW items \in Seq(Item), NEW item \in Item
  PROVE  /\ \A n \in 0 .. Len(items) :
              SizeTo(Append(items, item), n) = SizeTo(items, n)
         /\ SizeOf(Append(items, item)) = SizeOf(items) + ItemSize(item)
<1> DEFINE more == Append(items, item)
<1>1. /\ more \in Seq(Item) /\ Len(more) = Len(items) + 1 /\ Len(items) \in Nat
      /\ more[Len(items) + 1] = item
      /\ \A i \in 1 .. Len(items) : more[i] = items[i]
  OBVIOUS
<1> HIDE DEF more
<1>2. ASSUME NEW n \in 0 .. Len(items)
      PROVE  SubSeq(more, 1, n) = SubSeq(items, 1, n)
  <2> DEFINE a == SubSeq(more, 1, n)
             b == SubSeq(items, 1, n)
  <2>1. n \in Int /\ n <= Len(items) /\ n >= 0
    BY <1>1
  <2>2. \A i \in 1 .. n : more[i] \in Item /\ items[i] \in Item /\ more[i] = items[i]
    BY <1>1, <2>1
  <2>3. /\ a \in Seq(Item) /\ Len(a) = (IF 1 <= n THEN n - 1 + 1 ELSE 0)
        /\ \A i \in 1 .. n - 1 + 1 : a[i] = more[1 + i - 1]
    BY <2>1, <2>2, SubSeqProperties
  <2>4. /\ b \in Seq(Item) /\ Len(b) = (IF 1 <= n THEN n - 1 + 1 ELSE 0)
        /\ \A i \in 1 .. n - 1 + 1 : b[i] = items[1 + i - 1]
    BY <2>1, <2>2, SubSeqProperties
  <2> HIDE DEF a, b
  <2>5. Len(a) = n /\ Len(b) = n
    BY <2>1, <2>3, <2>4
  <2>6. \A i \in 1 .. n : a[i] = more[i] /\ b[i] = items[i]
    BY <2>1, <2>3, <2>4
  <2>7. a = b
    BY <2>2, <2>3, <2>4, <2>5, <2>6, SeqEqual
  <2> QED
    BY <2>7 DEF a, b
<1>3. \A n \in 0 .. Len(items) : SizeTo(more, n) = SizeTo(items, n)
  BY <1>2 DEF SizeTo
<1>4. SizeOf(more) = SizeOf(items) + ItemSize(item)
  <2>1. SizeTo(more, Len(more)) = SizeOf(more)
    BY <1>1, SizeToIs
  <2>2. SizeTo(items, Len(items)) = SizeOf(items)
    BY SizeToIs
  <2>3. SizeTo(more, Len(more)) = SizeTo(more, Len(items)) + ItemSize(item)
    <3>1. Len(more) \in 1 .. Len(more) /\ Len(more) - 1 = Len(items)
      BY <1>1
    <3> QED
      BY <1>1, <3>1, SizeToIs
  <2>4. Len(items) \in 0 .. Len(items)
    BY <1>1
  <2> QED
    BY <1>3, <2>1, <2>2, <2>3, <2>4
<1> QED
  BY <1>3, <1>4 DEF more

-----------------------------------------------------------------------------
(* The invariant.  The bytes of every item stand at its place in the       *)
(* vector, which no later item disturbs, and the reader is at the place of *)
(* the next item: only so does each step of the reader read an item and    *)
(* find the place of the one after it.                                     *)

Vector ==
  /\ written \in Seq(Item)
  /\ out \in Seq(Byte \cup HeaderByte)
  /\ (\A i \in 1 .. Len(written) : written[i].kind # "node") => out \in Seq(Byte)
  /\ Len(out) = SizeOf(written)

ItemsStand ==
  \A i \in 1 .. Len(written) :
    Holds(out, 1 + SizeTo(written, i - 1), Bytes(written[i]))

Reader ==
  /\ got \in Seq(Item)
  /\ Len(got) <= Len(written)
  /\ RoundTrip
  /\ at = 1 + SizeTo(written, Len(got))

Inv == Vector /\ ItemsStand /\ Reader

LEMMA HeaderBytesAreNat == Byte \cup HeaderByte \subseteq Nat
BY BaseIsNat DEF Byte, HeaderByte

LEMMA InvInitially == Init => Inv
<1> SUFFICES ASSUME Init PROVE Inv
  OBVIOUS
<1>1. written = <<>> /\ out = <<>> /\ at = 1 /\ got = <<>>
  BY DEF Init
<1>2. <<>> \in Seq(Item) /\ <<>> \in Seq(Byte) /\ <<>> \in Seq(Byte \cup HeaderByte)
      /\ Len(<<>>) = 0
  OBVIOUS
<1>3. SizeTo(<<>>, 0) = 0 /\ SizeOf(<<>>) = 0
  BY <1>2, SizeToIs
<1>4. Vector
  BY <1>1, <1>2, <1>3 DEF Vector
<1>5. ItemsStand
  BY <1>1 DEF ItemsStand
<1>6. Reader
  BY <1>1, <1>2, <1>3 DEF Reader, RoundTrip
<1> QED
  BY <1>4, <1>5, <1>6 DEF Inv

(* The writer leaves what stands in the vector where it is. *)
LEMMA WriteKeepsInv ==
  ASSUME Inv, NEW item \in Item,
         written' = Append(written, item), Write(Bytes(item))
  PROVE  Inv'
<1> DEFINE b == Bytes(item)
           S == Byte \cup HeaderByte
<1>1. /\ written' = Append(written, item)
      /\ out' = out \o b
      /\ at' = at /\ got' = got
  BY DEF Write
<1>2. /\ written \in Seq(Item) /\ out \in Seq(S)
      /\ (\A i \in 1 .. Len(written) : written[i].kind # "node") => out \in Seq(Byte)
      /\ Len(out) = SizeOf(written)
  BY DEF Inv, Vector
<1>3. /\ b \in Seq(S) /\ Len(b) = ItemSize(item) /\ ItemSize(item) \in Nat
      /\ item.kind # "node" => b \in Seq(Byte)
  BY ItemIsCoded
<1> HIDE DEF b, S
<1>4. /\ written' \in Seq(Item) /\ Len(written') = Len(written) + 1
      /\ Len(written) \in Nat
      /\ written'[Len(written) + 1] = item
      /\ \A i \in 1 .. Len(written) : written'[i] = written[i]
  BY <1>1, <1>2
<1>5. /\ out' \in Seq(S) /\ Len(out') = Len(out) + Len(b)
      /\ Len(out) \in Nat /\ Len(b) \in Nat
      /\ \A i \in 1 .. Len(out) : out'[i] = out[i]
      /\ \A i \in 1 .. Len(b) : out'[Len(out) + i] = b[i]
  <2>1. /\ out \o b \in Seq(S) /\ Len(out \o b) = Len(out) + Len(b)
        /\ \A i \in 1 .. Len(out) + Len(b) :
             (out \o b)[i] = IF i <= Len(out) THEN out[i] ELSE b[i - Len(out)]
    BY <1>2, <1>3, ConcatProperties
  <2>2. Len(out) \in Nat /\ Len(b) \in Nat
    BY <1>2, <1>3
  <2>3. \A i \in 1 .. Len(out) : (out \o b)[i] = out[i]
    BY <2>1, <2>2
  <2>4. ASSUME NEW i \in 1 .. Len(b) PROVE (out \o b)[Len(out) + i] = b[i]
    <3>1. /\ Len(out) + i \in 1 .. Len(out) + Len(b) /\ ~(Len(out) + i <= Len(out))
          /\ (Len(out) + i) - Len(out) = i
      BY <2>2
    <3> QED
      BY <2>1, <3>1
  <2> QED
    BY <1>1, <2>1, <2>2, <2>3, <2>4
<1>6. /\ \A n \in 0 .. Len(written) : SizeTo(written', n) = SizeTo(written, n)
      /\ SizeOf(written') = SizeOf(written) + ItemSize(item)
  BY <1>1, <1>2, SizeOfAppend
<1>7. Vector'
  <2>1. Len(out') = SizeOf(written')
    BY <1>2, <1>3, <1>5, <1>6
  <2>2. ASSUME \A i \in 1 .. Len(written') : written'[i].kind # "node"
        PROVE  out' \in Seq(Byte)
    <3>1. item.kind # "node"
      BY <1>4, <2>2
    <3>2. \A i \in 1 .. Len(written) : written[i].kind # "node"
      BY <1>4, <2>2
    <3>3. out \in Seq(Byte) /\ b \in Seq(Byte)
      BY <1>2, <1>3, <3>1, <3>2
    <3> QED
      BY <1>1, <3>3, ConcatProperties
  <2> QED
    BY <1>4, <1>5, <2>1, <2>2 DEF Vector, S
<1>8. ItemsStand'
  <2> SUFFICES ASSUME NEW i \in 1 .. Len(written')
               PROVE  Holds(out', 1 + SizeTo(written', i - 1), Bytes(written'[i]))
    BY DEF ItemsStand
  <2>1. CASE i \in 1 .. Len(written)
    <3> DEFINE p == 1 + SizeTo(written, i - 1)
               c == Bytes(written[i])
    <3>1. Holds(out, p, c)
      BY <2>1 DEF Inv, ItemsStand
    <3>2. 1 + SizeTo(written', i - 1) = p /\ Bytes(written'[i]) = c
      <4>1. i - 1 \in 0 .. Len(written)
        BY <1>4, <2>1
      <4> QED
        BY <1>4, <1>6, <2>1, <4>1
    <3>3. Len(c) \in Nat
      <4>1. written[i] \in Item
        BY <1>2, <2>1
      <4> QED
        BY <4>1, ItemIsCoded
    <3> HIDE DEF p, c
    <3>4. p \in Nat \ {0} /\ p + Len(c) - 1 <= Len(out)
          /\ \A j \in 1 .. Len(c) : out[p + j - 1] = c[j]
      BY <3>1 DEF Holds
    <3>5. \A j \in 1 .. Len(c) : p + j - 1 \in 1 .. Len(out)
      BY <1>5, <3>3, <3>4
    <3>6. Holds(out', p, c)
      <4>1. \A j \in 1 .. Len(c) : out'[p + j - 1] = c[j]
        BY <1>5, <3>4, <3>5
      <4>2. p + Len(c) - 1 <= Len(out')
        BY <1>5, <3>3, <3>4
      <4> QED
        BY <3>4, <4>1, <4>2 DEF Holds
    <3> QED
      BY <3>2, <3>6
  <2>2. CASE i \notin 1 .. Len(written)
    <3>1. i = Len(written) + 1 /\ i - 1 = Len(written)
      BY <1>4, <2>2
    <3>2. SizeTo(written', i - 1) = Len(out)
      <4>1. Len(written) \in 0 .. Len(written)
        BY <1>4
      <4> QED
        BY <1>2, <1>6, <3>1, <4>1, SizeToIs
    <3>3. Bytes(written'[i]) = b
      BY <1>4, <3>1 DEF b
    <3>4. \A j \in 1 .. Len(b) : out'[1 + Len(out) + j - 1] = b[j]
      <4>1. \A j \in 1 .. Len(b) : 1 + Len(out) + j - 1 = Len(out) + j
        BY <1>5
      <4> QED
        BY <1>5, <4>1
    <3>5. Holds(out', 1 + Len(out), b)
      BY <1>5, <3>4 DEF Holds
    <3> QED
      BY <3>2, <3>3, <3>5
  <2> QED
    BY <2>1, <2>2
<1>9. Reader'
  <2>1. /\ got \in Seq(Item) /\ Len(got) <= Len(written) /\ Len(got) \in Nat
        /\ \A i \in 1 .. Len(got) : got[i] = written[i]
        /\ at = 1 + SizeTo(written, Len(got))
    BY DEF Inv, Reader, RoundTrip
  <2>2. SizeTo(written', Len(got)) = SizeTo(written, Len(got))
    BY <1>4, <1>6, <2>1
  <2>3. \A i \in 1 .. Len(got) : i \in 1 .. Len(written)
    BY <1>4, <2>1
  <2>4. \A i \in 1 .. Len(got) : got[i] = written'[i]
    BY <1>4, <2>1, <2>3
  <2>5. Len(got) <= Len(written')
    BY <1>4, <2>1
  <2> QED
    BY <1>1, <2>1, <2>2, <2>4, <2>5 DEF Reader, RoundTrip
<1> QED
  BY <1>7, <1>8, <1>9 DEF Inv

(* The bytes of the item that is read next stand at the reader's address. *)
LEMMA NextItemStands ==
  ASSUME Inv, Len(got) < Len(written)
  PROVE  /\ NextItem \in Item
         /\ out \in Seq(Nat)
         /\ Holds(out, at, Bytes(NextItem))
<1> DEFINE i == Len(got) + 1
<1>1. got \in Seq(Item) /\ Len(got) \in Nat /\ at = 1 + SizeTo(written, Len(got))
  BY DEF Inv, Reader
<1>2. written \in Seq(Item) /\ Len(written) \in Nat /\ out \in Seq(Byte \cup HeaderByte)
  BY DEF Inv, Vector
<1>3. i \in 1 .. Len(written) /\ i - 1 = Len(got)
  BY <1>1, <1>2
<1>4. Holds(out, 1 + SizeTo(written, i - 1), Bytes(written[i]))
  BY <1>3 DEF Inv, ItemsStand
<1>5. out \in Seq(Nat)
  BY <1>2, HeaderBytesAreNat, SeqMonotonic
<1> QED
  BY <1>1, <1>2, <1>3, <1>4, <1>5 DEF NextItem

(* A step that reads the next item as it was written and moves behind it. *)
LEMMA ReadKeepsInv ==
  ASSUME Inv, NEW kind, NEW item, NEW next, Read(kind, item, next),
         item = NextItem, next = at + ItemSize(NextItem)
  PROVE  Inv'
<1> DEFINE i == Len(got) + 1
<1>1. /\ Len(got) < Len(written)
      /\ got' = Append(got, written[i])
      /\ at' = at + ItemSize(written[i])
      /\ written' = written /\ out' = out
  BY DEF Read, NextItem
<1>2. /\ got \in Seq(Item) /\ Len(got) \in Nat
      /\ at = 1 + SizeTo(written, Len(got))
      /\ \A j \in 1 .. Len(got) : got[j] = written[j]
  BY DEF Inv, Reader, RoundTrip
<1>3. written \in Seq(Item) /\ Len(written) \in Nat
  BY DEF Inv, Vector
<1>4. i \in 1 .. Len(written) /\ i - 1 = Len(got) /\ i \in 0 .. Len(written)
      /\ Len(got) \in 0 .. Len(written)
  BY <1>1, <1>2, <1>3
<1>5. written[i] \in Item /\ ItemSize(written[i]) \in Nat
  BY <1>3, <1>4, ItemIsCoded
<1> HIDE DEF i
<1>6. /\ got' \in Seq(Item) /\ Len(got') = Len(got) + 1
      /\ got'[Len(got) + 1] = written[i]
      /\ \A j \in 1 .. Len(got) : got'[j] = got[j]
  BY <1>1, <1>2, <1>5
<1>7. Len(got') = i /\ i <= Len(written)
  BY <1>4, <1>6 DEF i
<1>8. \A j \in 1 .. Len(got') : got'[j] = written[j]
  <2> TAKE j \in 1 .. Len(got')
  <2>1. CASE j = i
    BY <1>6, <2>1 DEF i
  <2>2. CASE j # i
    <3>1. j \in 1 .. Len(got)
      BY <1>2, <1>6, <2>2 DEF i
    <3> QED
      BY <1>2, <1>6, <3>1
  <2> QED
    BY <2>1, <2>2
<1>9. at' = 1 + SizeTo(written, i)
  <2>1. SizeTo(written, i) = SizeTo(written, Len(got)) + ItemSize(written[i])
    BY <1>3, <1>4, SizeToIs
  <2>2. SizeTo(written, Len(got)) \in Nat
    BY <1>3, <1>4, SizeToIs
  <2> QED
    BY <1>1, <1>2, <1>5, <2>1, <2>2
<1>10. Reader'
  BY <1>1, <1>6, <1>7, <1>8, <1>9 DEF Reader, RoundTrip
<1>11. Vector' /\ ItemsStand'
  BY <1>1 DEF Inv, Vector, ItemsStand
<1> QED
  BY <1>10, <1>11 DEF Inv

(* Every write and every read keeps the invariant. *)
LEMMA InvIsKept ==
  ASSUME ~BigEndian
  PROVE  Inv /\ [Next]_vars => Inv'
<1> SUFFICES ASSUME Inv, [Next]_vars PROVE Inv'
  OBVIOUS
<1>1. ASSUME NEW n \in Ranks, WriteRank(n) PROVE Inv'
  <2> DEFINE item == [kind |-> "rank", rank |-> n]
  <2>1. item \in Item /\ item.kind = "rank" /\ item.rank = n
    BY DEF Item
  <2>2. written' = Append(written, item) /\ Write(Bytes(item))
    BY <1>1, <2>1, BytesAre DEF WriteRank
  <2> HIDE DEF item
  <2> QED
    BY <2>1, <2>2, WriteKeepsInv
<1>2. ASSUME NEW n \in Offsets, WriteOffset(n) PROVE Inv'
  <2> DEFINE item == [kind |-> "offset", offset |-> n]
  <2>1. item \in Item /\ item.kind = "offset" /\ item.offset = n
    BY DEF Item
  <2>2. written' = Append(written, item) /\ Write(Bytes(item))
    BY <1>2, <2>1, BytesAre DEF WriteOffset
  <2> HIDE DEF item
  <2> QED
    BY <2>1, <2>2, WriteKeepsInv
<1>3. ASSUME NEW label \in Labels, NEW rank \in Ranks, NEW offset \in Offsets,
             NEW leaf \in BOOLEAN, WriteNode(label, rank, offset, leaf)
      PROVE  Inv'
  <2> DEFINE item == [kind |-> "node", label |-> label, rank |-> rank,
                      offset |-> offset, leaf |-> leaf]
  <2>1. /\ item \in Item /\ item.kind = "node" /\ item.label = label
        /\ item.rank = rank /\ item.offset = offset /\ item.leaf = leaf
    BY DEF Item
  <2>2. /\ written' = Append(written, item)
        /\ Write(PutNode(label, rank, offset, leaf))
    BY <1>3 DEF WriteNode
  <2> HIDE DEF item
  <2>3. Write(Bytes(item))
    BY <2>1, <2>2, BytesAre
  <2> QED
    BY <2>1, <2>2, <2>3, WriteKeepsInv
<1>4. CASE ReadRank
  <2> DEFINE n == NextItem.rank
             item == [kind |-> "rank", rank |-> GetRank(out, at, TagOf(n))]
             next == SkipRank(out, at, TagOf(n))
  <2>1. Read("rank", item, next)
    BY <1>4 DEF ReadRank
  <2>2. Len(got) < Len(written) /\ NextItem.kind = "rank"
    BY <2>1 DEF Read
  <2>3. NextItem \in Item /\ out \in Seq(Nat) /\ Holds(out, at, Bytes(NextItem))
    BY <2>2, NextItemStands
  <2>4. n \in UInt(8) /\ NextItem = [kind |-> "rank", rank |-> n]
    BY <2>2, <2>3, ItemKinds, ValuesAssumption
  <2>5. Bytes(NextItem) = PutRank(n) /\ ItemSize(NextItem) = RankSize(n)
    BY <2>2, <2>3, BytesAre
  <2> HIDE DEF n
  <2>6. item = NextItem
    BY <2>3, <2>4, <2>5, RankIsRead
  <2>7. next = at + ItemSize(NextItem)
    BY <2>3, <2>4, <2>5, RankIsSkipped
  <2> HIDE DEF item, next
  <2> QED
    BY <2>1, <2>6, <2>7, ReadKeepsInv
<1>5. CASE ReadOffset
  <2> DEFINE n == NextItem.offset
             item == [kind |-> "offset", offset |-> GetOffset(out, at, TagOf(n))]
             next == SkipOffset(at, TagOf(n))
  <2>1. Read("offset", item, next)
    BY <1>5 DEF ReadOffset
  <2>2. Len(got) < Len(written) /\ NextItem.kind = "offset"
    BY <2>1 DEF Read
  <2>3. NextItem \in Item /\ out \in Seq(Nat) /\ Holds(out, at, Bytes(NextItem))
    BY <2>2, NextItemStands
  <2>4. n \in UInt(8) /\ NextItem = [kind |-> "offset", offset |-> n]
    BY <2>2, <2>3, ItemKinds, ValuesAssumption
  <2>5. Bytes(NextItem) = PutOffset(n) /\ ItemSize(NextItem) = OffsetSize(n)
    BY <2>2, <2>3, BytesAre
  <2> HIDE DEF n
  <2>6. item = NextItem /\ next = at + ItemSize(NextItem)
    BY <2>3, <2>4, <2>5, OffsetIsRead
  <2> HIDE DEF item, next
  <2> QED
    BY <2>1, <2>6, ReadKeepsInv
<1>6. CASE ReadNode
  <2> DEFINE item == GetNode(at)
             next == SkipNode(at)
             x == NextItem
  <2>1. Read("node", item, next)
    BY <1>6 DEF ReadNode
  <2>2. Len(got) < Len(written) /\ x.kind = "node"
    BY <2>1 DEF Read
  <2>3. x \in Item /\ out \in Seq(Nat) /\ Holds(out, at, Bytes(x))
    BY <2>2, NextItemStands
  <2> HIDE DEF x
  <2>4. /\ x.label \in Labels /\ x.rank \in Ranks
        /\ x.offset \in Offsets /\ x.leaf \in BOOLEAN
        /\ x = [kind |-> "node", label |-> x.label, rank |-> x.rank,
                offset |-> x.offset, leaf |-> x.leaf]
    BY <2>2, <2>3, ItemKinds
  <2>5. /\ Bytes(x) = PutNode(x.label, x.rank, x.offset, x.leaf)
        /\ ItemSize(x) = NodeSize(x.label, x.rank, x.offset)
    BY <2>2, <2>3, BytesAre
  <2>6. Holds(out, at, PutNode(x.label, x.rank, x.offset, x.leaf))
    BY <2>3, <2>5
  <2>7. /\ GetNode(at) = [kind |-> "node", label |-> x.label, rank |-> x.rank,
                          offset |-> x.offset, leaf |-> x.leaf]
        /\ SkipNode(at) = at + NodeSize(x.label, x.rank, x.offset)
    BY <2>3, <2>4, <2>6, NodeIsRead
  <2>8. item = x /\ next = at + ItemSize(x)
    BY <2>4, <2>5, <2>7
  <2> HIDE DEF item, next
  <2> QED
    BY <2>1, <2>8, ReadKeepsInv DEF x
<1>7. CASE UNCHANGED vars
  BY <1>7 DEF vars, Inv, Vector, ItemsStand, Reader, RoundTrip
<1> QED
  BY <1>1, <1>2, <1>3, <1>4, <1>5, <1>6, <1>7 DEF Next

LEMMA InvAlways ==
  ASSUME ~BigEndian
  PROVE  Spec => []Inv
BY InvInitially, InvIsKept, PTL DEF Spec

-----------------------------------------------------------------------------
(* On a little-endian machine no byte ever overflows, whatever is written, *)
(* and the reader stays within the vector.                                 *)
THEOREM NodeBytesTypeCorrect ==
  ASSUME ~BigEndian
  PROVE  Spec => []TypeOK
<1>1. Inv => TypeOK
  <2> SUFFICES ASSUME Inv PROVE TypeOK
    OBVIOUS
  <2>1. /\ got \in Seq(Item) /\ Len(got) \in Nat /\ Len(got) <= Len(written)
        /\ at = 1 + SizeTo(written, Len(got))
    BY DEF Inv, Reader
  <2>2. /\ written \in Seq(Item) /\ Len(written) \in Nat /\ Len(out) \in Nat
        /\ out \in Seq(Byte \cup HeaderByte) /\ Len(out) = SizeOf(written)
        /\ (\A i \in 1 .. Len(written) : written[i].kind # "node") => out \in Seq(Byte)
    BY DEF Inv, Vector
  <2>3. at \in 1 .. Len(out) + 1
    <3>1. CASE Len(got) = Len(written)
      <4>1. at = 1 + Len(out)
        BY <2>1, <2>2, <3>1, SizeToIs
      <4> QED
        BY <2>2, <4>1
    <3>2. CASE Len(got) # Len(written)
      <4>1. Len(got) < Len(written)
        BY <2>1, <2>2, <3>2
      <4>2. NextItem \in Item /\ Holds(out, at, Bytes(NextItem))
        BY <4>1, NextItemStands
      <4>3. Len(Bytes(NextItem)) \in Nat
        BY <4>2, ItemIsCoded
      <4>4. at \in Nat \ {0} /\ at + Len(Bytes(NextItem)) - 1 <= Len(out)
        BY <4>2 DEF Holds
      <4> QED
        BY <2>2, <4>3, <4>4
    <3> QED
      BY <3>1, <3>2
  <2> QED
    BY <2>1, <2>2, <2>3 DEF TypeOK
<1> QED
  BY <1>1, InvAlways, PTL

(* On a little-endian machine every rank, offset and node that deserialise *)
(* and the accessors of Node return is the one that was serialised.        *)
THEOREM EverythingIsReadBack ==
  ASSUME ~BigEndian
  PROVE  Spec => []RoundTrip
<1>1. Inv => RoundTrip
  BY DEF Inv, Reader
<1> QED
  BY <1>1, InvAlways, PTL

(* On a little-endian machine skip and Node::skip lead from the first byte *)
(* of an item to the first byte of the next one, past the last one only.   *)
THEOREM ReaderStaysAligned ==
  ASSUME ~BigEndian
  PROVE  Spec => []Aligned
<1>1. Inv => Aligned
  BY DEF Inv, Vector, Reader, Aligned, SizeTo
<1> QED
  BY <1>1, InvAlways, PTL

(* With the widths of the code a header byte is a byte like any other: the *)
(* vector never holds anything that does not fit in eight bits.            *)
THEOREM HeaderFitsInByte ==
  ASSUME ~BigEndian, TopBit = 128, LabelRange = 8
  PROVE  Spec => [](out \in Seq(Byte))
<1>1. Byte \cup HeaderByte = Byte
  BY DEF Byte, HeaderByte, Base, RANK, OFFSET, IS_LEAF
<1>2. Inv => out \in Seq(Byte)
  BY <1>1 DEF Inv, Vector
<1> QED
  BY <1>2, InvAlways, PTL
=============================================================================
