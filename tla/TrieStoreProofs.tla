--------------------------- MODULE TrieStoreProofs ---------------------------
(***************************************************************************)
(* The types of what programs have of the file, that no read makes an      *)
(* empty trie unless two writes muddle the file, and that the file is a    *)
(* safe register: for any number of programs, any kinds and tries, and any *)
(* number of values of a byte.                                             *)
(***************************************************************************)
EXTENDS TrieStore, SequenceLemmas, TLAPS

(* The bytes of a program's write up to its next step. *)
Length(p) ==
  CASE pc[p] = "header" -> 0
    [] pc[p] = "table"  -> HeaderSize(kind[p])
    [] pc[p] = "trie"   -> HeaderSize(kind[p]) + Len(holds[p].table)
    [] OTHER            -> HeaderSize(kind[p]) + Len(holds[p].table)
                                               + Len(holds[p].trie)

(* Bytes that a bad stream has dropped are missing in the file. *)
StreamOK(p) ==
  /\ IF p \in Writing THEN file # NoFile /\ holds[p] \in Storable
     ELSE buffer[p] = <<>>
  /\ pc[p] = "header" => p \notin bad /\ at[p] = 0 /\ buffer[p] = <<>>
  /\ p \in bad => buffer[p] = <<>>
  /\ p \in Writing \ bad => at[p] + Len(buffer[p]) = Length(p)

ReadOK(p) ==
  p \in Reading =>
    /\ file # NoFile
    /\ pc[p] # "get header" => header[p] \in Headers

Types ==
  /\ file = NoFile \/ file \in Seq(Byte)
  /\ kind \in Kinds
  /\ holds \in [Program -> Trie \cup {NoTrie}]
  /\ pc \in [Program -> {"idle", "header", "table", "trie", "close",
                         "get header", "get table", "get trie"}]
  /\ buffer \in [Program -> Seq(Byte)]
  /\ at \in [Program -> Nat]
  /\ bad \subseteq faulty
  /\ faulty \subseteq Writing
  /\ header \in [Program -> Headers \cup {Nothing}]
  /\ table \in [Program -> Seq(Byte)]
  /\ muddled \in BOOLEAN
  /\ overlapped \subseteq Reading
  /\ misled \subseteq Program

TypeInv ==
  /\ Types
  /\ \A p \in Program : StreamOK(p) /\ ReadOK(p)

-----------------------------------------------------------------------------
(* Bytes and the numbers that are made of them. *)
LEMMA ByteIs ==
  /\ Hole \in Byte /\ LITTLE \in Byte /\ BIG \in Byte /\ LITTLE # BIG
  /\ Byte \subseteq Nat /\ Radix \in Nat \ {0}
BY RadixAssumption DEF Hole, LITTLE, BIG, Byte

(* A number that fits is what its two bytes say. *)
LEMMA WordIs ==
  ASSUME NEW w \in Word
  PROVE  /\ w % Radix \in Byte /\ w \div Radix \in Byte
         /\ (w % Radix) + Radix * (w \div Radix) = w
<1> DEFINE q == w \div Radix
           r == w % Radix
<1>1. Radix \in Nat \ {0} /\ Radix * Radix \in Nat
  BY ByteIs
<1>2. w \in Nat /\ w < Radix * Radix
  BY <1>1 DEF Word
<1>3. q \in Nat /\ r \in Nat /\ r < Radix
  BY <1>1, <1>2
<1>4. w = q * Radix + r
  BY <1>1, <1>2
<1> HIDE DEF q, r
<1>5. q < Radix
  <2>1. CASE q >= Radix
    <3>1. PICK d \in Nat : q = Radix + d
      BY <1>1, <1>3, <2>1
    <3>2. q * Radix = Radix * Radix + d * Radix /\ d * Radix \in Nat
      BY <1>1, <3>1
    <3> QED
      BY <1>1, <1>2, <1>3, <1>4, <3>2
  <2> QED
    BY <1>1, <1>3, <2>1
<1>6. q * Radix = Radix * q
  BY <1>1, <1>3
<1> QED
  BY <1>1, <1>2, <1>3, <1>4, <1>5, <1>6 DEF Byte, q, r

(* The first bytes of a sequence. *)
Begins(start, whole) ==
  /\ Len(start) <= Len(whole)
  /\ \A i \in 1 .. Len(start) : start[i] = whole[i]

(* What a program was compiled for, and the tries it writes. *)
LEMMA KindOfProgram ==
  ASSUME kind \in Kinds, NEW p \in Program
  PROVE  kind[p] \in Kind
BY DEF Kind

LEMMA KindIs ==
  ASSUME NEW k \in Kind
  PROVE  /\ k = [type |-> k.type, endianness |-> k.endianness, major |-> k.major]
         /\ k.type \in Seq(Byte) /\ Len(k.type) \in Nat \ {0}
         /\ k.endianness \in Byte /\ k.endianness \in {LITTLE, BIG}
         /\ k.major \in Word
         /\ HeaderSize(k) \in Nat
         /\ HeaderSize(k) = Len(k.type) + 11
<1>1. /\ k = [type |-> k.type, endianness |-> k.endianness, major |-> k.major]
      /\ k.type \in Seq(Byte) \ {<<>>}
      /\ k.endianness \in {LITTLE, BIG}
      /\ k.major \in Word
  BY KindAssumption
<1> QED
  BY <1>1, ByteIs DEF HeaderSize, WordSize

LEMMA StorableIs ==
  ASSUME NEW t \in Storable
  PROVE  /\ t \in Trie /\ t # NoTrie
         /\ t = [table |-> t.table, trie |-> t.trie]
         /\ t.table \in Seq(Byte) /\ Len(t.table) \in Nat
         /\ t.trie \in Seq(Byte) /\ Len(t.trie) \in Nat \ {0}
BY BuiltAssumption, StorableAssumption DEF Trie

-----------------------------------------------------------------------------
(* The segments that write puts into a header fit there. *)
LEMMA HeaderIs ==
  ASSUME NEW k \in Kind, NEW t \in Storable
  PROVE  LET h == Header(k, t)
         IN  /\ h \in Headers
             /\ h.table.first \in Word /\ h.table.size \in Word
             /\ h.trie.first \in Word /\ h.trie.size \in Word
             /\ t.table = <<>> => h.table.first = 0 /\ h.table.size = 0
             /\ t.table # <<>> => /\ h.table.first = HeaderSize(k)
                                  /\ h.table.first # 0
                                  /\ h.table.size = Len(t.table)
                                  /\ h.table.size # 0
             /\ h.trie.first = HeaderSize(k) + Len(t.table)
             /\ h.trie.size = Len(t.trie) /\ h.trie.size # 0
<1> DEFINE l == HeaderSize(k)
           m == Len(t.table)
           n == Len(t.trie)
           h == Header(k, t)
<1>1. l \in Nat \ {0} /\ m \in Nat /\ n \in Nat \ {0}
  BY KindIs, StorableIs
<1>2. l + m + n \in Word
  BY StorableAssumption
<1>3. t.table # <<>> => m # 0
  BY StorableIs
<1>4. /\ h = [table |-> h.table, trie |-> h.trie]
      /\ h.table = IF t.table = <<>> THEN [first |-> 0, size |-> 0]
                   ELSE [first |-> l, size |-> m]
      /\ h.trie = [first |-> l + m, size |-> n]
  BY DEF Header, NoSegment
<1> HIDE DEF l, m, n, h
<1>5. l + m + n < Radix * Radix /\ Radix * Radix \in Nat
  BY <1>1, <1>2, ByteIs DEF Word
<1>6. /\ 0 \in Word /\ l \in Word /\ m \in Word /\ n \in Word /\ l + m \in Word
      /\ l + m \in Nat
  BY <1>1, <1>5 DEF Word
<1>7. h.table \in Segment /\ h.trie \in Segment
  BY <1>1, <1>4, <1>6 DEF Segment
<1>8. h \in Headers
  BY <1>4, <1>7 DEF Headers
<1> QED
  BY <1>1, <1>3, <1>4, <1>6, <1>8 DEF l, m, n, h

(* What is appended stands behind what was there. *)
LEMMA Appended ==
  ASSUME NEW s \in Seq(Byte), NEW t \in Seq(Byte)
  PROVE  /\ s \o t \in Seq(Byte)
         /\ Len(s \o t) = Len(s) + Len(t)
         /\ Begins(s, s \o t)
         /\ \A i \in 1 .. Len(t) : (s \o t)[Len(s) + i] = t[i]
<1>1. Len(s) \in Nat /\ Len(t) \in Nat
  OBVIOUS
<1>2. /\ s \o t \in Seq(Byte)
      /\ Len(s \o t) = Len(s) + Len(t)
      /\ \A i \in 1 .. Len(s) + Len(t) :
           (s \o t)[i] = IF i <= Len(s) THEN s[i] ELSE t[i - Len(s)]
  BY ConcatProperties
<1>3. ASSUME NEW i \in 1 .. Len(t) PROVE (s \o t)[Len(s) + i] = t[i]
  <2>1. /\ Len(s) + i \in 1 .. Len(s) + Len(t) /\ ~ (Len(s) + i <= Len(s))
        /\ (Len(s) + i) - Len(s) = i
    BY <1>1
  <2> QED
    BY <1>2, <2>1
<1> QED
  BY <1>1, <1>2, <1>3 DEF Begins

(* A beginning of a beginning is a beginning. *)
LEMMA BeginsTransitive ==
  ASSUME NEW S, NEW s \in Seq(S), NEW t \in Seq(S), NEW u \in Seq(S),
         Begins(s, t), Begins(t, u)
  PROVE  Begins(s, u)
<1>1. Len(s) \in Nat /\ Len(t) \in Nat /\ Len(u) \in Nat
  OBVIOUS
<1>2. \A i \in 1 .. Len(s) : i \in 1 .. Len(t)
  BY <1>1 DEF Begins
<1> QED
  BY <1>1, <1>2 DEF Begins

(* A beginning that is as long as the whole is the whole. *)
LEMMA BeginsAll ==
  ASSUME NEW S, NEW s \in Seq(S), NEW t \in Seq(S), Begins(s, t),
         Len(s) >= Len(t)
  PROVE  s = t
<1>1. Len(s) \in Nat /\ Len(t) \in Nat
  OBVIOUS
<1>2. Len(s) = Len(t)
  BY <1>1 DEF Begins
<1> QED
  BY <1>2, SeqEqual DEF Begins

(* Number w in byte order o stands behind the first n bytes of s. *)
HasWord(s, n, o, w) ==
  /\ s[n + 1] = WordBytes(o, w)[1]
  /\ s[n + 2] = WordBytes(o, w)[2]

LEMMA WordBytesAre ==
  ASSUME NEW o, NEW w \in Word
  PROVE  WordBytes(o, w) \in Seq(Byte) /\ Len(WordBytes(o, w)) = 2
<1>1. w % Radix \in Byte /\ w \div Radix \in Byte
  BY WordIs
<1>2. /\ <<w % Radix, w \div Radix>> \in Seq(Byte)
      /\ <<w \div Radix, w % Radix>> \in Seq(Byte)
  BY <1>1
<1> QED
  BY <1>2 DEF WordBytes

(* A number is put behind the bytes there are. *)
LEMMA WordAppended ==
  ASSUME NEW s \in Seq(Byte), NEW o, NEW w \in Word
  PROVE  LET u == s \o WordBytes(o, w)
         IN  /\ u \in Seq(Byte)
             /\ Len(u) = Len(s) + 2
             /\ Begins(s, u)
             /\ HasWord(u, Len(s), o, w)
<1> DEFINE v == WordBytes(o, w)
<1>1. v \in Seq(Byte) /\ Len(v) = 2
  BY WordBytesAre
<1> HIDE DEF v
<1>2. /\ s \o v \in Seq(Byte) /\ Len(s \o v) = Len(s) + Len(v)
      /\ Begins(s, s \o v)
      /\ \A i \in 1 .. Len(v) : (s \o v)[Len(s) + i] = v[i]
  BY <1>1, Appended
<1>3. 1 \in 1 .. Len(v) /\ 2 \in 1 .. Len(v)
  BY <1>1
<1> QED
  BY <1>1, <1>2, <1>3 DEF HasWord, v

(* A number that a beginning has, the whole has. *)
LEMMA WordStays ==
  ASSUME NEW s \in Seq(Byte), NEW u \in Seq(Byte), NEW n \in Nat, NEW o, NEW w,
         Begins(s, u), HasWord(s, n, o, w), Len(s) >= n + 2
  PROVE  HasWord(u, n, o, w)
<1>1. n + 1 \in 1 .. Len(s) /\ n + 2 \in 1 .. Len(s)
  OBVIOUS
<1> QED
  BY <1>1 DEF Begins, HasWord

(* The fields of a header where get_header looks for them: s has them if a *)
(* header begins it.                                                       *)
Fields(s, k, h) ==
  /\ \A i \in 1 .. Len(k.type) : s[i] = k.type[i]
  /\ s[Len(k.type) + 1] = k.endianness
  /\ HasWord(s, Len(k.type) + 1, k.endianness, k.major)
  /\ HasWord(s, Len(k.type) + 3, k.endianness, h.table.first)
  /\ HasWord(s, Len(k.type) + 5, k.endianness, h.table.size)
  /\ HasWord(s, Len(k.type) + 7, k.endianness, h.trie.first)
  /\ HasWord(s, Len(k.type) + 9, k.endianness, h.trie.size)

LEMMA HeaderBytesAre ==
  ASSUME NEW k \in Kind, NEW t \in Storable
  PROVE  LET hb == HeaderBytes(k, Header(k, t))
         IN  /\ hb \in Seq(Byte)
             /\ Len(hb) = HeaderSize(k)
             /\ Fields(hb, k, Header(k, t))
<1> DEFINE l == Len(k.type)
           o == k.endianness
           h == Header(k, t)
           w0 == k.major
           w1 == h.table.first
           w2 == h.table.size
           w3 == h.trie.first
           w4 == h.trie.size
           a == k.type
           b == <<o>>
           s == a \o b
           s0 == s \o WordBytes(o, w0)
           s1 == s0 \o WordBytes(o, w1)
           s2 == s1 \o WordBytes(o, w2)
           s3 == s2 \o WordBytes(o, w3)
           s4 == s3 \o WordBytes(o, w4)
<1>1. /\ a \in Seq(Byte) /\ l \in Nat /\ Len(a) = l /\ o \in Byte
      /\ w0 \in Word /\ HeaderSize(k) = l + 11
  BY KindIs
<1>2. w1 \in Word /\ w2 \in Word /\ w3 \in Word /\ w4 \in Word
  BY HeaderIs
<1>3. HeaderBytes(k, h) = s4
  BY DEF HeaderBytes
<1>4. b \in Seq(Byte) /\ Len(b) = 1 /\ b[1] = o
  BY <1>1
<1> HIDE DEF l, o, w0, w1, w2, w3, w4, a, b
<1>5. /\ s \in Seq(Byte) /\ Len(s) = l + 1 /\ Begins(a, s) /\ s[l + 1] = o
  <2>1. /\ s \in Seq(Byte) /\ Len(s) = Len(a) + Len(b) /\ Begins(a, s)
        /\ \A i \in 1 .. Len(b) : s[Len(a) + i] = b[i]
    BY <1>1, <1>4, Appended
  <2>2. 1 \in 1 .. Len(b)
    BY <1>4
  <2> QED
    BY <1>1, <1>4, <2>1, <2>2
<1> HIDE DEF s
<1>6. /\ s0 \in Seq(Byte) /\ Len(s0) = l + 3 /\ Begins(s, s0)
      /\ HasWord(s0, l + 1, o, w0)
  <2>1. /\ s0 \in Seq(Byte) /\ Len(s0) = Len(s) + 2 /\ Begins(s, s0)
        /\ HasWord(s0, Len(s), o, w0)
    BY <1>1, <1>5, WordAppended
  <2> QED
    BY <1>1, <1>5, <2>1
<1> HIDE DEF s0
<1>7. /\ s1 \in Seq(Byte) /\ Len(s1) = l + 5 /\ Begins(s0, s1)
      /\ HasWord(s1, l + 3, o, w1)
  <2>1. /\ s1 \in Seq(Byte) /\ Len(s1) = Len(s0) + 2 /\ Begins(s0, s1)
        /\ HasWord(s1, Len(s0), o, w1)
    BY <1>2, <1>6, WordAppended
  <2> QED
    BY <1>1, <1>6, <2>1
<1> HIDE DEF s1
<1>8. /\ s2 \in Seq(Byte) /\ Len(s2) = l + 7 /\ Begins(s1, s2)
      /\ HasWord(s2, l + 5, o, w2)
  <2>1. /\ s2 \in Seq(Byte) /\ Len(s2) = Len(s1) + 2 /\ Begins(s1, s2)
        /\ HasWord(s2, Len(s1), o, w2)
    BY <1>2, <1>7, WordAppended
  <2> QED
    BY <1>1, <1>7, <2>1
<1> HIDE DEF s2
<1>9. /\ s3 \in Seq(Byte) /\ Len(s3) = l + 9 /\ Begins(s2, s3)
      /\ HasWord(s3, l + 7, o, w3)
  <2>1. /\ s3 \in Seq(Byte) /\ Len(s3) = Len(s2) + 2 /\ Begins(s2, s3)
        /\ HasWord(s3, Len(s2), o, w3)
    BY <1>2, <1>8, WordAppended
  <2> QED
    BY <1>1, <1>8, <2>1
<1> HIDE DEF s3
<1>10. /\ s4 \in Seq(Byte) /\ Len(s4) = l + 11 /\ Begins(s3, s4)
       /\ HasWord(s4, l + 9, o, w4)
  <2>1. /\ s4 \in Seq(Byte) /\ Len(s4) = Len(s3) + 2 /\ Begins(s3, s4)
        /\ HasWord(s4, Len(s3), o, w4)
    BY <1>2, <1>9, WordAppended
  <2> QED
    BY <1>1, <1>9, <2>1
<1> HIDE DEF s4
<1>11. /\ Begins(s2, s4) /\ Begins(s1, s4) /\ Begins(s0, s4) /\ Begins(s, s4)
  <2>1. Begins(s2, s4)
    BY <1>8, <1>9, <1>10, BeginsTransitive
  <2>2. Begins(s1, s4)
    BY <1>7, <1>8, <1>10, <2>1, BeginsTransitive
  <2>3. Begins(s0, s4)
    BY <1>6, <1>7, <1>10, <2>2, BeginsTransitive
  <2>4. Begins(s, s4)
    BY <1>5, <1>6, <1>10, <2>3, BeginsTransitive
  <2> QED
    BY <2>1, <2>2, <2>3, <2>4
<1>12. (\A i \in 1 .. l : s4[i] = a[i]) /\ s4[l + 1] = o
  <2>1. Begins(a, s4)
    BY <1>1, <1>5, <1>10, <1>11, BeginsTransitive
  <2>2. l + 1 \in 1 .. Len(s)
    BY <1>1, <1>5
  <2>3. s4[l + 1] = s[l + 1]
    BY <1>11, <2>2 DEF Begins
  <2> QED
    BY <1>1, <1>5, <2>1, <2>3 DEF Begins
<1>13. HasWord(s4, l + 1, o, w0)
  <2>1. l + 1 \in Nat /\ Len(s0) >= (l + 1) + 2
    BY <1>1, <1>6
  <2> QED
    BY <1>6, <1>10, <1>11, <2>1, WordStays
<1>14. HasWord(s4, l + 3, o, w1)
  <2>1. l + 3 \in Nat /\ Len(s1) >= (l + 3) + 2
    BY <1>1, <1>7
  <2> QED
    BY <1>7, <1>10, <1>11, <2>1, WordStays
<1>15. HasWord(s4, l + 5, o, w2)
  <2>1. l + 5 \in Nat /\ Len(s2) >= (l + 5) + 2
    BY <1>1, <1>8
  <2> QED
    BY <1>8, <1>10, <1>11, <2>1, WordStays
<1>16. HasWord(s4, l + 7, o, w3)
  <2>1. l + 7 \in Nat /\ Len(s3) >= (l + 7) + 2
    BY <1>1, <1>9
  <2> QED
    BY <1>9, <1>10, <2>1, WordStays
<1>17. Fields(s4, k, h)
  BY <1>10, <1>12, <1>13, <1>14, <1>15, <1>16
  DEF Fields, l, o, w0, w1, w2, w3, w4, a
<1> QED
  BY <1>1, <1>3, <1>10, <1>17

-----------------------------------------------------------------------------
(* The position up to which a write reaches. *)
LEMMA MaxOfTwo ==
  ASSUME NEW m \in Nat, NEW n \in Nat
  PROVE  /\ Max({m, n}) \in Nat
         /\ Max({m, n}) >= m /\ Max({m, n}) >= n
         /\ Max({m, n}) \in {m, n}
<1>1. \E x \in {m, n} : \A y \in {m, n} : x >= y
  OBVIOUS
<1>2. Max({m, n}) \in {m, n} /\ (\A y \in {m, n} : Max({m, n}) >= y)
  BY <1>1 DEF Max
<1> QED
  BY <1>2

(* A write leaves bytes in the file. *)
LEMMA WrittenIsBytes ==
  ASSUME NEW old \in Seq(Byte), NEW offset \in Nat, NEW bytes \in Seq(Byte)
  PROVE  Written(old, offset, bytes) \in Seq(Byte)
<1> DEFINE new == Written(old, offset, bytes)
           last == Max({Len(old), offset + Len(bytes)})
<1>1. CASE bytes = <<>>
  BY <1>1 DEF Written
<1>2. CASE bytes # <<>>
  <2>1. last \in Nat
    BY MaxOfTwo
  <2>2. new = [i \in 1 .. last |->
                 IF i \in offset + 1 .. offset + Len(bytes) THEN bytes[i - offset]
                 ELSE IF i <= Len(old) THEN old[i] ELSE Hole]
    BY <1>2 DEF Written
  <2> HIDE DEF new, last
  <2>3. ASSUME NEW i \in 1 .. last PROVE new[i] \in Byte
    <3>1. CASE i \in offset + 1 .. offset + Len(bytes)
      <4>1. i - offset \in 1 .. Len(bytes)
        BY <2>1, <3>1
      <4> QED
        BY <2>2, <3>1, <4>1
    <3>2. CASE ~(i \in offset + 1 .. offset + Len(bytes)) /\ i <= Len(old)
      BY <2>1, <2>2, <3>2
    <3>3. CASE ~(i \in offset + 1 .. offset + Len(bytes)) /\ ~(i <= Len(old))
      BY <2>2, <3>3, ByteIs
    <3> QED
      BY <3>1, <3>2, <3>3
  <2>4. new \in [1 .. last -> Byte]
    BY <2>2, <2>3
  <2>5. new \in Seq(Byte)
    BY <2>1, <2>4, FunctionIsSeq
  <2> QED
    BY <2>5 DEF new
<1> QED
  BY <1>1, <1>2

(* What goes into a stream, and what of it goes on into the file. *)
LEMMA SplitIsOK ==
  ASSUME NEW all \in Seq(Byte), NEW n \in 0 .. Len(all)
  PROVE  /\ SubSeq(all, 1, n) \in Seq(Byte)
         /\ SubSeq(all, n + 1, Len(all)) \in Seq(Byte)
         /\ Len(SubSeq(all, n + 1, Len(all))) = Len(all) - n
<1>1. Len(all) \in Nat
  OBVIOUS
<1> QED
  BY <1>1, SubSeqProperties

(* What may go on is some of it. *)
LEMMA PartsAre ==
  ASSUME NEW p, NEW bytes \in Seq(Byte)
  PROVE  Parts(p, bytes) \subseteq 0 .. Len(bytes)
BY DEF Parts

(* ostream::write, whatever becomes of the bytes: see Put. *)
LEMMA PutIsOK ==
  ASSUME TypeInv, NEW p \in Program, p \in Writing,
         NEW bytes \in Seq(Byte), Put(p, bytes)
  PROVE  /\ file' \in Seq(Byte)
         /\ buffer' \in [Program -> Seq(Byte)]
         /\ at' \in [Program -> Nat]
         /\ bad' \subseteq faulty
         /\ \A q \in Program \ {p} : /\ buffer'[q] = buffer[q]
                                     /\ at'[q] = at[q]
                                     /\ (q \in bad' <=> q \in bad)
         /\ p \in bad' => buffer'[p] = <<>>
         /\ p \notin bad' => /\ p \notin bad
                             /\ at'[p] + Len(buffer'[p]) =
                                  at[p] + Len(buffer[p]) + Len(bytes)
<1>1. /\ file \in Seq(Byte)
      /\ buffer \in [Program -> Seq(Byte)]
      /\ at \in [Program -> Nat]
      /\ bad \subseteq faulty
      /\ p \in bad => buffer[p] = <<>>
  BY DEF TypeInv, Types, StreamOK
<1> DEFINE all == buffer[p] \o bytes
<1>2. CASE p \in bad /\ UNCHANGED <<file, buffer, at, bad>>
  <2>1. file' = file /\ buffer' = buffer /\ at' = at /\ bad' = bad
    BY <1>2
  <2> QED
    BY <1>1, <1>2, <2>1
<1>3. CASE p \notin bad
  <2>1. all \in Seq(Byte) /\ Len(all) = Len(buffer[p]) + Len(bytes)
    BY <1>1, ConcatProperties
  <2>2. Len(buffer[p]) \in Nat /\ Len(bytes) \in Nat /\ at[p] \in Nat
    BY <1>1
  <2> HIDE DEF all
  <2>3. PICK n \in 0 .. Len(all) :
          /\ file' = Written(file, at[p], SubSeq(all, 1, n))
          /\ at' = [at EXCEPT ![p] = @ + n]
          /\ \/ /\ buffer' = [buffer EXCEPT ![p] = SubSeq(all, n + 1, Len(all))]
                /\ bad' = bad
             \/ /\ buffer' = [buffer EXCEPT ![p] = <<>>]
                /\ bad' = bad \cup {p}
                /\ p \in faulty
    <3>1. Parts(p, all) \subseteq 0 .. Len(all) /\ 0 \in 0 .. Len(all)
      BY <2>1, <2>2, PartsAre
    <3> QED
      BY <1>3, <3>1 DEF Put, all
  <2>4. /\ SubSeq(all, 1, n) \in Seq(Byte)
        /\ SubSeq(all, n + 1, Len(all)) \in Seq(Byte)
        /\ Len(SubSeq(all, n + 1, Len(all))) = Len(all) - n
    BY <2>1, SplitIsOK
  <2>5. file' \in Seq(Byte)
    BY <1>1, <2>2, <2>3, <2>4, WrittenIsBytes
  <2>6. /\ at' \in [Program -> Nat]
        /\ at'[p] = at[p] + n
        /\ \A q \in Program \ {p} : at'[q] = at[q]
    BY <1>1, <2>3
  <2>7. CASE buffer' = [buffer EXCEPT ![p] = SubSeq(all, n + 1, Len(all))]
             /\ bad' = bad
    <3>1. /\ buffer' \in [Program -> Seq(Byte)]
          /\ buffer'[p] = SubSeq(all, n + 1, Len(all))
          /\ \A q \in Program \ {p} : buffer'[q] = buffer[q]
      BY <1>1, <2>4, <2>7
    <3>2. Len(buffer'[p]) = Len(all) - n
      BY <2>4, <3>1
    <3>3. at'[p] + Len(buffer'[p]) = at[p] + Len(buffer[p]) + Len(bytes)
      BY <2>1, <2>2, <2>6, <3>2
    <3> QED
      BY <1>1, <1>3, <2>5, <2>6, <2>7, <3>1, <3>3
  <2>8. CASE buffer' = [buffer EXCEPT ![p] = <<>>] /\ bad' = bad \cup {p}
             /\ p \in faulty
    <3>1. /\ buffer' \in [Program -> Seq(Byte)]
          /\ buffer'[p] = <<>>
          /\ \A q \in Program \ {p} : buffer'[q] = buffer[q]
      BY <1>1, <2>8
    <3> QED
      BY <1>1, <2>5, <2>6, <2>8, <3>1
  <2> QED
    BY <2>3, <2>7, <2>8
<1> QED
  BY <1>2, <1>3 DEF Put

(* What a segment reads as. *)
LEMMA BytesAre ==
  ASSUME file \in Seq(Byte), NEW segment \in Segment, Has(segment)
  PROVE  /\ Bytes(segment) \in Seq(Byte)
         /\ Len(Bytes(segment)) = segment.size
<1> DEFINE first == segment.first
           size == segment.size
<1>1. /\ first \in Nat /\ size \in Nat /\ first + size <= Len(file)
      /\ Len(file) \in Nat
  BY DEF Segment, Has
<1> HIDE DEF first, size
<1>2. \A i \in first + 1 .. first + size : file[i] \in Byte
  BY <1>1
<1>3. /\ SubSeq(file, first + 1, first + size) \in Seq(Byte)
      /\ Len(SubSeq(file, first + 1, first + size)) = size
  BY <1>1, <1>2, SubSeqProperties
<1> QED
  BY <1>3 DEF Bytes, first, size

(* A file that is long enough has a header, of some sort. *)
LEMMA HeaderReadIs ==
  ASSUME file \in Seq(Byte), NEW k \in Kind, Len(file) >= HeaderSize(k)
  PROVE  HeaderRead(k) \in Headers
<1> DEFINE l == Len(k.type)
<1>1. l \in Nat /\ Len(file) >= l + 11 /\ Len(file) \in Nat
  BY KindIs
<1>2. \A i \in 1 .. 11 : file[l + i] \in Nat
  <2> TAKE i \in 1 .. 11
  <2>1. l + i \in 1 .. Len(file)
    BY <1>1
  <2>2. file[l + i] \in Byte
    BY <2>1
  <2> QED
    BY <2>2, ByteIs
<1> HIDE DEF l
<1>3. ASSUME NEW n \in {1, 2, 3, 4} PROVE WordAt(k, n) \in Nat
  <2>1. file[l + 1 + n * 2 + 1] \in Nat /\ file[l + 1 + n * 2 + 2] \in Nat
    <3>1. 1 + n * 2 + 1 \in 1 .. 11 /\ 1 + n * 2 + 2 \in 1 .. 11
      OBVIOUS
    <3>2. /\ l + (1 + n * 2 + 1) = l + 1 + n * 2 + 1
          /\ l + (1 + n * 2 + 2) = l + 1 + n * 2 + 2
      BY <1>1
    <3> QED
      BY <1>2, <3>1, <3>2
  <2>2. \A x, y \in Nat : x + Radix * y \in Nat
    BY ByteIs
  <2> QED
    BY <2>1, <2>2 DEF WordAt, WordSize, l
<1> QED
  BY <1>3 DEF HeaderRead, Headers, Segment

-----------------------------------------------------------------------------
(* Types: one lemma for each step. *)
LEMMA InitTypeInv == Init => TypeInv
<1> SUFFICES ASSUME Init PROVE TypeInv
  OBVIOUS
<1>1. <<>> \in Seq(Byte)
  OBVIOUS
<1>2. Types
  <2>1. /\ pc \in [Program -> {"idle", "header", "table", "trie", "close",
                               "get header", "get table", "get trie"}]
        /\ at \in [Program -> Nat]
        /\ header \in [Program -> Headers \cup {Nothing}]
        /\ holds \in [Program -> Trie \cup {NoTrie}]
    BY DEF Init
  <2>2. buffer \in [Program -> Seq(Byte)] /\ table \in [Program -> Seq(Byte)]
    BY <1>1 DEF Init
  <2> QED
    BY <2>1, <2>2 DEF Init, Types
<1>3. \A p \in Program : StreamOK(p) /\ ReadOK(p)
  BY DEF Init, StreamOK, ReadOK, Writing, Reading
<1> QED
  BY <1>2, <1>3 DEF TypeInv

LEMMA FromMemoryTyped ==
  ASSUME TypeInv, NEW p \in Program, NEW trie \in Built, FromMemory(p, trie)
  PROVE  TypeInv'
<1>1. trie \in Trie
  BY BuiltAssumption
<1>2. /\ pc[p] = "idle" /\ holds' = [holds EXCEPT ![p] = trie]
      /\ misled' = misled \ {p}
      /\ UNCHANGED <<file, kind, pc, buffer, at, bad, faulty, header, table,
                     muddled, overlapped>>
  BY DEF FromMemory, streams, reads
<1>3. /\ holds' \in [Program -> Trie \cup {NoTrie}]
      /\ \A q \in Program \ {p} : holds'[q] = holds[q]
  BY <1>1, <1>2 DEF TypeInv, Types
<1>4. Writing' = Writing /\ Reading' = Reading /\ p \notin Writing
  BY <1>2 DEF Writing, Reading
<1>5. Types'
  BY <1>2, <1>3, <1>4 DEF TypeInv, Types
<1>6. ASSUME NEW q \in Program PROVE StreamOK(q)'
  <2>1. StreamOK(q)
    BY DEF TypeInv
  <2>2. q \in Writing => holds'[q] = holds[q]
    BY <1>3, <1>4
  <2>3. q \in Writing => Length(q)' = Length(q)
    BY <1>2, <2>2 DEF Length
  <2> QED
    BY <1>2, <1>4, <2>1, <2>2, <2>3 DEF StreamOK
<1>7. \A q \in Program : ReadOK(q)'
  BY <1>2, <1>4 DEF TypeInv, ReadOK
<1> QED
  BY <1>5, <1>6, <1>7 DEF TypeInv

LEMMA OpenWriteTyped ==
  ASSUME TypeInv, NEW p \in Program, OpenWrite(p)
  PROVE  TypeInv'
<1>1. /\ file' = <<>> /\ holds' = holds /\ kind' = kind /\ buffer' = buffer
      /\ bad' = bad /\ faulty' = faulty /\ header' = header /\ table' = table
      /\ pc[p] = "idle" /\ pc' = [pc EXCEPT ![p] = "header"]
      /\ at' = [at EXCEPT ![p] = 0]
      /\ muddled' = (Writing # {})
      /\ overlapped' = overlapped \cup Reading
      /\ misled' = misled
      /\ holds[p] \in Storable
  BY DEF OpenWrite, Goto, memory, reads
<1>2. file' \in Seq(Byte) /\ file' # NoFile
  <2>1. <<>> \in Seq(Byte)
    OBVIOUS
  <2> QED
    BY <1>1, <2>1, NoFileHasNoBytes
<1>3. Writing' = Writing \cup {p} /\ Reading' = Reading /\ p \notin Writing
  BY <1>1 DEF TypeInv, Types, Writing, Reading
<1>4. Types'
  BY <1>1, <1>2, <1>3 DEF TypeInv, Types
<1>5. p \notin bad
  BY <1>3 DEF TypeInv, Types
<1>6. buffer[p] = <<>>
  BY <1>3 DEF TypeInv, StreamOK
<1>7. pc'[p] = "header" /\ at'[p] = 0 /\ (\A q \in Program \ {p} :
                                         pc'[q] = pc[q] /\ at'[q] = at[q])
  BY <1>1 DEF TypeInv, Types
<1>8. StreamOK(p)'
  <2>1. 0 + Len(<<>>) = 0
    OBVIOUS
  <2>2. Length(p)' = 0
    BY <1>7 DEF Length
  <2> QED
    BY <1>1, <1>2, <1>3, <1>5, <1>6, <1>7, <2>1, <2>2 DEF StreamOK
<1>9. ASSUME NEW q \in Program \ {p} PROVE StreamOK(q)'
  <2>1. StreamOK(q)
    BY DEF TypeInv
  <2>2. Length(q)' = Length(q)
    BY <1>1, <1>7 DEF Length
  <2> QED
    BY <1>1, <1>2, <1>3, <1>7, <2>1, <2>2 DEF StreamOK
<1>10. \A q \in Program : ReadOK(q)'
  BY <1>1, <1>2, <1>3, <1>7 DEF TypeInv, ReadOK, Reading
<1> QED
  BY <1>4, <1>8, <1>9, <1>10 DEF TypeInv

(* The steps of write that put something into the stream, or nothing. *)
LEMMA PutTyped ==
  ASSUME TypeInv, NEW p \in Program, p \in Writing,
         NEW bytes \in Seq(Byte), Put(p, bytes),
         NEW step \in {"table", "trie", "close"}, Goto(p, step),
         p \notin bad' => Length(p)' = Length(p) + Len(bytes),
         UNCHANGED <<memory, faulty, reads, history>>
  PROVE  TypeInv'
<1>1. /\ file' \in Seq(Byte)
      /\ buffer' \in [Program -> Seq(Byte)]
      /\ at' \in [Program -> Nat]
      /\ bad' \subseteq faulty
      /\ \A q \in Program \ {p} : /\ buffer'[q] = buffer[q]
                                  /\ at'[q] = at[q]
                                  /\ (q \in bad' <=> q \in bad)
      /\ p \in bad' => buffer'[p] = <<>>
      /\ p \notin bad' => /\ p \notin bad
                          /\ at'[p] + Len(buffer'[p]) =
                               at[p] + Len(buffer[p]) + Len(bytes)
  BY PutIsOK
<1>2. /\ holds' = holds /\ kind' = kind /\ faulty' = faulty
      /\ header' = header /\ table' = table
      /\ muddled' = muddled /\ overlapped' = overlapped /\ misled' = misled
      /\ pc'[p] = step
      /\ \A q \in Program \ {p} : pc'[q] = pc[q]
      /\ pc' \in [Program -> {"idle", "header", "table", "trie", "close",
                              "get header", "get table", "get trie"}]
  BY DEF TypeInv, Types, Goto, memory, reads, history
<1>3. Writing' = Writing /\ Reading' = Reading
  BY <1>2 DEF Writing, Reading
<1>4. file' # NoFile
  BY <1>1, NoFileHasNoBytes
<1>5. Types'
  BY <1>1, <1>2, <1>3 DEF TypeInv, Types
<1>6. StreamOK(p)'
  <2>1. StreamOK(p)
    BY DEF TypeInv
  <2>2. p \notin bad' => at'[p] + Len(buffer'[p]) = Length(p)'
    BY <1>1, <2>1 DEF StreamOK
  <2> QED
    BY <1>1, <1>2, <1>3, <1>4, <2>1, <2>2 DEF StreamOK
<1>7. ASSUME NEW q \in Program \ {p} PROVE StreamOK(q)'
  <2>1. StreamOK(q)
    BY DEF TypeInv
  <2>2. /\ holds'[q] = holds[q] /\ buffer'[q] = buffer[q]
        /\ at'[q] = at[q] /\ pc'[q] = pc[q]
    BY <1>1, <1>2
  <2>3. q \in bad' <=> q \in bad
    BY <1>1
  <2>4. Length(q)' = Length(q)
    BY <1>2, <2>2 DEF Length
  <2> QED
    BY <1>3, <1>4, <2>1, <2>2, <2>3, <2>4 DEF StreamOK
<1>8. \A q \in Program : ReadOK(q)'
  BY <1>2, <1>3, <1>4 DEF TypeInv, ReadOK, Reading
<1> QED
  BY <1>5, <1>6, <1>7, <1>8 DEF TypeInv

(* What a writer has in memory. *)
LEMMA WriterHolds ==
  ASSUME TypeInv, NEW p \in Program, p \in Writing
  PROVE  holds[p] \in Storable /\ kind[p] \in Kind
BY KindOfProgram DEF TypeInv, Types, StreamOK

LEMMA PutHeaderTyped ==
  ASSUME TypeInv, NEW p \in Program, PutHeader(p)
  PROVE  TypeInv'
<1> DEFINE bytes == HeaderBytes(kind[p], Header(kind[p], holds[p]))
           step == IF p \in bad' THEN "close" ELSE "table"
<1>1. p \in Writing /\ pc[p] = "header"
  BY DEF PutHeader, Writing
<1>2. kind[p] \in Kind /\ holds[p] \in Storable
  BY <1>1, WriterHolds
<1>3. bytes \in Seq(Byte) /\ Len(bytes) = HeaderSize(kind[p])
  BY <1>2, HeaderBytesAre
<1>4. /\ Put(p, bytes) /\ Goto(p, step)
      /\ UNCHANGED <<memory, faulty, reads, history>>
      /\ kind' = kind /\ holds' = holds
  BY DEF PutHeader, memory
<1>5. p \notin bad' => Length(p)' = Length(p) + Len(bytes)
  <2>1. pc'[p] = step
    BY <1>4 DEF Goto, TypeInv, Types
  <2>2. HeaderSize(kind[p]) \in Nat
    BY <1>2, KindIs
  <2>3. Length(p) = 0 /\ (p \notin bad' => Length(p)' = HeaderSize(kind[p]))
    BY <1>1, <1>4, <2>1 DEF Length
  <2> QED
    BY <1>3, <2>2, <2>3
<1>6. step \in {"table", "trie", "close"}
  OBVIOUS
<1> HIDE DEF bytes, step
<1> QED
  BY <1>1, <1>3, <1>4, <1>5, <1>6, PutTyped

LEMMA PutTableTyped ==
  ASSUME TypeInv, NEW p \in Program, PutTable(p)
  PROVE  TypeInv'
<1> DEFINE bytes == holds[p].table
<1>1. p \in Writing /\ pc[p] = "table"
  BY DEF PutTable, Writing
<1>2. /\ kind[p] \in Kind /\ holds[p] \in Storable
      /\ bytes \in Seq(Byte)
  BY <1>1, WriterHolds, StorableIs
<1>3. /\ Goto(p, "trie") /\ UNCHANGED <<memory, faulty, reads, history>>
      /\ kind' = kind /\ holds' = holds
  BY DEF PutTable, memory
<1>4. /\ pc'[p] = "trie"
      /\ \A q \in Program \ {p} : pc'[q] = pc[q]
      /\ pc' \in [Program -> {"idle", "header", "table", "trie", "close",
                              "get header", "get table", "get trie"}]
  BY <1>3 DEF Goto, TypeInv, Types
<1>5. Length(p)' = Length(p) + Len(bytes)
  BY <1>1, <1>3, <1>4 DEF Length
<1>6. CASE Put(p, bytes)
  <2> HIDE DEF bytes
  <2> QED
    BY <1>1, <1>2, <1>3, <1>5, <1>6, PutTyped
<1>7. CASE bytes = <<>> /\ UNCHANGED <<file, buffer, at, bad>>
  <2>1. Writing' = Writing /\ Reading' = Reading
    BY <1>1, <1>4 DEF Writing, Reading
  <2>2. UNCHANGED <<kind, holds, faulty, header, table, muddled, overlapped,
                    misled, file, buffer, at, bad>>
    BY <1>3, <1>7 DEF memory, reads, history
  <2>3. Types'
    BY <1>4, <2>1, <2>2 DEF TypeInv, Types
  <2>4. Length(p)' = Length(p)
    <3>1. Length(p) = HeaderSize(kind[p]) /\ HeaderSize(kind[p]) \in Nat
      BY <1>1, <1>2, KindIs DEF Length
    <3>2. Len(bytes) = 0
      BY <1>7
    <3> QED
      BY <1>5, <3>1, <3>2
  <2>5. StreamOK(p)'
    BY <1>1, <1>4, <2>1, <2>2, <2>4 DEF TypeInv, StreamOK
  <2>6. ASSUME NEW q \in Program \ {p} PROVE StreamOK(q)'
    <3>1. Length(q)' = Length(q)
      BY <1>4, <2>2 DEF Length
    <3> QED
      BY <1>4, <2>1, <2>2, <3>1 DEF TypeInv, StreamOK
  <2>7. \A q \in Program : ReadOK(q)'
    BY <1>1, <1>4, <2>1, <2>2 DEF TypeInv, ReadOK, Reading
  <2> QED
    BY <2>3, <2>5, <2>6, <2>7 DEF TypeInv
<1> QED
  BY <1>6, <1>7 DEF PutTable

LEMMA PutTrieTyped ==
  ASSUME TypeInv, NEW p \in Program, PutTrie(p)
  PROVE  TypeInv'
<1> DEFINE bytes == holds[p].trie
<1>1. p \in Writing /\ pc[p] = "trie"
  BY DEF PutTrie, Writing
<1>2. bytes \in Seq(Byte)
  BY <1>1, WriterHolds, StorableIs
<1>3. /\ Put(p, bytes) /\ Goto(p, "close")
      /\ UNCHANGED <<memory, faulty, reads, history>>
      /\ kind' = kind /\ holds' = holds
  BY DEF PutTrie, memory
<1>4. pc'[p] = "close"
  BY <1>3 DEF Goto, TypeInv, Types
<1>5. Length(p)' = Length(p) + Len(bytes)
  BY <1>1, <1>3, <1>4 DEF Length
<1> HIDE DEF bytes
<1> QED
  BY <1>1, <1>2, <1>3, <1>5, PutTyped

(* The end of write, or of a program. *)
LEMMA EndWriteIs ==
  ASSUME TypeInv, NEW p \in Program, EndWrite(p)
  PROVE  /\ pc'[p] = "idle" /\ buffer'[p] = <<>> /\ at'[p] = 0
         /\ \A q \in Program \ {p} :
              pc'[q] = pc[q] /\ buffer'[q] = buffer[q] /\ at'[q] = at[q]
         /\ pc' \in [Program -> {"idle", "header", "table", "trie", "close",
                                 "get header", "get table", "get trie"}]
         /\ buffer' \in [Program -> Seq(Byte)]
         /\ at' \in [Program -> Nat]
         /\ bad' = bad \ {p} /\ faulty' = faulty \ {p}
         /\ Writing' = Writing \ {p} /\ Reading' = Reading \ {p}
<1>1. <<>> \in Seq(Byte)
  OBVIOUS
<1>2. /\ pc' = [pc EXCEPT ![p] = "idle"]
      /\ buffer' = [buffer EXCEPT ![p] = <<>>]
      /\ at' = [at EXCEPT ![p] = 0]
      /\ bad' = bad \ {p} /\ faulty' = faulty \ {p}
  BY DEF EndWrite, Goto
<1>3. /\ pc'[p] = "idle" /\ buffer'[p] = <<>> /\ at'[p] = 0
      /\ \A q \in Program \ {p} :
           pc'[q] = pc[q] /\ buffer'[q] = buffer[q] /\ at'[q] = at[q]
  BY <1>2 DEF TypeInv, Types
<1>4. /\ pc' \in [Program -> {"idle", "header", "table", "trie", "close",
                              "get header", "get table", "get trie"}]
      /\ buffer' \in [Program -> Seq(Byte)]
      /\ at' \in [Program -> Nat]
  BY <1>1, <1>2 DEF TypeInv, Types
<1>5. Writing' = Writing \ {p} /\ Reading' = Reading \ {p}
  BY <1>3 DEF Writing, Reading
<1> QED
  BY <1>2, <1>3, <1>4, <1>5

(* The end of a write leaves the types of all streams and reads in order. *)
LEMMA OthersKept ==
  ASSUME TypeInv, NEW p \in Program, EndWrite(p), file # NoFile => file' # NoFile,
         \A q \in Program \ {p} : holds'[q] = holds[q] /\ header'[q] = header[q],
         kind' = kind
  PROVE  \A q \in Program : StreamOK(q)' /\ ReadOK(q)'
<1>1. ASSUME NEW q \in Program \ {p} PROVE StreamOK(q)' /\ ReadOK(q)'
  <2>1. StreamOK(q) /\ ReadOK(q)
    BY DEF TypeInv
  <2>2. /\ pc'[q] = pc[q] /\ buffer'[q] = buffer[q] /\ at'[q] = at[q]
        /\ bad' = bad \ {p}
        /\ Writing' = Writing \ {p} /\ Reading' = Reading \ {p}
    BY EndWriteIs
  <2>3. holds'[q] = holds[q] /\ header'[q] = header[q]
    OBVIOUS
  <2>4. Length(q)' = Length(q)
    BY <2>2, <2>3 DEF Length
  <2>5. StreamOK(q)'
    BY <2>1, <2>2, <2>3, <2>4 DEF StreamOK
  <2>6. ReadOK(q)'
    BY <2>1, <2>2, <2>3 DEF ReadOK
  <2> QED
    BY <2>5, <2>6
<1>2. /\ pc'[p] = "idle" /\ buffer'[p] = <<>> /\ p \notin bad'
      /\ p \notin Writing' /\ p \notin Reading'
  BY EndWriteIs
<1>3. StreamOK(p)' /\ ReadOK(p)'
  BY <1>2 DEF StreamOK, ReadOK
<1> QED
  BY <1>1, <1>3

LEMMA CloseTyped ==
  ASSUME TypeInv, NEW p \in Program, Close(p)
  PROVE  TypeInv'
<1>1. p \in Writing /\ p \notin Reading
  BY DEF Close, Writing, Reading
<1>2. file \in Seq(Byte) /\ buffer[p] \in Seq(Byte) /\ at[p] \in Nat
  BY <1>1 DEF TypeInv, Types, StreamOK
<1>3. PICK n \in 0 .. Len(buffer[p]) :
        file' = Written(file, at[p], SubSeq(buffer[p], 1, n))
  <2>1. /\ Parts(p, buffer[p]) \subseteq 0 .. Len(buffer[p])
        /\ Len(buffer[p]) \in 0 .. Len(buffer[p])
    BY <1>2, PartsAre
  <2> QED
    BY <2>1 DEF Close
<1>4. SubSeq(buffer[p], 1, n) \in Seq(Byte)
  BY <1>2, SplitIsOK
<1>5. file' \in Seq(Byte)
  BY <1>2, <1>3, <1>4, WrittenIsBytes
<1>6. file' # NoFile
  BY <1>5, NoFileHasNoBytes
<1>7. /\ EndWrite(p)
      /\ holds' = holds /\ kind' = kind /\ header' = header /\ table' = table
      /\ muddled' = muddled /\ overlapped' = overlapped /\ misled' = misled
  BY DEF Close, memory, reads, history
<1>8. \A q \in Program : StreamOK(q)' /\ ReadOK(q)'
  BY <1>6, <1>7, OthersKept
<1>9. Types'
  <2>1. /\ pc' \in [Program -> {"idle", "header", "table", "trie", "close",
                                "get header", "get table", "get trie"}]
        /\ buffer' \in [Program -> Seq(Byte)]
        /\ at' \in [Program -> Nat]
        /\ bad' = bad \ {p} /\ faulty' = faulty \ {p} /\ Writing' = Writing \ {p}
        /\ Reading' = Reading \ {p}
    BY <1>7, EndWriteIs
  <2>2. overlapped' \subseteq Reading'
    BY <1>1, <1>7, <2>1 DEF TypeInv, Types
  <2> QED
    BY <1>5, <1>7, <2>1, <2>2 DEF TypeInv, Types
<1> QED
  BY <1>8, <1>9 DEF TypeInv

LEMMA CrashTyped ==
  ASSUME TypeInv, NEW p \in Program, Crash(p)
  PROVE  TypeInv'
<1>1. /\ EndWrite(p)
      /\ file' = file /\ kind' = kind
      /\ holds' = [holds EXCEPT ![p] = NoTrie]
      /\ header' = [header EXCEPT ![p] = Nothing]
      /\ table' = [table EXCEPT ![p] = <<>>]
      /\ muddled' = muddled /\ overlapped' = overlapped \ {p}
      /\ misled' = misled \ {p}
  BY DEF Crash
<1>2. <<>> \in Seq(Byte)
  OBVIOUS
<1>3. /\ holds' \in [Program -> Trie \cup {NoTrie}]
      /\ header' \in [Program -> Headers \cup {Nothing}]
      /\ table' \in [Program -> Seq(Byte)]
      /\ \A q \in Program \ {p} : holds'[q] = holds[q] /\ header'[q] = header[q]
  BY <1>1, <1>2 DEF TypeInv, Types
<1>4. \A q \in Program : StreamOK(q)' /\ ReadOK(q)'
  BY <1>1, <1>3, OthersKept
<1>5. Types'
  <2>1. /\ pc' \in [Program -> {"idle", "header", "table", "trie", "close",
                                "get header", "get table", "get trie"}]
        /\ buffer' \in [Program -> Seq(Byte)]
        /\ at' \in [Program -> Nat]
        /\ bad' = bad \ {p} /\ faulty' = faulty \ {p} /\ Writing' = Writing \ {p}
        /\ Reading' = Reading \ {p}
    BY <1>1, EndWriteIs
  <2>2. overlapped' \subseteq Reading'
    BY <1>1, <2>1 DEF TypeInv, Types
  <2> QED
    BY <1>1, <1>3, <2>1, <2>2 DEF TypeInv, Types
<1> QED
  BY <1>4, <1>5 DEF TypeInv

LEMMA FaultTyped ==
  ASSUME TypeInv, NEW p \in Program, Fault(p)
  PROVE  TypeInv'
<1>1. /\ p \in Writing /\ faulty' = faulty \cup {p}
      /\ UNCHANGED <<file, kind, holds, pc, buffer, at, bad, header, table,
                     muddled, overlapped, misled>>
  BY DEF Fault, memory, reads, history
<1>2. Writing' = Writing /\ Reading' = Reading
  BY <1>1 DEF Writing, Reading
<1>3. Types'
  BY <1>1, <1>2 DEF TypeInv, Types
<1>4. \A q \in Program : StreamOK(q)' /\ ReadOK(q)'
  BY <1>1, <1>2 DEF TypeInv, StreamOK, ReadOK, Length
<1> QED
  BY <1>3, <1>4 DEF TypeInv

(* The steps of from_file leave the file and the streams alone. *)
LEMMA ReadStepTyped ==
  ASSUME TypeInv, NEW p \in Program, p \notin Writing,
         NEW step \in {"idle", "get header", "get table", "get trie"},
         Goto(p, step),
         file' = file, kind' = kind, UNCHANGED streams,
         muddled' = muddled, overlapped' \subseteq Reading',
         misled' \subseteq Program,
         holds' \in [Program -> Trie \cup {NoTrie}],
         header' \in [Program -> Headers \cup {Nothing}],
         table' \in [Program -> Seq(Byte)],
         \A q \in Program \ {p} : holds'[q] = holds[q] /\ header'[q] = header[q],
         ReadOK(p)'
  PROVE  TypeInv'
<1>1. /\ pc'[p] = step
      /\ \A q \in Program \ {p} : pc'[q] = pc[q]
      /\ pc' \in [Program -> {"idle", "header", "table", "trie", "close",
                              "get header", "get table", "get trie"}]
  BY DEF TypeInv, Types, Goto
<1>2. Writing' = Writing
  BY <1>1 DEF Writing
<1>3. buffer' = buffer /\ at' = at /\ bad' = bad /\ faulty' = faulty
  BY DEF streams
<1>4. Types'
  BY <1>1, <1>2, <1>3 DEF TypeInv, Types
<1>5. StreamOK(p)'
  BY <1>1, <1>2, <1>3 DEF TypeInv, StreamOK, Writing
<1>6. ASSUME NEW q \in Program \ {p} PROVE StreamOK(q)' /\ ReadOK(q)'
  <2>1. StreamOK(q) /\ ReadOK(q)
    BY DEF TypeInv
  <2>2. pc'[q] = pc[q] /\ holds'[q] = holds[q] /\ header'[q] = header[q]
    BY <1>1
  <2>3. Length(q)' = Length(q)
    BY <2>2 DEF Length
  <2>4. StreamOK(q)'
    BY <1>2, <1>3, <2>1, <2>2, <2>3 DEF StreamOK
  <2>5. ReadOK(q)'
    BY <2>1, <2>2 DEF ReadOK, Reading
  <2> QED
    BY <2>4, <2>5
<1> QED
  BY <1>4, <1>5, <1>6 DEF TypeInv

LEMMA OpenReadTyped ==
  ASSUME TypeInv, NEW p \in Program, OpenRead(p)
  PROVE  TypeInv'
<1>1. /\ pc[p] = "idle" /\ file # NoFile /\ Goto(p, "get header")
      /\ file' = file /\ kind' = kind /\ holds' = holds /\ UNCHANGED streams
      /\ header' = header /\ table' = table /\ muddled' = muddled
      /\ misled' = misled
  BY DEF OpenRead, memory, reads
<1>2. pc'[p] = "get header" /\ \A q \in Program \ {p} : pc'[q] = pc[q]
  BY <1>1 DEF Goto, TypeInv, Types
<1>3. overlapped' \subseteq Reading'
  <2>1. Reading' = Reading \cup {p}
    BY <1>2 DEF Reading
  <2> QED
    BY <2>1 DEF OpenRead, TypeInv, Types
<1>4. ReadOK(p)'
  BY <1>1, <1>2 DEF ReadOK
<1>5. p \notin Writing
  BY <1>1 DEF Writing
<1> QED
  BY <1>1, <1>3, <1>4, <1>5, ReadStepTyped DEF TypeInv, Types

(* from_file returns with a trie, or with the one there was. *)
LEMMA ReturnTyped ==
  ASSUME TypeInv, NEW p \in Program, p \in Reading,
         NEW trie \in Trie \cup {NoTrie}, Return(p, trie),
         file' = file, kind' = kind, UNCHANGED <<streams, muddled, misled>>
  PROVE  TypeInv'
<1>1. /\ holds' = [holds EXCEPT ![p] = trie]
      /\ header' = [header EXCEPT ![p] = Nothing]
      /\ table' = [table EXCEPT ![p] = <<>>]
      /\ overlapped' = overlapped \ {p}
      /\ Goto(p, "idle")
  BY DEF Return
<1>2. <<>> \in Seq(Byte)
  OBVIOUS
<1>3. /\ holds' \in [Program -> Trie \cup {NoTrie}]
      /\ header' \in [Program -> Headers \cup {Nothing}]
      /\ table' \in [Program -> Seq(Byte)]
      /\ \A q \in Program \ {p} : holds'[q] = holds[q] /\ header'[q] = header[q]
      /\ misled' \subseteq Program
  BY <1>1, <1>2 DEF TypeInv, Types
<1>4. Reading' = Reading \ {p}
  BY <1>1 DEF Goto, Reading, TypeInv, Types
<1>5. overlapped' \subseteq Reading'
  BY <1>1, <1>4 DEF TypeInv, Types
<1>6. ReadOK(p)'
  BY <1>4 DEF ReadOK
<1>7. p \notin Writing
  BY DEF Reading, Writing
<1> QED
  BY <1>1, <1>3, <1>5, <1>6, <1>7, ReadStepTyped

LEMMA RefuseTyped ==
  ASSUME TypeInv, NEW p \in Program, p \in Reading, Refuse(p),
         file' = file, kind' = kind, UNCHANGED <<streams, muddled, misled>>
  PROVE  TypeInv'
<1>1. holds[p] \in Trie \cup {NoTrie}
  BY DEF TypeInv, Types
<1> QED
  BY <1>1, ReturnTyped DEF Refuse

(* A step to the next segment leaves the overlapped reads as they were. *)
LEMMA ReadingStays ==
  ASSUME TypeInv, NEW p \in Reading,
         NEW step \in {"get table", "get trie"}, Goto(p, step)
  PROVE  Reading' = Reading
BY DEF Goto, Reading, TypeInv, Types

LEMMA ReadHeaderTyped ==
  ASSUME TypeInv, NEW p \in Program, ReadHeader(p)
  PROVE  TypeInv'
<1>1. p \in Reading /\ p \notin Writing /\ pc[p] = "get header"
  BY DEF ReadHeader, Reading, Writing
<1>2. /\ file' = file /\ kind' = kind /\ UNCHANGED <<streams, muddled>>
      /\ misled' \subseteq Program
  BY DEF ReadHeader, TypeInv, Types
<1>3. CASE ~ Accepts(kind[p])
  BY <1>1, <1>2, <1>3, RefuseTyped DEF ReadHeader
<1>4. CASE Accepts(kind[p])
  <2>1. /\ header' = [header EXCEPT ![p] = HeaderRead(kind[p])]
        /\ Goto(p, "get table")
        /\ holds' = holds /\ table' = table /\ overlapped' = overlapped
    BY <1>4 DEF ReadHeader
  <2>2. file \in Seq(Byte) /\ file # NoFile
    BY <1>1 DEF TypeInv, Types, ReadOK
  <2>3. kind[p] \in Kind
    BY KindOfProgram DEF TypeInv, Types
  <2>4. HeaderRead(kind[p]) \in Headers
    BY <1>4, <2>2, <2>3, HeaderReadIs DEF Accepts
  <2>5. /\ header' \in [Program -> Headers \cup {Nothing}]
        /\ header'[p] = HeaderRead(kind[p])
        /\ \A q \in Program \ {p} : header'[q] = header[q]
    BY <2>1, <2>4 DEF TypeInv, Types
  <2>6. ReadOK(p)'
    BY <1>2, <2>2, <2>4, <2>5 DEF ReadOK
  <2>7. overlapped' \subseteq Reading'
    BY <1>1, <2>1, ReadingStays DEF TypeInv, Types
  <2> QED
    BY <1>1, <1>2, <2>1, <2>5, <2>6, <2>7, ReadStepTyped DEF TypeInv, Types
<1> QED
  BY <1>3, <1>4

LEMMA ReadTableTyped ==
  ASSUME TypeInv, NEW p \in Program, ReadTable(p)
  PROVE  TypeInv'
<1> DEFINE segment == header[p].table
           read == segment.first = 0 \/ (segment.size # 0 /\ Has(segment))
<1>1. p \in Reading /\ p \notin Writing /\ pc[p] = "get table"
  BY DEF ReadTable, Reading, Writing
<1>2. /\ file' = file /\ kind' = kind /\ UNCHANGED <<streams, muddled, misled>>
      /\ misled' \subseteq Program
  BY DEF ReadTable, TypeInv, Types
<1>3. CASE ~ read
  BY <1>1, <1>2, <1>3, RefuseTyped DEF ReadTable
<1>4. CASE read
  <2>1. /\ table' = [table EXCEPT ![p] = IF segment.first = 0 THEN <<>>
                                         ELSE Bytes(segment)]
        /\ Goto(p, "get trie")
        /\ holds' = holds /\ header' = header /\ overlapped' = overlapped
    BY <1>4 DEF ReadTable
  <2>2. file \in Seq(Byte) /\ file # NoFile /\ header[p] \in Headers
    BY <1>1 DEF TypeInv, Types, ReadOK
  <2>3. <<>> \in Seq(Byte) /\ segment \in Segment
    BY <2>2 DEF Headers
  <2>4. segment.first # 0 => Bytes(segment) \in Seq(Byte)
    BY <1>4, <2>2, <2>3, BytesAre
  <2>5. table' \in [Program -> Seq(Byte)]
    BY <2>1, <2>3, <2>4 DEF TypeInv, Types
  <2>6. ReadOK(p)'
    BY <1>2, <2>1, <2>2 DEF ReadOK
  <2>7. overlapped' \subseteq Reading'
    BY <1>1, <2>1, ReadingStays DEF TypeInv, Types
  <2> QED
    BY <1>1, <1>2, <2>1, <2>5, <2>6, <2>7, ReadStepTyped DEF TypeInv, Types
<1> QED
  BY <1>3, <1>4

LEMMA ReadTrieTyped ==
  ASSUME TypeInv, NEW p \in Program, ReadTrie(p)
  PROVE  TypeInv'
<1> DEFINE segment == header[p].trie
<1>1. p \in Reading /\ pc[p] = "get trie"
  BY DEF ReadTrie, Reading
<1>2. /\ file' = file /\ kind' = kind /\ UNCHANGED <<streams, muddled, misled>>
  BY DEF ReadTrie
<1>3. CASE ~ Has(segment)
  BY <1>1, <1>2, <1>3, RefuseTyped DEF ReadTrie
<1>4. CASE Has(segment)
  <2>1. file \in Seq(Byte) /\ header[p] \in Headers /\ table[p] \in Seq(Byte)
    BY <1>1 DEF TypeInv, Types, ReadOK
  <2>2. segment \in Segment
    BY <2>1 DEF Headers
  <2>3. Bytes(segment) \in Seq(Byte)
    BY <1>4, <2>1, <2>2, BytesAre
  <2>4. [table |-> table[p], trie |-> Bytes(segment)] \in Trie
    BY <2>1, <2>3 DEF Trie
  <2> QED
    BY <1>1, <1>2, <1>4, <2>4, ReturnTyped DEF ReadTrie
<1> QED
  BY <1>3, <1>4

(* Every step keeps the types. *)
LEMMA NextTypeInv == TypeInv /\ [Next]_vars => TypeInv'
<1> SUFFICES ASSUME TypeInv, [Next]_vars PROVE TypeInv'
  OBVIOUS
<1>1. ASSUME NEW p \in Program, NEW trie \in Built, FromMemory(p, trie)
      PROVE  TypeInv'
  BY <1>1, FromMemoryTyped
<1>2. ASSUME NEW p \in Program,
             \/ OpenWrite(p)
             \/ PutHeader(p)
             \/ PutTable(p)
             \/ PutTrie(p)
             \/ Close(p)
             \/ Fault(p)
      PROVE  TypeInv'
  BY <1>2, OpenWriteTyped, PutHeaderTyped, PutTableTyped, PutTrieTyped,
     CloseTyped, FaultTyped
<1>3. ASSUME NEW p \in Program,
             \/ OpenRead(p)
             \/ ReadHeader(p)
             \/ ReadTable(p)
             \/ ReadTrie(p)
      PROVE  TypeInv'
  BY <1>3, OpenReadTyped, ReadHeaderTyped, ReadTableTyped, ReadTrieTyped
<1>4. ASSUME NEW p \in Program, Crash(p)
      PROVE  TypeInv'
  BY <1>4, CrashTyped
<1>5. CASE UNCHANGED vars
  BY <1>5
  DEF vars, memory, streams, reads, history, TypeInv, Types, StreamOK,
      ReadOK, Writing, Reading, Length
<1> QED
  BY <1>1, <1>2, <1>3, <1>4, <1>5 DEF Next

(* The header is where its segments say: a good stream that has come to    *)
(* the table, to the trie or to the end of the file is where the header,   *)
(* put before, has that segment begin or end.                              *)
LEMMA SegmentsInPlace ==
  ASSUME TypeInv, NEW p \in Writing \ bad
  PROVE  InPlace(p)
<1> DEFINE k == kind[p]
           t == holds[p]
           h == Header(k, t)
           end == at[p] + Len(buffer[p])
<1>1. p \in Program /\ k \in Kind /\ t \in Storable
  BY WriterHolds DEF Writing
<1>2. end = Length(p)
  BY <1>1 DEF TypeInv, StreamOK
<1>3. /\ pc[p] = "table" => end = HeaderSize(k)
      /\ pc[p] = "trie" => end = HeaderSize(k) + Len(t.table)
      /\ pc[p] = "close" => end = HeaderSize(k) + Len(t.table) + Len(t.trie)
  BY <1>2 DEF Length
<1>4. /\ h.table.first \in {0, HeaderSize(k)}
      /\ h.trie.first = HeaderSize(k) + Len(t.table)
      /\ h.trie.size = Len(t.trie)
  BY <1>1, HeaderIs
<1> QED
  BY <1>3, <1>4 DEF InPlace

(* Whatever programs do to the file, and at whatever moments they crash,   *)
(* streams and reads have their types, and a writer puts each segment      *)
(* where the header it put before says (write and from_file).              *)
THEOREM StoreTypeCorrect == Spec => []TypeOK
<1>1. TypeInv => TypeOK
  <2>1. TypeInv => \A p \in Writing \ bad : InPlace(p)
    BY SegmentsInPlace
  <2> QED
    BY <2>1 DEF TypeInv, Types, TypeOK
<1> QED
  BY <1>1, InitTypeInv, NextTypeInv, PTL DEF Spec

-----------------------------------------------------------------------------
(***************************************************************************)
(* What is in the file: the encoding of a trie, or its beginning, as long  *)
(* as no two programs write at once.                                       *)
(***************************************************************************)

(* What p has put into its stream before a step. *)
Done(p) ==
  CASE pc[p] = "header" -> <<>>
    [] pc[p] = "table"  -> HeaderBytes(kind[p], Header(kind[p], holds[p]))
    [] pc[p] = "trie"   -> HeaderBytes(kind[p], Header(kind[p], holds[p]))
                             \o holds[p].table
    [] OTHER            -> Encoding(kind[p], holds[p])

(* The only writer: all it has put into its stream is in the file or in    *)
(* the buffer, until the device fails.                                     *)
SoleWriter(p) ==
  /\ Writing = {p}
  /\ IF p \in bad
     THEN /\ Begins(file, Encoding(kind[p], holds[p]))
          /\ Len(file) < Len(Encoding(kind[p], holds[p]))
     ELSE /\ at[p] = Len(file)
          /\ file \o buffer[p] = Done(p)

(* What the last writer left. *)
Left ==
  \/ file = NoFile
  \/ \E k \in Kind, t \in Storable : Begins(file, Encoding(k, t))

FileIsBegun ==
  ~ muddled => \/ Writing = {} /\ Left
               \/ \E p \in Program : SoleWriter(p)

(* A read that no write overlaps sees one version of the file. *)
CleanRead(p) ==
  /\ Writing = {}
  /\ file # NoFile
  /\ pc[p] # "get header" => /\ Accepts(kind[p])
                             /\ header[p] = HeaderRead(kind[p])
  /\ pc[p] = "get trie" =>
       /\ header[p].table.first # 0 => Has(header[p].table)
       /\ table[p] = IF header[p].table.first = 0 THEN <<>>
                     ELSE Bytes(header[p].table)

(* What a program has, and what it is about to get, is no empty trie. *)
HasTrie(p) ==
  p \notin misled =>
    /\ holds[p] # NoTrie => holds[p].trie # <<>>
    /\ p \in Reading /\ pc[p] # "get header" => header[p].trie.size # 0

Inv ==
  /\ TypeInv
  /\ FileIsBegun
  /\ \A p \in Reading \ overlapped : CleanRead(p)

-----------------------------------------------------------------------------
(* A part of a sequence that is equal to another one is that one. *)
LEMMA PartOf ==
  ASSUME NEW S, NEW s \in Seq(S), NEW part \in Seq(S), NEW first \in Nat,
         first + Len(part) <= Len(s),
         \A i \in 1 .. Len(part) : s[first + i] = part[i]
  PROVE  SubSeq(s, first + 1, first + Len(part)) = part
<1> DEFINE size == Len(part)
<1>0. /\ size \in Nat /\ size = Len(part) /\ first + size <= Len(s)
      /\ \A i \in 1 .. size : s[first + i] = part[i]
  OBVIOUS
<1> HIDE DEF size
<1>1. Len(s) \in Nat /\ first + 1 \in Int /\ first + size \in Int
  BY <1>0
<1>2. \A i \in first + 1 .. first + size : s[i] \in S
  BY <1>0, <1>1
<1> DEFINE sub == SubSeq(s, first + 1, first + size)
<1>3. /\ sub \in Seq(S)
      /\ Len(sub) = size
      /\ \A i \in 1 .. size : sub[i] = s[first + i]
  BY <1>0, <1>1, <1>2, SubSeqProperties
<1> HIDE DEF sub
<1>4. sub = part
  BY <1>0, <1>3, SeqEqual
<1> QED
  BY <1>0, <1>4 DEF sub, size

(* The fields are those of the bytes a header has. *)
LEMMA FieldsStay ==
  ASSUME NEW k \in Kind, NEW h, NEW s, NEW u,
         \A i \in 1 .. HeaderSize(k) : s[i] = u[i],
         Fields(s, k, h)
  PROVE  Fields(u, k, h)
<1> DEFINE l == Len(k.type)
<1>1. l \in Nat /\ \A i \in 1 .. l + 11 : s[i] = u[i]
  BY KindIs
<1> HIDE DEF l
<1>2. /\ \A i \in 1 .. l : i \in 1 .. l + 11
      /\ l + 1 \in 1 .. l + 11
      /\ \A n \in {1, 3, 5, 7, 9} : /\ l + n + 1 \in 1 .. l + 11
                                    /\ l + n + 2 \in 1 .. l + 11
  BY <1>1
<1>3. ASSUME NEW n \in {1, 3, 5, 7, 9}, NEW w,
             HasWord(s, l + n, k.endianness, w)
      PROVE  HasWord(u, l + n, k.endianness, w)
  BY <1>1, <1>2, <1>3 DEF HasWord
<1>4. (\A i \in 1 .. l : u[i] = k.type[i]) /\ u[l + 1] = k.endianness
  BY <1>1, <1>2 DEF Fields, l
<1> QED
  BY <1>3, <1>4 DEF Fields, l

(* The bytes of an encoding, segment by segment. *)
LEMMA EncodingIs ==
  ASSUME NEW k \in Kind, NEW t \in Storable
  PROVE  /\ Encoding(k, t) \in Seq(Byte)
         /\ Len(Encoding(k, t)) = HeaderSize(k) + Len(t.table) + Len(t.trie)
         /\ Fields(Encoding(k, t), k, Header(k, t))
         /\ \A i \in 1 .. Len(t.table) :
              Encoding(k, t)[HeaderSize(k) + i] = t.table[i]
         /\ \A i \in 1 .. Len(t.trie) :
              Encoding(k, t)[HeaderSize(k) + Len(t.table) + i] = t.trie[i]
<1> DEFINE h == Header(k, t)
           hb == HeaderBytes(k, h)
           scores == t.table
           tree == t.trie
           ab == hb \o scores
           e == ab \o tree
           l == HeaderSize(k)
           m == Len(scores)
           n == Len(tree)
<1>1. hb \in Seq(Byte) /\ Len(hb) = l /\ Fields(hb, k, h)
  BY HeaderBytesAre
<1>2. /\ scores \in Seq(Byte) /\ tree \in Seq(Byte)
      /\ l \in Nat /\ m \in Nat /\ n \in Nat
      /\ Len(scores) = m /\ Len(tree) = n
  BY KindIs, StorableIs
<1>3. Encoding(k, t) = e
  BY DEF Encoding
<1> HIDE DEF h, hb, scores, tree, l, m, n
<1>4. /\ ab \in Seq(Byte) /\ Len(ab) = l + m /\ Begins(hb, ab)
      /\ \A i \in 1 .. m : ab[l + i] = scores[i]
  <2>1. /\ ab \in Seq(Byte) /\ Len(ab) = Len(hb) + Len(scores) /\ Begins(hb, ab)
        /\ \A i \in 1 .. Len(scores) : ab[Len(hb) + i] = scores[i]
    BY <1>1, <1>2, Appended
  <2> QED
    BY <1>1, <1>2, <2>1
<1> HIDE DEF ab
<1>5. /\ e \in Seq(Byte) /\ Len(e) = l + m + n /\ Begins(ab, e)
      /\ \A i \in 1 .. n : e[l + m + i] = tree[i]
  <2>1. /\ e \in Seq(Byte) /\ Len(e) = Len(ab) + Len(tree) /\ Begins(ab, e)
        /\ \A i \in 1 .. Len(tree) : e[Len(ab) + i] = tree[i]
    BY <1>2, <1>4, Appended
  <2> QED
    BY <1>2, <1>4, <2>1
<1> HIDE DEF e
<1>6. Fields(e, k, h)
  <2>1. Begins(hb, e)
    BY <1>1, <1>4, <1>5, BeginsTransitive
  <2>2. \A i \in 1 .. HeaderSize(k) : hb[i] = e[i]
    BY <1>1, <2>1 DEF Begins, l
  <2> QED
    BY <1>1, <2>2, FieldsStay
<1>7. ASSUME NEW i \in 1 .. m PROVE e[l + i] = scores[i]
  <2>1. l + i \in 1 .. Len(ab)
    BY <1>2, <1>4
  <2>2. e[l + i] = ab[l + i]
    BY <1>5, <2>1 DEF Begins
  <2> QED
    BY <1>4, <2>2
<1> QED
  BY <1>3, <1>5, <1>6, <1>7 DEF h, scores, tree, l, m, n

(* get_header reads the number that stands there. *)
LEMMA WordAtIs ==
  ASSUME NEW k \in Kind, NEW n \in 0 .. 4, NEW w \in Word,
         HasWord(file, Len(k.type) + 1 + n * 2, k.endianness, w)
  PROVE  WordAt(k, n) = w
<1> DEFINE offset == Len(k.type) + 1 + n * 2
           x == file[offset + 1]
           y == file[offset + 2]
           low == w % Radix
           high == w \div Radix
<1>1. /\ low \in Nat /\ high \in Nat /\ low + Radix * high = w
  BY WordIs, ByteIs
<1>2. x = WordBytes(k.endianness, w)[1] /\ y = WordBytes(k.endianness, w)[2]
  BY DEF HasWord
<1>3. k.endianness = LITTLE \/ k.endianness = BIG
  BY KindIs
<1>4. CASE k.endianness = LITTLE
  <2>1. x = low /\ y = high
    BY <1>2, <1>4 DEF WordBytes
  <2>2. WordAt(k, n) = x + Radix * y
    BY <1>4 DEF WordAt, WordSize
  <2> QED
    BY <1>1, <2>1, <2>2
<1>5. CASE k.endianness = BIG
  <2>1. x = high /\ y = low
    BY <1>2, <1>5, ByteIs DEF WordBytes
  <2>2. WordAt(k, n) = y + Radix * x
    BY <1>5, ByteIs DEF WordAt, WordSize
  <2> QED
    BY <1>1, <2>1, <2>2
<1> QED
  BY <1>3, <1>4, <1>5

(* A file in which the fields of a header stand has that header. *)
LEMMA FieldsAreRead ==
  ASSUME NEW k \in Kind, NEW t \in Storable, Fields(file, k, Header(k, t))
  PROVE  WordAt(k, 0) = k.major /\ HeaderRead(k) = Header(k, t)
<1> DEFINE l == Len(k.type)
           h == Header(k, t)
<1>1. l \in Nat /\ k.major \in Word
  BY KindIs
<1>2. /\ h.table.first \in Word /\ h.table.size \in Word
      /\ h.trie.first \in Word /\ h.trie.size \in Word
      /\ h \in Headers
  BY HeaderIs
<1>3. /\ l + 1 + 0 * 2 = l + 1 /\ l + 1 + 1 * 2 = l + 3 /\ l + 1 + 2 * 2 = l + 5
      /\ l + 1 + 3 * 2 = l + 7 /\ l + 1 + 4 * 2 = l + 9
  BY <1>1
<1>4. /\ HasWord(file, l + 1 + 0 * 2, k.endianness, k.major)
      /\ HasWord(file, l + 1 + 1 * 2, k.endianness, h.table.first)
      /\ HasWord(file, l + 1 + 2 * 2, k.endianness, h.table.size)
      /\ HasWord(file, l + 1 + 3 * 2, k.endianness, h.trie.first)
      /\ HasWord(file, l + 1 + 4 * 2, k.endianness, h.trie.size)
  BY <1>3 DEF Fields
<1> HIDE DEF h
<1>5. WordAt(k, 0) = k.major
  BY <1>1, <1>4, WordAtIs
<1>6. WordAt(k, 1) = h.table.first
  BY <1>2, <1>4, WordAtIs
<1>7. WordAt(k, 2) = h.table.size
  BY <1>2, <1>4, WordAtIs
<1>8. WordAt(k, 3) = h.trie.first
  BY <1>2, <1>4, WordAtIs
<1>9. WordAt(k, 4) = h.trie.size
  BY <1>2, <1>4, WordAtIs
<1>10. /\ h = [table |-> h.table, trie |-> h.trie]
       /\ h.table = [first |-> h.table.first, size |-> h.table.size]
       /\ h.trie = [first |-> h.trie.first, size |-> h.trie.size]
  BY <1>2 DEF Headers, Segment
<1>11. HeaderRead(k) = h
  BY <1>6, <1>7, <1>8, <1>9, <1>10 DEF HeaderRead
<1> QED
  BY <1>5, <1>11 DEF h

(* A file that begins an encoding has its header once it is long enough.   *)
LEMMA BegunHasFields ==
  ASSUME NEW k \in Kind, NEW t \in Storable, file \in Seq(Byte),
         Begins(file, Encoding(k, t)), Len(file) >= HeaderSize(k)
  PROVE  Fields(file, k, Header(k, t))
<1> DEFINE e == Encoding(k, t)
           l == HeaderSize(k)
<1>1. Fields(e, k, Header(k, t)) /\ l \in Nat /\ Len(file) \in Nat
  BY EncodingIs, KindIs
<1>2. \A i \in 1 .. l : i \in 1 .. Len(file)
  BY <1>1
<1>3. \A i \in 1 .. HeaderSize(k) : e[i] = file[i]
  BY <1>2 DEF Begins
<1> HIDE DEF e, l
<1> QED
  BY <1>1, <1>3, FieldsStay

(* A program accepts the header that its own kind of program wrote. *)
LEMMA OwnIsAccepted ==
  ASSUME NEW k \in Kind, NEW t \in Storable, file \in Seq(Byte),
         Begins(file, Encoding(k, t)), Len(file) >= HeaderSize(k)
  PROVE  Accepts(k)
<1> DEFINE l == Len(k.type)
<1>1. Fields(file, k, Header(k, t))
  BY BegunHasFields
<1>2. WordAt(k, 0) = k.major /\ HeaderRead(k) = Header(k, t)
  BY <1>1, FieldsAreRead
<1>3. Header(k, t).trie.size # 0
  BY HeaderIs
<1>4. file[l + 1] = k.endianness /\ \A i \in 1 .. l : file[i] = k.type[i]
  BY <1>1 DEF Fields
<1>5. SubSeq(file, 1, l) = k.type
  <2>1. k.type \in Seq(Byte) /\ l \in Nat /\ Len(file) >= l + 11
    BY KindIs
  <2>2. /\ 0 + Len(k.type) <= Len(file)
        /\ \A i \in 1 .. Len(k.type) : file[0 + i] = k.type[i]
    BY <1>4, <2>1
  <2>3. SubSeq(file, 0 + 1, 0 + Len(k.type)) = k.type
    BY <2>1, <2>2, PartOf
  <2> QED
    BY <2>1, <2>3
<1> QED
  BY <1>2, <1>3, <1>4, <1>5 DEF Accepts

(* What a program accepts at the start of an encoding was written by a     *)
(* program of its own kind, and it reads the segments of that encoding.    *)
LEMMA AcceptedIsOwn ==
  ASSUME NEW k \in Kind, NEW t \in Storable, file \in Seq(Byte),
         Begins(file, Encoding(k, t)), NEW j \in Kind, Accepts(j)
  PROVE  /\ j = k
         /\ HeaderRead(j) = Header(k, t)
<1> DEFINE a == j.type
           b == k.type
           e == Encoding(k, t)
<1>1. /\ a \in Seq(Byte) /\ b \in Seq(Byte) /\ Len(a) \in Nat /\ Len(b) \in Nat
      /\ HeaderSize(j) = Len(a) + 11 /\ HeaderSize(k) = Len(b) + 11
  BY KindIs
<1>2. Len(file) \in Nat /\ Len(file) >= Len(a) + 11
  BY <1>1 DEF Accepts
<1>3. \A i \in 1 .. Len(a) : file[i] = a[i]
  <2>1. SubSeq(file, 1, Len(a)) = a
    BY DEF Accepts
  <2>2. \A i \in 1 .. Len(a) : SubSeq(file, 1, Len(a))[i] = file[i]
    BY <1>1, <1>2, SubSeqProperties
  <2> QED
    BY <2>1, <2>2
<1>4. /\ \A i \in 1 .. Len(file) : file[i] = e[i]
      /\ \A i \in 1 .. Len(b) : e[i] = b[i]
  BY EncodingIs DEF Begins, Fields
<1>5. a = b
  <2>1. \A i \in 1 .. Len(a) : i <= Len(b) => a[i] = b[i]
    <3> SUFFICES ASSUME NEW i \in 1 .. Len(a), i <= Len(b) PROVE a[i] = b[i]
      OBVIOUS
    <3>1. i \in 1 .. Len(file) /\ i \in 1 .. Len(b)
      BY <1>1, <1>2
    <3> QED
      BY <1>3, <1>4, <3>1
  <2>2. CASE Len(a) <= Len(b)
    <3>1. \A i \in 1 .. Len(a) : a[i] = b[i]
      BY <1>1, <2>1, <2>2
    <3> QED
      BY <2>2, <3>1, KindAssumption
  <2>3. CASE Len(b) <= Len(a)
    <3>1. \A i \in 1 .. Len(b) : b[i] = a[i]
      BY <1>1, <2>1, <2>3
    <3> QED
      BY <2>3, <3>1, KindAssumption
  <2> QED
    BY <1>1, <2>2, <2>3
<1>6. Len(file) >= HeaderSize(k)
  BY <1>1, <1>2, <1>5
<1>7. Fields(file, k, Header(k, t))
  BY <1>6, BegunHasFields
<1>8. WordAt(k, 0) = k.major /\ HeaderRead(k) = Header(k, t)
  BY <1>7, FieldsAreRead
<1>9. j.endianness = k.endianness
  <2>1. file[Len(a) + 1] = j.endianness
    BY DEF Accepts
  <2>2. file[Len(b) + 1] = k.endianness
    BY <1>7 DEF Fields
  <2> QED
    BY <1>5, <2>1, <2>2
<1>10. j.major = k.major
  <2>1. WordAt(j, 0) = WordAt(k, 0)
    BY <1>5, <1>9 DEF WordAt
  <2>2. WordAt(j, 0) = j.major
    BY DEF Accepts
  <2> QED
    BY <1>8, <2>1, <2>2
<1>11. j = k
  <2>1. /\ j = [type |-> j.type, endianness |-> j.endianness, major |-> j.major]
        /\ k = [type |-> k.type, endianness |-> k.endianness, major |-> k.major]
    BY KindAssumption
  <2> QED
    BY <1>5, <1>9, <1>10, <2>1
<1> QED
  BY <1>8, <1>11

(* A file is the encoding of one trie at most, and begins no other.        *)
LEMMA EncodingIsOne ==
  ASSUME NEW k \in Kind, NEW t \in Storable, file \in Seq(Byte),
         Begins(file, Encoding(k, t)),
         NEW j \in Kind, NEW u \in Storable, file = Encoding(j, u)
  PROVE  j = k /\ u = t
<1> DEFINE e == Encoding(k, t)
           f == Encoding(j, u)
           l == HeaderSize(k)
<1>1. Accepts(j)
  <2>1. /\ Len(f) = HeaderSize(j) + Len(u.table) + Len(u.trie)
        /\ HeaderSize(j) \in Nat /\ Len(u.table) \in Nat /\ Len(u.trie) \in Nat
    BY EncodingIs, KindIs, StorableIs
  <2>2. Begins(file, f) /\ Len(file) >= HeaderSize(j)
    BY <2>1 DEF Begins
  <2> QED
    BY <2>2, OwnIsAccepted
<1>2. j = k /\ HeaderRead(j) = Header(k, t)
  BY <1>1, AcceptedIsOwn
<1>3. Header(k, u) = Header(k, t)
  <2>1. Fields(file, k, Header(k, u))
    BY <1>2, EncodingIs
  <2> QED
    BY <1>2, <2>1, FieldsAreRead
<1>4. Len(u.table) = Len(t.table) /\ Len(u.trie) = Len(t.trie)
  <2>1. /\ Len(t.trie) = Header(k, t).trie.size
        /\ t.table = <<>> => Header(k, t).table.size = 0
        /\ t.table # <<>> => Header(k, t).table.size = Len(t.table)
    BY HeaderIs
  <2>2. /\ Len(u.trie) = Header(k, u).trie.size
        /\ u.table = <<>> => Header(k, u).table.size = 0
        /\ u.table # <<>> => Header(k, u).table.size = Len(u.table)
    BY HeaderIs
  <2>3. Len(<<>>) = 0
    OBVIOUS
  <2> QED
    BY <1>3, <2>1, <2>2, <2>3
<1> DEFINE m == Len(t.table)
           n == Len(t.trie)
<1>5. l \in Nat /\ m \in Nat /\ n \in Nat /\ Len(u.table) = m /\ Len(u.trie) = n
  BY <1>4, KindIs, StorableIs
<1>6. /\ Len(e) = l + m + n /\ Len(f) = l + m + n
      /\ \A i \in 1 .. m : e[l + i] = t.table[i]
      /\ \A i \in 1 .. n : e[l + m + i] = t.trie[i]
      /\ \A i \in 1 .. m : f[l + i] = u.table[i]
      /\ \A i \in 1 .. n : f[l + m + i] = u.trie[i]
  <2>1. /\ Len(e) = HeaderSize(k) + Len(t.table) + Len(t.trie)
        /\ \A i \in 1 .. Len(t.table) : e[HeaderSize(k) + i] = t.table[i]
        /\ \A i \in 1 .. Len(t.trie) :
             e[HeaderSize(k) + Len(t.table) + i] = t.trie[i]
    BY EncodingIs
  <2>2. /\ Len(f) = HeaderSize(j) + Len(u.table) + Len(u.trie)
        /\ \A i \in 1 .. Len(u.table) : f[HeaderSize(j) + i] = u.table[i]
        /\ \A i \in 1 .. Len(u.trie) :
             f[HeaderSize(j) + Len(u.table) + i] = u.trie[i]
    BY EncodingIs
  <2> QED
    BY <1>2, <1>5, <2>1, <2>2
<1>7. file = f /\ \A i \in 1 .. Len(f) : f[i] = e[i]
  BY DEF Begins
<1> HIDE DEF e, f, l, m, n
<1>8. ASSUME NEW i \in 1 .. m PROVE u.table[i] = t.table[i]
  <2>1. l + i \in 1 .. Len(f)
    BY <1>5, <1>6
  <2> QED
    BY <1>6, <1>7, <2>1
<1>9. ASSUME NEW i \in 1 .. n PROVE u.trie[i] = t.trie[i]
  <2>1. l + m + i \in 1 .. Len(f)
    BY <1>5, <1>6
  <2> QED
    BY <1>6, <1>7, <2>1
<1>10. u.table = t.table /\ u.trie = t.trie
  <2>1. /\ u.table \in Seq(Byte) /\ t.table \in Seq(Byte)
        /\ u.trie \in Seq(Byte) /\ t.trie \in Seq(Byte)
    BY StorableIs
  <2>2. Len(t.table) = m /\ Len(t.trie) = n
    BY DEF m, n
  <2>3. u.table = t.table
    BY <1>5, <1>8, <2>1, <2>2, SeqEqual
  <2>4. u.trie = t.trie
    BY <1>5, <1>9, <2>1, <2>2, SeqEqual
  <2> QED
    BY <2>3, <2>4
<1>11. /\ u = [table |-> u.table, trie |-> u.trie]
       /\ t = [table |-> t.table, trie |-> t.trie]
  BY StorableIs
<1> QED
  BY <1>2, <1>10, <1>11

-----------------------------------------------------------------------------
(* A write at the end of the file extends it. *)
LEMMA WrittenAtEnd ==
  ASSUME NEW old \in Seq(Byte), NEW bytes \in Seq(Byte)
  PROVE  Written(old, Len(old), bytes) = old \o bytes
<1> DEFINE m == Len(old)
           n == Len(bytes)
           new == Written(old, m, bytes)
           last == Max({m, m + n})
<1>0. m \in Nat /\ n \in Nat /\ m = Len(old) /\ n = Len(bytes)
  OBVIOUS
<1> HIDE DEF m, n
<1>1. /\ old \o bytes \in Seq(Byte)
      /\ Len(old \o bytes) = m + n
      /\ \A i \in 1 .. m + n :
           (old \o bytes)[i] = IF i <= m THEN old[i] ELSE bytes[i - m]
  BY <1>0, ConcatProperties
<1>2. CASE bytes = <<>>
  BY <1>0, <1>2, ConcatEmptySeq DEF Written, m
<1>3. CASE bytes # <<>>
  <2>1. m + n \in Nat /\ last = m + n
    BY <1>0, MaxOfTwo
  <2>2. new = [i \in 1 .. last |->
                 IF i \in m + 1 .. m + n THEN bytes[i - m]
                 ELSE IF i <= m THEN old[i] ELSE Hole]
    BY <1>0, <1>3 DEF Written
  <2> HIDE DEF new, last
  <2>3. ASSUME NEW i \in 1 .. m + n
        PROVE  new[i] = (old \o bytes)[i] /\ new[i] \in Byte
    <3>1. CASE i <= m
      <4>1. ~ (i \in m + 1 .. m + n)
        BY <1>0, <3>1
      <4>2. new[i] = old[i] /\ old[i] \in Byte
        BY <1>0, <2>1, <2>2, <3>1, <4>1
      <4> QED
        BY <1>1, <3>1, <4>2
    <3>2. CASE ~(i <= m)
      <4>1. i \in m + 1 .. m + n /\ i - m \in 1 .. n
        BY <1>0, <3>2
      <4>2. new[i] = bytes[i - m] /\ bytes[i - m] \in Byte
        BY <1>0, <2>1, <2>2, <4>1
      <4> QED
        BY <1>1, <3>2, <4>2
    <3> QED
      BY <3>1, <3>2
  <2>4. new \in [1 .. m + n -> Byte]
    BY <2>1, <2>2, <2>3
  <2>5. new \in Seq(Byte) /\ Len(new) = m + n
    BY <2>1, <2>4, FunctionIsSeq
  <2>6. new = old \o bytes
    BY <1>1, <2>3, <2>5, SeqEqual
  <2> QED
    BY <1>0, <2>6 DEF new
<1> QED
  BY <1>2, <1>3

(* Beginnings. *)
LEMMA BeginsConcat ==
  ASSUME NEW S, NEW s \in Seq(S), NEW t \in Seq(S)
  PROVE  Begins(s, s \o t)
<1>1. Len(s) \in Nat /\ Len(t) \in Nat
  OBVIOUS
<1>2. /\ Len(s \o t) = Len(s) + Len(t)
      /\ \A i \in 1 .. Len(s) + Len(t) :
           (s \o t)[i] = IF i <= Len(s) THEN s[i] ELSE t[i - Len(s)]
  BY ConcatProperties
<1> QED
  BY <1>1, <1>2 DEF Begins

(* Some of the bytes that wait go on to the end of the file. *)
LEMMA SomeFollow ==
  ASSUME NEW f \in Seq(Byte), NEW all \in Seq(Byte),
         NEW n \in 0 .. Len(all)
  PROVE  LET g == Written(f, Len(f), SubSeq(all, 1, n))
         IN  /\ g \in Seq(Byte)
             /\ Len(g) = Len(f) + n
             /\ g \o SubSeq(all, n + 1, Len(all)) = f \o all
             /\ Begins(g, f \o all)
             /\ Len(f \o all) = Len(f) + Len(all)
<1> DEFINE first == SubSeq(all, 1, n)
           rest == SubSeq(all, n + 1, Len(all))
           g == Written(f, Len(f), first)
<1>1. Len(all) \in Nat /\ Len(f) \in Nat
  OBVIOUS
<1>2. first \in Seq(Byte) /\ Len(first) = n
  BY <1>1, SubSeqProperties
<1>3. rest \in Seq(Byte)
  BY <1>1, SubSeqProperties
<1>4. first \o rest = all
  <2>1. /\ 1 \in 1 .. Len(all) + 1 /\ n \in 1 - 1 .. Len(all)
        /\ Len(all) \in n .. Len(all)
    BY <1>1
  <2>2. first \o rest = SubSeq(all, 1, Len(all))
    BY <2>1, ConcatAdjacentSubSeq
  <2> QED
    BY <2>2, SubSeqFull
<1> HIDE DEF first, rest
<1>5. g = f \o first
  BY <1>2, WrittenAtEnd
<1>6. g \in Seq(Byte) /\ Len(g) = Len(f) + n
  BY <1>2, <1>5, ConcatProperties
<1> HIDE DEF g
<1>7. g \o rest = f \o all
  <2>1. (f \o first) \o rest = f \o (first \o rest)
    BY <1>2, <1>3, ConcatAssociative
  <2> QED
    BY <1>4, <1>5, <2>1
<1>8. Begins(g, f \o all)
  BY <1>3, <1>6, <1>7, BeginsConcat
<1>9. Len(f \o all) = Len(f) + Len(all)
  BY ConcatProperties
<1> QED
  BY <1>6, <1>7, <1>8, <1>9 DEF g, first, rest

-----------------------------------------------------------------------------
(* What p has put into its stream is where an encoding begins. *)
LEMMA DoneIs ==
  ASSUME TypeInv, NEW p \in Program, p \in Writing
  PROVE  /\ Done(p) \in Seq(Byte)
         /\ Encoding(kind[p], holds[p]) \in Seq(Byte)
         /\ Begins(Done(p), Encoding(kind[p], holds[p]))
<1> DEFINE k == kind[p]
           t == holds[p]
           hb == HeaderBytes(k, Header(k, t))
           scores == t.table
           tree == t.trie
           e == Encoding(k, t)
<1>1. k \in Kind /\ t \in Storable
  BY WriterHolds
<1>2. /\ hb \in Seq(Byte) /\ scores \in Seq(Byte)
      /\ tree \in Seq(Byte)
  BY <1>1, StorableIs, HeaderBytesAre
<1>3. e = (hb \o scores) \o tree
  BY DEF Encoding
<1>4. /\ pc[p] = "header" => Done(p) = <<>>
      /\ pc[p] = "table" => Done(p) = hb
      /\ pc[p] = "trie" => Done(p) = hb \o scores
      /\ pc[p] = "close" => Done(p) = e
  BY DEF Done
<1>5. pc[p] \in {"header", "table", "trie", "close"}
  BY DEF Writing
<1> HIDE DEF k, t, hb, scores, tree, e
<1>6. hb \o scores \in Seq(Byte)
  BY <1>2, ConcatProperties
<1>7. e \in Seq(Byte) /\ Begins(hb \o scores, e)
  BY <1>2, <1>3, <1>6, ConcatProperties, BeginsConcat
<1>8. Begins(hb, e)
  BY <1>2, <1>6, <1>7, BeginsConcat, BeginsTransitive
<1>9. Begins(<<>>, e) /\ Begins(e, e) /\ <<>> \in Seq(Byte)
  BY <1>7 DEF Begins
<1> QED
  BY <1>2, <1>4, <1>5, <1>6, <1>7, <1>8, <1>9 DEF e, k, t

(* The only writer has begun to write an encoding, and no more. *)
LEMMA SoleWriterBegins ==
  ASSUME TypeInv, NEW p \in Program, SoleWriter(p)
  PROVE  /\ file \in Seq(Byte)
         /\ Begins(file, Encoding(kind[p], holds[p]))
<1>1. p \in Writing
  BY DEF SoleWriter
<1>2. file \in Seq(Byte) /\ buffer[p] \in Seq(Byte)
  BY <1>1 DEF TypeInv, Types, StreamOK
<1>3. CASE p \in bad
  BY <1>2, <1>3 DEF SoleWriter
<1>4. CASE p \notin bad
  <2>1. Begins(file, Done(p))
    BY <1>2, <1>4, BeginsConcat DEF SoleWriter
  <2> QED
    BY <1>1, <1>2, <2>1, DoneIs, BeginsTransitive
<1> QED
  BY <1>3, <1>4

(* ostream::write by the only writer. *)
LEMMA SoleWriterPuts ==
  ASSUME TypeInv, NEW p \in Program, SoleWriter(p), NEW bytes \in Seq(Byte),
         Begins(Done(p) \o bytes, Encoding(kind[p], holds[p])),
         Put(p, bytes)
  PROVE  IF p \in bad'
         THEN /\ Begins(file', Encoding(kind[p], holds[p]))
              /\ Len(file') < Len(Encoding(kind[p], holds[p]))
         ELSE /\ p \notin bad
              /\ at'[p] = Len(file')
              /\ file' \o buffer'[p] = Done(p) \o bytes
<1> DEFINE e == Encoding(kind[p], holds[p])
           all == buffer[p] \o bytes
           next == Done(p) \o bytes
<1>1. /\ p \in Writing
      /\ p \in bad => Begins(file, e) /\ Len(file) < Len(e)
      /\ p \notin bad => at[p] = Len(file) /\ file \o buffer[p] = Done(p)
  BY DEF SoleWriter
<1>2. /\ file \in Seq(Byte) /\ buffer[p] \in Seq(Byte)
      /\ buffer \in [Program -> Seq(Byte)] /\ at \in [Program -> Nat]
  BY <1>1 DEF TypeInv, Types, StreamOK
<1>3. /\ Done(p) \in Seq(Byte) /\ e \in Seq(Byte)
      /\ next \in Seq(Byte) /\ Begins(next, e)
  BY <1>1, DoneIs, ConcatProperties
<1>4. all \in Seq(Byte)
  BY <1>2, ConcatProperties
<1>5. p \notin bad => file \o all = next
  <2>1. (file \o buffer[p]) \o bytes = file \o (buffer[p] \o bytes)
    BY <1>2, ConcatAssociative
  <2> QED
    BY <1>1, <2>1
<1>6. \/ p \in bad /\ UNCHANGED <<file, bad>>
      \/ /\ p \notin bad
         /\ \E n \in 0 .. Len(all) :
              /\ file' = Written(file, at[p], SubSeq(all, 1, n))
              /\ at' = [at EXCEPT ![p] = @ + n]
              /\ buffer' = [buffer EXCEPT ![p] = SubSeq(all, n + 1, Len(all))]
              /\ bad' = bad
      \/ /\ p \notin bad
         /\ \E n \in 0 .. Len(all) - 1 :
              /\ file' = Written(file, at[p], SubSeq(all, 1, n))
              /\ bad' = bad \cup {p}
  <2> HIDE DEF all
  <2>1. /\ Len(all) \in Nat /\ 0 \in 0 .. Len(all)
        /\ Parts(p, all) \subseteq 0 .. Len(all)
        /\ \A n \in 0 .. Len(all) : n # Len(all) => n \in 0 .. Len(all) - 1
    BY <1>4, PartsAre
  <2> QED
    BY <2>1 DEF Put, all
<1> HIDE DEF e, all, next
<1>7. CASE p \in bad /\ UNCHANGED <<file, bad>>
  BY <1>1, <1>7 DEF e
<1>8. ASSUME p \notin bad, NEW n \in 0 .. Len(all),
             file' = Written(file, at[p], SubSeq(all, 1, n))
      PROVE  /\ file' \in Seq(Byte)
             /\ Len(file') = at[p] + n
             /\ file' \o SubSeq(all, n + 1, Len(all)) = next
             /\ Begins(file', e)
             /\ n < Len(all) => Len(file') < Len(e)
  <2>1. file' = Written(file, Len(file), SubSeq(all, 1, n)) /\ at[p] = Len(file)
    BY <1>1, <1>8
  <2>2. /\ file' \in Seq(Byte)
        /\ Len(file') = Len(file) + n
        /\ file' \o SubSeq(all, n + 1, Len(all)) = file \o all
        /\ Begins(file', file \o all)
        /\ Len(file \o all) = Len(file) + Len(all)
    BY <1>2, <1>4, <2>1, SomeFollow
  <2>3. Begins(file', e)
    BY <1>3, <1>5, <1>8, <2>2, BeginsTransitive
  <2>4. Len(next) <= Len(e) /\ Len(next) = Len(file) + Len(all)
    BY <1>3, <1>5, <1>8, <2>2 DEF Begins
  <2>5. Len(file) \in Nat /\ Len(all) \in Nat /\ Len(e) \in Nat
    BY <1>2, <1>3, <1>4
  <2>6. n < Len(all) => Len(file') < Len(e)
    BY <2>2, <2>4, <2>5
  <2>7. file' \o SubSeq(all, n + 1, Len(all)) = next
    BY <1>5, <1>8, <2>2
  <2> QED
    BY <2>1, <2>2, <2>3, <2>6, <2>7
<1>9. CASE /\ p \notin bad
           /\ \E n \in 0 .. Len(all) :
                /\ file' = Written(file, at[p], SubSeq(all, 1, n))
                /\ at' = [at EXCEPT ![p] = @ + n]
                /\ buffer' = [buffer EXCEPT ![p] = SubSeq(all, n + 1, Len(all))]
                /\ bad' = bad
  <2>1. PICK n \in 0 .. Len(all) :
          /\ file' = Written(file, at[p], SubSeq(all, 1, n))
          /\ at' = [at EXCEPT ![p] = @ + n]
          /\ buffer' = [buffer EXCEPT ![p] = SubSeq(all, n + 1, Len(all))]
          /\ bad' = bad
    BY <1>9
  <2>2. at'[p] = at[p] + n /\ buffer'[p] = SubSeq(all, n + 1, Len(all))
    BY <1>2, <2>1
  <2>3. Len(file') = at[p] + n /\ file' \o SubSeq(all, n + 1, Len(all)) = next
    BY <1>8, <1>9, <2>1
  <2> QED
    BY <1>9, <2>1, <2>2, <2>3 DEF next
<1>10. CASE /\ p \notin bad
            /\ \E n \in 0 .. Len(all) - 1 :
                 /\ file' = Written(file, at[p], SubSeq(all, 1, n))
                 /\ bad' = bad \cup {p}
  <2>1. PICK n \in 0 .. Len(all) - 1 :
          /\ file' = Written(file, at[p], SubSeq(all, 1, n))
          /\ bad' = bad \cup {p}
    BY <1>10
  <2>2. n \in 0 .. Len(all) /\ n < Len(all)
    BY <1>4, <2>1
  <2>3. Begins(file', e) /\ Len(file') < Len(e)
    BY <1>8, <1>10, <2>1, <2>2
  <2> QED
    BY <2>1, <2>3 DEF e
<1> QED
  BY <1>6, <1>7, <1>9, <1>10

(* The only writer closes the file: all of the encoding is there, or the   *)
(* device has failed and some of it is missing.                            *)
LEMMA SoleWriterCloses ==
  ASSUME TypeInv, NEW p \in Program, SoleWriter(p), Close(p)
  PROVE  /\ file' \in Seq(Byte)
         /\ Begins(file', Encoding(kind[p], holds[p]))
         /\ p \notin faulty => file' = Encoding(kind[p], holds[p])
<1> DEFINE e == Encoding(kind[p], holds[p])
           waits == buffer[p]
<1>1. p \in Writing /\ pc[p] = "close"
  BY DEF Close, Writing
<1>2. file \in Seq(Byte) /\ waits \in Seq(Byte) /\ bad \subseteq faulty
  BY <1>1 DEF TypeInv, Types, StreamOK
<1>3. Len(waits) \in Nat
  BY <1>2
<1>4. PICK n \in IF p \in faulty THEN Parts(p, waits) ELSE {Len(waits)} :
        file' = Written(file, at[p], SubSeq(waits, 1, n))
  BY DEF Close
<1>5. n \in 0 .. Len(waits) /\ (p \notin faulty => n = Len(waits))
  BY <1>2, <1>3, <1>4, PartsAre
<1>6. /\ p \in bad => Begins(file, e) /\ Len(file) < Len(e) /\ waits = <<>>
      /\ p \notin bad => at[p] = Len(file) /\ file \o waits = e
  BY <1>1 DEF SoleWriter, Done, TypeInv, StreamOK
<1> HIDE DEF e, waits
<1>7. CASE p \in bad
  <2>1. n = 0 /\ SubSeq(waits, 1, 0) = <<>>
    BY <1>5, <1>6, <1>7, SubSeqEmpty
  <2>2. file' = file
    BY <1>4, <2>1 DEF Written
  <2> QED
    BY <1>2, <1>6, <1>7, <2>2 DEF e
<1>8. CASE p \notin bad
  <2>1. file' = Written(file, Len(file), SubSeq(waits, 1, n))
    BY <1>4, <1>6, <1>8
  <2>2. file' \in Seq(Byte) /\ Begins(file', e)
    BY <1>2, <1>5, <1>6, <1>8, <2>1, SomeFollow
  <2>3. p \notin faulty => file' = e
    BY <1>2, <1>5, <1>6, <1>8, <2>1, SubSeqFull, WrittenAtEnd
  <2> QED
    BY <2>2, <2>3 DEF e
<1> QED
  BY <1>7, <1>8

-----------------------------------------------------------------------------
(* FileIsBegun is kept: by the steps of other programs, and by each step   *)
(* of a writer.                                                            *)
LEMMA OthersBegun ==
  ASSUME Inv, file' = file, kind' = kind, muddled' = muddled, Writing' = Writing,
         \A q \in Writing : /\ pc'[q] = pc[q] /\ holds'[q] = holds[q]
                            /\ at'[q] = at[q] /\ buffer'[q] = buffer[q]
                            /\ (q \in bad' <=> q \in bad)
  PROVE  FileIsBegun'
<1>1. CASE Writing = {} /\ Left
  BY <1>1 DEF FileIsBegun, Left
<1>2. ASSUME NEW q \in Program, SoleWriter(q) PROVE SoleWriter(q)'
  <2>1. q \in Writing
    BY <1>2 DEF SoleWriter
  <2>2. /\ pc'[q] = pc[q] /\ holds'[q] = holds[q] /\ at'[q] = at[q]
        /\ buffer'[q] = buffer[q] /\ (q \in bad' <=> q \in bad)
    BY <2>1
  <2>3. Done(q)' = Done(q)
    BY <2>2 DEF Done
  <2> QED
    BY <1>2, <2>2, <2>3 DEF SoleWriter
<1> QED
  BY <1>1, <1>2 DEF Inv, FileIsBegun

LEMMA OpenWriteBegun ==
  ASSUME Inv, NEW p \in Program, OpenWrite(p)
  PROVE  FileIsBegun'
<1>1. CASE Writing # {}
  BY <1>1 DEF OpenWrite, FileIsBegun
<1>2. CASE Writing = {}
  <2>1. /\ pc'[p] = "header" /\ \A q \in Program \ {p} : pc'[q] = pc[q]
    BY DEF OpenWrite, Goto, Inv, TypeInv, Types
  <2>2. Writing' = {p}
    BY <1>2, <2>1 DEF Writing
  <2>3. p \notin bad' /\ buffer'[p] = <<>> /\ at'[p] = 0 /\ file' = <<>>
    BY <1>2 DEF OpenWrite, Inv, TypeInv, Types, StreamOK
  <2>4. Done(p)' = <<>>
    BY <2>1 DEF Done
  <2>5. Len(<<>>) = 0 /\ <<>> \o <<>> = <<>>
    OBVIOUS
  <2>6. SoleWriter(p)'
    BY <2>2, <2>3, <2>4, <2>5 DEF SoleWriter
  <2> QED
    BY <2>6 DEF FileIsBegun
<1> QED
  BY <1>1, <1>2

(* A step of write that puts bytes into the stream, up to the next step. *)
LEMMA PutBegun ==
  ASSUME Inv, NEW p \in Program, p \in Writing,
         NEW bytes \in Seq(Byte), Put(p, bytes),
         NEW step \in {"table", "trie", "close"}, Goto(p, step),
         UNCHANGED <<memory, history>>,
         Begins(Done(p) \o bytes, Encoding(kind[p], holds[p])),
         p \notin bad' => Done(p)' = Done(p) \o bytes
  PROVE  FileIsBegun'
<1>1. CASE muddled
  BY <1>1 DEF FileIsBegun, history
<1>2. CASE ~ muddled
  <2>1. PICK q \in Program : SoleWriter(q)
    BY <1>2 DEF Inv, FileIsBegun
  <2>2. SoleWriter(p) /\ Writing = {p}
    BY <2>1 DEF SoleWriter
  <2>3. IF p \in bad'
        THEN /\ Begins(file', Encoding(kind[p], holds[p]))
             /\ Len(file') < Len(Encoding(kind[p], holds[p]))
        ELSE /\ at'[p] = Len(file')
             /\ file' \o buffer'[p] = Done(p) \o bytes
    BY <2>2, SoleWriterPuts DEF Inv
  <2>4. /\ pc'[p] = step /\ \A r \in Program \ {p} : pc'[r] = pc[r]
        /\ kind' = kind /\ holds' = holds
    BY DEF Goto, memory, Inv, TypeInv, Types
  <2>5. Writing' = {p}
    BY <2>2, <2>4 DEF Writing
  <2>6. SoleWriter(p)'
    BY <2>3, <2>4, <2>5 DEF SoleWriter
  <2> QED
    BY <2>6 DEF FileIsBegun
<1> QED
  BY <1>1, <1>2

LEMMA PutHeaderBegun ==
  ASSUME Inv, NEW p \in Program, PutHeader(p)
  PROVE  FileIsBegun'
<1> DEFINE bytes == HeaderBytes(kind[p], Header(kind[p], holds[p]))
           step == IF p \in bad' THEN "close" ELSE "table"
<1>1. p \in Writing /\ pc[p] = "header"
  BY DEF PutHeader, Writing
<1>2. kind[p] \in Kind /\ holds[p] \in Storable
  BY <1>1, WriterHolds DEF Inv
<1>3. bytes \in Seq(Byte)
  BY <1>2, HeaderBytesAre
<1>4. Done(p) \o bytes = bytes
  BY <1>1, <1>3, ConcatEmptySeq DEF Done
<1>5. Begins(bytes, Encoding(kind[p], holds[p]))
  <2> DEFINE scores == holds[p].table
             tree == holds[p].trie
  <2>1. scores \in Seq(Byte) /\ tree \in Seq(Byte)
    BY <1>2, StorableIs
  <2>2. Encoding(kind[p], holds[p]) = (bytes \o scores) \o tree
    BY DEF Encoding
  <2> HIDE DEF bytes, scores, tree
  <2>3. bytes \o scores \in Seq(Byte)
    BY <1>3, <2>1, ConcatProperties
  <2>4. (bytes \o scores) \o tree \in Seq(Byte)
    BY <2>1, <2>3, ConcatProperties
  <2>5. Begins(bytes, bytes \o scores)
    BY <1>3, <2>1, BeginsConcat
  <2>6. Begins(bytes \o scores, (bytes \o scores) \o tree)
    BY <2>1, <2>3, BeginsConcat
  <2> QED
    BY <1>3, <2>2, <2>3, <2>4, <2>5, <2>6, BeginsTransitive
<1>6. /\ Put(p, bytes) /\ Goto(p, step)
      /\ kind' = kind /\ holds' = holds
      /\ UNCHANGED <<memory, history>>
  BY DEF PutHeader, memory
<1>7. p \notin bad' => Done(p)' = Done(p) \o bytes
  <2>1. pc'[p] = step
    BY <1>6 DEF Goto, Inv, TypeInv, Types
  <2> QED
    BY <1>4, <1>6, <2>1 DEF Done
<1>8. step \in {"table", "trie", "close"}
  OBVIOUS
<1> HIDE DEF bytes, step
<1> QED
  BY <1>1, <1>3, <1>4, <1>5, <1>6, <1>7, <1>8, PutBegun

LEMMA PutTableBegun ==
  ASSUME Inv, NEW p \in Program, PutTable(p)
  PROVE  FileIsBegun'
<1> DEFINE bytes == HeaderBytes(kind[p], Header(kind[p], holds[p]))
           scores == holds[p].table
           tree == holds[p].trie
<1>1. p \in Writing /\ pc[p] = "table"
  BY DEF PutTable, Writing
<1>2. kind[p] \in Kind /\ holds[p] \in Storable
  BY <1>1, WriterHolds DEF Inv
<1>3. /\ bytes \in Seq(Byte) /\ scores \in Seq(Byte)
      /\ tree \in Seq(Byte)
  BY <1>2, StorableIs, HeaderBytesAre
<1>4. Done(p) = bytes /\ Encoding(kind[p], holds[p]) = (bytes \o scores) \o tree
  BY <1>1 DEF Done, Encoding
<1>5. /\ Goto(p, "trie") /\ UNCHANGED <<memory, history>>
      /\ kind' = kind /\ holds' = holds /\ muddled' = muddled
  BY DEF PutTable, memory, history
<1>6. /\ pc'[p] = "trie" /\ \A q \in Program \ {p} : pc'[q] = pc[q]
  BY <1>5 DEF Goto, Inv, TypeInv, Types
<1>7. Done(p)' = bytes \o scores
  BY <1>5, <1>6 DEF Done
<1>8. CASE scores = <<>> /\ UNCHANGED <<file, buffer, at, bad>>
  <2>1. Done(p)' = Done(p)
    BY <1>3, <1>4, <1>7, <1>8, ConcatEmptySeq
  <2>2. CASE muddled
    BY <1>5, <2>2 DEF FileIsBegun
  <2>3. CASE ~ muddled
    <3>1. PICK q \in Program : SoleWriter(q)
      BY <1>1, <2>3 DEF Inv, FileIsBegun
    <3>2. SoleWriter(p) /\ Writing = {p}
      BY <1>1, <3>1 DEF SoleWriter
    <3>3. Writing' = {p}
      BY <1>6, <3>2 DEF Writing
    <3>4. SoleWriter(p)'
      BY <1>5, <1>8, <2>1, <3>2, <3>3 DEF SoleWriter
    <3> QED
      BY <3>4 DEF FileIsBegun
  <2> QED
    BY <2>2, <2>3
<1>9. CASE Put(p, scores)
  <2> HIDE DEF bytes, scores, tree
  <2>1. bytes \o scores \in Seq(Byte)
    BY <1>3, ConcatProperties
  <2>2. Begins(Done(p) \o scores, Encoding(kind[p], holds[p]))
    BY <1>3, <1>4, <2>1, BeginsConcat
  <2> QED
    BY <1>1, <1>3, <1>4, <1>5, <1>7, <1>9, <2>2, PutBegun
<1> QED
  BY <1>8, <1>9 DEF PutTable

LEMMA PutTrieBegun ==
  ASSUME Inv, NEW p \in Program, PutTrie(p)
  PROVE  FileIsBegun'
<1> DEFINE bytes == HeaderBytes(kind[p], Header(kind[p], holds[p]))
           tree == holds[p].trie
           e == Encoding(kind[p], holds[p])
<1>1. p \in Writing /\ pc[p] = "trie"
  BY DEF PutTrie, Writing
<1>2. kind[p] \in Kind /\ holds[p] \in Storable
  BY <1>1, WriterHolds DEF Inv
<1>3. tree \in Seq(Byte)
  BY <1>2, StorableIs
<1>4. Done(p) \o tree = e
  BY <1>1 DEF Done, Encoding
<1>5. /\ Put(p, tree) /\ Goto(p, "close") /\ UNCHANGED <<memory, history>>
      /\ kind' = kind /\ holds' = holds
  BY DEF PutTrie, memory
<1>6. pc'[p] = "close"
  BY <1>5 DEF Goto, Inv, TypeInv, Types
<1>7. Done(p)' = e
  BY <1>5, <1>6 DEF Done
<1>8. Begins(e, e)
  <2>1. e \in Seq(Byte)
    BY <1>1, DoneIs DEF Inv
  <2> HIDE DEF e
  <2> QED
    BY <2>1 DEF Begins
<1> HIDE DEF bytes, tree
<1> QED
  BY <1>1, <1>3, <1>4, <1>5, <1>7, <1>8, PutBegun

LEMMA CloseBegun ==
  ASSUME Inv, NEW p \in Program, Close(p)
  PROVE  FileIsBegun'
<1>1. CASE muddled
  BY <1>1 DEF Close, FileIsBegun, history
<1>2. CASE ~ muddled
  <2>1. p \in Writing
    BY DEF Close, Writing
  <2>2. PICK q \in Program : SoleWriter(q)
    BY <1>2, <2>1 DEF Inv, FileIsBegun
  <2>3. SoleWriter(p) /\ Writing = {p}
    BY <2>1, <2>2 DEF SoleWriter
  <2>4. Writing' = {}
    BY <2>3, EndWriteIs DEF Inv, Close
  <2>5. Begins(file', Encoding(kind[p], holds[p]))
    BY <2>3, SoleWriterCloses DEF Inv
  <2>6. kind[p] \in Kind /\ holds[p] \in Storable
    BY <2>1, WriterHolds DEF Inv
  <2>7. Left'
    BY <2>5, <2>6 DEF Left
  <2> QED
    BY <2>4, <2>7 DEF FileIsBegun
<1> QED
  BY <1>1, <1>2

LEMMA CrashBegun ==
  ASSUME Inv, NEW p \in Program, Crash(p)
  PROVE  FileIsBegun'
<1>1. /\ file' = file /\ kind' = kind /\ muddled' = muddled
      /\ holds' = [holds EXCEPT ![p] = NoTrie]
      /\ Writing' = Writing \ {p} /\ bad' = bad \ {p}
      /\ \A q \in Program \ {p} :
           pc'[q] = pc[q] /\ buffer'[q] = buffer[q] /\ at'[q] = at[q]
  BY EndWriteIs DEF Crash, Inv
<1>2. \A q \in Program \ {p} : holds'[q] = holds[q]
  BY <1>1 DEF Inv, TypeInv, Types
<1>3. CASE muddled
  BY <1>1, <1>3 DEF FileIsBegun
<1>4. CASE p \notin Writing
  BY <1>1, <1>2, <1>4, OthersBegun DEF Writing
<1>5. CASE ~ muddled /\ p \in Writing
  <2>1. PICK q \in Program : SoleWriter(q)
    BY <1>5 DEF Inv, FileIsBegun
  <2>2. SoleWriter(p) /\ Writing = {p}
    BY <1>5, <2>1 DEF SoleWriter
  <2>3. Begins(file, Encoding(kind[p], holds[p]))
    BY <2>2, SoleWriterBegins DEF Inv
  <2>4. kind[p] \in Kind /\ holds[p] \in Storable
    BY <1>5, WriterHolds DEF Inv
  <2>5. Left'
    BY <1>1, <2>3, <2>4 DEF Left
  <2> QED
    BY <1>1, <2>2, <2>5 DEF FileIsBegun
<1> QED
  BY <1>3, <1>4, <1>5

(* A program that does not write leaves the file and the streams alone. *)
LEMMA QuietBegun ==
  ASSUME Inv, NEW p \in Program, p \notin Writing,
         pc' = pc \/ \E step \in {"idle", "get header", "get table", "get trie"} :
                       Goto(p, step),
         \A q \in Program \ {p} : holds'[q] = holds[q],
         file' = file, kind' = kind, UNCHANGED streams, muddled' = muddled
  PROVE  FileIsBegun' /\ Writing' = Writing
<1>1. \A q \in Program \ {p} : pc'[q] = pc[q]
  BY DEF Goto, Inv, TypeInv, Types
<1>2. pc'[p] = pc[p] \/ pc'[p] \in {"idle", "get header", "get table", "get trie"}
  BY DEF Goto, Inv, TypeInv, Types
<1>3. Writing' = Writing
  BY <1>1, <1>2 DEF Writing
<1>4. \A q \in Writing : q \in Program \ {p}
  BY DEF Writing
<1> QED
  BY <1>1, <1>3, <1>4, OthersBegun DEF streams

(* The steps of from_file. *)
LEMMA ReadStepIsQuiet ==
  ASSUME Inv, NEW p \in Program,
         OpenRead(p) \/ ReadHeader(p) \/ ReadTable(p) \/ ReadTrie(p)
  PROVE  /\ p \notin Writing
         /\ \E step \in {"idle", "get header", "get table", "get trie"} :
              Goto(p, step)
         /\ \A q \in Program \ {p} : /\ holds'[q] = holds[q]
                                     /\ header'[q] = header[q]
                                     /\ table'[q] = table[q]
         /\ file' = file /\ kind' = kind /\ muddled' = muddled
         /\ buffer' = buffer /\ at' = at /\ bad' = bad /\ faulty' = faulty
         /\ overlapped' \ {p} = overlapped \ {p}
<1>1. /\ holds \in [Program -> Trie \cup {NoTrie}]
      /\ header \in [Program -> Headers \cup {Nothing}]
      /\ table \in [Program -> Seq(Byte)]
  BY DEF Inv, TypeInv, Types
<1>2. CASE OpenRead(p)
  BY <1>2 DEF OpenRead, memory, streams, reads, Writing
<1>3. CASE ReadHeader(p)
  BY <1>1, <1>3 DEF ReadHeader, Refuse, Return, memory, streams, Writing
<1>4. CASE ReadTable(p)
  BY <1>1, <1>4 DEF ReadTable, Refuse, Return, memory, streams, Writing
<1>5. CASE ReadTrie(p)
  BY <1>1, <1>5 DEF ReadTrie, Refuse, Return, memory, streams, Writing
<1> QED
  BY <1>2, <1>3, <1>4, <1>5

(* Every step leaves the beginning of one trie in the file, unless writes  *)
(* muddle it.                                                              *)
LEMMA NextBegun == Inv /\ [Next]_vars => FileIsBegun'
<1> SUFFICES ASSUME Inv, [Next]_vars PROVE FileIsBegun'
  OBVIOUS
<1>1. ASSUME NEW p \in Program, NEW trie \in Built, FromMemory(p, trie)
      PROVE  FileIsBegun'
  <2>1. p \notin Writing
    BY <1>1 DEF FromMemory, Writing
  <2>2. \A q \in Program \ {p} : holds'[q] = holds[q]
    BY <1>1 DEF FromMemory, Inv, TypeInv, Types
  <2> QED
    BY <1>1, <2>1, <2>2, QuietBegun DEF FromMemory
<1>2. ASSUME NEW p \in Program,
             OpenWrite(p) \/ PutHeader(p) \/ PutTable(p) \/ PutTrie(p) \/ Close(p)
      PROVE  FileIsBegun'
  BY <1>2, OpenWriteBegun, PutHeaderBegun, PutTableBegun, PutTrieBegun, CloseBegun
<1>3. ASSUME NEW p \in Program, Fault(p) PROVE FileIsBegun'
  BY <1>3, OthersBegun DEF Fault, Writing, memory, history
<1>4. ASSUME NEW p \in Program,
             OpenRead(p) \/ ReadHeader(p) \/ ReadTable(p) \/ ReadTrie(p)
      PROVE  FileIsBegun'
  BY <1>4, ReadStepIsQuiet, QuietBegun DEF streams
<1>5. ASSUME NEW p \in Program, Crash(p) PROVE FileIsBegun'
  BY <1>5, CrashBegun
<1>6. CASE UNCHANGED vars
  BY <1>6, OthersBegun DEF vars, memory, streams, history, Writing
<1> QED
  BY <1>1, <1>2, <1>3, <1>4, <1>5, <1>6 DEF Next

-----------------------------------------------------------------------------
(* Clean reads stay clean: while the file and what they have read of it    *)
(* are left alone, and a write that opens makes them overlapped.           *)
LEMMA CleanReadKept ==
  ASSUME NEW q \in Program, CleanRead(q), file' = file, kind' = kind,
         Writing' \subseteq Writing,
         pc'[q] = pc[q], header'[q] = header[q], table'[q] = table[q]
  PROVE  CleanRead(q)'
BY DEF CleanRead, Accepts, HeaderRead, WordAt, Has, Bytes

(* While a program writes, there is no read that none overlaps. *)
LEMMA WriterStepClean ==
  ASSUME Inv, NEW p \in Program, p \in Writing, Reading' = Reading,
         overlapped' = overlapped
  PROVE  \A q \in Reading' \ overlapped' : CleanRead(q)'
BY DEF Inv, CleanRead

LEMMA ReadHeaderClean ==
  ASSUME Inv, NEW p \in Program, ReadHeader(p), p \in Reading' \ overlapped'
  PROVE  CleanRead(p)'
<1>1. pc[p] = "get header" /\ file' = file /\ kind' = kind
  BY DEF ReadHeader
<1>2. pc'[p] # "idle"
  BY DEF Reading
<1>3. /\ Accepts(kind[p])
      /\ header' = [header EXCEPT ![p] = HeaderRead(kind[p])]
      /\ Goto(p, "get table")
      /\ overlapped' = overlapped
  BY <1>2 DEF ReadHeader, Refuse, Return, Goto, Inv, TypeInv, Types
<1>4. Writing = {} /\ file # NoFile
  BY <1>1, <1>3 DEF Inv, CleanRead, Reading
<1>5. header'[p] = HeaderRead(kind[p]) /\ pc'[p] = "get table"
  BY <1>3 DEF Goto, Inv, TypeInv, Types
<1>6. Writing' = {}
  BY <1>3, <1>4 DEF Writing, Goto, Inv, TypeInv, Types
<1>7. Accepts(kind[p])' /\ HeaderRead(kind[p])' = HeaderRead(kind[p])
  BY <1>1, <1>3 DEF Accepts, HeaderRead, WordAt
<1> QED
  BY <1>1, <1>4, <1>5, <1>6, <1>7 DEF CleanRead

LEMMA ReadTableClean ==
  ASSUME Inv, NEW p \in Program, ReadTable(p), p \in Reading' \ overlapped'
  PROVE  CleanRead(p)'
<1> DEFINE segment == header[p].table
<1>1. pc[p] = "get table" /\ file' = file /\ kind' = kind
  BY DEF ReadTable
<1>2. pc'[p] # "idle"
  BY DEF Reading
<1>3. /\ segment.first # 0 => Has(segment)
      /\ table' = [table EXCEPT ![p] = IF segment.first = 0 THEN <<>>
                                       ELSE Bytes(segment)]
      /\ Goto(p, "get trie")
      /\ header' = header /\ overlapped' = overlapped
  BY <1>2 DEF ReadTable, Refuse, Return, Goto, Inv, TypeInv, Types
<1>4. /\ Writing = {} /\ file # NoFile
      /\ Accepts(kind[p]) /\ header[p] = HeaderRead(kind[p])
  BY <1>1, <1>3 DEF Inv, CleanRead, Reading
<1>5. /\ pc'[p] = "get trie"
      /\ table'[p] = IF segment.first = 0 THEN <<>> ELSE Bytes(segment)
  BY <1>3 DEF Goto, Inv, TypeInv, Types
<1>6. Writing' = {}
  BY <1>3, <1>4 DEF Writing, Goto, Inv, TypeInv, Types
<1>7. /\ Accepts(kind[p])' /\ HeaderRead(kind[p])' = HeaderRead(kind[p])
      /\ Has(header[p].table)' = Has(header[p].table)
      /\ Bytes(header[p].table)' = Bytes(header[p].table)
  BY <1>1, <1>3, <1>4 DEF Accepts, HeaderRead, WordAt, Has, Bytes
<1> QED
  BY <1>1, <1>3, <1>4, <1>5, <1>6, <1>7 DEF CleanRead

(* A read that no write overlaps keeps to one version of the file. *)
LEMMA NextClean ==
  Inv /\ [Next]_vars => \A q \in Reading' \ overlapped' : CleanRead(q)'
<1> SUFFICES ASSUME Inv, [Next]_vars
             PROVE  \A q \in Reading' \ overlapped' : CleanRead(q)'
  OBVIOUS
<1>1. ASSUME NEW p \in Program, NEW trie \in Built, FromMemory(p, trie)
      PROVE  \A q \in Reading' \ overlapped' : CleanRead(q)'
  <2>1. /\ file' = file /\ pc' = pc /\ header' = header /\ table' = table
        /\ overlapped' = overlapped /\ Writing' = Writing /\ Reading' = Reading
        /\ kind' = kind
    BY <1>1 DEF FromMemory, reads, Writing, Reading
  <2> QED
    BY <2>1, CleanReadKept DEF Inv, Reading
<1>2. ASSUME NEW p \in Program, OpenWrite(p)
      PROVE  \A q \in Reading' \ overlapped' : CleanRead(q)'
  <2>1. /\ pc'[p] = "header" /\ \A q \in Program \ {p} : pc'[q] = pc[q]
        /\ overlapped' = overlapped \cup Reading
    BY <1>2 DEF OpenWrite, Goto, Inv, TypeInv, Types
  <2> QED
    BY <2>1 DEF Reading
<1>3. ASSUME NEW p \in Program,
             PutHeader(p) \/ PutTable(p) \/ PutTrie(p) \/ Close(p) \/ Fault(p)
      PROVE  \A q \in Reading' \ overlapped' : CleanRead(q)'
  <2>1. p \in Writing /\ overlapped' = overlapped
    BY <1>3 DEF PutHeader, PutTable, PutTrie, Close, Fault, Writing, history
  <2>2. Reading' = Reading
    BY <1>3 DEF PutHeader, PutTable, PutTrie, Close, Fault, EndWrite, Goto, Writing,
                Reading, Inv, TypeInv, Types
  <2> QED
    BY <2>1, <2>2, WriterStepClean
<1>4. ASSUME NEW p \in Program,
             OpenRead(p) \/ ReadHeader(p) \/ ReadTable(p) \/ ReadTrie(p)
      PROVE  \A q \in Reading' \ overlapped' : CleanRead(q)'
  <2>1. /\ \A q \in Program \ {p} : header'[q] = header[q] /\ table'[q] = table[q]
        /\ file' = file /\ kind' = kind
        /\ overlapped' \ {p} = overlapped \ {p}
        /\ \A q \in Program \ {p} : pc'[q] = pc[q]
        /\ Writing' = Writing
    BY <1>4, ReadStepIsQuiet, QuietBegun
    DEF streams, Goto, Inv, TypeInv, Types
  <2>2. ASSUME NEW q \in Reading' \ overlapped', q # p PROVE CleanRead(q)'
    <3>1. q \in Reading \ overlapped
      BY <2>1, <2>2 DEF Reading
    <3> QED
      BY <2>1, <2>2, <3>1, CleanReadKept DEF Inv, Reading
  <2>3. ASSUME p \in Reading' \ overlapped' PROVE CleanRead(p)'
    <3>1. CASE OpenRead(p)
      <4>1. Writing = {} /\ file # NoFile
        BY <2>3, <3>1 DEF OpenRead
      <4>2. pc'[p] = "get header"
        BY <3>1 DEF OpenRead, Goto, Inv, TypeInv, Types
      <4> QED
        BY <2>1, <4>1, <4>2 DEF CleanRead
    <3>2. CASE ReadTrie(p)
      BY <2>3, <3>2
      DEF ReadTrie, Refuse, Return, Goto, Reading, Inv, TypeInv, Types
    <3> QED
      BY <1>4, <2>3, <3>1, <3>2, ReadHeaderClean, ReadTableClean
  <2> QED
    BY <2>2, <2>3
<1>5. ASSUME NEW p \in Program, Crash(p)
      PROVE  \A q \in Reading' \ overlapped' : CleanRead(q)'
  <2>1. /\ file' = file /\ kind' = kind /\ overlapped' = overlapped \ {p}
        /\ Writing' = Writing \ {p} /\ Reading' = Reading \ {p}
        /\ \A q \in Program \ {p} :
             pc'[q] = pc[q] /\ header'[q] = header[q] /\ table'[q] = table[q]
    BY <1>5, EndWriteIs DEF Crash, Inv, TypeInv, Types
  <2> QED
    BY <2>1, CleanReadKept DEF Inv, Reading
<1>6. CASE UNCHANGED vars
  <2>1. /\ file' = file /\ pc' = pc /\ header' = header /\ table' = table
        /\ overlapped' = overlapped /\ Writing' = Writing /\ Reading' = Reading
        /\ kind' = kind
    BY <1>6 DEF vars, memory, reads, history, Writing, Reading
  <2> QED
    BY <2>1, CleanReadKept DEF Inv, Reading
<1> QED
  BY <1>1, <1>2, <1>3, <1>4, <1>5, <1>6 DEF Next

LEMMA InitInv == Init => Inv
<1>1. Init => FileIsBegun
  BY DEF Init, FileIsBegun, Left, Writing
<1>2. Init => Reading = {}
  BY DEF Init, Reading
<1> QED
  BY <1>1, <1>2, InitTypeInv DEF Inv

(* Every step keeps the invariant. *)
LEMMA NextInv == Inv /\ [Next]_vars => Inv'
BY NextTypeInv, NextBegun, NextClean DEF Inv

-----------------------------------------------------------------------------
(* No empty trie is read, unless two programs wrote the file at once: the  *)
(* file begins one encoding then, whose header is the only one there is to *)
(* accept, and has a trie with bytes.                                      *)
LEMMA FileBegins ==
  ASSUME Inv, ~ muddled, file # NoFile
  PROVE  /\ file \in Seq(Byte)
         /\ \E k \in Kind, t \in Storable : Begins(file, Encoding(k, t))
<1>1. file \in Seq(Byte)
  BY DEF Inv, TypeInv, Types
<1>2. CASE Left
  BY <1>1, <1>2 DEF Left
<1>3. ASSUME NEW p \in Program, SoleWriter(p)
      PROVE  \E k \in Kind, t \in Storable : Begins(file, Encoding(k, t))
  <2>1. p \in Writing
    BY <1>3 DEF SoleWriter
  <2>2. Begins(file, Encoding(kind[p], holds[p]))
    BY <1>3, SoleWriterBegins DEF Inv
  <2> QED
    BY <2>1, <2>2, WriterHolds DEF Inv
<1> QED
  BY <1>1, <1>2, <1>3 DEF Inv, FileIsBegun

(* A step that leaves what a program has, or drops it. *)
LEMMA HasTrieKept ==
  ASSUME NEW q \in Program, HasTrie(q), q \in misled => q \in misled',
         holds'[q] \in {holds[q], NoTrie},
         \/ pc'[q] = pc[q] /\ header'[q] = header[q]
         \/ pc'[q] \notin {"get table", "get trie"}
  PROVE  HasTrie(q)'
BY DEF HasTrie, Reading

LEMMA ReadHeaderHasTrie ==
  ASSUME Inv, NEW p \in Program, HasTrie(p), ReadHeader(p), Accepts(kind[p])
  PROVE  HasTrie(p)'
<1> DEFINE k == kind[p]
<1>1. /\ pc[p] = "get header" /\ holds' = holds
      /\ header' = [header EXCEPT ![p] = HeaderRead(k)]
      /\ misled' = IF muddled THEN misled \cup {p} ELSE misled
  BY DEF ReadHeader
<1>2. header'[p] = HeaderRead(k)
  BY <1>1 DEF Inv, TypeInv, Types
<1>3. k \in Kind /\ file # NoFile
  BY <1>1, KindOfProgram DEF Inv, TypeInv, Types, ReadOK, Reading
<1>4. CASE muddled
  BY <1>1, <1>4 DEF HasTrie
<1>5. CASE ~ muddled
  <2>1. file \in Seq(Byte)
    BY <1>3, <1>5, FileBegins
  <2>2. PICK j \in Kind, t \in Storable : Begins(file, Encoding(j, t))
    BY <1>3, <1>5, FileBegins
  <2>3. HeaderRead(k) = Header(j, t)
    BY <1>3, <2>1, <2>2, AcceptedIsOwn
  <2>4. Header(j, t).trie.size # 0
    BY HeaderIs
  <2> QED
    BY <1>1, <1>2, <1>5, <2>3, <2>4 DEF HasTrie
<1> QED
  BY <1>4, <1>5

LEMMA ReadTrieHasTrie ==
  ASSUME Inv, NEW p \in Program, HasTrie(p), ReadTrie(p)
  PROVE  HasTrie(p)'
<1> DEFINE segment == header[p].trie
<1>1. /\ p \in Reading /\ pc[p] = "get trie" /\ misled' = misled
  BY DEF ReadTrie, Reading
<1>2. pc'[p] = "idle"
  BY DEF ReadTrie, Refuse, Return, Goto, Inv, TypeInv, Types
<1>3. CASE Has(segment)
  <2>1. /\ file \in Seq(Byte) /\ segment \in Segment
    BY <1>1 DEF Inv, TypeInv, Types, ReadOK, Headers
  <2>2. Bytes(segment) \in Seq(Byte) /\ Len(Bytes(segment)) = segment.size
    BY <1>3, <2>1, BytesAre
  <2>3. holds'[p] = [table |-> table[p], trie |-> Bytes(segment)]
    BY <1>3 DEF ReadTrie, Return, Inv, TypeInv, Types
  <2>4. p \notin misled => segment.size # 0
    BY <1>1 DEF HasTrie
  <2>5. p \notin misled => holds'[p].trie # <<>>
    BY <2>2, <2>3, <2>4
  <2> QED
    BY <1>1, <1>2, <2>5 DEF HasTrie, Reading
<1>4. CASE ~ Has(segment)
  <2>1. holds'[p] = holds[p]
    BY <1>4 DEF ReadTrie, Refuse, Return, Inv, TypeInv, Types
  <2> QED
    BY <1>1, <1>2, <2>1, HasTrieKept
<1> QED
  BY <1>3, <1>4

LEMMA ReadHasTrie ==
  ASSUME Inv, NEW p \in Program, HasTrie(p),
         OpenRead(p) \/ ReadHeader(p) \/ ReadTable(p) \/ ReadTrie(p)
  PROVE  HasTrie(p)'
<1>1. CASE OpenRead(p)
  <2>1. pc'[p] = "get header" /\ holds' = holds /\ misled' = misled
    BY <1>1 DEF OpenRead, Goto, memory, Inv, TypeInv, Types
  <2> QED
    BY <2>1, HasTrieKept
<1>2. CASE ReadHeader(p)
  <2>1. CASE Accepts(kind[p])
    BY <1>2, <2>1, ReadHeaderHasTrie
  <2>2. CASE ~ Accepts(kind[p])
    <3>1. pc'[p] = "idle" /\ holds'[p] = holds[p] /\ misled' = misled
      BY <1>2, <2>2 DEF ReadHeader, Refuse, Return, Goto, Inv, TypeInv, Types
    <3> QED
      BY <3>1, HasTrieKept
  <2> QED
    BY <2>1, <2>2
<1>3. CASE ReadTable(p)
  <2>1. /\ pc[p] = "get table" /\ p \in Reading
        /\ holds'[p] = holds[p] /\ misled' = misled
        /\ \/ pc'[p] = "idle"
           \/ pc'[p] = "get trie" /\ header'[p] = header[p]
    BY <1>3 DEF ReadTable, Refuse, Return, Goto, Reading, Inv, TypeInv, Types
  <2>2. CASE pc'[p] = "idle"
    BY <2>1, <2>2, HasTrieKept
  <2>3. CASE pc'[p] = "get trie" /\ header'[p] = header[p]
    BY <2>1, <2>3 DEF HasTrie
  <2> QED
    BY <2>1, <2>2, <2>3
<1>4. CASE ReadTrie(p)
  BY <1>4, ReadTrieHasTrie
<1> QED
  BY <1>1, <1>2, <1>3, <1>4

LEMMA NextHasTrie ==
  Inv /\ (\A p \in Program : HasTrie(p)) /\ [Next]_vars
    => \A p \in Program : HasTrie(p)'
<1> SUFFICES ASSUME Inv, \A p \in Program : HasTrie(p), [Next]_vars
             PROVE  \A p \in Program : HasTrie(p)'
  OBVIOUS
<1>1. ASSUME NEW p \in Program, NEW trie \in Built, FromMemory(p, trie),
             NEW q \in Program
      PROVE  HasTrie(q)'
  <2>1. /\ pc[p] = "idle" /\ pc' = pc /\ header' = header
        /\ holds' = [holds EXCEPT ![p] = trie] /\ misled' = misled \ {p}
    BY <1>1 DEF FromMemory, reads
  <2>2. CASE q = p
    <3>1. holds'[p] = trie /\ trie.trie # <<>>
      BY <2>1, BuiltAssumption DEF Inv, TypeInv, Types
    <3> QED
      BY <2>1, <2>2, <3>1 DEF HasTrie, Reading
  <2>3. CASE q # p
    <3>1. holds'[q] = holds[q]
      BY <2>1, <2>3 DEF Inv, TypeInv, Types
    <3> QED
      BY <2>1, <2>3, <3>1, HasTrieKept
  <2> QED
    BY <2>2, <2>3
<1>2. ASSUME NEW p \in Program,
             \/ OpenWrite(p)
             \/ PutHeader(p)
             \/ PutTable(p)
             \/ PutTrie(p)
             \/ Close(p)
             \/ Fault(p),
             NEW q \in Program
      PROVE  HasTrie(q)'
  <2>1. holds' = holds /\ misled' = misled /\ header' = header
    BY <1>2 DEF OpenWrite, PutHeader, PutTable, PutTrie, Close, Fault, memory,
                reads, history
  <2>2. pc'[q] = pc[q] \/ pc'[q] \in {"header", "table", "trie", "close", "idle"}
    BY <1>2 DEF OpenWrite, PutHeader, PutTable, PutTrie, Close, Fault, EndWrite,
                Goto, Inv, TypeInv, Types
  <2> QED
    BY <2>1, <2>2, HasTrieKept
<1>3. ASSUME NEW p \in Program,
             OpenRead(p) \/ ReadHeader(p) \/ ReadTable(p) \/ ReadTrie(p),
             NEW q \in Program
      PROVE  HasTrie(q)'
  <2>1. CASE q = p
    BY <1>3, <2>1, ReadHasTrie
  <2>2. CASE q # p
    <3>1. holds'[q] = holds[q] /\ header'[q] = header[q]
      BY <1>3, <2>2, ReadStepIsQuiet
    <3>2. \E step \in {"idle", "get header", "get table", "get trie"} :
            Goto(p, step)
      BY <1>3, ReadStepIsQuiet
    <3>3. pc'[q] = pc[q]
      BY <2>2, <3>2 DEF Goto, Inv, TypeInv, Types
    <3>4. q \in misled => q \in misled'
      BY <1>3 DEF OpenRead, ReadHeader, ReadTable, ReadTrie
    <3> QED
      BY <3>1, <3>3, <3>4, HasTrieKept
  <2> QED
    BY <2>1, <2>2
<1>4. ASSUME NEW p \in Program, Crash(p), NEW q \in Program
      PROVE  HasTrie(q)'
  <2>1. CASE q = p
    <3>1. holds'[p] = NoTrie /\ pc'[p] = "idle"
      BY <1>4, EndWriteIs DEF Crash, Inv, TypeInv, Types
    <3> QED
      BY <2>1, <3>1 DEF HasTrie, Reading
  <2>2. CASE q # p
    <3>1. /\ holds'[q] = holds[q] /\ header'[q] = header[q] /\ pc'[q] = pc[q]
          /\ misled' = misled \ {p}
      BY <1>4, <2>2, EndWriteIs DEF Crash, Inv, TypeInv, Types
    <3> QED
      BY <2>2, <3>1, HasTrieKept
  <2> QED
    BY <2>1, <2>2
<1>5. CASE UNCHANGED vars
  BY <1>5, HasTrieKept DEF vars, memory, reads, history
<1> QED
  BY <1>1, <1>2, <1>3, <1>4, <1>5 DEF Next

(* A read makes no empty trie, whatever writes it overlaps and wherever a  *)
(* crash or a fault tore them, for programs of any kinds: unless two of    *)
(* them wrote the file at once when its header was read (get_header, and   *)
(* the test of the segment of the trie in from_file).                      *)
THEOREM NoEmptyTrieIsRead == Spec => []NoEmptyTrie
<1> DEFINE HInv == Inv /\ \A p \in Program : HasTrie(p)
<1>1. Init => HInv
  <2>1. Init => \A p \in Program : HasTrie(p)
    BY DEF Init, HasTrie, Reading
  <2> QED
    BY <2>1, InitInv
<1>2. HInv /\ [Next]_vars => HInv'
  BY NextInv, NextHasTrie
<1>3. HInv => NoEmptyTrie
  BY DEF NoEmptyTrie, HasTrie
<1> HIDE DEF HInv
<1> QED
  BY <1>1, <1>2, <1>3, PTL DEF Spec

-----------------------------------------------------------------------------
(* The file is a safe register (SafeFile): what it holds is Content. *)
ReadingIs == [p \in Program |->
                IF p \notin Reading THEN "no"
                ELSE IF p \in overlapped THEN "overlapped" ELSE "clean"]

(* A file that begins an encoding is no other encoding. *)
LEMMA EncodedIs ==
  \A k \in Kind, t \in Storable :
    file \in Seq(Byte) /\ Begins(file, Encoding(k, t)) =>
      Encoded = IF file = Encoding(k, t) THEN {[kind |-> k, trie |-> t]} ELSE {}
<1> SUFFICES ASSUME NEW k \in Kind, NEW t \in Storable, file \in Seq(Byte),
                    Begins(file, Encoding(k, t))
             PROVE  Encoded = IF file = Encoding(k, t)
                              THEN {[kind |-> k, trie |-> t]} ELSE {}
  OBVIOUS
<1> DEFINE one == [kind |-> k, trie |-> t]
<1>1. ASSUME NEW w \in Encoded PROVE w = one /\ file = Encoding(k, t)
  <2>1. /\ w \in [kind : Kind, trie : Storable]
        /\ file = Encoding(w.kind, w.trie)
    BY DEF Encoded, Encodings
  <2>2. w.kind \in Kind /\ w.trie \in Storable
        /\ w = [kind |-> w.kind, trie |-> w.trie]
    BY <2>1
  <2>3. w.kind = k /\ w.trie = t
    BY <2>1, <2>2, EncodingIsOne
  <2> QED
    BY <2>1, <2>2, <2>3
<1>2. ASSUME file = Encoding(k, t) PROVE one \in Encoded
  <2>1. one \in [kind : Kind, trie : Storable] /\ one.kind = k /\ one.trie = t
    OBVIOUS
  <2> HIDE DEF one
  <2>2. Encodings[one] = Encoding(one.kind, one.trie)
    BY <2>1 DEF Encodings
  <2> QED
    BY <1>2, <2>1, <2>2 DEF Encoded, Encodings
<1> QED
  BY <1>1, <1>2

(* After a step, too. *)
LEMMA EncodedWillBe ==
  \A k \in Kind, t \in Storable :
    file' \in Seq(Byte) /\ Begins(file', Encoding(k, t)) =>
      Encoded' = IF file' = Encoding(k, t) THEN {[kind |-> k, trie |-> t]} ELSE {}
<1>1. (\A k \in Kind, t \in Storable :
         file \in Seq(Byte) /\ Begins(file, Encoding(k, t)) =>
           Encoded = IF file = Encoding(k, t)
                     THEN {[kind |-> k, trie |-> t]} ELSE {})'
  BY EncodedIs, PTL
<1> QED
  BY <1>1

(* What the register holds stays the same. *)
LEMMA StoredKept ==
  ASSUME muddled' = muddled, Writing' = Writing,
         file' = file \/ Writing # {}
  PROVE  Content' = Content
<1>1. CASE file' = file
  BY <1>1 DEF Content, Encoded
<1>2. CASE Writing # {}
  BY <1>2 DEF Content
<1> QED
  BY <1>1, <1>2

LEMMA ReadingKept ==
  ASSUME Reading' = Reading, overlapped' = overlapped
  PROVE  ReadingIs' = ReadingIs
BY DEF ReadingIs

(* No file is the register's initial state. *)
LEMMA InitRefines == Init => Register!Init
<1> SUFFICES ASSUME Init PROVE Register!Init
  OBVIOUS
<1>1. Writing = {} /\ Reading = {}
  BY DEF Init, Writing, Reading
<1>2. Encoded = {}
  <2>1. ASSUME NEW w \in Encoded PROVE FALSE
    <3>1. w.kind \in Kind /\ w.trie \in Storable /\ file = Encoding(w.kind, w.trie)
      BY DEF Encoded, Encodings
    <3> QED
      BY <3>1, EncodingIs, NoFileHasNoBytes DEF Init
  <2> QED
    BY <2>1
<1>3. Content = Nothing
  BY <1>2 DEF Init, Content
<1> QED
  BY <1>1, <1>3 DEF Init, Register!Init

LEMMA FromMemoryRefines ==
  ASSUME Inv, NEW p \in Program, NEW trie \in Built, FromMemory(p, trie)
  PROVE  Register!Build(p)
<1>1. /\ pc[p] = "idle"
      /\ holds' = [holds EXCEPT ![p] = trie]
      /\ file' = file /\ kind' = kind /\ pc' = pc /\ faulty' = faulty
      /\ muddled' = muddled /\ overlapped' = overlapped
  BY DEF FromMemory, streams
<1>2. /\ p \notin Writing /\ p \notin Reading
      /\ Writing' = Writing /\ Reading' = Reading
  BY <1>1 DEF Writing, Reading
<1>3. ReadingIs[p] = "no" /\ ReadingIs' = ReadingIs
  BY <1>1, <1>2, ReadingKept DEF ReadingIs
<1>4. Content' = Content
  BY <1>1, <1>2, StoredKept
<1>5. DOMAIN holds' = Program /\ \A q \in Program \ {p} : holds'[q] = holds[q]
  BY <1>1 DEF Inv, TypeInv, Types
<1> QED
  BY <1>1, <1>2, <1>3, <1>4, <1>5
  DEF Register!Build, Register!Idle, Register!OnlyHolds, ReadingIs

LEMMA OpenWriteRefines ==
  ASSUME Inv, NEW p \in Program, OpenWrite(p)
  PROVE  Register!BeginWrite(p)
<1>1. /\ pc[p] = "idle" /\ holds[p] # NoTrie
      /\ kind' = kind /\ holds' = holds /\ faulty' = faulty
      /\ muddled' = (Writing # {})
      /\ overlapped' = overlapped \cup Reading
  BY StorableAssumption DEF OpenWrite, memory
<1>2. pc'[p] = "header" /\ \A q \in Program \ {p} : pc'[q] = pc[q]
  BY DEF OpenWrite, Goto, Inv, TypeInv, Types
<1>3. /\ p \notin Writing /\ p \notin Reading
      /\ Writing' = Writing \cup {p} /\ Reading' = Reading
  BY <1>1, <1>2 DEF Writing, Reading
<1>4. ReadingIs[p] = "no"
  BY <1>3 DEF ReadingIs
<1>5. Content' = IF Writing = {} THEN Nothing ELSE Anything
  BY <1>1, <1>3 DEF Content
<1>6. ReadingIs' = [q \in Program |->
                      IF ReadingIs[q] = "no" THEN "no" ELSE "overlapped"]
  BY <1>1, <1>3 DEF ReadingIs
<1> QED
  BY <1>1, <1>3, <1>4, <1>5, <1>6
  DEF Register!BeginWrite, Register!Idle, ReadingIs

(* The steps of write between its first and its last change nothing. *)
LEMMA PutRefines ==
  ASSUME Inv, NEW p \in Program, PutHeader(p) \/ PutTable(p) \/ PutTrie(p)
  PROVE  UNCHANGED Register!vars
<1>1. /\ kind' = kind /\ holds' = holds /\ faulty' = faulty
      /\ muddled' = muddled /\ overlapped' = overlapped
      /\ pc[p] \in {"header", "table", "trie"}
      /\ \E step \in {"table", "trie", "close"} : Goto(p, step)
  BY DEF PutHeader, PutTable, PutTrie, memory, history
<1>2. /\ pc'[p] \in {"table", "trie", "close"}
      /\ \A q \in Program \ {p} : pc'[q] = pc[q]
  BY <1>1 DEF Goto, Inv, TypeInv, Types
<1>3. p \in Writing /\ Writing' = Writing /\ Reading' = Reading
  BY <1>1, <1>2 DEF Writing, Reading
<1>4. Content' = Content /\ ReadingIs' = ReadingIs
  BY <1>1, <1>3, StoredKept, ReadingKept
<1> QED
  BY <1>1, <1>3, <1>4 DEF Register!vars, ReadingIs

LEMMA FaultRefines ==
  ASSUME Inv, NEW p \in Program, Fault(p)
  PROVE  Register!Fault(p)
<1>1. /\ p \in Writing /\ faulty' = faulty \cup {p}
      /\ file' = file /\ kind' = kind /\ holds' = holds /\ pc' = pc
      /\ muddled' = muddled /\ overlapped' = overlapped
  BY DEF Fault, memory, history
<1>2. Writing' = Writing /\ Reading' = Reading
  BY <1>1 DEF Writing, Reading
<1>3. Content' = Content /\ ReadingIs' = ReadingIs
  BY <1>1, <1>2, StoredKept, ReadingKept
<1> QED
  BY <1>1, <1>2, <1>3 DEF Register!Fault, ReadingIs

(* The end of a write, or of the program that writes. *)
LEMMA EndWriteStores ==
  ASSUME Inv, NEW p \in Program, p \in Writing, EndWrite(p),
         muddled' = muddled, NEW mayFail \in BOOLEAN,
         ~ muddled => /\ file' \in Seq(Byte)
                      /\ Begins(file', Encoding(kind[p], holds[p]))
                      /\ mayFail \/ file' = Encoding(kind[p], holds[p])
  PROVE  Register!Stores(p, mayFail)
<1>1. Writing' = Writing \ {p} /\ faulty' = faulty \ {p}
  BY EndWriteIs DEF Inv
<1>2. CASE muddled
  <2>1. Content = Anything /\ Content' = Anything
    BY <1>2 DEF Content
  <2> QED
    BY <1>1, <2>1 DEF Register!Stores, Content
<1>3. CASE ~ muddled
  <2>1. Content = Nothing /\ Content # Anything
    BY <1>3, NothingIsStored DEF Content
  <2>2. PICK q \in Program : SoleWriter(q)
    BY <1>3 DEF Inv, FileIsBegun
  <2>3. Writing' = {}
    BY <1>1, <2>2 DEF SoleWriter
  <2>4. kind[p] \in Kind /\ holds[p] \in Storable
    BY WriterHolds DEF Inv
  <2>5. Encoded' = IF file' = Encoding(kind[p], holds[p])
                   THEN {[kind |-> kind[p], trie |-> holds[p]]} ELSE {}
    <3> DEFINE k == kind[p]
               t == holds[p]
    <3>1. k \in Kind /\ t \in Storable /\ file' \in Seq(Byte)
          /\ Begins(file', Encoding(k, t))
      BY <1>3, <2>4
    <3> HIDE DEF k, t
    <3>2. Encoded' = IF file' = Encoding(k, t)
                     THEN {[kind |-> k, trie |-> t]} ELSE {}
      BY <3>1, EncodedWillBe
    <3> QED
      BY <3>2 DEF k, t
  <2>6. \/ Content' = [kind |-> kind[p], trie |-> holds[p]]
        \/ mayFail /\ Content' = Nothing
    <3>1. CASE file' = Encoding(kind[p], holds[p])
      BY <1>3, <2>3, <2>5, <3>1 DEF Content
    <3>2. CASE file' # Encoding(kind[p], holds[p])
      BY <1>3, <2>5, <3>2 DEF Content
    <3> QED
      BY <3>1, <3>2
  <2> QED
    BY <1>1, <2>1, <2>6 DEF Register!Stores, Content
<1> QED
  BY <1>2, <1>3

LEMMA CloseRefines ==
  ASSUME Inv, NEW p \in Program, Close(p)
  PROVE  Register!EndWrite(p)
<1>1. /\ p \in Writing /\ EndWrite(p)
      /\ kind' = kind /\ holds' = holds
      /\ muddled' = muddled /\ overlapped' = overlapped
  BY DEF Close, Writing, memory, history
<1>2. p \notin Reading
  BY <1>1 DEF Writing, Reading
<1>3. Reading' = Reading
  <2>1. Reading' = Reading \ {p}
    BY <1>1, EndWriteIs DEF Inv
  <2> QED
    BY <1>2, <2>1
<1>4. ReadingIs' = ReadingIs
  BY <1>1, <1>3, ReadingKept
<1>5. ~ muddled => /\ file' \in Seq(Byte)
                   /\ Begins(file', Encoding(kind[p], holds[p]))
                   /\ p \in faulty \/ file' = Encoding(kind[p], holds[p])
  <2> SUFFICES ASSUME ~ muddled
               PROVE  /\ file' \in Seq(Byte)
                      /\ Begins(file', Encoding(kind[p], holds[p]))
                      /\ p \in faulty \/ file' = Encoding(kind[p], holds[p])
    OBVIOUS
  <2>1. PICK q \in Program : SoleWriter(q)
    BY <1>1 DEF Inv, FileIsBegun
  <2>2. SoleWriter(p)
    BY <1>1, <2>1 DEF SoleWriter
  <2> QED
    BY <2>2, SoleWriterCloses DEF Inv
<1>6. Register!Stores(p, p \in faulty)
  <2> DEFINE mayFail == p \in faulty
  <2>1. mayFail \in BOOLEAN
    OBVIOUS
  <2>2. ~ muddled => /\ file' \in Seq(Byte)
                     /\ Begins(file', Encoding(kind[p], holds[p]))
                     /\ mayFail \/ file' = Encoding(kind[p], holds[p])
    BY <1>5
  <2> HIDE DEF mayFail
  <2>3. Register!Stores(p, mayFail)
    BY <1>1, <2>1, <2>2, EndWriteStores
  <2> QED
    BY <2>3 DEF mayFail
<1> QED
  BY <1>1, <1>4, <1>6 DEF Register!EndWrite, ReadingIs

LEMMA CrashRefines ==
  ASSUME Inv, NEW p \in Program, Crash(p)
  PROVE  Register!Crash(p)
<1>1. /\ EndWrite(p)
      /\ file' = file /\ kind' = kind
      /\ holds' = [holds EXCEPT ![p] = NoTrie]
      /\ muddled' = muddled /\ overlapped' = overlapped \ {p}
  BY DEF Crash
<1>2. /\ Writing' = Writing \ {p} /\ Reading' = Reading \ {p}
      /\ faulty' = faulty \ {p}
  BY <1>1, EndWriteIs DEF Inv
<1>3. ReadingIs' = [ReadingIs EXCEPT ![p] = "no"]
  BY <1>1, <1>2 DEF ReadingIs
<1>4. CASE p \in Writing
  <2>1. ~ muddled => /\ file' \in Seq(Byte)
                     /\ Begins(file', Encoding(kind[p], holds[p]))
    <3> SUFFICES ASSUME ~ muddled
                 PROVE  /\ file' \in Seq(Byte)
                        /\ Begins(file', Encoding(kind[p], holds[p]))
      OBVIOUS
    <3>1. PICK q \in Program : SoleWriter(q)
      BY <1>4 DEF Inv, FileIsBegun
    <3>2. SoleWriter(p)
      BY <1>4, <3>1 DEF SoleWriter
    <3> QED
      BY <1>1, <3>2, SoleWriterBegins DEF Inv
  <2>2. Register!Stores(p, TRUE)
    BY <1>1, <1>4, <2>1, EndWriteStores
  <2> QED
    BY <1>1, <1>3, <1>4, <2>2 DEF Register!Crash, ReadingIs
<1>5. CASE p \notin Writing
  <2>1. Writing' = Writing /\ faulty' = faulty
    BY <1>2, <1>5 DEF Inv, TypeInv, Types
  <2>2. Content' = Content
    BY <1>1, <2>1, StoredKept
  <2> QED
    BY <1>1, <1>3, <1>5, <2>1, <2>2 DEF Register!Crash, ReadingIs
<1> QED
  BY <1>4, <1>5

-----------------------------------------------------------------------------
(* The end of a read: what a clean reader sees is what the last writer     *)
(* left.                                                                   *)
LEMMA CleanReader ==
  ASSUME Inv, NEW p \in Reading \ overlapped, ~ muddled
  PROVE  /\ Writing = {} /\ CleanRead(p) /\ file \in Seq(Byte)
         /\ \E k \in Kind, t \in Storable :
              /\ Begins(file, Encoding(k, t))
              /\ Content = IF file = Encoding(k, t)
                           THEN [kind |-> k, trie |-> t] ELSE Nothing
<1>1. CleanRead(p) /\ Writing = {} /\ file # NoFile
  BY DEF Inv, CleanRead
<1>2. file \in Seq(Byte)
  BY <1>1, FileBegins
<1>3. PICK k \in Kind, t \in Storable : Begins(file, Encoding(k, t))
  BY <1>1, FileBegins
<1>4. Encoded = IF file = Encoding(k, t) THEN {[kind |-> k, trie |-> t]} ELSE {}
  BY <1>2, <1>3, EncodedIs
<1>5. Content = IF file = Encoding(k, t) THEN [kind |-> k, trie |-> t] ELSE Nothing
  BY <1>1, <1>4 DEF Content
<1> QED
  BY <1>1, <1>2, <1>3, <1>5

(* A record of a kind and a trie stands for itself. *)
LEMMA StoredIsSomething ==
  ASSUME NEW k \in Kind, NEW t \in Storable
  PROVE  [kind |-> k, trie |-> t] # Nothing
<1>1. [kind |-> k, trie |-> t] \in [kind : Kind, trie : Storable]
  OBVIOUS
<1> QED
  BY <1>1, NothingIsStored

(* An encoding reads back, segment by segment. *)
LEMMA EncodingReads ==
  ASSUME NEW k \in Kind, NEW t \in Storable, file = Encoding(k, t)
  PROVE  LET h == Header(k, t)
         IN  /\ h.table.first # 0 => Has(h.table)
             /\ t.table = IF h.table.first = 0 THEN <<>> ELSE Bytes(h.table)
             /\ Has(h.trie) /\ t.trie = Bytes(h.trie)
<1> DEFINE h == Header(k, t)
           l == HeaderSize(k)
           scores == t.table
           tree == t.trie
           m == Len(scores)
           n == Len(tree)
<1>1. /\ file \in Seq(Byte) /\ Len(file) = l + m + n
      /\ \A i \in 1 .. m : file[l + i] = scores[i]
      /\ \A i \in 1 .. n : file[l + m + i] = tree[i]
  BY EncodingIs
<1>2. /\ scores \in Seq(Byte) /\ tree \in Seq(Byte)
      /\ l \in Nat /\ m \in Nat /\ n \in Nat
      /\ Len(scores) = m /\ Len(tree) = n
  BY KindIs, StorableIs
<1>3. /\ scores = <<>> => h.table.first = 0
      /\ scores # <<>> => h.table.first = l /\ h.table.first # 0 /\ h.table.size = m
      /\ h.trie.first = l + m /\ h.trie.size = n
  BY HeaderIs
<1> HIDE DEF h, l, scores, tree, m, n
<1>4. SubSeq(file, l + 1, l + m) = scores
  <2>1. /\ l + Len(scores) <= Len(file)
        /\ \A i \in 1 .. Len(scores) : file[l + i] = scores[i]
    BY <1>1, <1>2
  <2>2. SubSeq(file, l + 1, l + Len(scores)) = scores
    BY <1>1, <1>2, <2>1, PartOf
  <2> QED
    BY <1>2, <2>2
<1>5. SubSeq(file, l + m + 1, l + m + n) = tree
  <2> DEFINE first == l + m
  <2>1. /\ first \in Nat /\ first + Len(tree) <= Len(file)
        /\ \A i \in 1 .. Len(tree) : file[first + i] = tree[i]
    BY <1>1, <1>2
  <2> HIDE DEF first
  <2>2. SubSeq(file, first + 1, first + Len(tree)) = tree
    BY <1>1, <1>2, <2>1, PartOf
  <2> QED
    BY <1>2, <2>2 DEF first
<1>6. Has(h.trie) /\ Bytes(h.trie) = tree
  BY <1>1, <1>2, <1>3, <1>5 DEF Has, Bytes
<1>7. scores # <<>> => Has(h.table) /\ Bytes(h.table) = scores
  <2> SUFFICES ASSUME scores # <<>> PROVE Has(h.table) /\ Bytes(h.table) = scores
    OBVIOUS
  <2>1. h.table.first = l /\ h.table.size = m
    BY <1>3
  <2>2. l + m <= Len(file)
    BY <1>1, <1>2
  <2> QED
    BY <1>4, <2>1, <2>2 DEF Has, Bytes
<1> QED
  BY <1>3, <1>6, <1>7 DEF h, scores, tree

(* What is common to the steps that end a read. *)
LEMMA ReturnRefines ==
  ASSUME Inv, NEW p \in Reading, NEW trie, Return(p, trie),
         file' = file, kind' = kind, UNCHANGED <<streams, muddled>>,
         ~ muddled /\ p \notin overlapped =>
           trie = IF Content # Nothing /\ Content.kind = kind[p]
                  THEN Content.trie ELSE holds[p]
  PROVE  Register!EndRead(p)
<1>1. /\ p \in Program
      /\ holds' = [holds EXCEPT ![p] = trie]
      /\ pc' = [pc EXCEPT ![p] = "idle"]
      /\ faulty' = faulty
      /\ muddled' = muddled /\ overlapped' = overlapped \ {p}
  BY DEF Return, Goto, Reading, streams
<1>2. /\ pc'[p] = "idle" /\ \A q \in Program \ {p} : pc'[q] = pc[q]
      /\ holds \in [Program -> Trie \cup {NoTrie}]
  BY <1>1 DEF Inv, TypeInv, Types
<1>3. Writing' = Writing /\ Reading' = Reading \ {p}
  BY <1>2 DEF Writing, Reading
<1>4. Content' = Content
  BY <1>1, <1>3, StoredKept
<1>5. /\ ReadingIs[p] = IF p \in overlapped THEN "overlapped" ELSE "clean"
      /\ ReadingIs' = [ReadingIs EXCEPT ![p] = "no"]
  BY <1>1, <1>3 DEF ReadingIs
<1>6. DOMAIN holds' = Program /\ \A q \in Program \ {p} : holds'[q] = holds[q]
  BY <1>1, <1>2
<1>7. CASE muddled \/ p \in overlapped
  <2>1. ReadingIs[p] = "overlapped" \/ Content = Anything
    BY <1>5, <1>7 DEF Content
  <2> QED
    BY <1>1, <1>3, <1>4, <1>5, <1>6, <2>1
    DEF Register!EndRead, Register!OnlyHolds, ReadingIs
<1>8. CASE ~ muddled /\ p \notin overlapped
  <2>1. holds' = IF Content # Nothing /\ Content.kind = kind[p]
                 THEN [holds EXCEPT ![p] = Content.trie]
                 ELSE holds
    BY <1>1, <1>2, <1>8
  <2>2. ReadingIs[p] # "no"
    BY <1>5
  <2>3. IF ReadingIs[p] = "overlapped" \/ Content = Anything
        THEN Register!OnlyHolds(p)
        ELSE holds' = IF Content # Nothing /\ Content.kind = kind[p]
                      THEN [holds EXCEPT ![p] = Content.trie]
                      ELSE holds
    BY <1>6, <2>1 DEF Register!OnlyHolds
  <2> QED
    BY <1>1, <1>3, <1>4, <1>5, <2>2, <2>3
    DEF Register!EndRead, ReadingIs
<1> QED
  BY <1>7, <1>8

LEMMA OpenReadRefines ==
  ASSUME Inv, NEW p \in Program, OpenRead(p)
  PROVE  Register!BeginRead(p)
<1>1. /\ pc[p] = "idle"
      /\ file' = file /\ kind' = kind /\ holds' = holds /\ faulty' = faulty
      /\ muddled' = muddled
      /\ overlapped' = IF Writing = {} THEN overlapped
                       ELSE overlapped \cup {p}
      /\ overlapped \subseteq Reading
  BY DEF OpenRead, memory, streams, Inv, TypeInv, Types
<1>2. pc'[p] = "get header" /\ \A q \in Program \ {p} : pc'[q] = pc[q]
  BY DEF OpenRead, Goto, Inv, TypeInv, Types
<1>3. /\ p \notin Writing /\ p \notin Reading
      /\ Writing' = Writing /\ Reading' = Reading \cup {p}
  BY <1>1, <1>2 DEF Writing, Reading
<1>4. Content' = Content
  BY <1>1, <1>3, StoredKept
<1>5. ReadingIs[p] = "no"
  BY <1>3 DEF ReadingIs
<1>6. ReadingIs' = [ReadingIs EXCEPT ![p] = IF Writing = {} THEN "clean"
                                            ELSE "overlapped"]
  BY <1>1, <1>3 DEF ReadingIs
<1> QED
  BY <1>1, <1>3, <1>4, <1>5, <1>6
  DEF Register!BeginRead, Register!Idle, ReadingIs

(* A step of from_file that goes on. *)
LEMMA ReadOnRefines ==
  ASSUME Inv, NEW p \in Reading, NEW step \in {"get table", "get trie"},
         Goto(p, step), file' = file, kind' = kind, holds' = holds,
         UNCHANGED <<streams, muddled, overlapped>>
  PROVE  UNCHANGED Register!vars
<1>1. /\ p \in Program /\ faulty' = faulty
      /\ muddled' = muddled /\ overlapped' = overlapped
  BY DEF Reading, streams
<1>2. pc'[p] = step /\ \A q \in Program \ {p} : pc'[q] = pc[q]
  BY <1>1 DEF Goto, Inv, TypeInv, Types
<1>3. Writing' = Writing /\ Reading' = Reading
  BY <1>1, <1>2 DEF Writing, Reading
<1>4. Content' = Content /\ ReadingIs' = ReadingIs
  BY <1>1, <1>3, StoredKept, ReadingKept
<1> QED
  BY <1>1, <1>3, <1>4 DEF Register!vars, ReadingIs

(* What a clean reader finds when the file holds a trie of its own kind.   *)
LEMMA CleanFinds ==
  ASSUME Inv, NEW p \in Reading \ overlapped, ~ muddled, Content # Nothing,
         NEW k, k = kind[p], NEW t, t = Content.trie, Content.kind = k
  PROVE  /\ k \in Kind /\ t \in Storable /\ file = Encoding(k, t)
         /\ Content = [kind |-> k, trie |-> t]
<1>1. PICK j \in Kind, u \in Storable :
        Content = IF file = Encoding(j, u)
                  THEN [kind |-> j, trie |-> u] ELSE Nothing
  BY CleanReader
<1> QED
  BY <1>1

LEMMA ReadHeaderRefines ==
  ASSUME Inv, NEW p \in Program, ReadHeader(p)
  PROVE  Register!EndRead(p) \/ UNCHANGED Register!vars
<1>1. /\ p \in Reading /\ file' = file /\ kind' = kind
      /\ UNCHANGED <<streams, muddled>>
  BY DEF ReadHeader, Reading
<1>2. CASE Accepts(kind[p])
  <2>1. /\ Goto(p, "get table") /\ holds' = holds
        /\ UNCHANGED <<streams, muddled, overlapped>>
    BY <1>2 DEF ReadHeader
  <2> QED
    BY <1>1, <2>1, ReadOnRefines
<1>3. CASE ~ Accepts(kind[p])
  <2>1. Return(p, holds[p])
    BY <1>3 DEF ReadHeader, Refuse
  <2>2. ASSUME ~ muddled, p \notin overlapped,
               Content # Nothing, Content.kind = kind[p]
        PROVE  FALSE
    <3> DEFINE k == kind[p]
               t == Content.trie
               e == Encoding(k, t)
    <3>1. k \in Kind /\ t \in Storable /\ file = e
      BY <1>1, <2>2, CleanFinds
    <3>2. /\ e \in Seq(Byte)
          /\ Len(e) = HeaderSize(k) + Len(t.table) + Len(t.trie)
          /\ HeaderSize(k) \in Nat /\ Len(t.table) \in Nat /\ Len(t.trie) \in Nat
      BY <3>1, EncodingIs, KindIs, StorableIs
    <3>3. Begins(file, e) /\ Len(file) >= HeaderSize(k) /\ file \in Seq(Byte)
      BY <3>1, <3>2 DEF Begins
    <3> HIDE DEF k, t
    <3>4. Accepts(k)
      BY <3>1, <3>3, OwnIsAccepted
    <3> QED
      BY <1>3, <3>4 DEF k
  <2>3. ~ muddled /\ p \notin overlapped =>
          holds[p] = IF Content # Nothing /\ Content.kind = kind[p]
                     THEN Content.trie ELSE holds[p]
    BY <2>2
  <2> QED
    BY <1>1, <2>1, <2>3, ReturnRefines
<1> QED
  BY <1>2, <1>3

(* A clean reader past the header, and the trie that was stored. *)
LEMMA CleanHeader ==
  ASSUME Inv, NEW p \in Reading \ overlapped, ~ muddled, pc[p] # "get header"
  PROVE  \E t \in Storable :
           /\ kind[p] \in Kind
           /\ header[p] = Header(kind[p], t)
           /\ file \in Seq(Byte) /\ Begins(file, Encoding(kind[p], t))
           /\ Content = IF file = Encoding(kind[p], t)
                        THEN [kind |-> kind[p], trie |-> t] ELSE Nothing
<1>1. /\ CleanRead(p) /\ file \in Seq(Byte)
  BY CleanReader
<1>2. PICK k \in Kind, t \in Storable :
              /\ Begins(file, Encoding(k, t))
              /\ Content = IF file = Encoding(k, t)
                           THEN [kind |-> k, trie |-> t] ELSE Nothing
  BY CleanReader
<1>3. Accepts(kind[p]) /\ header[p] = HeaderRead(kind[p])
  BY <1>1 DEF CleanRead
<1>4. kind[p] \in Kind
  BY KindOfProgram DEF Inv, TypeInv, Types, Reading
<1>5. kind[p] = k /\ HeaderRead(kind[p]) = Header(k, t)
  BY <1>1, <1>2, <1>3, <1>4, AcceptedIsOwn
<1> QED
  BY <1>1, <1>2, <1>3, <1>5

LEMMA ReadTableRefines ==
  ASSUME Inv, NEW p \in Program, ReadTable(p)
  PROVE  Register!EndRead(p) \/ UNCHANGED Register!vars
<1> DEFINE segment == header[p].table
           good == segment.first = 0 \/ (segment.size # 0 /\ Has(segment))
<1>1. /\ p \in Reading /\ pc[p] = "get table" /\ file' = file /\ kind' = kind
      /\ UNCHANGED <<streams, muddled>>
  BY DEF ReadTable, Reading
<1>2. CASE good
  <2>1. /\ Goto(p, "get trie") /\ holds' = holds
        /\ UNCHANGED <<streams, muddled, overlapped>>
    BY <1>2 DEF ReadTable
  <2> QED
    BY <1>1, <2>1, ReadOnRefines
<1>3. CASE ~ good
  <2>1. Return(p, holds[p])
    BY <1>3 DEF ReadTable, Refuse
  <2>2. ASSUME ~ muddled, p \notin overlapped, Content # Nothing
        PROVE  FALSE
    <3>1. PICK t \in Storable :
            /\ kind[p] \in Kind
            /\ header[p] = Header(kind[p], t)
            /\ Content = IF file = Encoding(kind[p], t)
                         THEN [kind |-> kind[p], trie |-> t] ELSE Nothing
      BY <1>1, <2>2, CleanHeader
    <3>2. file = Encoding(kind[p], t)
      BY <2>2, <3>1
    <3>3. segment.first # 0 => Has(segment)
      BY <3>1, <3>2, EncodingReads
    <3>4. segment.first = 0 \/ segment.size # 0
      BY <3>1, HeaderIs
    <3> QED
      BY <1>3, <3>3, <3>4
  <2>3. ~ muddled /\ p \notin overlapped =>
          holds[p] = IF Content # Nothing /\ Content.kind = kind[p]
                     THEN Content.trie ELSE holds[p]
    BY <2>2
  <2> QED
    BY <1>1, <2>1, <2>3, ReturnRefines
<1> QED
  BY <1>2, <1>3

(* A file with all bytes of its trie is the whole encoding. *)
LEMMA BegunIsWhole ==
  ASSUME NEW k \in Kind, NEW t \in Storable, file \in Seq(Byte),
         Begins(file, Encoding(k, t)), Has(Header(k, t).trie)
  PROVE  file = Encoding(k, t)
<1> DEFINE e == Encoding(k, t)
<1>1. /\ e \in Seq(Byte)
      /\ Len(e) = HeaderSize(k) + Len(t.table) + Len(t.trie)
  BY EncodingIs
<1>2. /\ Header(k, t).trie.first = HeaderSize(k) + Len(t.table)
      /\ Header(k, t).trie.size = Len(t.trie)
  BY HeaderIs
<1>3. Len(file) >= Len(e)
  <2>1. HeaderSize(k) \in Nat /\ Len(t.table) \in Nat /\ Len(t.trie) \in Nat
        /\ Len(file) \in Nat
    BY KindIs, StorableIs
  <2> QED
    BY <1>1, <1>2, <2>1 DEF Has
<1> HIDE DEF e
<1> QED
  BY <1>1, <1>3, BeginsAll DEF e

LEMMA ReadTrieRefines ==
  ASSUME Inv, NEW p \in Program, ReadTrie(p)
  PROVE  Register!EndRead(p)
<1> DEFINE segment == header[p].trie
           read == [table |-> table[p], trie |-> Bytes(segment)]
<1>1. /\ p \in Reading /\ pc[p] = "get trie" /\ file' = file /\ kind' = kind
      /\ UNCHANGED <<streams, muddled>>
  BY DEF ReadTrie, Reading
<1>2. ASSUME ~ muddled, p \notin overlapped
      PROVE  IF Has(segment)
             THEN Content = [kind |-> kind[p], trie |-> read]
                  /\ Content # Nothing
             ELSE Content = Nothing
  <2>1. table[p] = IF header[p].table.first = 0 THEN <<>>
                   ELSE Bytes(header[p].table)
    BY <1>1, <1>2 DEF Inv, CleanRead
  <2>2. PICK t \in Storable :
           /\ kind[p] \in Kind
           /\ header[p] = Header(kind[p], t)
           /\ file \in Seq(Byte) /\ Begins(file, Encoding(kind[p], t))
           /\ Content = IF file = Encoding(kind[p], t)
                        THEN [kind |-> kind[p], trie |-> t] ELSE Nothing
    BY <1>1, <1>2, CleanHeader
  <2>3. CASE file = Encoding(kind[p], t)
    <3>1. /\ Has(segment) /\ t.trie = Bytes(segment)
          /\ t.table = IF header[p].table.first = 0 THEN <<>>
                       ELSE Bytes(header[p].table)
      BY <2>2, <2>3, EncodingReads
    <3>2. read = t
      BY <2>1, <3>1, StorableIs
    <3>3. [kind |-> kind[p], trie |-> t] # Nothing
      BY <2>2, StoredIsSomething
    <3> QED
      BY <2>2, <2>3, <3>1, <3>2, <3>3
  <2>4. CASE file # Encoding(kind[p], t)
    <3>1. ~ Has(segment)
      BY <2>2, <2>4, BegunIsWhole
    <3> QED
      BY <2>2, <2>4, <3>1
  <2> QED
    BY <2>3, <2>4
<1>3. CASE Has(segment)
  <2>1. Return(p, read)
    BY <1>3 DEF ReadTrie
  <2>2. ~ muddled /\ p \notin overlapped =>
          read = IF Content # Nothing /\ Content.kind = kind[p]
                 THEN Content.trie ELSE holds[p]
    BY <1>2, <1>3
  <2> HIDE DEF read
  <2> QED
    BY <1>1, <2>1, <2>2, ReturnRefines
<1>4. CASE ~ Has(segment)
  <2>1. Return(p, holds[p])
    BY <1>4 DEF ReadTrie, Refuse
  <2>2. ~ muddled /\ p \notin overlapped =>
          holds[p] = IF Content # Nothing /\ Content.kind = kind[p]
                     THEN Content.trie ELSE holds[p]
    BY <1>2, <1>4
  <2> QED
    BY <1>1, <2>1, <2>2, ReturnRefines
<1> QED
  BY <1>3, <1>4

-----------------------------------------------------------------------------
(* Every step is a step of the safe register, or none. *)
LEMMA NextRefines == Inv /\ [Next]_vars => [Register!Next]_(Register!vars)
<1> SUFFICES ASSUME Inv, [Next]_vars
             PROVE  [Register!Next]_(Register!vars)
  OBVIOUS
<1>1. ASSUME NEW p \in Program, NEW trie \in Built, FromMemory(p, trie)
      PROVE  Register!Next
  BY <1>1, FromMemoryRefines DEF Register!Next
<1>2. ASSUME NEW p \in Program, OpenWrite(p) \/ Close(p) \/ Fault(p)
      PROVE  Register!Next
  BY <1>2, OpenWriteRefines, CloseRefines, FaultRefines DEF Register!Next
<1>3. ASSUME NEW p \in Program, PutHeader(p) \/ PutTable(p) \/ PutTrie(p)
      PROVE  UNCHANGED Register!vars
  BY <1>3, PutRefines
<1>4. ASSUME NEW p \in Program,
             OpenRead(p) \/ ReadHeader(p) \/ ReadTable(p) \/ ReadTrie(p)
      PROVE  Register!Next \/ UNCHANGED Register!vars
  BY <1>4, OpenReadRefines, ReadHeaderRefines, ReadTableRefines, ReadTrieRefines
  DEF Register!Next
<1>5. ASSUME NEW p \in Program, Crash(p)
      PROVE  Register!Next
  BY <1>5, CrashRefines DEF Register!Next
<1>6. CASE UNCHANGED vars
  <2>1. /\ file' = file /\ kind' = kind /\ holds' = holds /\ faulty' = faulty
        /\ muddled' = muddled /\ overlapped' = overlapped
        /\ Writing' = Writing /\ Reading' = Reading
    BY <1>6 DEF vars, memory, streams, history, Writing, Reading
  <2>2. Content' = Content /\ ReadingIs' = ReadingIs
    BY <2>1, StoredKept, ReadingKept
  <2> QED
    BY <2>1, <2>2 DEF Register!vars, ReadingIs
<1> QED
  BY <1>1, <1>2, <1>3, <1>4, <1>5, <1>6 DEF Next

(* A trie that was written is read as it was written or refused, whatever  *)
(* crashes and failing devices do to the writers, unless two of them write *)
(* at once or one writes while the trie is read (write and from_file).     *)
THEOREM FileIsSafe == Spec => IsSafeFile
BY InitInv, NextInv, InitRefines, NextRefines, PTL
DEF Spec, IsSafeFile, Register!Spec
=============================================================================
