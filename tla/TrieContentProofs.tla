------------------------- MODULE TrieContentProofs --------------------------
(***************************************************************************)
(* What the builder serialises can be read: for every alphabet, every      *)
(* input and every label size, the bytes of a trie are laid out the way    *)
(* the sibling iteration walks over them, and hold the input.              *)
(***************************************************************************)
EXTENDS BuilderRefinement, TrieBuilderProofs, FiniteSetTheorems

-----------------------------------------------------------------------------
(* The bytes of one node.                                                  *)

Cell == Header \cup {Pad}

LEMMA PositiveProduct ==
  ASSUME NEW x \in Nat \ {0}, NEW y \in Nat \ {0}
  PROVE  x * y \in Nat \ {0}
OBVIOUS

(* The weight of the top bit of a word is a number. *)
LEMMA WordTopIsPositive == WordTop \in Nat \ {0}
<1> DEFINE IsCapacity(f) == f = [k \in Nat |-> IF k = 0 THEN 1 ELSE Base * f[k - 1]]
           next == [k \in Nat |-> IF k = 0 THEN 0 ELSE k - 1]
           step == [k \in Nat |-> [v \in Nat |-> Base * v]]
<1>1. Base \in Nat \ {0}
  BY TopBitAssumption DEF Base
<1>2. IsRecursion(Nat, 1, next, step)
  <2>1. step \in [Nat -> [Nat -> Nat]]
    BY <1>1
  <2>2. next \in [Nat -> Nat] /\ \A n \in Nat \ {0} : next[n] < n
    OBVIOUS
  <2> HIDE DEF step, next
  <2> QED
    BY <2>1, <2>2 DEF IsRecursion
<1>3. PICK f \in [Nat -> Nat] :
        f[0] = 1 /\ \A n \in Nat \ {0} : f[n] = step[n][f[next[n]]]
  <2> DEFINE S == Nat
  <2> HIDE DEF next, step, S
  <2>1. IsRecursion(S, 1, next, step)
    BY <1>2 DEF S
  <2> QED
    BY <2>1, RecursionDefines DEF S
<1>4. IsCapacity(f)
  <2>1. ASSUME NEW n \in Nat \ {0} PROVE f[n] = Base * f[n - 1]
    <3>1. next[n] = n - 1 /\ n - 1 \in Nat
      OBVIOUS
    <3>2. f[n - 1] \in Nat
      BY <1>3, <3>1
    <3>3. \A v \in Nat : step[n][v] = Base * v
      OBVIOUS
    <3>4. f[n] = step[n][f[next[n]]]
      BY <1>3
    <3> HIDE DEF next, step
    <3> QED
      BY <3>1, <3>2, <3>3, <3>4
  <2> QED
    BY <1>3, <2>1
<1>5. IsCapacity(Capacity)
  BY <1>4 DEF Capacity
<1>6. /\ Capacity[0] = 1
      /\ Capacity[1] = Base * Capacity[0]
      /\ Capacity[2] = Base * Capacity[1]
      /\ Capacity[3] = Base * Capacity[2]
  BY <1>5
<1> DEFINE c1 == Capacity[1]
           c2 == Capacity[2]
           c3 == Capacity[3]
<1>7. c1 \in Nat \ {0}
  BY <1>1, <1>6
<1>8. c2 \in Nat \ {0}
  BY <1>1, <1>6, <1>7, PositiveProduct
<1>9. c3 \in Nat \ {0}
  BY <1>1, <1>6, <1>8, PositiveProduct
<1> QED
  BY <1>9, TopBitAssumption, PositiveProduct DEF WordTop

(* The groups of a rank wider than a word are finitely many. *)
LEMMA GroupsAreFinite == \A h \in Nat : Len(PutGroups(h)) \in Nat
<1> DEFINE IsGroups(f) ==
             f = [h \in Nat |->
                    IF h = 0 THEN <<>>
                    ELSE <<(h % TopBit) + (IF h >= TopBit THEN TopBit ELSE 0)>>
                           \o f[h \div TopBit]]
           groups  == CHOOSE f : IsGroups(f)
           next    == [h \in Nat |-> IF h = 0 THEN 0 ELSE h \div TopBit]
           byte(h) == (h % TopBit) + (IF h >= TopBit THEN TopBit ELSE 0)
           step    == [h \in Nat |-> [v \in Seq(Int) |-> <<byte(h)>> \o v]]
           S       == Seq(Int)
<1>1. \A h \in Nat : byte(h) \in Int /\ h \div TopBit \in Nat
  BY TopBitAssumption
<1>2. \A h \in Nat \ {0} : h \div TopBit < h
  <2> SUFFICES ASSUME NEW h \in Nat \ {0}, NEW q, q = h \div TopBit, ~(q < h)
               PROVE  FALSE
    BY Zenon
  <2>1. q \in Nat /\ q * TopBit <= h
    BY TopBitAssumption
  <2>2. q * 2 <= q * TopBit
    BY <2>1, TopBitAssumption
  <2> HIDE DEF next
  <2> QED
    BY <2>1, <2>2, TopBitAssumption
<1>3. IsRecursion(S, <<>>, next, step)
  <2>1. next \in [Nat -> Nat]
    BY <1>1
  <2>2. \A h \in Nat \ {0} : next[h] < h
    BY <1>2
  <2>3. step \in [Nat -> [S -> S]]
    <3> HIDE DEF byte
    <3> QED
      BY <1>1
  <2> HIDE DEF next, step
  <2> QED
    BY <2>1, <2>2, <2>3 DEF IsRecursion
<1>4. PICK f \in [Nat -> S] :
        f[0] = <<>> /\ \A n \in Nat \ {0} : f[n] = step[n][f[next[n]]]
  <2> HIDE DEF next, step, S
  <2> QED
    BY <1>3, RecursionDefines
<1>5. ASSUME NEW h \in Nat \ {0} PROVE f[h] = <<byte(h)>> \o f[h \div TopBit]
  <2>1. next[h] = h \div TopBit /\ h \div TopBit \in Nat
    BY <1>1
  <2>2. f[h \div TopBit] \in S
    BY <1>4, <2>1
  <2>3. \A v \in S : step[h][v] = <<byte(h)>> \o v
    OBVIOUS
  <2>4. f[h] = step[h][f[next[h]]]
    BY <1>4
  <2> HIDE DEF S, next, step, byte
  <2> QED
    BY <2>1, <2>2, <2>3, <2>4
<1>6. IsGroups(f)
  <2>1. ASSUME NEW h \in Nat
        PROVE  f[h] = IF h = 0 THEN <<>> ELSE <<byte(h)>> \o f[h \div TopBit]
    BY <1>4, <1>5
  <2>2. f = [h \in Nat |-> f[h]]
    BY <1>4
  <2> QED
    BY <2>1, <2>2
<1>7. IsGroups(groups)
  BY <1>6
<1>8. \A h \in Nat : PutGroups(h) = groups[h]
  BY DEF PutGroups
<1> HIDE DEF groups, next, step
<1>9. /\ groups[0] = <<>>
      /\ \A h \in Nat \ {0} : groups[h] = <<byte(h)>> \o groups[h \div TopBit]
  BY <1>7
<1> HIDE DEF byte
<1>10. /\ <<>> \in S
       /\ \A h \in Nat : \A v \in S : <<byte(h)>> \o v \in S
  BY <1>1, EmptySeq, ConcatProperties
<1> HIDE DEF S
<1> DEFINE T == {h \in Nat : groups[h] \notin S}
<1>11. T = {}
  <2> SUFFICES ASSUME T # {} PROVE FALSE
    OBVIOUS
  <2>1. PICK h \in T : \A l \in T : h <= l
    <3>1. T \subseteq Nat
      OBVIOUS
    <3> HIDE DEF T
    <3> QED
      BY <3>1, LeastNumber
  <2>2. h \in Nat \ {0}
    BY <1>9, <1>10, <2>1
  <2> DEFINE q == h \div TopBit
  <2>3. q \in Nat /\ q < h
    BY <1>1, <1>2, <2>2
  <2>4. groups[h] = <<byte(h)>> \o groups[q]
    BY <1>9, <2>2
  <2> HIDE DEF q
  <2>5. groups[q] \in S
    BY <2>1, <2>2, <2>3
  <2>6. groups[h] \in S
    BY <1>10, <2>2, <2>4, <2>5
  <2> QED
    BY <2>1, <2>6
<1>12. \A h \in Nat : groups[h] \in S
  BY <1>11
<1> QED
  BY <1>8, <1>12, LenProperties DEF S

(* A node is at least as wide as its header byte. *)
LEMMA WidthIsPositive ==
  ASSUME NEW head \in Header
  PROVE  NodeWidth(head) \in Nat \ {0}
<1>1. \A n \in Nat : OffsetSize(n) \in Nat
  BY DEF OffsetSize, CodewordSize
<1>2. \A n \in Nat : RankSize(n) \in Nat
  <2> SUFFICES ASSUME NEW n \in Nat PROVE RankSize(n) \in Nat
    OBVIOUS
  <2>2. n \div WordTop \in Nat
    BY WordTopIsPositive
  <2> QED
    BY <2>2, GroupsAreFinite DEF RankSize, CodewordSize
<1>3. Len(head.label) \in Nat
  BY DEF Header
<1> DEFINE x == OffsetSize(head.offset)
           y == RankSize(head.rank)
           z == Len(head.label)
<1>4. x \in Nat /\ y \in Nat /\ z \in Nat
  BY <1>1, <1>2, <1>3 DEF Header
<1>5. NodeWidth(head) = 1 + x + z + y
  BY DEF NodeWidth
<1> HIDE DEF x, y, z
<1> QED
  BY <1>4, <1>5

(* serialise_node appends the header and then the other bytes. *)
LEMMA SerialisedNode ==
  ASSUME NEW label \in Seq(Char), NEW rank \in Nat, NEW offset \in Nat,
         NEW leaf \in BOOLEAN
  PROVE  LET head == [label |-> label, rank |-> rank, offset |-> offset,
                      leaf |-> leaf]
             bytes == SerialiseNode(label, rank, offset, leaf)
         IN  /\ head \in Header
             /\ bytes \in Seq(Cell)
             /\ Len(bytes) = NodeWidth(head)
             /\ bytes[1] = head
             /\ \A i \in 2 .. Len(bytes) : bytes[i] = Pad
<1> DEFINE head  == [label |-> label, rank |-> rank, offset |-> offset,
                     leaf |-> leaf]
           width == NodeWidth(head)
           rest  == [i \in 1 .. width - 1 |-> Pad]
<1>1. head \in Header
  BY DEF Header
<1>2. SerialiseNode(label, rank, offset, leaf) = <<head>> \o rest
  BY DEF SerialiseNode
<1> HIDE DEF head
<1>3. width \in Nat \ {0}
  BY <1>1, WidthIsPositive
<1> HIDE DEF width
<1>4. rest \in Seq(Cell) /\ Len(rest) = width - 1
  <2>1. width - 1 \in Nat /\ rest \in [1 .. width - 1 -> Cell]
    BY <1>3 DEF Cell
  <2> HIDE DEF rest
  <2> QED
    BY <2>1, FunctionIsSeq
<1>5. <<head>> \in Seq(Cell) /\ Len(<<head>>) = 1 /\ <<head>>[1] = head
  BY <1>1 DEF Cell
<1>6. \A i \in 1 .. width - 1 : rest[i] = Pad
  OBVIOUS
<1> HIDE DEF rest
<1> DEFINE bytes == <<head>> \o rest
<1>7. /\ bytes \in Seq(Cell) /\ Len(bytes) = 1 + (width - 1)
      /\ \A i \in 1 .. 1 + (width - 1) :
           bytes[i] = IF i <= 1 THEN <<head>>[i] ELSE rest[i - 1]
  BY <1>4, <1>5, ConcatProperties
<1> HIDE DEF bytes
<1>8. bytes[1] = head /\ Len(bytes) = width
  BY <1>3, <1>5, <1>7
<1>9. \A i \in 2 .. Len(bytes) : bytes[i] = Pad
  BY <1>3, <1>6, <1>7
<1> QED
  BY <1>1, <1>2, <1>7, <1>8, <1>9 DEF head, width, bytes

-----------------------------------------------------------------------------
(* The concatenation of several sequences, one after the other.            *)

IsFlat(flat, xs) ==
  /\ flat[0] = <<>>
  /\ \A i \in 1 .. Len(xs) : flat[i] = flat[i - 1] \o xs[i]

(* FlattenSeq concatenates them. *)
LEMMA FlattenedSeq ==
  ASSUME NEW S, NEW xs \in Seq(Seq(S))
  PROVE  \E flat \in [0 .. Len(xs) -> Seq(S)] :
           IsFlat(flat, xs) /\ FlattenSeq(xs) = flat[Len(xs)]
<1> DEFINE n    == Len(xs)
           x(i) == IF i \in 1 .. n THEN xs[i] ELSE <<>>
           next == [i \in Nat |-> IF i = 0 THEN 0 ELSE i - 1]
           step == [i \in Nat |-> [v \in Seq(S) |-> v \o x(i)]]
           T    == Seq(S)
<1>1. n \in Nat /\ \A i \in 1 .. n : xs[i] \in T
  BY LenProperties, ElementOfSeq
<1> HIDE DEF n
<1>2. \A i \in Nat : x(i) \in T
  BY <1>1, EmptySeq
<1> HIDE DEF x
<1>3. <<>> \in T /\ \A i \in Nat : \A v \in T : v \o x(i) \in T
  BY <1>2, EmptySeq, ConcatProperties
<1>4. IsRecursion(T, <<>>, next, step)
  <2>1. step \in [Nat -> [T -> T]]
    BY <1>3
  <2>2. next \in [Nat -> Nat] /\ \A i \in Nat \ {0} : next[i] < i
    OBVIOUS
  <2> HIDE DEF step, next, T
  <2> QED
    BY <1>3, <2>1, <2>2 DEF IsRecursion
<1>5. PICK f \in [Nat -> T] :
        f[0] = <<>> /\ \A i \in Nat \ {0} : f[i] = step[i][f[next[i]]]
  <2> HIDE DEF next, step, T
  <2> QED
    BY <1>4, RecursionDefines
<1>6. ASSUME NEW i \in Nat \ {0} PROVE f[i] = f[i - 1] \o x(i)
  <2>1. next[i] = i - 1 /\ f[i - 1] \in T
    BY <1>5
  <2>2. \A v \in T : step[i][v] = v \o x(i)
    OBVIOUS
  <2>3. f[i] = step[i][f[next[i]]]
    BY <1>5
  <2> HIDE DEF next, step, T
  <2> QED
    BY <2>1, <2>2, <2>3
<1> HIDE DEF next, step
<1>10. ASSUME NEW i \in 1 .. n PROVE f[i] = f[i - 1] \o xs[i]
  <2>1. i \in Nat \ {0} /\ x(i) = xs[i]
    BY <1>1 DEF x
  <2> QED
    BY <1>6, <2>1
<1> DEFINE flat == [i \in 0 .. n |-> f[i]]
<1>7. flat \in [0 .. n -> T] /\ \A i \in 0 .. n : flat[i] = f[i]
  BY <1>1, <1>5
<1>8. IsFlat(flat, xs)
  <2>1. ASSUME NEW i \in 1 .. n PROVE flat[i] = flat[i - 1] \o xs[i]
    <3>1. i \in 0 .. n /\ i - 1 \in 0 .. n /\ i \in Nat \ {0}
      BY <1>1
    <3>2. x(i) = xs[i]
      BY DEF x
    <3> HIDE DEF flat
    <3> QED
      BY <1>6, <1>7, <3>1, <3>2
  <2>2. flat[0] = <<>>
    BY <1>1, <1>5
  <2> HIDE DEF flat
  <2> QED
    BY <2>1, <2>2 DEF IsFlat, n
<1> HIDE DEF flat
<1>9. FlattenSeq(xs) = flat[n]
  <2>1. CASE n = 0
    <3>1. xs = <<>>
      BY <2>1, EmptySeq DEF n
    <3>2. FlattenSeq(xs) = xs
      BY <2>1 DEF FlattenSeq, n
    <3> QED
      BY <1>8, <2>1, <3>1, <3>2 DEF IsFlat
  <2>2. CASE n # 0
    <3> DEFINE IsFlatten(g) ==
                 g = [i \in 1 .. n |-> IF i = 1 THEN xs[i] ELSE g[i - 1] \o xs[i]]
               flatten == CHOOSE g : IsFlatten(g)
               h == [i \in 1 .. n |-> f[i]]
    <3>1. FlattenSeq(xs) = flatten[n]
      BY <2>2 DEF FlattenSeq, n
    <3>2. IsFlatten(h)
      <4>1. ASSUME NEW i \in 1 .. n
            PROVE  h[i] = IF i = 1 THEN xs[i] ELSE h[i - 1] \o xs[i]
        <5>1. f[i] = f[i - 1] \o xs[i]
          BY <1>10
        <5>2. CASE i = 1
          <6>1. f[i - 1] = <<>> /\ xs[i] \in Seq(S)
            BY <1>1, <1>5, <5>2
          <6> QED
            BY <5>1, <5>2, <6>1, ConcatEmptySeq
        <5>3. CASE i # 1
          <6>1. i - 1 \in 1 .. n
            BY <1>1, <5>3
          <6> QED
            BY <5>1, <5>3, <6>1
        <5> QED
          BY <5>2, <5>3
      <4> QED
        BY <4>1
    <3>3. IsFlatten(flatten)
      BY <3>2
    <3> HIDE DEF flatten, h
    <3> DEFINE W == {i \in Nat : i \in 1 .. n /\ flatten[i] # f[i]}
    <3>4. W = {}
      <4> SUFFICES ASSUME W # {} PROVE FALSE
        OBVIOUS
      <4>1. PICK i \in W : \A l \in W : i <= l
        <5>1. W \subseteq Nat
          OBVIOUS
        <5> HIDE DEF W
        <5> QED
          BY <5>1, LeastNumber
      <4>2. i \in 1 .. n /\ f[i] = f[i - 1] \o xs[i]
        BY <1>10, <4>1
      <4>3. CASE i = 1
        <5>1. flatten[i] = xs[i] /\ xs[i] \in Seq(S) /\ f[i - 1] = <<>>
          BY <1>1, <1>5, <3>3, <4>1, <4>3
        <5> QED
          BY <4>1, <4>2, <5>1, ConcatEmptySeq
      <4>4. CASE i # 1
        <5> DEFINE q == i - 1
        <5>1. q \in 1 .. n /\ q \in Nat /\ q < i
          BY <1>1, <4>2, <4>4
        <5>2. flatten[i] = flatten[q] \o xs[i]
          BY <3>3, <4>2, <4>4
        <5> HIDE DEF q
        <5>3. q \notin W
          <6>1. q \in W => i <= q
            BY <4>1
          <6> QED
            BY <4>2, <5>1, <6>1
        <5>4. flatten[q] = f[q]
          BY <5>1, <5>3
        <5> QED
          BY <4>1, <4>2, <5>2, <5>4 DEF q
      <4> QED
        BY <4>3, <4>4
    <3>5. n \in 1 .. n /\ n \in 0 .. n
      BY <1>1, <2>2
    <3>6. flatten[n] = f[n]
      BY <1>1, <3>4, <3>5
    <3> QED
      BY <1>7, <3>1, <3>5, <3>6
  <2> QED
    BY <2>1, <2>2
<1> QED
  BY <1>7, <1>8, <1>9 DEF n, T

(* Where the parts stand in the whole, and that they fill it. *)
LEMMA Blocks ==
  ASSUME NEW S, NEW xs \in Seq(Seq(S)), NEW flat \in [0 .. Len(xs) -> Seq(S)],
         IsFlat(flat, xs), NEW m \in 0 .. Len(xs)
  PROVE  /\ \A i \in 0 .. m : Len(flat[i]) \in Nat /\ Len(flat[i]) <= Len(flat[m])
         /\ \A i \in 1 .. m :
              /\ Len(flat[i]) = Len(flat[i - 1]) + Len(xs[i])
              /\ \A p \in 1 .. Len(xs[i]) : flat[m][Len(flat[i - 1]) + p] = xs[i][p]
         /\ \A q \in 1 .. Len(flat[m]) :
              \E i \in 1 .. m : q > Len(flat[i - 1]) /\ q <= Len(flat[i])
<1> DEFINE n == Len(xs)
           size(i) == Len(flat[i])
           Good(k) ==
             /\ \A i \in 0 .. k : size(i) <= size(k)
             /\ \A i \in 1 .. k : \A p \in 1 .. Len(xs[i]) :
                  flat[k][size(i - 1) + p] = xs[i][p]
             /\ \A q \in 1 .. size(k) :
                  \E i \in 1 .. k : q > size(i - 1) /\ q <= size(i)
           W == {k \in Nat : k <= n /\ ~Good(k)}
<1>1. /\ n \in Nat /\ m \in Nat /\ m <= n
      /\ \A i \in 1 .. n : xs[i] \in Seq(S) /\ Len(xs[i]) \in Nat
      /\ \A i \in 0 .. n : flat[i] \in Seq(S) /\ size(i) \in Nat
  BY LenProperties, ElementOfSeq
<1>2. ASSUME NEW i \in 1 .. n
      PROVE  /\ size(i) = size(i - 1) + Len(xs[i])
             /\ \A p \in 1 .. size(i - 1) : flat[i][p] = flat[i - 1][p]
             /\ \A p \in 1 .. Len(xs[i]) : flat[i][size(i - 1) + p] = xs[i][p]
  <2>1. flat[i] = flat[i - 1] \o xs[i]
    BY DEF IsFlat
  <2>2. flat[i - 1] \in Seq(S) /\ xs[i] \in Seq(S)
    BY <1>1
  <2> DEFINE a == flat[i - 1]
             b == xs[i]
  <2>3. /\ Len(a \o b) = Len(a) + Len(b)
        /\ \A p \in 1 .. Len(a) + Len(b) :
             (a \o b)[p] = IF p <= Len(a) THEN a[p] ELSE b[p - Len(a)]
    BY <2>2, ConcatProperties
  <2>4. Len(a) \in Nat /\ Len(b) \in Nat
    BY <1>1
  <2> HIDE DEF a, b
  <2>5. /\ \A p \in 1 .. Len(a) : (a \o b)[p] = a[p]
        /\ \A p \in 1 .. Len(b) : (a \o b)[Len(a) + p] = b[p]
    BY <2>3, <2>4
  <2> QED
    BY <2>1, <2>3, <2>5 DEF a, b
<1> HIDE DEF size, n
<1>3. W = {}
  <2> SUFFICES ASSUME W # {} PROVE FALSE
    OBVIOUS
  <2>1. PICK k \in W : \A l \in W : k <= l
    <3>1. W \subseteq Nat
      OBVIOUS
    <3> HIDE DEF W
    <3> QED
      BY <3>1, LeastNumber
  <2>2. Good(0)
    <3>1. size(0) = 0
      BY EmptySeq DEF IsFlat, size
    <3> QED
      BY <3>1
  <2>3. k \in 1 .. n /\ k - 1 \in Nat /\ k - 1 <= n
    <3>1. k \in Nat /\ k <= n /\ k # 0
      BY <2>1, <2>2
    <3> HIDE DEF W, Good
    <3> QED
      BY <1>1, <3>1
  <2>4. Good(k - 1)
    <3> DEFINE q == k - 1
    <3>1. q \in Nat /\ q <= n /\ q < k
      BY <2>3
    <3>2. q \in W => k <= q
      BY <2>1
    <3> HIDE DEF q, Good
    <3>3. Good(q)
      BY <2>3, <3>1, <3>2
    <3> QED
      BY <3>3 DEF q
  <2> HIDE DEF W
  <2> DEFINE before == size(k - 1)
  <2>5. before \in Nat /\ size(k) \in Nat /\ Len(xs[k]) \in Nat
        /\ size(k) = before + Len(xs[k])
    <3>1. k - 1 \in 0 .. n /\ k \in 0 .. n
      BY <1>1, <2>3
    <3> QED
      BY <1>1, <1>2, <2>3, <3>1
  <2>6. ASSUME NEW i \in 0 .. k PROVE size(i) <= size(k)
    <3>1. CASE i = k
      BY <2>5, <3>1
    <3>2. CASE i # k
      <4>1. i \in 0 .. k - 1 /\ i \in 0 .. n
        BY <1>1, <2>3, <3>2
      <4>2. size(i) <= before /\ size(i) \in Nat
        BY <1>1, <2>4, <4>1
      <4> HIDE DEF before
      <4> QED
        BY <2>5, <4>2
    <3> QED
      BY <3>1, <3>2
  <2>7. ASSUME NEW i \in 1 .. k, NEW p \in 1 .. Len(xs[i])
        PROVE  flat[k][size(i - 1) + p] = xs[i][p]
    <3>1. CASE i = k
      BY <1>2, <2>3, <3>1
    <3>2. CASE i # k
      <4>1. i \in 1 .. k - 1 /\ i \in 1 .. n /\ i \in 0 .. k - 1 /\ i - 1 \in 0 .. n
        BY <1>1, <2>3, <3>2
      <4>2. flat[k - 1][size(i - 1) + p] = xs[i][p]
        BY <2>4, <4>1
      <4>3. size(i) <= before /\ size(i) = size(i - 1) + Len(xs[i])
        BY <1>2, <2>4, <4>1
      <4>4. size(i - 1) \in Nat /\ Len(xs[i]) \in Nat
        BY <1>1, <4>1
      <4> HIDE DEF before
      <4>5. size(i - 1) + p \in 1 .. before
        <5> DEFINE u == size(i - 1)
                   v == Len(xs[i])
                   w == size(i)
        <5>1. u \in Nat /\ v \in Nat /\ w = u + v /\ w <= before /\ p \in 1 .. v
          BY <4>3, <4>4
        <5> HIDE DEF u, v, w
        <5>2. u + p \in 1 .. before
          BY <2>5, <5>1
        <5> QED
          BY <5>2 DEF u
      <4>6. flat[k][size(i - 1) + p] = flat[k - 1][size(i - 1) + p]
        BY <1>2, <2>3, <4>5 DEF before
      <4> QED
        BY <4>2, <4>6
    <3> QED
      BY <3>1, <3>2
  <2>8. ASSUME NEW q \in 1 .. size(k)
        PROVE  \E i \in 1 .. k : q > size(i - 1) /\ q <= size(i)
    <3>1. CASE q <= before
      <4>1. q \in 1 .. before
        BY <2>5, <3>1
      <4>2. PICK i \in 1 .. k - 1 : q > size(i - 1) /\ q <= size(i)
        BY <2>4, <4>1
      <4>3. i \in 1 .. k
        BY <2>3
      <4> QED
        BY <4>2, <4>3
    <3>2. CASE ~(q <= before)
      <4>1. q > before /\ q <= size(k) /\ k \in 1 .. k
        BY <2>3, <2>5, <3>2
      <4> QED
        BY <4>1
    <3> QED
      BY <3>1, <3>2
  <2>9. Good(k)
    BY <2>6, <2>7, <2>8
  <2> QED
    BY <2>1, <2>9 DEF W
<1>4. Good(m)
  BY <1>1, <1>3
<1>5. \A i \in 1 .. m : i \in 1 .. n
  BY <1>1
<1>6. \A i \in 0 .. m : i \in 0 .. n
  BY <1>1
<1> QED
  BY <1>1, <1>2, <1>4, <1>5, <1>6 DEF size

(* The parts of the whole, one after the other: where each of them ends.   *)
IsLaidOut(all, xs, ends) ==
  /\ ends[0] = 0
  /\ Len(all) = ends[Len(xs)]
  /\ \A i \in 1 .. Len(xs) :
       /\ ends[i] = ends[i - 1] + Len(xs[i])
       /\ \A p \in 1 .. Len(xs[i]) : all[ends[i - 1] + p] = xs[i][p]
  /\ \A j \in 0 .. Len(xs) : \A i \in 0 .. j : ends[i] <= ends[j]
  /\ \A q \in 1 .. Len(all) :
       \E i \in 1 .. Len(xs) : q > ends[i - 1] /\ q <= ends[i]

LEMMA PartsAreLaidOut ==
  ASSUME NEW S, NEW xs \in Seq(Seq(S))
  PROVE  /\ FlattenSeq(xs) \in Seq(S)
         /\ \E ends \in [0 .. Len(xs) -> Nat] : IsLaidOut(FlattenSeq(xs), xs, ends)
<1> DEFINE n == Len(xs)
<1>1. PICK flat \in [0 .. n -> Seq(S)] :
        IsFlat(flat, xs) /\ FlattenSeq(xs) = flat[n]
  BY FlattenedSeq
<1> DEFINE ends == [i \in 0 .. n |-> Len(flat[i])]
<1>2. n \in Nat /\ n \in 0 .. n
  BY LenProperties
<1>3. ASSUME NEW m \in 0 .. n
      PROVE  /\ \A i \in 0 .. m : Len(flat[i]) \in Nat /\ Len(flat[i]) <= Len(flat[m])
             /\ \A i \in 1 .. m :
                  /\ Len(flat[i]) = Len(flat[i - 1]) + Len(xs[i])
                  /\ \A p \in 1 .. Len(xs[i]) :
                       flat[m][Len(flat[i - 1]) + p] = xs[i][p]
             /\ \A q \in 1 .. Len(flat[m]) :
                  \E i \in 1 .. m : q > Len(flat[i - 1]) /\ q <= Len(flat[i])
  BY <1>1, Blocks
<1>4. ends \in [0 .. n -> Nat]
  BY <1>3
<1>5. \A i \in 0 .. n : ends[i] = Len(flat[i])
  OBVIOUS
<1>6. flat[0] = <<>> /\ flat[n] \in Seq(S)
  BY <1>1, <1>2 DEF IsFlat
<1>7. ends[0] = 0
  BY <1>2, <1>5, <1>6, EmptySeq
<1> HIDE DEF ends, n
<1>8. ASSUME NEW i \in 1 .. n
      PROVE  /\ ends[i] = ends[i - 1] + Len(xs[i])
             /\ \A p \in 1 .. Len(xs[i]) : flat[n][ends[i - 1] + p] = xs[i][p]
  <2>1. i \in 0 .. n /\ i - 1 \in 0 .. n
    BY <1>2
  <2> QED
    BY <1>2, <1>3, <1>5, <2>1
<1>9. ASSUME NEW j \in 0 .. n, NEW i \in 0 .. j PROVE ends[i] <= ends[j]
  <2>1. i \in 0 .. n
    BY <1>2
  <2> QED
    BY <1>3, <1>5, <2>1
<1>10. ASSUME NEW q \in 1 .. Len(flat[n])
       PROVE  \E i \in 1 .. n : q > ends[i - 1] /\ q <= ends[i]
  <2>1. PICK i \in 1 .. n : q > Len(flat[i - 1]) /\ q <= Len(flat[i])
    BY <1>2, <1>3
  <2>2. i \in 0 .. n /\ i - 1 \in 0 .. n
    BY <1>2
  <2> QED
    BY <1>5, <2>1, <2>2
<1>11. Len(flat[n]) = ends[n]
  BY <1>2, <1>5
<1>12. IsLaidOut(flat[n], xs, ends)
  BY <1>7, <1>8, <1>9, <1>10, <1>11 DEF IsLaidOut, n
<1> QED
  BY <1>1, <1>4, <1>6, <1>12 DEF n

-----------------------------------------------------------------------------
(* Where serialise_siblings puts the headers and the subtries: the i-th    *)
(* header ends at at[i], the i-th subtrie at st[i].                        *)

IsLayout(bytes, siblings, base, head, at, st) ==
  LET n == Len(siblings)
  IN  /\ bytes \in Seq(Cell)
      /\ Len(bytes) = st[n]
      /\ at[0] = 0
      /\ st[0] = at[n]
      /\ \A i \in 1 .. n :
           /\ head[i].label = siblings[i].label
           /\ head[i].leaf = siblings[i].leaf
           /\ head[i].rank = siblings[i].rank
                               - (IF i = 1 THEN base ELSE siblings[i - 1].rank)
           /\ head[i].offset = IF i = 1 THEN at[n] - at[1]
                               ELSE Len(siblings[i - 1].sub)
           /\ at[i] = at[i - 1] + NodeWidth(head[i])
           /\ st[i] = st[i - 1] + Len(siblings[i].sub)
           /\ bytes[at[i - 1] + 1] = head[i]
           /\ \A q \in at[i - 1] + 2 .. at[i] : bytes[q] = Pad
           /\ \A p \in 1 .. Len(siblings[i].sub) :
                bytes[st[i - 1] + p] = siblings[i].sub[p]
      /\ \A j \in 0 .. n : \A i \in 0 .. j : at[i] <= at[j] /\ st[i] <= st[j]
      /\ \A q \in 1 .. Len(bytes) :
           \/ \E i \in 1 .. n : q > at[i - 1] /\ q <= at[i]
           \/ \E i \in 1 .. n : q > st[i - 1] /\ q <= st[i]

(* Siblings that may be serialised: in the order of their ranks, none of   *)
(* which is less than the father's.                                        *)
AreSorted(siblings, base) ==
  /\ siblings \in Seq(Range(siblings))
  /\ siblings # <<>>
  /\ \A i \in 1 .. Len(siblings) :
       IsNode(siblings[i]) /\ siblings[i].sub \in Seq(Cell)
  /\ base \in Nat
  /\ base <= siblings[1].rank
  /\ \A i \in 1 .. Len(siblings) - 1 : siblings[i].rank <= siblings[i + 1].rank

(* The header of a sibling but the first. *)
LEMMA SiblingHeaders ==
  ASSUME NEW siblings, NEW base, AreSorted(siblings, base),
         NEW i \in 2 .. Len(siblings)
  PROVE  LET head == [label  |-> siblings[i].label,
                      rank   |-> siblings[i].rank - siblings[i - 1].rank,
                      offset |-> Len(siblings[i - 1].sub),
                      leaf   |-> siblings[i].leaf]
             bytes == SiblingHeader(siblings, i)
         IN  /\ head \in Header
             /\ bytes \in Seq(Cell)
             /\ Len(bytes) = NodeWidth(head)
             /\ bytes[1] = head
             /\ \A q \in 2 .. Len(bytes) : bytes[q] = Pad
<1>1. /\ i \in 1 .. Len(siblings) /\ i - 1 \in 1 .. Len(siblings)
      /\ i - 1 \in 1 .. Len(siblings) - 1 /\ (i - 1) + 1 = i
  BY LenProperties DEF AreSorted
<1>2. siblings[i].rank - siblings[i - 1].rank \in Nat
  <2>1. /\ siblings[i].rank \in Nat /\ siblings[i - 1].rank \in Nat
        /\ siblings[i - 1].rank <= siblings[i].rank
    BY <1>1 DEF AreSorted, IsNode
  <2> QED
    BY <2>1
<1>3. /\ siblings[i].label \in Seq(Char) /\ siblings[i].leaf \in BOOLEAN
      /\ Len(siblings[i - 1].sub) \in Nat
  <2>1. siblings[i - 1].sub \in Seq(Cell)
    BY <1>1 DEF AreSorted
  <2> QED
    BY <1>1, <2>1, LenProperties DEF AreSorted, IsNode
<1> DEFINE label == siblings[i].label
           rank == siblings[i].rank - siblings[i - 1].rank
           offset == Len(siblings[i - 1].sub)
           leaf == siblings[i].leaf
<1>4. SiblingHeader(siblings, i) = SerialiseNode(label, rank, offset, leaf)
  BY DEF SiblingHeader
<1>5. label \in Seq(Char) /\ rank \in Nat /\ offset \in Nat /\ leaf \in BOOLEAN
  BY <1>2, <1>3
<1> HIDE DEF label, rank, offset, leaf
<1> DEFINE head == [label |-> label, rank |-> rank, offset |-> offset,
                    leaf |-> leaf]
           bytes == SerialiseNode(label, rank, offset, leaf)
<1>6. /\ head \in Header
      /\ bytes \in Seq(Cell)
      /\ Len(bytes) = NodeWidth(head)
      /\ bytes[1] = head
      /\ \A q \in 2 .. Len(bytes) : bytes[q] = Pad
  BY <1>5, SerialisedNode
<1> QED
  BY <1>4, <1>6 DEF label, rank, offset, leaf

LEMMA FirstHeaders ==
  ASSUME NEW siblings, NEW base, AreSorted(siblings, base),
         NEW headers \in Seq(Cell)
  PROVE  LET head == [label  |-> siblings[1].label,
                      rank   |-> siblings[1].rank - base,
                      offset |-> Len(headers),
                      leaf   |-> siblings[1].leaf]
             bytes == FirstHeader(siblings[1], base, headers)
         IN  /\ head \in Header
             /\ bytes \in Seq(Cell)
             /\ Len(bytes) = NodeWidth(head)
             /\ bytes[1] = head
             /\ \A q \in 2 .. Len(bytes) : bytes[q] = Pad
<1>1. 1 \in 1 .. Len(siblings)
  BY EmptySeq DEF AreSorted
<1>2. siblings[1].rank - base \in Nat
  <2>1. siblings[1].rank \in Nat /\ base \in Nat /\ base <= siblings[1].rank
    BY <1>1 DEF AreSorted, IsNode
  <2> QED
    BY <2>1
<1>3. /\ siblings[1].label \in Seq(Char) /\ siblings[1].leaf \in BOOLEAN
      /\ Len(headers) \in Nat
  BY <1>1, LenProperties DEF AreSorted, IsNode
<1> DEFINE label == siblings[1].label
           rank == siblings[1].rank - base
           offset == Len(headers)
           leaf == siblings[1].leaf
<1>4. FirstHeader(siblings[1], base, headers)
        = SerialiseNode(label, rank, offset, leaf)
  BY DEF FirstHeader
<1>5. label \in Seq(Char) /\ rank \in Nat /\ offset \in Nat /\ leaf \in BOOLEAN
  BY <1>2, <1>3
<1> HIDE DEF label, rank, offset, leaf
<1> DEFINE head == [label |-> label, rank |-> rank, offset |-> offset,
                    leaf |-> leaf]
           bytes == SerialiseNode(label, rank, offset, leaf)
<1>6. /\ head \in Header
      /\ bytes \in Seq(Cell)
      /\ Len(bytes) = NodeWidth(head)
      /\ bytes[1] = head
      /\ \A q \in 2 .. Len(bytes) : bytes[q] = Pad
  BY <1>5, SerialisedNode
<1> QED
  BY <1>4, <1>6 DEF label, rank, offset, leaf

(* Three sequences in a row. *)
LEMMA ThreeInARow ==
  ASSUME NEW S, NEW a \in Seq(S), NEW b \in Seq(S), NEW c \in Seq(S)
  PROVE  LET all == (a \o b) \o c
         IN  /\ all \in Seq(S)
             /\ Len(all) = Len(a) + Len(b) + Len(c)
             /\ \A q \in 1 .. Len(a) : all[q] = a[q]
             /\ \A q \in 1 .. Len(b) : all[Len(a) + q] = b[q]
             /\ \A q \in 1 .. Len(c) : all[Len(a) + Len(b) + q] = c[q]
<1> DEFINE ab == a \o b
           all == ab \o c
<1>1. /\ ab \in Seq(S) /\ Len(ab) = Len(a) + Len(b)
      /\ \A i \in 1 .. Len(a) + Len(b) :
           ab[i] = IF i <= Len(a) THEN a[i] ELSE b[i - Len(a)]
  BY ConcatProperties
<1> HIDE DEF ab
<1>2. /\ all \in Seq(S) /\ Len(all) = Len(ab) + Len(c)
      /\ \A i \in 1 .. Len(ab) + Len(c) :
           all[i] = IF i <= Len(ab) THEN ab[i] ELSE c[i - Len(ab)]
  <2>1. ab \in Seq(S)
    BY <1>1
  <2> QED
    BY <2>1, ConcatProperties
<1> HIDE DEF all
<1>3. Len(a) \in Nat /\ Len(b) \in Nat /\ Len(c) \in Nat
  BY LenProperties
<1> DEFINE x == Len(a)
           y == Len(b)
           z == Len(c)
<1>4. /\ x \in Nat /\ y \in Nat /\ z \in Nat
      /\ Len(ab) = x + y
      /\ \A i \in 1 .. x + y : ab[i] = IF i <= x THEN a[i] ELSE b[i - x]
      /\ \A i \in 1 .. x + y + z : all[i] = IF i <= x + y THEN ab[i] ELSE c[i - (x + y)]
      /\ Len(all) = x + y + z
  BY <1>1, <1>2, <1>3
<1> HIDE DEF x, y, z
<1>5. ASSUME NEW q \in 1 .. x PROVE all[q] = a[q]
  BY <1>4
<1>6. ASSUME NEW q \in 1 .. y PROVE all[x + q] = b[q]
  <2>1. x + q \in 1 .. x + y + z /\ x + q \in 1 .. x + y /\ ~(x + q <= x)
        /\ (x + q) - x = q
    BY <1>4
  <2> QED
    BY <1>4, <2>1
<1>7. ASSUME NEW q \in 1 .. z PROVE all[x + y + q] = c[q]
  <2>1. /\ x + y + q \in 1 .. x + y + z /\ ~(x + y + q <= x + y)
        /\ (x + y + q) - (x + y) = q
    BY <1>4
  <2> QED
    BY <1>4, <2>1
<1> QED
  BY <1>2, <1>4, <1>5, <1>6, <1>7 DEF x, y, z, all, ab

LEMMA SiblingLayout ==
  ASSUME NEW siblings, NEW base, AreSorted(siblings, base)
  PROVE  \E head \in [1 .. Len(siblings) -> Header] :
           \E at, st \in [0 .. Len(siblings) -> Nat] :
             IsLayout(SerialiseSiblings(siblings, base), siblings, base,
                      head, at, st)
<1> DEFINE n  == Len(siblings)
           xo == [i \in 1 .. n - 1 |-> SiblingHeader(siblings, i + 1)]
           O  == FlattenSeq(xo)
           xs == [i \in 1 .. n |-> siblings[i].sub]
           U  == FlattenSeq(xs)
           F  == FirstHeader(siblings[1], base, O)
           hd(i) ==
             [label  |-> siblings[i].label,
              rank   |-> siblings[i].rank
                           - (IF i = 1 THEN base ELSE siblings[i - 1].rank),
              offset |-> IF i = 1 THEN Len(O) ELSE Len(siblings[i - 1].sub),
              leaf   |-> siblings[i].leaf]
           IsHeader(bytes, i) ==
             /\ hd(i) \in Header
             /\ bytes \in Seq(Cell)
             /\ Len(bytes) = NodeWidth(hd(i))
             /\ bytes[1] = hd(i)
             /\ \A q \in 2 .. Len(bytes) : bytes[q] = Pad
<1>1. n \in Nat \ {0}
  BY EmptySeq DEF AreSorted
<1>2. ASSUME NEW i \in 2 .. n PROVE IsHeader(SiblingHeader(siblings, i), i)
  <2>1. hd(i) = [label  |-> siblings[i].label,
                 rank   |-> siblings[i].rank - siblings[i - 1].rank,
                 offset |-> Len(siblings[i - 1].sub),
                 leaf   |-> siblings[i].leaf]
    OBVIOUS
  <2> QED
    BY <2>1, SiblingHeaders
<1>3. xo \in Seq(Seq(Cell)) /\ Len(xo) = n - 1
  <2>1. xo \in [1 .. n - 1 -> Seq(Cell)]
    <3>1. ASSUME NEW i \in 1 .. n - 1 PROVE SiblingHeader(siblings, i + 1) \in Seq(Cell)
      <4>1. i + 1 \in 2 .. n
        BY <1>1
      <4> QED
        BY <1>2, <4>1
    <3> QED
      BY <3>1
  <2>2. n - 1 \in Nat
    BY <1>1
  <2> HIDE DEF xo, n
  <2> QED
    BY <2>1, <2>2, FunctionIsSeq
<1>4. xs \in Seq(Seq(Cell)) /\ Len(xs) = n
  <2>1. xs \in [1 .. n -> Seq(Cell)]
    BY DEF AreSorted
  <2> HIDE DEF xs, n
  <2> QED
    BY <1>1, <2>1, FunctionIsSeq
<1>5. \A i \in 1 .. n - 1 : xo[i] = SiblingHeader(siblings, i + 1)
  OBVIOUS
<1>6. \A i \in 1 .. n : xs[i] = siblings[i].sub
  OBVIOUS
<1>7. SerialiseSiblings(siblings, base) = (F \o O) \o U
  BY DEF SerialiseSiblings
<1> HIDE DEF xo, xs
<1>8. O \in Seq(Cell) /\ \E ends \in [0 .. n - 1 -> Nat] : IsLaidOut(O, xo, ends)
  BY <1>3, PartsAreLaidOut
<1>9. U \in Seq(Cell) /\ \E ends \in [0 .. n -> Nat] : IsLaidOut(U, xs, ends)
  BY <1>4, PartsAreLaidOut
<1>10. PICK eo \in [0 .. n - 1 -> Nat] : IsLaidOut(O, xo, eo)
  BY <1>8
<1>11. PICK es \in [0 .. n -> Nat] : IsLaidOut(U, xs, es)
  BY <1>9
<1> HIDE DEF O, U
<1>12. IsHeader(F, 1)
  <2>1. hd(1) = [label  |-> siblings[1].label,
                 rank   |-> siblings[1].rank - base,
                 offset |-> Len(O),
                 leaf   |-> siblings[1].leaf]
    OBVIOUS
  <2> QED
    BY <1>8, <2>1, FirstHeaders
<1> HIDE DEF F
<1> DEFINE bytes == (F \o O) \o U
<1>13. /\ bytes \in Seq(Cell)
       /\ Len(bytes) = Len(F) + Len(O) + Len(U)
       /\ \A q \in 1 .. Len(F) : bytes[q] = F[q]
       /\ \A q \in 1 .. Len(O) : bytes[Len(F) + q] = O[q]
       /\ \A q \in 1 .. Len(U) : bytes[Len(F) + Len(O) + q] = U[q]
  <2>1. F \in Seq(Cell) /\ O \in Seq(Cell) /\ U \in Seq(Cell)
    BY <1>8, <1>9, <1>12
  <2> QED
    BY <2>1, ThreeInARow
<1> HIDE DEF bytes
<1> DEFINE w  == NodeWidth(hd(1))
           at == [i \in 0 .. n |-> IF i = 0 THEN 0 ELSE w + eo[i - 1]]
           top == w + eo[n - 1]
           st == [i \in 0 .. n |-> top + es[i]]
           head == [i \in 1 .. n |-> hd(i)]
<1>14. w \in Nat \ {0}
  BY <1>12, WidthIsPositive
<1>15. ASSUME NEW i \in 1 .. n PROVE hd(i) \in Header
  <2>1. CASE i = 1
    BY <1>12, <2>1
  <2>2. CASE i # 1
    <3>1. i \in 2 .. n
      BY <1>1, <2>2
    <3> QED
      BY <1>2, <3>1
  <2> QED
    BY <2>1, <2>2
<1>16. /\ head \in [1 .. n -> Header]
       /\ \A i \in 1 .. n : head[i] = hd(i)
  BY <1>15
<1> HIDE DEF head, n
<1>17. /\ eo \in [0 .. n - 1 -> Nat] /\ eo[0] = 0 /\ Len(O) = eo[n - 1]
       /\ \A i \in 1 .. n - 1 :
            /\ eo[i] = eo[i - 1] + Len(xo[i])
            /\ \A p \in 1 .. Len(xo[i]) : O[eo[i - 1] + p] = xo[i][p]
       /\ \A j \in 0 .. n - 1 : \A i \in 0 .. j : eo[i] <= eo[j]
       /\ \A q \in 1 .. Len(O) : \E i \in 1 .. n - 1 : q > eo[i - 1] /\ q <= eo[i]
  BY <1>3, <1>10 DEF IsLaidOut
<1>18. /\ es \in [0 .. n -> Nat] /\ es[0] = 0 /\ Len(U) = es[n]
       /\ \A i \in 1 .. n :
            /\ es[i] = es[i - 1] + Len(xs[i])
            /\ \A p \in 1 .. Len(xs[i]) : U[es[i - 1] + p] = xs[i][p]
       /\ \A j \in 0 .. n : \A i \in 0 .. j : es[i] <= es[j]
       /\ \A q \in 1 .. Len(U) : \E i \in 1 .. n : q > es[i - 1] /\ q <= es[i]
  BY <1>4, <1>11 DEF IsLaidOut
<1>19. Len(F) = w /\ F[1] = hd(1) /\ \A q \in 2 .. w : F[q] = Pad
  BY <1>12
<1>20. ASSUME NEW i \in 2 .. n
       PROVE  /\ i - 1 \in 1 .. n - 1 /\ i - 2 \in 0 .. n - 1
              /\ Len(xo[i - 1]) = NodeWidth(hd(i))
              /\ xo[i - 1][1] = hd(i)
              /\ \A q \in 2 .. Len(xo[i - 1]) : xo[i - 1][q] = Pad
  <2>1. i - 1 \in 1 .. n - 1 /\ i - 2 \in 0 .. n - 1 /\ (i - 1) + 1 = i
    BY <1>1
  <2>2. xo[i - 1] = SiblingHeader(siblings, i)
    BY <1>5, <2>1
  <2>3. IsHeader(SiblingHeader(siblings, i), i)
    BY <1>2
  <2> HIDE DEF hd
  <2> QED
    BY <2>1, <2>2, <2>3
<1>21. /\ \A i \in 1 .. n : hd(i).label = siblings[i].label
       /\ \A i \in 1 .. n : hd(i).leaf = siblings[i].leaf
       /\ \A i \in 1 .. n :
            hd(i).rank = siblings[i].rank
                           - (IF i = 1 THEN base ELSE siblings[i - 1].rank)
       /\ \A i \in 1 .. n : hd(i).offset = IF i = 1 THEN Len(O)
                                           ELSE Len(siblings[i - 1].sub)
  OBVIOUS
<1> HIDE DEF hd, w
<1>22. /\ 0 \in 0 .. n /\ n \in 0 .. n /\ n # 0 /\ n - 1 \in 0 .. n - 1
       /\ \A i \in 1 .. n : i - 1 \in 0 .. n - 1 /\ i \in 0 .. n /\ i - 1 \in 0 .. n
  BY <1>1
<1>23. /\ at \in [0 .. n -> Nat] /\ at[0] = 0 /\ at[n] = top
       /\ \A i \in 1 .. n : at[i] = w + eo[i - 1]
       /\ at[1] = w
  BY <1>1, <1>14, <1>17, <1>22
<1>24. top \in Nat /\ top = w + Len(O)
  BY <1>14, <1>17, <1>22
<1> HIDE DEF top
<1>25. /\ st \in [0 .. n -> Nat] /\ st[0] = top
       /\ \A i \in 0 .. n : st[i] = top + es[i]
  BY <1>18, <1>22, <1>24
<1> HIDE DEF at, st
<1>26. Len(bytes) = st[n]
  BY <1>13, <1>18, <1>19, <1>22, <1>24, <1>25
<1>27. ASSUME NEW i \in 1 .. n
       PROVE  /\ at[i] = at[i - 1] + NodeWidth(hd(i))
              /\ bytes[at[i - 1] + 1] = hd(i)
              /\ \A q \in at[i - 1] + 2 .. at[i] : bytes[q] = Pad
  <2>1. CASE i = 1
    <3>1. at[i - 1] = 0 /\ at[i] = w
      BY <1>23, <2>1
    <3>2. w \in Nat /\ 1 \in 1 .. w /\ \A q \in 2 .. w : q \in 1 .. w
      BY <1>14
    <3>3. bytes[1] = hd(1) /\ \A q \in 2 .. w : bytes[q] = Pad
      BY <1>13, <1>19, <3>2
    <3> QED
      BY <2>1, <3>1, <3>2, <3>3 DEF w
  <2>2. CASE i # 1
    <3>1. i \in 2 .. n
      BY <1>1, <2>2
    <3> DEFINE l == eo[i - 2]
               k == NodeWidth(hd(i))
               x == xo[i - 1]
    <3>2. k \in Nat \ {0}
      BY <1>15, WidthIsPositive
    <3>3. /\ Len(x) = k /\ x[1] = hd(i) /\ \A q \in 2 .. k : x[q] = Pad
          /\ l \in Nat /\ eo[i - 1] = l + k
          /\ \A p \in 1 .. k : O[l + p] = x[p]
      <4>1. (i - 1) - 1 = i - 2
        BY <3>1
      <4> QED
        BY <1>17, <1>20, <3>1, <4>1
    <3>4. at[i] = w + (l + k) /\ at[i - 1] = w + l
      <4>1. i - 1 \in 1 .. n /\ (i - 1) - 1 = i - 2
        BY <3>1, <1>1
      <4> QED
        BY <1>23, <3>3, <4>1
    <3>5. eo[i - 1] <= Len(O)
      <4>1. i - 1 \in 0 .. n - 1
        BY <1>22
      <4> QED
        BY <1>17, <1>22, <4>1
    <3>6. Len(O) \in Nat
      BY <1>8, LenProperties
    <3> HIDE DEF l, k, x
    <3> DEFINE z == Len(O)
    <3>7. z \in Nat /\ l + k <= z
      BY <3>3, <3>5, <3>6
    <3> HIDE DEF z
    <3>8. ASSUME NEW p \in 1 .. k PROVE bytes[w + l + p] = x[p]
      <4>1. l + p \in 1 .. z /\ w + (l + p) = w + l + p
        BY <1>14, <3>2, <3>3, <3>7
      <4>2. bytes[w + (l + p)] = O[l + p]
        BY <1>13, <1>19, <4>1 DEF z
      <4> QED
        BY <3>3, <4>1, <4>2
    <3>9. bytes[at[i - 1] + 1] = hd(i)
      BY <3>2, <3>3, <3>4, <3>8
    <3>10. ASSUME NEW q \in at[i - 1] + 2 .. at[i] PROVE bytes[q] = Pad
      <4> DEFINE p == q - (w + l)
      <4>1. p \in 2 .. k /\ p \in 1 .. k /\ w + l + p = q
        BY <1>14, <3>2, <3>3, <3>4
      <4> HIDE DEF p
      <4> QED
        BY <3>3, <3>8, <4>1
    <3>11. at[i] = at[i - 1] + k
      BY <1>14, <3>2, <3>3, <3>4
    <3> QED
      BY <3>9, <3>10, <3>11 DEF k
  <2> QED
    BY <2>1, <2>2
<1>28. ASSUME NEW i \in 1 .. n
       PROVE  /\ st[i] = st[i - 1] + Len(siblings[i].sub)
              /\ \A p \in 1 .. Len(siblings[i].sub) :
                   bytes[st[i - 1] + p] = siblings[i].sub[p]
  <2> DEFINE l == es[i - 1]
             k == Len(siblings[i].sub)
             u == Len(U)
  <2>1. xs[i] = siblings[i].sub /\ i - 1 \in 0 .. n /\ i \in 0 .. n
    BY <1>6, <1>22
  <2>2. /\ es[i] = l + k /\ l \in Nat
        /\ \A p \in 1 .. k : U[l + p] = siblings[i].sub[p]
    BY <1>18, <2>1
  <2>3. k \in Nat /\ u \in Nat
    <3>1. siblings[i].sub \in Seq(Cell)
      BY <1>4, <2>1, ElementOfSeq
    <3> QED
      BY <1>9, <3>1, LenProperties
  <2>4. l + k <= u
    BY <1>18, <1>22, <2>1, <2>2
  <2>5. st[i] = top + (l + k) /\ st[i - 1] = top + l
    BY <1>25, <2>1, <2>2
  <2>6. \A q \in 1 .. u : bytes[top + q] = U[q]
    BY <1>13, <1>19, <1>24
  <2> HIDE DEF l, k, u
  <2>7. st[i] = st[i - 1] + k
    BY <1>24, <2>2, <2>3, <2>5
  <2>8. ASSUME NEW p \in 1 .. k PROVE bytes[st[i - 1] + p] = siblings[i].sub[p]
    <3>1. l + p \in 1 .. u /\ top + (l + p) = st[i - 1] + p
      BY <1>24, <2>2, <2>3, <2>4, <2>5
    <3> QED
      BY <2>2, <2>6, <3>1
  <2> QED
    BY <2>7, <2>8 DEF k
<1>29. ASSUME NEW j \in 0 .. n, NEW i \in 0 .. j PROVE at[i] <= at[j] /\ st[i] <= st[j]
  <2>1. i \in 0 .. n /\ es[i] <= es[j] /\ es[i] \in Nat /\ es[j] \in Nat
    BY <1>1, <1>18
  <2>2. st[i] <= st[j]
    BY <1>24, <1>25, <2>1
  <2>3. CASE i = 0
    BY <1>23, <2>1, <2>2, <2>3
  <2>4. CASE i # 0
    <3>1. i \in 1 .. n /\ j \in 1 .. n /\ j - 1 \in 0 .. n - 1 /\ i - 1 \in 0 .. j - 1
          /\ i - 1 \in 0 .. n - 1
      BY <1>1, <2>4
    <3>2. eo[i - 1] <= eo[j - 1] /\ eo[i - 1] \in Nat /\ eo[j - 1] \in Nat
      BY <1>17, <3>1
    <3> QED
      BY <1>14, <1>23, <2>2, <3>1, <3>2
  <2> QED
    BY <2>3, <2>4
<1>30. ASSUME NEW q \in 1 .. Len(bytes)
       PROVE  \/ \E i \in 1 .. n : q > at[i - 1] /\ q <= at[i]
              \/ \E i \in 1 .. n : q > st[i - 1] /\ q <= st[i]
  <2>1. q \in Nat /\ q >= 1 /\ q <= st[n] /\ st[n] \in Nat
    BY <1>22, <1>25, <1>26
  <2>2. CASE q <= w
    <3>1. 1 \in 1 .. n /\ at[1 - 1] = 0 /\ at[1] = w
      BY <1>1, <1>23
    <3> QED
      BY <2>1, <2>2, <3>1
  <2>3. CASE q > w /\ q <= top
    <3> DEFINE p == q - w
    <3>1. p \in 1 .. Len(O)
      <4>1. Len(O) \in Nat
        BY <1>8, LenProperties
      <4> QED
        BY <1>14, <1>24, <2>1, <2>3, <4>1
    <3>2. PICK i \in 1 .. n - 1 : p > eo[i - 1] /\ p <= eo[i]
      BY <1>17, <3>1
    <3>3. /\ i + 1 \in 1 .. n /\ (i + 1) - 1 = i /\ i \in 1 .. n
          /\ i - 1 \in 0 .. n - 1 /\ i \in 0 .. n - 1
      BY <1>1
    <3>4. at[i + 1] = w + eo[i] /\ at[i] = w + eo[i - 1]
          /\ eo[i] \in Nat /\ eo[i - 1] \in Nat
      BY <1>17, <1>23, <3>3
    <3>5. q > at[(i + 1) - 1] /\ q <= at[i + 1]
      BY <1>14, <2>1, <3>2, <3>3, <3>4
    <3> QED
      BY <3>3, <3>5
  <2>4. CASE q > top
    <3> DEFINE p == q - top
    <3>1. p \in 1 .. Len(U)
      <4>1. Len(U) \in Nat /\ st[n] = top + Len(U)
        BY <1>9, <1>18, <1>22, <1>25, LenProperties
      <4> QED
        BY <1>24, <2>1, <2>4, <4>1
    <3>2. PICK i \in 1 .. n : p > es[i - 1] /\ p <= es[i]
      BY <1>18, <3>1
    <3>3. /\ st[i] = top + es[i] /\ st[i - 1] = top + es[i - 1]
          /\ es[i] \in Nat /\ es[i - 1] \in Nat
      BY <1>18, <1>22, <1>25
    <3>4. q > st[i - 1] /\ q <= st[i]
      BY <1>24, <2>1, <3>2, <3>3
    <3> QED
      BY <3>4
  <2> QED
    BY <1>14, <1>24, <2>1, <2>2, <2>3, <2>4
<1>31. at[n] - at[1] = Len(O)
  <2>1. Len(O) \in Nat
    BY <1>8, LenProperties
  <2> QED
    BY <1>14, <1>23, <1>24, <2>1
<1>32. IsLayout(bytes, siblings, base, head, at, st)
  <2>1. \A i \in 1 .. n :
          /\ head[i].label = siblings[i].label
          /\ head[i].leaf = siblings[i].leaf
          /\ head[i].rank = siblings[i].rank
                              - (IF i = 1 THEN base ELSE siblings[i - 1].rank)
          /\ head[i].offset = IF i = 1 THEN at[n] - at[1]
                              ELSE Len(siblings[i - 1].sub)
    BY <1>16, <1>21, <1>31
  <2>2. \A i \in 1 .. n :
          /\ at[i] = at[i - 1] + NodeWidth(head[i])
          /\ bytes[at[i - 1] + 1] = head[i]
          /\ \A q \in at[i - 1] + 2 .. at[i] : bytes[q] = Pad
    BY <1>16, <1>27
  <2>3. at[0] = 0 /\ st[0] = at[n] /\ bytes \in Seq(Cell)
    BY <1>13, <1>23, <1>25
  <2> QED
    BY <2>1, <2>2, <2>3, <1>26, <1>28, <1>29, <1>30 DEF IsLayout, n
<1> QED
  BY <1>7, <1>16, <1>23, <1>25, <1>32 DEF n, bytes

-----------------------------------------------------------------------------
(* What the bytes mean.  A note is kept for the address of every node: its *)
(* rank, how far its first child and the end of its siblings are, where    *)
(* its own subtrie stops and those of all its siblings do, how many        *)
(* characters stand before its label, and the numbers of the suggestions   *)
(* below it, and on it or a later sibling.  Distances are counted from the *)
(* node, so a subtrie means the same wherever it is.                       *)

Note == [rank : Nat, kids : Nat, end : Nat, stop : Nat, all : Nat, depth : Nat,
         below : SUBSET Nat, on : SUBSET Nat]

(* Suggestion k has the label from this depth on. *)
Spells(in, k, depth, label) ==
  /\ depth + Len(label) <= Len(in.suggestions[k])
  /\ \A i \in 1 .. Len(label) : in.suggestions[k][depth + i] = label[i]

(* A node with these fields stands for the suggestions B. *)
Carries(in, label, rank, leaf, depth, B) ==
  /\ B \subseteq DOMAIN in.suggestions \cap DOMAIN in.ranks
  /\ \A k \in B : Spells(in, k, depth, label) /\ rank <= in.ranks[k]
  /\ \E k \in B : in.ranks[k] = rank
  /\ leaf => \E k \in B : B = {k} /\ Len(in.suggestions[k]) = depth + Len(label)
  /\ ~leaf => label # <<>>

(* None of the suggestions B goes on with the first character of label. *)
Differs(in, depth, label, B) ==
  label # <<>> =>
    \A k \in B : ~(depth < Len(in.suggestions[k])
                   /\ in.suggestions[k][depth + 1] = label[1])

(* Grouped, of an input. *)
GroupedIn(in) ==
  \A i, k \in DOMAIN in.suggestions : \A j \in i .. k :
    \A n \in 0 .. Len(in.suggestions[i]) :
      /\ n <= Len(in.suggestions[k])
      /\ SubSeq(in.suggestions[i], 1, n) = SubSeq(in.suggestions[k], 1, n)
      => /\ n <= Len(in.suggestions[j])
         /\ SubSeq(in.suggestions[j], 1, n) = SubSeq(in.suggestions[i], 1, n)

Fits(in, head, note) ==
  /\ head \in Header
  /\ Len(head.label) < MaxLabelSize
  /\ note \in Note
  /\ Carries(in, head.label, note.rank, head.leaf, note.depth, note.below)
  /\ \A k \in note.on : note.rank <= in.ranks[k]

(* The node after it, if it has a sibling. *)
Follows(in, head, note, head2, note2) ==
  /\ NodeWidth(head) + note2.kids = note.kids + head2.offset
  /\ NodeWidth(head) + note2.end = note.end
  /\ note2.rank = note.rank + head2.rank
  /\ note2.depth = note.depth
  /\ note.on = note.below \cup note2.on
  /\ note.below \cap note2.on = {}
  /\ GroupedIn(in) => Differs(in, note.depth, head.label, note2.on)

(* The first of some siblings. *)
Begins(head, note, base, depth, B) ==
  /\ note.kids = NodeWidth(head) + head.offset
  /\ note.end = NodeWidth(head) + head.offset
  /\ note.rank = base + head.rank
  /\ note.depth = depth
  /\ note.on = B

NotedAt(in, bytes, notes, a) ==
  LET head == bytes[a]
      note == notes[a]
      next == a + NodeWidth(head)
      kids == a + note.kids
  IN  /\ Fits(in, head, note)
      /\ NodeWidth(head) <= note.end
      /\ IF NodeWidth(head) < note.end
         THEN /\ next \in DOMAIN notes
              /\ Follows(in, head, note, bytes[next], notes[next])
         ELSE note.on = note.below
      /\ ~head.leaf =>
           /\ note.kids > 0
           /\ kids \in DOMAIN notes
           /\ Begins(bytes[kids], notes[kids], note.rank,
                     note.depth + Len(head.label), note.below)

(* The subtries of siblings stand behind their headers, one after the      *)
(* other, and the subtrie of a node holds what its children stand for.     *)
Spans(bytes, notes, a) ==
  LET note == notes[a]
      w    == NodeWidth(bytes[a])
      next == a + w
      kids == a + note.kids
  IN  /\ note.end <= note.kids /\ note.kids <= note.stop /\ note.stop <= note.all
      /\ IF w < note.end
         THEN /\ w + notes[next].kids = note.stop
              /\ w + notes[next].all = note.all
         ELSE note.stop = note.all
      /\ ~bytes[a].leaf => note.kids + notes[kids].all = note.stop

(* Another node leads to this one. *)
Entered(bytes, notes, a) ==
  \E b \in DOMAIN notes :
    /\ b < a
    /\ \/ a = b + NodeWidth(bytes[b]) /\ NodeWidth(bytes[b]) < notes[b].end
       \/ a = b + notes[b].kids /\ ~bytes[b].leaf

IsNoted(in, bytes, notes, start) ==
  /\ DOMAIN notes = {a \in start .. Len(bytes) : bytes[a] # Pad}
  /\ start \in DOMAIN notes
  /\ \A a \in DOMAIN notes :
       /\ NotedAt(in, bytes, notes, a)
       /\ Spans(bytes, notes, a)
       /\ a # start => Entered(bytes, notes, a)

(* The bytes of siblings and of all that is below them. *)
IsTree(in, bytes, base, depth, B) ==
  /\ bytes \in Seq(Cell)
  /\ \E notes : /\ IsNoted(in, bytes, notes, 1)
                /\ Begins(bytes[1], notes[1], base, depth, B)
                /\ notes[1].all = Len(bytes)

(* A node under construction. *)
Holds(in, node, depth, B) ==
  /\ IsNode(node)
  /\ Carries(in, node.label, node.rank, node.leaf, depth, B)
  /\ node.leaf => node.sub = <<>>
  /\ ~node.leaf => IsTree(in, node.sub, node.rank, depth + Len(node.label), B)

(* A note still fits when its node and all it leads to have moved.         *)
LEMMA Relocated ==
  ASSUME NEW in, NEW bytes, NEW notes, NEW bytes2, NEW notes2, NEW k \in Nat,
         NEW a \in DOMAIN notes, DOMAIN notes \subseteq Nat,
         NotedAt(in, bytes, notes, a),
         \A x \in DOMAIN notes : /\ x + k \in DOMAIN notes2
                                 /\ bytes2[x + k] = bytes[x]
                                 /\ notes2[x + k] = notes[x]
  PROVE  NotedAt(in, bytes2, notes2, a + k)
<1> DEFINE head == bytes[a]
           note == notes[a]
           w    == NodeWidth(head)
           next == a + w
           kids == a + note.kids
<1>1. bytes2[a + k] = head /\ notes2[a + k] = note
  OBVIOUS
<1>2. /\ Fits(in, head, note)
      /\ w <= note.end
      /\ w < note.end =>
           next \in DOMAIN notes /\ Follows(in, head, note, bytes[next], notes[next])
      /\ ~(w < note.end) => note.on = note.below
      /\ ~head.leaf =>
           /\ note.kids > 0
           /\ kids \in DOMAIN notes
           /\ Begins(bytes[kids], notes[kids], note.rank,
                     note.depth + Len(head.label), note.below)
  BY DEF NotedAt
<1>3. w \in Nat /\ note.kids \in Nat /\ a \in Nat
  BY <1>2, WidthIsPositive DEF Fits, Note
<1>4. next + k = (a + k) + w /\ kids + k = (a + k) + note.kids
  BY <1>3
<1>5. next \in DOMAIN notes =>
        /\ (a + k) + w \in DOMAIN notes2
        /\ bytes2[(a + k) + w] = bytes[next]
        /\ notes2[(a + k) + w] = notes[next]
  <2> HIDE DEF next
  <2> QED
    BY <1>4
<1>6. kids \in DOMAIN notes =>
        /\ (a + k) + note.kids \in DOMAIN notes2
        /\ bytes2[(a + k) + note.kids] = bytes[kids]
        /\ notes2[(a + k) + note.kids] = notes[kids]
  <2> HIDE DEF kids
  <2> QED
    BY <1>4
<1> DEFINE a2 == a + k
<1> HIDE DEF head, note, next, kids, a2
<1> SUFFICES /\ Fits(in, head, note)
             /\ w <= note.end
             /\ IF w < note.end
                THEN /\ a2 + w \in DOMAIN notes2
                     /\ Follows(in, head, note, bytes2[a2 + w], notes2[a2 + w])
                ELSE note.on = note.below
             /\ ~head.leaf =>
                  /\ note.kids > 0
                  /\ a2 + note.kids \in DOMAIN notes2
                  /\ Begins(bytes2[a2 + note.kids], notes2[a2 + note.kids],
                            note.rank, note.depth + Len(head.label), note.below)
  BY <1>1 DEF NotedAt, a2
<1> QED
  BY <1>2, <1>5, <1>6 DEF a2

(* So do the bounds of its subtrie. *)
LEMMA SpansMoved ==
  ASSUME NEW in, NEW bytes, NEW notes, NEW bytes2, NEW notes2, NEW k \in Nat,
         NEW a \in DOMAIN notes, DOMAIN notes \subseteq Nat,
         NotedAt(in, bytes, notes, a), Spans(bytes, notes, a),
         \A x \in DOMAIN notes : /\ x + k \in DOMAIN notes2
                                 /\ bytes2[x + k] = bytes[x]
                                 /\ notes2[x + k] = notes[x]
  PROVE  Spans(bytes2, notes2, a + k)
<1> DEFINE note == notes[a]
           w    == NodeWidth(bytes[a])
           next == a + w
           kids == a + note.kids
           a2   == a + k
<1>1. bytes2[a2] = bytes[a] /\ notes2[a2] = note
  OBVIOUS
<1>2. Fits(in, bytes[a], note)
  BY DEF NotedAt
<1>3. w \in Nat /\ note.kids \in Nat /\ a \in Nat
  BY <1>2, WidthIsPositive DEF Fits, Note
<1>4. /\ w < note.end => next \in DOMAIN notes
      /\ ~bytes[a].leaf => kids \in DOMAIN notes
  BY DEF NotedAt
<1>5. next + k = a2 + w /\ kids + k = a2 + note.kids
  <2> HIDE DEF w, note
  <2> QED
    BY <1>3
<1>6. next \in DOMAIN notes => notes2[a2 + w] = notes[next]
  <2> HIDE DEF next, a2
  <2> QED
    BY <1>5
<1>7. kids \in DOMAIN notes => notes2[a2 + note.kids] = notes[kids]
  <2> HIDE DEF kids, a2
  <2> QED
    BY <1>5
<1>8. /\ note.end <= note.kids /\ note.kids <= note.stop /\ note.stop <= note.all
      /\ IF w < note.end
         THEN /\ w + notes[next].kids = note.stop
              /\ w + notes[next].all = note.all
         ELSE note.stop = note.all
      /\ ~bytes[a].leaf => note.kids + notes[kids].all = note.stop
  BY DEF Spans
<1> HIDE DEF next, kids, a2, note
<1>9. /\ note.end <= note.kids /\ note.kids <= note.stop /\ note.stop <= note.all
      /\ IF w < note.end
         THEN /\ w + notes2[a2 + w].kids = note.stop
              /\ w + notes2[a2 + w].all = note.all
         ELSE note.stop = note.all
      /\ ~bytes[a].leaf => note.kids + notes2[a2 + note.kids].all = note.stop
  BY <1>4, <1>6, <1>7, <1>8
<1>10. Spans(bytes2, notes2, a2)
  BY <1>1, <1>9 DEF Spans
<1> QED
  BY <1>10 DEF a2

(* The notes of some siblings and of their subtries, put together.         *)
AreMerged(notes, bytes, siblings, at, st, hn, sn) ==
  /\ DOMAIN notes = {a \in 1 .. Len(bytes) : bytes[a] # Pad}
  /\ \A i \in 1 .. Len(siblings) :
       /\ at[i - 1] + 1 \in DOMAIN notes
       /\ notes[at[i - 1] + 1] = hn[i]
       /\ \A p \in DOMAIN sn[i] :
            /\ p + st[i - 1] \in DOMAIN notes
            /\ bytes[p + st[i - 1]] = siblings[i].sub[p]
            /\ notes[p + st[i - 1]] = sn[i][p]
  /\ \A a \in DOMAIN notes :
       \E i \in 1 .. Len(siblings) :
         \/ a = at[i - 1] + 1
         \/ \E p \in DOMAIN sn[i] : a = p + st[i - 1]

LEMMA MergedNotes ==
  ASSUME NEW bytes, NEW siblings, NEW base,
         NEW head \in [1 .. Len(siblings) -> Header],
         NEW at \in [0 .. Len(siblings) -> Nat],
         NEW st \in [0 .. Len(siblings) -> Nat],
         IsLayout(bytes, siblings, base, head, at, st),
         Len(siblings) \in Nat, NEW hn, NEW sn,
         \A i \in 1 .. Len(siblings) :
           /\ siblings[i].sub \in Seq(Cell)
           /\ DOMAIN sn[i] = {p \in 1 .. Len(siblings[i].sub) :
                                siblings[i].sub[p] # Pad}
  PROVE  \E notes : AreMerged(notes, bytes, siblings, at, st, hn, sn)
<1> DEFINE n == Len(siblings)
           D == {a \in 1 .. Len(bytes) : bytes[a] # Pad}
           IsHead(a, i) == i \in 1 .. n /\ a = at[i - 1] + 1
           InSub(a, i)  == i \in 1 .. n /\ st[i - 1] < a /\ a <= st[i]
           headAt(a) == CHOOSE i : IsHead(a, i)
           subAt(a)  == CHOOSE i : InSub(a, i)
           notes == [a \in D |-> IF \E i : IsHead(a, i) THEN hn[headAt(a)]
                                 ELSE sn[subAt(a)][a - st[subAt(a) - 1]]]
<1>1. /\ Len(bytes) = st[n] /\ at[0] = 0 /\ st[0] = at[n]
      /\ \A i \in 1 .. n : /\ at[i] = at[i - 1] + NodeWidth(head[i])
                           /\ st[i] = st[i - 1] + Len(siblings[i].sub)
                           /\ bytes[at[i - 1] + 1] = head[i]
                           /\ \A q \in at[i - 1] + 2 .. at[i] : bytes[q] = Pad
                           /\ \A p \in 1 .. Len(siblings[i].sub) :
                                bytes[st[i - 1] + p] = siblings[i].sub[p]
      /\ \A j \in 0 .. n : \A i \in 0 .. j : at[i] <= at[j] /\ st[i] <= st[j]
      /\ \A q \in 1 .. Len(bytes) :
           \/ \E i \in 1 .. n : q > at[i - 1] /\ q <= at[i]
           \/ \E i \in 1 .. n : q > st[i - 1] /\ q <= st[i]
  BY DEF IsLayout
<1>2. \A i \in 1 .. n : NodeWidth(head[i]) \in Nat \ {0}
  BY WidthIsPositive
<1>3. \A i \in 1 .. n : Len(siblings[i].sub) \in Nat
  BY LenProperties
<1>4. n \in Nat /\ \A i \in 1 .. n : i \in 0 .. n /\ i - 1 \in 0 .. n
  OBVIOUS
<1> HIDE DEF n
<1>5. \A i \in 1 .. n : at[i] \in Nat /\ at[i - 1] \in Nat /\ st[i] \in Nat /\ st[i - 1] \in Nat
  BY <1>4
<1>6. ASSUME NEW i \in 1 .. n
      PROVE  at[i - 1] < at[i] /\ at[i] <= at[n] /\ at[n] <= st[i - 1] /\ st[i] <= st[n]
  <2>1. at[i - 1] < at[i]
    BY <1>1, <1>2, <1>5
  <2>2. i \in 0 .. n /\ n \in 0 .. n /\ 0 \in 0 .. i - 1 /\ i - 1 \in 0 .. n
    BY <1>4
  <2>3. st[0] <= st[i - 1]
    BY <1>1, <2>2
  <2> QED
    BY <1>1, <2>1, <2>2, <2>3
<1>7. ASSUME NEW a, NEW i, NEW j, IsHead(a, i), IsHead(a, j) PROVE i = j
  <2>1. ASSUME NEW x \in 1 .. n, NEW y \in 1 .. n, x < y PROVE at[x - 1] < at[y - 1]
    <3>1. y - 1 \in 0 .. n /\ x \in 0 .. y - 1
      BY <1>4
    <3>2. at[x] <= at[y - 1]
      BY <1>1, <3>1
    <3> QED
      BY <1>5, <1>6, <3>2
  <2>2. i \in 1 .. n /\ j \in 1 .. n /\ at[i - 1] + 1 = at[j - 1] + 1
    BY <1>7
  <2>3. at[i - 1] = at[j - 1] /\ at[i - 1] \in Nat
    BY <1>5, <2>2
  <2>4. ~(i < j) /\ ~(j < i)
    BY <2>1, <2>2, <2>3
  <2> QED
    BY <1>4, <2>2, <2>4
<1>8. ASSUME NEW a, NEW i, NEW j, InSub(a, i), InSub(a, j), a \in Nat PROVE i = j
  <2>1. ASSUME NEW x \in 1 .. n, NEW y \in 1 .. n, x < y PROVE st[x] <= st[y - 1]
    <3>1. y - 1 \in 0 .. n /\ x \in 0 .. y - 1
      BY <1>4
    <3> QED
      BY <1>1, <3>1
  <2>2. i \in 1 .. n /\ j \in 1 .. n
    BY <1>8
  <2>3. ~(i < j) /\ ~(j < i)
    BY <1>5, <1>8, <2>1, <2>2
  <2> QED
    BY <1>4, <2>2, <2>3
<1>9. ASSUME NEW i \in 1 .. n
      PROVE  at[i - 1] + 1 \in D /\ notes[at[i - 1] + 1] = hn[i]
  <2> DEFINE a == at[i - 1] + 1
  <2>0. /\ at[i - 1] \in Nat /\ at[i] \in Nat /\ at[n] \in Nat
        /\ st[i - 1] \in Nat /\ st[i] \in Nat /\ st[n] \in Nat
        /\ at[i - 1] < at[i] /\ at[i] <= at[n] /\ at[n] <= st[i - 1]
        /\ st[i - 1] <= st[i] /\ st[i] <= st[n]
    BY <1>1, <1>3, <1>4, <1>5, <1>6
  <2>1. a \in 1 .. Len(bytes)
    BY <1>1, <2>0
  <2>2. bytes[a] # Pad
    <3>1. bytes[a] = head[i] /\ head[i] \in Header
      BY <1>1 DEF n
    <3> QED
      BY <3>1, PadAssumption
  <2>3. IsHead(a, i)
    OBVIOUS
  <2> HIDE DEF a, IsHead
  <2>4. headAt(a) = i
    BY <1>7, <2>3
  <2> HIDE DEF headAt
  <2>5. a \in D /\ notes[a] = hn[i]
    BY <2>1, <2>2, <2>3, <2>4
  <2> QED
    BY <2>5 DEF a
<1>10. ASSUME NEW i \in 1 .. n, NEW p \in DOMAIN sn[i]
       PROVE  /\ p + st[i - 1] \in D
              /\ bytes[p + st[i - 1]] = siblings[i].sub[p]
              /\ notes[p + st[i - 1]] = sn[i][p]
  <2> DEFINE a == p + st[i - 1]
             l == Len(siblings[i].sub)
  <2>1. p \in 1 .. l /\ siblings[i].sub[p] # Pad
    BY DEF n
  <2>2. l \in Nat /\ st[i] = st[i - 1] + l /\ \A q \in 1 .. l :
           bytes[st[i - 1] + q] = siblings[i].sub[q]
    BY <1>1, <1>3
  <2> HIDE DEF l
  <2>3. a = st[i - 1] + p /\ a - st[i - 1] = p /\ a \in Nat
        /\ st[i - 1] < a /\ a <= st[i]
    BY <1>5, <2>1, <2>2
  <2>4. bytes[a] = siblings[i].sub[p]
    BY <2>1, <2>2, <2>3
  <2>5. a \in 1 .. Len(bytes)
    BY <1>1, <1>5, <1>6, <2>3
  <2>6. InSub(a, i)
    BY <2>3
  <2>7. ~ \E k : IsHead(a, k)
    <3> SUFFICES ASSUME NEW k \in 1 .. n, a = at[k - 1] + 1 PROVE FALSE
      OBVIOUS
    <3>1. at[k - 1] < at[k] /\ at[k] <= at[n] /\ at[n] <= st[i - 1]
      BY <1>6
    <3>2. n \in 0 .. n
      BY <1>4
    <3>3. /\ at[n] \in Nat /\ at[k] \in Nat /\ at[k - 1] \in Nat
          /\ st[i - 1] \in Nat
      BY <1>5, <3>2 DEF n
    <3> DEFINE first == at[k - 1]
               last  == at[k]
               end   == at[n]
               from  == st[i - 1]
    <3>4. /\ first \in Nat /\ last \in Nat /\ end \in Nat /\ from \in Nat
          /\ first < last /\ last <= end /\ end <= from
      BY <3>1, <3>3
    <3>5. a \in Nat /\ a = first + 1 /\ from < a
      BY <2>3
    <3> HIDE DEF a, first, last, end, from
    <3> QED
      BY <3>4, <3>5
  <2> HIDE DEF a, InSub, IsHead
  <2>8. subAt(a) = i
    BY <1>8, <2>3, <2>6
  <2> HIDE DEF subAt
  <2>9. a \in D /\ notes[a] = sn[i][p]
    BY <2>1, <2>3, <2>4, <2>5, <2>7, <2>8
  <2> QED
    BY <2>4, <2>9 DEF a
<1>11. ASSUME NEW a \in D
       PROVE  \E i \in 1 .. n : \/ a = at[i - 1] + 1
                                \/ \E p \in DOMAIN sn[i] : a = p + st[i - 1]
  <2>1. CASE \E i \in 1 .. n : a > at[i - 1] /\ a <= at[i]
    <3>1. PICK i \in 1 .. n : a > at[i - 1] /\ a <= at[i]
      BY <2>1
    <3>2. a \notin at[i - 1] + 2 .. at[i]
      BY <1>1
    <3>3. a = at[i - 1] + 1
      BY <1>5, <3>1, <3>2
    <3> QED
      BY <3>3
  <2>2. CASE \E i \in 1 .. n : a > st[i - 1] /\ a <= st[i]
    <3>1. PICK i \in 1 .. n : a > st[i - 1] /\ a <= st[i]
      BY <2>2
    <3> DEFINE p == a - st[i - 1]
               l == Len(siblings[i].sub)
    <3>2. l \in Nat /\ st[i] = st[i - 1] + l /\ \A q \in 1 .. l :
             bytes[st[i - 1] + q] = siblings[i].sub[q]
      BY <1>1, <1>3
    <3> HIDE DEF l
    <3>3. p \in 1 .. l /\ a = p + st[i - 1] /\ a = st[i - 1] + p
      BY <1>5, <3>1, <3>2
    <3> HIDE DEF p
    <3>4. siblings[i].sub[p] # Pad
      BY <3>2, <3>3
    <3>5. p \in DOMAIN sn[i]
      BY <3>3, <3>4 DEF l, n
    <3> QED
      BY <3>3, <3>5
  <2> QED
    BY <1>1, <2>1, <2>2
<1>12. DOMAIN notes = D
  OBVIOUS
<1> HIDE DEF notes
<1>13. AreMerged(notes, bytes, siblings, at, st, hn, sn)
  BY <1>9, <1>10, <1>11, <1>12 DEF AreMerged, n
<1> QED
  BY <1>13

-----------------------------------------------------------------------------
(* serialise_siblings makes a tree of the siblings.                        *)

IsForest(in, siblings, base, depth, own) ==
  /\ AreSorted(siblings, base)
  /\ depth \in Nat
  /\ in.ranks \in Seq(Nat)
  /\ \A i \in 1 .. Len(siblings) : Holds(in, siblings[i], depth, own[i])
  /\ \A j \in 1 .. Len(siblings) : \A i \in 1 .. j - 1 : own[i] \cap own[j] = {}
  /\ GroupedIn(in) =>
       \A j \in 1 .. Len(siblings) : \A i \in 1 .. j - 1 :
         Differs(in, depth, siblings[i].label, own[j])

AllOf(siblings, own) == UNION {own[i] : i \in 1 .. Len(siblings)}

HeadNote(siblings, depth, own, at, st, i) ==
  [rank  |-> siblings[i].rank,
   kids  |-> st[i - 1] - at[i - 1],
   end   |-> at[Len(siblings)] - at[i - 1],
   stop  |-> st[i] - at[i - 1],
   all   |-> st[Len(siblings)] - at[i - 1],
   depth |-> depth,
   below |-> own[i],
   on    |-> UNION {own[j] : j \in i .. Len(siblings)}]

IsSubNote(in, sibling, depth, B, f) ==
  /\ DOMAIN f = {p \in 1 .. Len(sibling.sub) : sibling.sub[p] # Pad}
  /\ ~sibling.leaf =>
       /\ IsNoted(in, sibling.sub, f, 1)
       /\ Begins(sibling.sub[1], f[1], sibling.rank,
                 depth + Len(sibling.label), B)
       /\ f[1].all = Len(sibling.sub)

LEMMA RanksInOrder ==
  ASSUME NEW siblings, NEW base, AreSorted(siblings, base),
         NEW i \in 1 .. Len(siblings), NEW j \in i .. Len(siblings)
  PROVE  siblings[i].rank <= siblings[j].rank
<1> DEFINE n == Len(siblings)
           rank(k) == siblings[k].rank
           T == {k \in Nat : k \in i .. n /\ ~(rank(i) <= rank(k))}
<1>1. n \in Nat /\ \A k \in 1 .. n : rank(k) \in Nat
  BY LenProperties DEF AreSorted, IsNode
<1>2. \A k \in 1 .. n - 1 : rank(k) <= rank(k + 1)
  BY DEF AreSorted
<1> HIDE DEF rank, n
<1>3. T = {}
  <2> SUFFICES ASSUME T # {} PROVE FALSE
    OBVIOUS
  <2>1. PICK k \in T : \A l \in T : k <= l
    <3>1. T \subseteq Nat
      OBVIOUS
    <3> HIDE DEF T
    <3> QED
      BY <3>1, LeastNumber
  <2>2. k \in i .. n /\ ~(rank(i) <= rank(k)) /\ i \in 1 .. n
    BY <2>1 DEF n
  <2>3. k # i /\ k \in 1 .. n
    BY <1>1, <2>2
  <2> DEFINE q == k - 1
  <2>4. q \in Nat /\ q \in i .. n /\ q \in 1 .. n - 1 /\ q + 1 = k /\ q < k /\ q \in 1 .. n
    BY <1>1, <2>2, <2>3
  <2> HIDE DEF q
  <2>5. q \notin T
    <3>1. q \in T => k <= q
      BY <2>1
    <3> HIDE DEF T
    <3> QED
      BY <2>4, <3>1, <2>2
  <2>6. rank(i) <= rank(q)
    BY <2>4, <2>5
  <2>7. rank(q) <= rank(k)
    BY <1>2, <2>4
  <2> QED
    BY <1>1, <2>2, <2>3, <2>4, <2>6, <2>7
<1>4. j \in Nat /\ j \in i .. n
  BY <1>1 DEF n
<1> QED
  BY <1>3, <1>4 DEF rank

(* The subtries of a forest have notes. *)
LEMMA SubNotesExist ==
  ASSUME NEW in, NEW siblings, NEW base, NEW depth, NEW own,
         IsForest(in, siblings, base, depth, own)
  PROVE  \E sn : \A i \in 1 .. Len(siblings) :
                   IsSubNote(in, siblings[i], depth, own[i], sn[i])
<1>1. ASSUME NEW i \in 1 .. Len(siblings)
      PROVE  \E f : IsSubNote(in, siblings[i], depth, own[i], f)
  <2>1. Holds(in, siblings[i], depth, own[i])
    BY DEF IsForest
  <2>2. CASE siblings[i].leaf
    <3> DEFINE f == [p \in {} |-> 0]
    <3>1. siblings[i].sub = <<>>
      BY <2>1, <2>2 DEF Holds
    <3>2. DOMAIN f = {p \in 1 .. Len(siblings[i].sub) : siblings[i].sub[p] # Pad}
      BY <3>1, EmptySeq
    <3> HIDE DEF f
    <3> QED
      BY <2>2, <3>2 DEF IsSubNote
  <2>3. CASE ~siblings[i].leaf
    <3>1. IsTree(in, siblings[i].sub, siblings[i].rank,
                 depth + Len(siblings[i].label), own[i])
      BY <2>1, <2>3 DEF Holds
    <3> QED
      BY <3>1 DEF IsTree, IsNoted, IsSubNote
  <2> QED
    BY <2>2, <2>3
<1> DEFINE sn == [i \in 1 .. Len(siblings) |->
                    CHOOSE f : IsSubNote(in, siblings[i], depth, own[i], f)]
<1>2. \A i \in 1 .. Len(siblings) :
        IsSubNote(in, siblings[i], depth, own[i], sn[i])
  BY <1>1
<1> HIDE DEF sn
<1> QED
  BY <1>2

(* The note of a header fits it. *)
LEMMA HeadIsNoted ==
  ASSUME NEW in, NEW siblings, NEW base, NEW depth,
         NEW own \in [1 .. Len(siblings) -> SUBSET Nat],
         IsForest(in, siblings, base, depth, own),
         NEW head \in [1 .. Len(siblings) -> Header],
         NEW at \in [0 .. Len(siblings) -> Nat],
         NEW st \in [0 .. Len(siblings) -> Nat],
         NEW bytes, IsLayout(bytes, siblings, base, head, at, st),
         NEW hn, NEW sn, NEW notes,
         \A i \in 1 .. Len(siblings) :
           /\ hn[i] = HeadNote(siblings, depth, own, at, st, i)
           /\ IsSubNote(in, siblings[i], depth, own[i], sn[i]),
         AreMerged(notes, bytes, siblings, at, st, hn, sn),
         NEW i \in 1 .. Len(siblings)
  PROVE  NotedAt(in, bytes, notes, at[i - 1] + 1)
<1> DEFINE n == Len(siblings)
           a == at[i - 1] + 1
           h == head[i]
           w == NodeWidth(h)
           note == HeadNote(siblings, depth, own, at, st, i)
           later == UNION {own[j] : j \in i + 1 .. n}
<1>1. n \in Nat /\ i \in 1 .. n /\ i \in 0 .. n /\ i - 1 \in 0 .. n /\ n \in 0 .. n
      /\ 0 \in 0 .. i - 1 /\ i \in 0 .. n /\ i \in 0 .. i
  BY LenProperties DEF IsForest, AreSorted
<1>2. /\ h \in Header /\ h.label = siblings[i].label /\ h.leaf = siblings[i].leaf
      /\ at[i] = at[i - 1] + w /\ st[i] = st[i - 1] + Len(siblings[i].sub)
      /\ st[0] = at[n] /\ bytes[a] = h
  BY <1>1 DEF IsLayout
<1>3. w \in Nat \ {0}
  BY <1>2, WidthIsPositive
<1>4. at[i] <= at[n] /\ st[0] <= st[i - 1]
  BY <1>1 DEF IsLayout
<1>5. a \in DOMAIN notes /\ notes[a] = note
  BY <1>1 DEF AreMerged
<1>6. /\ at[i - 1] \in Nat /\ at[i] \in Nat /\ at[n] \in Nat
      /\ st[i - 1] \in Nat /\ st[0] \in Nat /\ st[i] \in Nat
  <2>1. \A k \in 0 .. n : at[k] \in Nat /\ st[k] \in Nat
    OBVIOUS
  <2> QED
    BY <1>1, <2>1
<1> HIDE DEF n, w
<1>7. /\ note.rank = siblings[i].rank
      /\ note.kids = st[i - 1] - at[i - 1]
      /\ note.end = at[n] - at[i - 1]
      /\ note.depth = depth
      /\ note.below = own[i]
      /\ note.on = own[i] \cup later
  <2>1. UNION {own[j] : j \in i .. n} = own[i] \cup later
    <3>1. \A j : j \in i .. n <=> j = i \/ j \in i + 1 .. n
      BY <1>1
    <3> QED
      BY <3>1
  <2> QED
    BY <2>1 DEF HeadNote, n
<1>8. Holds(in, siblings[i], depth, own[i])
  BY DEF IsForest
<1>9. /\ note.kids \in Nat /\ note.kids > 0 /\ note.end \in Nat /\ w <= note.end
      /\ note.stop \in Nat /\ note.all \in Nat
  <2>1. note.stop = st[i] - at[i - 1] /\ note.all = st[n] - at[i - 1]
    BY DEF HeadNote, n
  <2>2. st[i - 1] <= st[i] /\ st[i] <= st[n] /\ st[n] \in Nat
    <3>1. i - 1 \in 0 .. i /\ i \in 0 .. n
      BY <1>1
    <3>2. st[i - 1] <= st[i] /\ st[i] <= st[n]
      BY <1>1, <3>1 DEF IsLayout, n
    <3>3. st[n] \in Nat
      BY <1>1 DEF n
    <3> QED
      BY <3>2, <3>3
  <2>3. note.stop \in Nat /\ note.all \in Nat
    <3> DEFINE u == at[i - 1]
               v == st[i - 1]
               x == st[i]
               y == st[n]
    <3>1. /\ u \in Nat /\ v \in Nat /\ x \in Nat /\ y \in Nat
          /\ u <= v /\ v <= x /\ x <= y
      BY <1>2, <1>3, <1>4, <1>6, <2>2
    <3>2. note.stop = x - u /\ note.all = y - u
      BY <2>1
    <3> HIDE DEF u, v, x, y, note
    <3> QED
      BY <3>1, <3>2
  <2>4. note.kids \in Nat /\ note.kids > 0 /\ note.end \in Nat /\ w <= note.end
    <3> HIDE DEF note
    <3> QED
      BY <1>2, <1>3, <1>4, <1>6, <1>7
  <2> QED
    BY <2>3, <2>4
<1>10. \A j \in 1 .. n : own[j] \in SUBSET Nat
  BY DEF n
<1>11. Fits(in, h, note)
  <2>1. Len(h.label) < MaxLabelSize /\ note.rank \in Nat
    BY <1>2, <1>7, <1>8 DEF Holds, IsNode
  <2>2. later \in SUBSET Nat
    <3>1. \A j \in i + 1 .. n : j \in 1 .. n
      BY <1>1
    <3> QED
      BY <1>10, <3>1
  <2>3. note \in Note
    <3>1. depth \in Nat
      BY DEF IsForest
    <3>2. own[i] \in SUBSET Nat
      OBVIOUS
    <3>3. note.on \in SUBSET Nat
      BY <1>7, <2>2, <3>2
    <3>4. note = [rank |-> note.rank, kids |-> note.kids, end |-> note.end,
                  stop |-> note.stop, all |-> note.all,
                  depth |-> note.depth, below |-> note.below, on |-> note.on]
      BY DEF HeadNote
    <3>5. note.stop \in Nat /\ note.all \in Nat
      BY <1>9
    <3> HIDE DEF note, later
    <3> QED
      BY <1>7, <1>9, <2>1, <3>1, <3>2, <3>3, <3>4, <3>5 DEF Note
  <2>4. Carries(in, h.label, note.rank, h.leaf, note.depth, note.below)
    BY <1>2, <1>7, <1>8 DEF Holds
  <2>5. ASSUME NEW k \in note.on PROVE note.rank <= in.ranks[k]
    <3>1. PICK j \in i .. n : k \in own[j]
      <4>1. i \in i .. n /\ \A j \in i + 1 .. n : j \in i .. n
        BY <1>1
      <4> QED
        BY <1>7, <4>1
    <3>2. j \in 1 .. n
      BY <1>1
    <3>3. Holds(in, siblings[j], depth, own[j])
      BY <3>2 DEF IsForest, n
    <3>4. /\ siblings[j].rank <= in.ranks[k] /\ siblings[j].rank \in Nat
          /\ k \in DOMAIN in.ranks
      BY <3>1, <3>3 DEF Holds, Carries, IsNode
    <3>5. siblings[i].rank <= siblings[j].rank
      BY <3>2, RanksInOrder DEF IsForest, n
    <3>6. in.ranks[k] \in Nat
      <4>1. in.ranks \in Seq(Nat)
        BY DEF IsForest
      <4> QED
        BY <3>4, <4>1, LenProperties, ElementOfSeq
    <3>7. siblings[i].rank \in Nat
      BY <1>8 DEF Holds, IsNode
    <3> QED
      BY <1>7, <3>4, <3>5, <3>6, <3>7
  <2> QED
    BY <1>2, <2>1, <2>3, <2>4, <2>5 DEF Fits
<1> HIDE DEF note, later
<1>12. ASSUME w < note.end
       PROVE  /\ a + w \in DOMAIN notes
              /\ Follows(in, h, note, bytes[a + w], notes[a + w])
  <2> DEFINE b == at[i] + 1
             note2 == HeadNote(siblings, depth, own, at, st, i + 1)
  <2>1. i + 1 \in 1 .. n /\ (i + 1) - 1 = i /\ i \in 1 .. (i + 1) - 1 /\ i + 1 # 1
    <3>1. i # n
      BY <1>2, <1>3, <1>6, <1>7, <1>12
    <3> QED
      BY <1>1, <3>1
  <2>2. b \in DOMAIN notes /\ notes[b] = note2 /\ bytes[b] = head[i + 1]
    <3> DEFINE j == i + 1
    <3>1. j \in 1 .. Len(siblings) /\ j - 1 = i
      BY <2>1 DEF n
    <3> HIDE DEF j
    <3>2. at[j - 1] + 1 \in DOMAIN notes /\ notes[at[j - 1] + 1] = hn[j]
      BY <3>1 DEF AreMerged
    <3>3. bytes[at[j - 1] + 1] = head[j]
      BY <3>1 DEF IsLayout
    <3>4. hn[j] = HeadNote(siblings, depth, own, at, st, j)
      BY <3>1
    <3> QED
      BY <3>1, <3>2, <3>3, <3>4 DEF j
  <2>3. a + w = b
    BY <1>2, <1>3, <1>6
  <2>4. /\ note2.kids = st[i] - at[i]
        /\ note2.end = at[n] - at[i]
        /\ note2.rank = siblings[i + 1].rank
        /\ note2.depth = depth
        /\ note2.on = later
    BY <2>1 DEF HeadNote, n, later
  <2>5. /\ head[i + 1].offset = Len(siblings[i].sub)
        /\ head[i + 1].rank = siblings[i + 1].rank - siblings[i].rank
    <3> DEFINE j == i + 1
    <3>1. j \in 1 .. Len(siblings) /\ j - 1 = i /\ j # 1
      BY <2>1 DEF n
    <3> HIDE DEF j
    <3>2. /\ head[j].offset = Len(siblings[j - 1].sub)
          /\ head[j].rank = siblings[j].rank - siblings[j - 1].rank
      BY <3>1 DEF IsLayout
    <3> QED
      BY <3>1, <3>2 DEF j
  <2>6. siblings[i + 1].rank \in Nat /\ siblings[i].rank \in Nat
    BY <2>1, <1>1 DEF IsForest, AreSorted, IsNode, n
  <2>7. Len(siblings[i].sub) \in Nat
    <3>1. siblings[i].sub \in Seq(Cell)
      BY DEF IsForest, AreSorted
    <3> QED
      BY <3>1, LenProperties
  <2> HIDE DEF note2
  <2>8. /\ w + note2.kids = note.kids + head[i + 1].offset
        /\ w + note2.end = note.end
        /\ note2.rank = note.rank + head[i + 1].rank
    <3> DEFINE l == Len(siblings[i].sub)
    <3>1. l \in Nat /\ st[i] = st[i - 1] + l /\ head[i + 1].offset = l
      BY <1>2, <2>5, <2>7
    <3> HIDE DEF l
    <3>2. w + note2.kids = note.kids + head[i + 1].offset
      BY <1>2, <1>3, <1>6, <1>7, <2>4, <3>1
    <3>3. w + note2.end = note.end
      BY <1>2, <1>3, <1>6, <1>7, <2>4
    <3>4. note2.rank = note.rank + head[i + 1].rank
      BY <1>7, <2>4, <2>5, <2>6
    <3> QED
      BY <3>2, <3>3, <3>4
  <2>9. GroupedIn(in) => Differs(in, note.depth, h.label, note2.on)
    <3> SUFFICES ASSUME GroupedIn(in)
                 PROVE  Differs(in, depth, siblings[i].label, later)
      BY <1>2, <1>7, <2>4
    <3>1. \A j \in i + 1 .. n : Differs(in, depth, siblings[i].label, own[j])
      <4>1. ASSUME NEW j \in i + 1 .. n PROVE j \in 1 .. n /\ i \in 1 .. j - 1
        BY <1>1
      <4> QED
        BY <4>1 DEF IsForest, n
    <3> QED
      BY <3>1 DEF Differs, later
  <2>11. note.below \cap note2.on = {}
    <3>1. \A j \in i + 1 .. n : own[i] \cap own[j] = {}
      <4>1. ASSUME NEW j \in i + 1 .. n PROVE j \in 1 .. n /\ i \in 1 .. j - 1
        BY <1>1
      <4> QED
        BY <4>1 DEF IsForest, n
    <3> QED
      BY <1>7, <2>4, <3>1 DEF later
  <2>10. Follows(in, h, note, bytes[b], notes[b])
    BY <1>7, <2>2, <2>4, <2>8, <2>9, <2>11 DEF Follows, w
  <2> HIDE DEF a, b
  <2> QED
    BY <2>2, <2>3, <2>10
<1>13. ASSUME ~(w < note.end) PROVE note.on = note.below
  <2>1. ASSUME i # n PROVE FALSE
    <3>1. i + 1 \in 1 .. n /\ (i + 1) - 1 = i /\ n \in 0 .. n /\ i + 1 \in 0 .. n
      BY <1>1, <2>1
    <3>2. at[i + 1] = at[i] + NodeWidth(head[i + 1]) /\ at[i + 1] <= at[n]
      BY <3>1 DEF IsLayout, n
    <3>3. NodeWidth(head[i + 1]) \in Nat \ {0}
      BY <3>1, WidthIsPositive DEF n
    <3> DEFINE z == NodeWidth(head[i + 1])
    <3>4. z \in Nat \ {0} /\ at[i + 1] = at[i] + z
      BY <3>2, <3>3
    <3> HIDE DEF z
    <3> QED
      BY <1>2, <1>3, <1>6, <1>7, <1>13, <3>2, <3>4
  <2>2. later = {}
    <3>1. i + 1 .. n = {}
      BY <1>1, <2>1
    <3> QED
      BY <3>1 DEF later
  <2>3. note.on = note.below
    BY <1>7, <2>2
  <2> QED
    BY <2>3
<1>14. ASSUME ~h.leaf
       PROVE  /\ a + note.kids \in DOMAIN notes
              /\ Begins(bytes[a + note.kids], notes[a + note.kids], note.rank,
                        note.depth + Len(h.label), note.below)
  <2>1. IsSubNote(in, siblings[i], depth, own[i], sn[i])
    OBVIOUS
  <2>2. ~siblings[i].leaf
    BY <1>2, <1>14
  <2>3. /\ 1 \in DOMAIN sn[i]
        /\ Begins(siblings[i].sub[1], sn[i][1], siblings[i].rank,
                  depth + Len(siblings[i].label), own[i])
    BY <2>1, <2>2 DEF IsSubNote, IsNoted
  <2> DEFINE b == 1 + st[i - 1]
  <2>4. b \in DOMAIN notes /\ bytes[b] = siblings[i].sub[1] /\ notes[b] = sn[i][1]
    BY <2>3 DEF AreMerged
  <2>5. a + note.kids = b
    BY <1>6, <1>7
  <2> HIDE DEF b
  <2>6. Begins(bytes[b], notes[b], note.rank, note.depth + Len(h.label), note.below)
    BY <1>2, <1>7, <2>3, <2>4
  <2> HIDE DEF a, h
  <2> QED
    BY <2>4, <2>5, <2>6
<1> HIDE DEF a, h
<1>15. NotedAt(in, bytes, notes, a)
  BY <1>2, <1>5, <1>9, <1>11, <1>12, <1>13, <1>14 DEF NotedAt, w
<1> QED
  BY <1>15 DEF a

(* The bounds of the subtrie of a sibling. *)
LEMMA HeadSpans ==
  ASSUME NEW in, NEW siblings, NEW base, NEW depth,
         NEW own \in [1 .. Len(siblings) -> SUBSET Nat],
         IsForest(in, siblings, base, depth, own),
         NEW head \in [1 .. Len(siblings) -> Header],
         NEW at \in [0 .. Len(siblings) -> Nat],
         NEW st \in [0 .. Len(siblings) -> Nat],
         NEW bytes, IsLayout(bytes, siblings, base, head, at, st),
         NEW hn, NEW sn, NEW notes,
         \A i \in 1 .. Len(siblings) :
           /\ hn[i] = HeadNote(siblings, depth, own, at, st, i)
           /\ IsSubNote(in, siblings[i], depth, own[i], sn[i]),
         AreMerged(notes, bytes, siblings, at, st, hn, sn),
         NEW i \in 1 .. Len(siblings)
  PROVE  Spans(bytes, notes, at[i - 1] + 1)
<1> DEFINE n == Len(siblings)
           a == at[i - 1] + 1
           w == NodeWidth(head[i])
           note == hn[i]
           u == at[i - 1]
           v == st[i - 1]
           l == Len(siblings[i].sub)
<1>1. n \in Nat /\ i \in 1 .. n /\ i \in 0 .. n /\ i - 1 \in 0 .. n /\ n \in 0 .. n
      /\ 0 \in 0 .. i - 1 /\ i - 1 \in 0 .. i
  BY LenProperties DEF IsForest, AreSorted
<1>2. l \in Nat
  <2>1. siblings[i].sub \in Seq(Cell)
    BY DEF IsForest, AreSorted
  <2> QED
    BY <2>1, LenProperties
<1>3. /\ head[i].leaf = siblings[i].leaf /\ bytes[a] = head[i]
      /\ at[i] = u + w /\ st[i] = v + l /\ st[0] = at[n]
      /\ at[i] <= at[n] /\ st[0] <= v /\ v <= st[i] /\ st[i] <= st[n]
  BY <1>1 DEF IsLayout
<1>4. w \in Nat \ {0}
  BY WidthIsPositive
<1>5. a \in DOMAIN notes /\ notes[a] = note
  BY <1>1 DEF AreMerged
<1>6. u \in Nat /\ at[i] \in Nat /\ at[n] \in Nat /\ v \in Nat /\ st[0] \in Nat
      /\ st[i] \in Nat /\ st[n] \in Nat
  <2>1. \A k \in 0 .. n : at[k] \in Nat /\ st[k] \in Nat
    OBVIOUS
  <2> QED
    BY <1>1, <2>1
<1>7. /\ note.kids = v - u /\ note.end = at[n] - u
      /\ note.stop = st[i] - u /\ note.all = st[n] - u
  <2>1. note = HeadNote(siblings, depth, own, at, st, i)
    OBVIOUS
  <2> QED
    BY <2>1 DEF HeadNote
<1> HIDE DEF w, note, u, v, l
<1>8. note.end <= note.kids /\ note.kids <= note.stop /\ note.stop <= note.all
  BY <1>3, <1>6, <1>7
<1>9. ASSUME w < note.end
      PROVE  /\ w + notes[a + w].kids = note.stop
             /\ w + notes[a + w].all = note.all
  <2> DEFINE j == i + 1
  <2>1. j \in 1 .. n /\ j - 1 = i
    <3>1. i # n
      BY <1>3, <1>4, <1>6, <1>7, <1>9
    <3> QED
      BY <1>1, <3>1
  <2> HIDE DEF j
  <2>2. notes[at[i] + 1] = hn[j]
    BY <2>1 DEF AreMerged
  <2>3. hn[j].kids = st[i] - at[i] /\ hn[j].all = st[n] - at[i]
    <3>1. hn[j] = HeadNote(siblings, depth, own, at, st, j)
      BY <2>1
    <3> QED
      BY <2>1, <3>1 DEF HeadNote
  <2>4. a + w = at[i] + 1
    <3>1. a = u + 1
      BY DEF u
    <3> HIDE DEF a
    <3> QED
      BY <1>3, <1>4, <1>6, <3>1
  <2>5. /\ notes[a + w].kids = st[i] - at[i]
        /\ notes[a + w].all = st[n] - at[i]
    BY <2>2, <2>3, <2>4
  <2> DEFINE k2 == notes[a + w].kids
             a2 == notes[a + w].all
  <2> HIDE DEF k2, a2, a, n
  <2>6. k2 = st[i] - at[i] /\ a2 = st[n] - at[i]
    BY <2>5 DEF k2, a2
  <2>7. w + k2 = note.stop /\ w + a2 = note.all
    <3> DEFINE x == st[i]
               y == st[n]
               z == at[i]
    <3>1. /\ u \in Nat /\ w \in Nat /\ x \in Nat /\ y \in Nat /\ z = u + w
          /\ note.stop = x - u /\ note.all = y - u /\ k2 = x - z /\ a2 = y - z
      BY <1>3, <1>4, <1>6, <1>7, <2>6
    <3> HIDE DEF x, y, z
    <3> QED
      BY <3>1
  <2> QED
    BY <2>7 DEF k2, a2
<1>10. ASSUME ~(w < note.end) PROVE note.stop = note.all
  <2>1. ASSUME i # n PROVE FALSE
    <3>1. i + 1 \in 1 .. n /\ (i + 1) - 1 = i /\ n \in 0 .. n /\ i + 1 \in 0 .. n
      BY <1>1, <2>1
    <3>2. at[i + 1] = at[i] + NodeWidth(head[i + 1]) /\ at[i + 1] <= at[n]
      BY <3>1 DEF IsLayout, n
    <3>3. NodeWidth(head[i + 1]) \in Nat \ {0}
      BY <3>1, WidthIsPositive DEF n
    <3> DEFINE z == NodeWidth(head[i + 1])
    <3>4. z \in Nat \ {0} /\ at[i + 1] = at[i] + z
      BY <3>2, <3>3
    <3> HIDE DEF z
    <3> QED
      BY <1>3, <1>4, <1>6, <1>7, <1>10, <3>2, <3>4
  <2> QED
    BY <1>7, <2>1
<1>11. ASSUME ~bytes[a].leaf PROVE note.kids + notes[a + note.kids].all = note.stop
  <2>1. ~siblings[i].leaf
    BY <1>3, <1>11
  <2>2. 1 \in DOMAIN sn[i] /\ sn[i][1].all = l
    BY <2>1 DEF IsSubNote, IsNoted, l
  <2>3. notes[1 + v] = sn[i][1]
    BY <2>2 DEF AreMerged, v
  <2>4. a + note.kids = 1 + v
    <3>1. a = u + 1
      BY DEF u
    <3> HIDE DEF a
    <3> QED
      BY <1>6, <1>7, <3>1
  <2>5. note.kids + l = note.stop
    BY <1>2, <1>3, <1>6, <1>7
  <2> QED
    BY <2>2, <2>3, <2>4, <2>5
<1>12. Spans(bytes, notes, a)
  <2> HIDE DEF a
  <2> QED
    BY <1>3, <1>5, <1>8, <1>9, <1>10, <1>11 DEF Spans, w
<1> QED
  BY <1>12 DEF a

(* The bytes of siblings are a tree that stands for all their suggestions. *)
LEMMA SerialisedTree ==
  ASSUME NEW in, NEW siblings, NEW base, NEW depth,
         NEW own \in [1 .. Len(siblings) -> SUBSET Nat],
         IsForest(in, siblings, base, depth, own)
  PROVE  IsTree(in, SerialiseSiblings(siblings, base), base, depth,
                AllOf(siblings, own))
<1> DEFINE n == Len(siblings)
           bytes == SerialiseSiblings(siblings, base)
<1>1. n \in Nat \ {0} /\ AreSorted(siblings, base) /\ base \in Nat
  BY EmptySeq DEF IsForest, AreSorted
<1>2. \E head \in [1 .. n -> Header] :
        \E at, st \in [0 .. n -> Nat] :
          IsLayout(bytes, siblings, base, head, at, st)
  BY <1>1, SiblingLayout
<1> HIDE DEF bytes
<1>3. PICK head \in [1 .. n -> Header] :
        \E at, st \in [0 .. n -> Nat] :
          IsLayout(bytes, siblings, base, head, at, st)
  BY <1>2
<1>4. PICK at \in [0 .. n -> Nat], st \in [0 .. n -> Nat] :
        IsLayout(bytes, siblings, base, head, at, st)
  BY <1>3
<1>5. PICK sn : \A i \in 1 .. n : IsSubNote(in, siblings[i], depth, own[i], sn[i])
  BY SubNotesExist
<1> DEFINE hn == [i \in 1 .. n |-> HeadNote(siblings, depth, own, at, st, i)]
<1>6. \A i \in 1 .. n : hn[i] = HeadNote(siblings, depth, own, at, st, i)
  OBVIOUS
<1> HIDE DEF hn
<1>7. \A i \in 1 .. n :
        /\ siblings[i].sub \in Seq(Cell)
        /\ DOMAIN sn[i] = {p \in 1 .. Len(siblings[i].sub) : siblings[i].sub[p] # Pad}
  BY <1>1, <1>5 DEF AreSorted, IsSubNote
<1>8. PICK notes : AreMerged(notes, bytes, siblings, at, st, hn, sn)
  BY <1>1, <1>4, <1>7, MergedNotes
<1>9. ASSUME NEW i \in 1 .. n
      PROVE  NotedAt(in, bytes, notes, at[i - 1] + 1) /\ Spans(bytes, notes, at[i - 1] + 1)
  BY <1>4, <1>5, <1>6, <1>8, HeadIsNoted, HeadSpans
<1>10. ASSUME NEW i \in 1 .. n
       PROVE  /\ i \in 0 .. n /\ i - 1 \in 0 .. n
              /\ at[i - 1] \in Nat /\ at[i] \in Nat /\ st[i - 1] \in Nat
              /\ at[n] \in Nat /\ st[0] \in Nat
              /\ at[i] = at[i - 1] + NodeWidth(head[i]) /\ at[i] <= at[n]
              /\ st[0] <= st[i - 1] /\ st[0] = at[n]
              /\ NodeWidth(head[i]) \in Nat \ {0}
              /\ bytes[at[i - 1] + 1] = head[i]
              /\ head[i].leaf = siblings[i].leaf
              /\ at[i - 1] + 1 \in DOMAIN notes
              /\ notes[at[i - 1] + 1] = hn[i]
              /\ hn[i].end = at[n] - at[i - 1]
              /\ hn[i].kids = st[i - 1] - at[i - 1]
  <2>1. i \in 0 .. n /\ i - 1 \in 0 .. n /\ n \in 0 .. n /\ 0 \in 0 .. n
        /\ i \in 0 .. n /\ 0 \in 0 .. i - 1
    BY <1>1
  <2>2. \A k \in 0 .. n : at[k] \in Nat /\ st[k] \in Nat
    OBVIOUS
  <2>3. NodeWidth(head[i]) \in Nat \ {0}
    BY WidthIsPositive
  <2>4. /\ at[i] = at[i - 1] + NodeWidth(head[i]) /\ at[i] <= at[n]
        /\ st[0] <= st[i - 1] /\ st[0] = at[n]
        /\ bytes[at[i - 1] + 1] = head[i]
        /\ head[i].leaf = siblings[i].leaf
    BY <1>4, <2>1 DEF IsLayout
  <2>5. /\ at[i - 1] + 1 \in DOMAIN notes
        /\ notes[at[i - 1] + 1] = hn[i]
    BY <1>8 DEF AreMerged
  <2>6. hn[i].end = at[n] - at[i - 1] /\ hn[i].kids = st[i - 1] - at[i - 1]
    <3>1. hn[i] = HeadNote(siblings, depth, own, at, st, i)
      BY <1>6
    <3> QED
      BY <3>1 DEF HeadNote
  <2> QED
    BY <2>1, <2>2, <2>3, <2>4, <2>5, <2>6
<1>11. ASSUME NEW i \in 1 .. n, NEW p \in DOMAIN sn[i]
       PROVE  /\ ~siblings[i].leaf
              /\ p \in Nat /\ p >= 1
              /\ IsNoted(in, siblings[i].sub, sn[i], 1)
  <2>1. Holds(in, siblings[i], depth, own[i])
    BY DEF IsForest
  <2>2. p \in 1 .. Len(siblings[i].sub) /\ Len(siblings[i].sub) \in Nat
    BY <1>7, LenProperties
  <2>3. ~siblings[i].leaf
    <3>1. siblings[i].sub # <<>>
      BY <2>2, EmptySeq
    <3> QED
      BY <2>1, <3>1 DEF Holds
  <2> QED
    BY <1>5, <2>2, <2>3 DEF IsSubNote
<1>12. ASSUME NEW i \in 1 .. n, NEW p \in DOMAIN sn[i]
       PROVE  NotedAt(in, bytes, notes, p + st[i - 1]) /\ Spans(bytes, notes, p + st[i - 1])
  <2>1. NotedAt(in, siblings[i].sub, sn[i], p) /\ Spans(siblings[i].sub, sn[i], p)
    BY <1>11 DEF IsNoted
  <2>2. DOMAIN sn[i] \subseteq Nat
    BY <1>11
  <2>3. \A x \in DOMAIN sn[i] :
          /\ x + st[i - 1] \in DOMAIN notes
          /\ bytes[x + st[i - 1]] = siblings[i].sub[x]
          /\ notes[x + st[i - 1]] = sn[i][x]
    BY <1>8 DEF AreMerged
  <2>4. st[i - 1] \in Nat
    BY <1>10
  <2> QED
    <3>1. NotedAt(in, bytes, notes, p + st[i - 1])
      BY <2>1, <2>2, <2>3, <2>4, Relocated
    <3>2. Spans(bytes, notes, p + st[i - 1])
      BY <2>1, <2>2, <2>3, <2>4, SpansMoved
    <3> QED
      BY <3>1, <3>2
<1>13. ASSUME NEW i \in 1 .. n, i # 1 PROVE Entered(bytes, notes, at[i - 1] + 1)
  <2> DEFINE j == i - 1
  <2>1. j \in 1 .. n /\ j = i - 1
    BY <1>1, <1>13
  <2> HIDE DEF j
  <2> DEFINE b == at[j - 1] + 1
             w == NodeWidth(head[j])
  <2>2. /\ at[j - 1] \in Nat /\ at[j] = at[j - 1] + w
        /\ w \in Nat \ {0} /\ bytes[b] = head[j] /\ b \in DOMAIN notes
        /\ notes[b].end = at[n] - at[j - 1]
    BY <1>10, <2>1
  <2>3. at[j] < at[n] /\ at[n] \in Nat
    <3> DEFINE v == NodeWidth(head[i])
    <3>1. at[j] \in Nat /\ at[i] = at[j] + v /\ v \in Nat \ {0} /\ at[i] <= at[n]
          /\ at[n] \in Nat
      BY <1>10, <2>1
    <3> HIDE DEF v
    <3> QED
      BY <3>1
  <2> HIDE DEF w
  <2>4. b < at[j] + 1 /\ at[j] + 1 = b + w /\ w < notes[b].end
    BY <2>2, <2>3
  <2> HIDE DEF b
  <2>5. Entered(bytes, notes, at[j] + 1)
    BY <2>2, <2>4 DEF Entered, w
  <2> QED
    BY <2>1, <2>5
<1>14. ASSUME NEW i \in 1 .. n, NEW p \in DOMAIN sn[i]
       PROVE  Entered(bytes, notes, p + st[i - 1])
  <2>1. CASE p = 1
    <3> DEFINE b == at[i - 1] + 1
    <3>1. /\ b \in DOMAIN notes /\ bytes[b] = head[i]
          /\ notes[b].kids = st[i - 1] - at[i - 1]
          /\ ~head[i].leaf
      BY <1>10, <1>11
    <3>2. b < p + st[i - 1] /\ p + st[i - 1] = b + notes[b].kids
      <4> DEFINE w == NodeWidth(head[i])
      <4>1. /\ at[i] = at[i - 1] + w /\ w \in Nat \ {0}
            /\ at[i] <= st[i - 1]
            /\ at[i - 1] \in Nat /\ st[i - 1] \in Nat
        BY <1>10
      <4> DEFINE u == at[i - 1]
                 v == st[i - 1]
                 k == notes[b].kids
      <4>2. /\ u \in Nat /\ v \in Nat /\ w \in Nat \ {0} /\ u + w <= v
            /\ b = u + 1 /\ k = v - u
        BY <3>1, <4>1
      <4> HIDE DEF w, u, v, k, b
      <4>3. b < 1 + v /\ 1 + v = b + k
        BY <4>2
      <4> QED
        BY <2>1, <4>3 DEF v, k
    <3> HIDE DEF b
    <3> QED
      BY <3>1, <3>2 DEF Entered
  <2>2. CASE p # 1
    <3>1. Entered(siblings[i].sub, sn[i], p)
      BY <1>11, <2>2 DEF IsNoted
    <3>2. PICK c \in DOMAIN sn[i] :
            /\ c < p
            /\ \/ /\ p = c + NodeWidth(siblings[i].sub[c])
                  /\ NodeWidth(siblings[i].sub[c]) < sn[i][c].end
               \/ p = c + sn[i][c].kids /\ ~siblings[i].sub[c].leaf
      BY <3>1 DEF Entered
    <3> DEFINE b == c + st[i - 1]
               w == NodeWidth(siblings[i].sub[c])
               d == sn[i][c].kids
    <3>3. b \in DOMAIN notes /\ bytes[b] = siblings[i].sub[c] /\ notes[b] = sn[i][c]
      BY <1>8 DEF AreMerged
    <3>4. Fits(in, siblings[i].sub[c], sn[i][c])
      BY <1>11 DEF IsNoted, NotedAt
    <3>5. w \in Nat /\ d \in Nat /\ c \in Nat /\ p \in Nat /\ st[i - 1] \in Nat
      BY <1>10, <1>11, <3>4, WidthIsPositive DEF Fits, Note
    <3>6. /\ p = c + w => p + st[i - 1] = b + w
          /\ p = c + d => p + st[i - 1] = b + d
          /\ b < p + st[i - 1]
      <4>1. c < p
        BY <3>2
      <4> DEFINE v == st[i - 1]
      <4>2. v \in Nat /\ b = c + v
        BY <3>5
      <4> HIDE DEF w, d, b, v
      <4>3. /\ p = c + w => p + v = b + w
            /\ p = c + d => p + v = b + d
            /\ b < p + v
        BY <3>5, <4>1, <4>2
      <4> QED
        BY <4>3 DEF v
    <3> HIDE DEF b
    <3> QED
      BY <3>2, <3>3, <3>6 DEF Entered
  <2> QED
    BY <2>1, <2>2
<1>15. ASSUME NEW a \in DOMAIN notes
       PROVE  /\ NotedAt(in, bytes, notes, a) /\ Spans(bytes, notes, a)
              /\ a # 1 => Entered(bytes, notes, a)
  <2>1. PICK i \in 1 .. n : a = at[i - 1] + 1 \/ \E p \in DOMAIN sn[i] : a = p + st[i - 1]
    BY <1>8 DEF AreMerged
  <2>2. CASE a = at[i - 1] + 1
    <3>1. i = 1 => a = 1
      BY <1>4, <2>2 DEF IsLayout
    <3> QED
      BY <1>9, <1>13, <2>2, <3>1
  <2>3. CASE \E p \in DOMAIN sn[i] : a = p + st[i - 1]
    BY <1>12, <1>14, <2>3
  <2> QED
    BY <2>1, <2>2, <2>3
<1>16. 1 \in DOMAIN notes /\ notes[1] = hn[1] /\ bytes[1] = head[1]
  <2>1. 1 \in 1 .. n /\ at[1 - 1] + 1 = 1
    BY <1>1, <1>4 DEF IsLayout
  <2> QED
    BY <1>10, <2>1
<1>17. IsNoted(in, bytes, notes, 1)
  BY <1>8, <1>15, <1>16 DEF IsNoted, AreMerged
<1>18. Begins(bytes[1], notes[1], base, depth, UNION {own[i] : i \in 1 .. n})
  <2>1. 1 \in 1 .. n /\ 1 - 1 = 0
    BY <1>1
  <2>2. at[0] = 0 /\ st[0] = at[n] /\ at[1] = NodeWidth(head[1]) /\ at[1] \in Nat
        /\ at[n] \in Nat /\ head[1].offset = at[n] - at[1]
        /\ head[1].rank = siblings[1].rank - base
    <3>1. at[0] = 0 /\ st[0] = at[n] /\ head[1].offset = at[n] - at[1]
          /\ head[1].rank = siblings[1].rank - base
      BY <1>4, <2>1 DEF IsLayout
    <3>2. at[1] = at[0] + NodeWidth(head[1]) /\ NodeWidth(head[1]) \in Nat /\ at[1] \in Nat
          /\ at[n] \in Nat
      BY <1>10, <2>1
    <3> DEFINE v == NodeWidth(head[1])
    <3>3. v \in Nat /\ at[1] = at[0] + v
      BY <3>2
    <3> HIDE DEF v
    <3>4. at[1] = v
      BY <3>1, <3>3
    <3> QED
      BY <3>1, <3>2, <3>4 DEF v
  <2>3. hn[1].kids = at[n] /\ hn[1].end = at[n]
    BY <1>10, <2>1, <2>2
  <2>4. /\ hn[1].rank = siblings[1].rank /\ hn[1].depth = depth
        /\ hn[1].on = UNION {own[i] : i \in 1 .. n}
    <3>1. hn[1] = HeadNote(siblings, depth, own, at, st, 1)
      BY <1>6, <2>1
    <3> QED
      BY <3>1 DEF HeadNote
  <2>5. siblings[1].rank \in Nat
    BY <1>1, <2>1 DEF AreSorted, IsNode
  <2>6. siblings[1].rank = base + head[1].rank
    BY <1>1, <2>2, <2>5
  <2>7. at[n] = NodeWidth(head[1]) + head[1].offset
    BY <2>2
  <2> QED
    BY <1>16, <2>3, <2>4, <2>6, <2>7 DEF Begins
<1>19. bytes \in Seq(Cell)
  BY <1>4 DEF IsLayout
<1>20. notes[1].all = Len(bytes)
  <2>1. 1 \in 1 .. n /\ 1 - 1 = 0 /\ n \in 0 .. n
    BY <1>1
  <2>2. at[0] = 0 /\ Len(bytes) = st[n] /\ st[n] \in Nat
    BY <1>4, <2>1 DEF IsLayout
  <2>3. hn[1] = HeadNote(siblings, depth, own, at, st, 1)
    BY <1>6, <2>1
  <2>4. hn[1].all = st[n] - at[0]
    BY <2>1, <2>3 DEF HeadNote
  <2> QED
    BY <1>16, <2>2, <2>4
<1> QED
  BY <1>17, <1>18, <1>19, <1>20 DEF IsTree, bytes, AllOf

(* Suggestions that reach this depth and whose least rank is this one.     *)
Bounds(in, rank, depth, B) ==
  /\ B \subseteq DOMAIN in.suggestions \cap DOMAIN in.ranks
  /\ \A k \in B : rank <= in.ranks[k] /\ depth <= Len(in.suggestions[k])
  /\ \E k \in B : in.ranks[k] = rank

(* Those of a forest reach its depth, and the first tree has their rank.   *)
LEMMA ForestCarries ==
  ASSUME NEW in, NEW siblings, NEW base, NEW depth \in Nat,
         NEW own \in [1 .. Len(siblings) -> SUBSET Nat],
         IsForest(in, siblings, base, depth, own),
         \A i \in 1 .. Len(siblings) : \A k \in own[i] :
           Len(in.suggestions[k]) \in Nat
  PROVE  Bounds(in, siblings[1].rank, depth, AllOf(siblings, own))
<1> DEFINE n == Len(siblings)
           B == UNION {own[i] : i \in 1 .. n}
<1>1. n \in Nat \ {0} /\ 1 \in 1 .. n /\ AreSorted(siblings, base)
  BY EmptySeq DEF IsForest, AreSorted
<1>2. ASSUME NEW i \in 1 .. n
      PROVE  /\ Carries(in, siblings[i].label, siblings[i].rank, siblings[i].leaf,
                        depth, own[i])
             /\ IsNode(siblings[i])
             /\ siblings[1].rank <= siblings[i].rank
             /\ siblings[i].rank \in Nat
  <2>1. Holds(in, siblings[i], depth, own[i])
    BY DEF IsForest
  <2>2. siblings[1].rank <= siblings[i].rank
    BY <1>1, RanksInOrder
  <2> QED
    BY <2>1, <2>2 DEF Holds, IsNode
<1>3. ASSUME NEW i \in 1 .. n, NEW k \in own[i]
      PROVE  /\ k \in DOMAIN in.suggestions \cap DOMAIN in.ranks
             /\ siblings[1].rank <= in.ranks[k]
             /\ depth <= Len(in.suggestions[k])
  <2>1. /\ k \in DOMAIN in.suggestions \cap DOMAIN in.ranks
        /\ siblings[i].rank <= in.ranks[k]
        /\ Spells(in, k, depth, siblings[i].label)
    BY <1>2 DEF Carries
  <2>2. in.ranks[k] \in Nat
    <3>1. in.ranks \in Seq(Nat)
      BY DEF IsForest
    <3> QED
      BY <2>1, <3>1, LenProperties, ElementOfSeq
  <2>3. siblings[1].rank \in Nat /\ siblings[i].rank \in Nat
    BY <1>1, <1>2
  <2>4. siblings[1].rank <= in.ranks[k]
    BY <1>2, <2>1, <2>2, <2>3
  <2>5. depth <= Len(in.suggestions[k])
    <3>1. Len(siblings[i].label) \in Nat
      BY <1>2, LenProperties DEF IsNode
    <3>2. depth + Len(siblings[i].label) <= Len(in.suggestions[k])
      BY <2>1 DEF Spells
    <3>3. Len(in.suggestions[k]) \in Nat
      OBVIOUS
    <3> QED
      BY <3>1, <3>2, <3>3
  <2> QED
    BY <2>1, <2>4, <2>5
<1>4. \E k \in own[1] : in.ranks[k] = siblings[1].rank
  BY <1>1, <1>2 DEF Carries
<1> QED
  BY <1>1, <1>3, <1>4 DEF Bounds, AllOf

LEMMA ChildrenHold ==
  ASSUME NEW in, NEW c \in Char, NEW siblings, NEW ordered,
         NEW depth \in Nat \ {0},
         NEW own \in [1 .. Len(ordered) -> SUBSET Nat],
         Len(ordered) = Len(siblings),
         siblings # <<>>,
         Len(siblings) = 1 => ordered[1] = siblings[1],
         IsForest(in, ordered, ordered[1].rank, depth, own),
         \A i \in 1 .. Len(ordered) : \A k \in own[i] :
           in.suggestions[k] \in Seq(Char) /\ in.suggestions[k][depth] = c
  PROVE  Holds(in, AddChildren(InternalNode(c), siblings, ordered), depth - 1,
               AllOf(ordered, own))
<1> DEFINE n == Len(ordered)
           B == AllOf(ordered, own)
           father == InternalNode(c)
           new == AddChildren(father, siblings, ordered)
<1>1. n \in Nat \ {0} /\ 1 \in 1 .. n /\ AreSorted(ordered, ordered[1].rank)
  BY EmptySeq DEF IsForest, AreSorted
<1>2. /\ father.label = <<c>> /\ father.rank = 0 /\ ~father.leaf /\ father.sub = <<>>
      /\ <<c>> \in Seq(Char) /\ Len(<<c>>) = 1 /\ <<c>>[1] = c /\ <<c>> # <<>>
  BY DEF InternalNode
<1>3. ~CalledFromRoot(father)
  BY <1>2 DEF CalledFromRoot
<1>4. Bounds(in, ordered[1].rank, depth, B)
  <2> DEFINE base == ordered[1].rank
  <2>1. IsForest(in, ordered, base, depth, own)
    OBVIOUS
  <2>2. \A i \in 1 .. Len(ordered) : \A k \in own[i] :
          Len(in.suggestions[k]) \in Nat
    BY LenProperties
  <2> HIDE DEF base
  <2> QED
    BY <2>1, <2>2, ForestCarries
<1>5. \A k \in B : in.suggestions[k] \in Seq(Char) /\ in.suggestions[k][depth] = c
                   /\ Len(in.suggestions[k]) \in Nat
  BY LenProperties DEF AllOf
<1>6. Holds(in, ordered[1], depth, own[1])
  BY <1>1 DEF IsForest
<1> HIDE DEF n
<1>7. CASE Collapses(father, siblings)
  <2>1. Len(siblings) = 1 /\ n = 1 /\ ordered[1] = siblings[1]
    BY <1>7 DEF Collapses, n
  <2> DEFINE l == ordered[1].label
  <2>2. new = [label |-> <<c>> \o l, rank |-> ordered[1].rank,
               leaf |-> ordered[1].leaf, sub |-> ordered[1].sub]
    BY <1>2, <1>7, <2>1 DEF AddChildren
  <2>3. /\ l \in Seq(Char) /\ Len(l) \in Nat /\ ordered[1].rank \in Nat
        /\ ordered[1].leaf \in BOOLEAN
    BY <1>6, LenProperties DEF Holds, IsNode
  <2>4. Len(l) + 1 < MaxLabelSize
    BY <1>2, <1>7, <2>1 DEF Collapses
  <2> HIDE DEF l
  <2>5. /\ <<c>> \o l \in Seq(Char) /\ Len(<<c>> \o l) = 1 + Len(l)
        /\ \A i \in 1 .. 1 + Len(l) :
             (<<c>> \o l)[i] = IF i <= 1 THEN <<c>>[i] ELSE l[i - 1]
    BY <1>2, <2>3, ConcatProperties
  <2> DEFINE label == <<c>> \o l
             z == Len(l)
  <2>6. /\ label \in Seq(Char) /\ Len(label) = 1 + z /\ label[1] = c
        /\ z \in Nat
        /\ \A i \in 2 .. 1 + z : label[i] = l[i - 1]
    BY <1>2, <2>3, <2>5
  <2> HIDE DEF label, z
  <2>7. label # <<>>
    BY <2>6, EmptySeq
  <2>8. IsNode(new)
    BY <2>2, <2>3, <2>4, <2>6 DEF IsNode, label, z
  <2>9. B = own[1]
    <3>1. 1 .. n = {1}
      BY <2>1
    <3> QED
      BY <3>1 DEF AllOf, n
  <2>10. Carries(in, l, ordered[1].rank, ordered[1].leaf, depth, B)
    BY <1>6, <2>9 DEF Holds, l
  <2> HIDE DEF B
  <2>11. ASSUME NEW k \in B PROVE Spells(in, k, depth - 1, label)
    <3>1. Spells(in, k, depth, l)
      BY <2>10 DEF Carries
    <3>2. depth + z <= Len(in.suggestions[k])
          /\ \A i \in 1 .. z : in.suggestions[k][depth + i] = l[i]
      BY <3>1 DEF Spells, z
    <3>3. ASSUME NEW i \in 1 .. 1 + z
          PROVE  in.suggestions[k][(depth - 1) + i] = label[i]
      <4>1. CASE i = 1
        <5>1. (depth - 1) + i = depth
          BY <4>1
        <5> QED
          BY <1>5, <2>6, <4>1, <5>1
      <4>2. CASE i # 1
        <5>1. i - 1 \in 1 .. z /\ i \in 2 .. 1 + z
          BY <2>6, <4>2
        <5>2. (depth - 1) + i = depth + (i - 1)
          OBVIOUS
        <5> QED
          BY <2>6, <3>2, <5>1, <5>2
      <4> QED
        BY <4>1, <4>2
    <3>4. (depth - 1) + (1 + z) = depth + z
      BY <2>6
    <3> QED
      BY <2>6, <3>2, <3>3, <3>4 DEF Spells
  <2>12. ASSUME ordered[1].leaf
         PROVE  \E k \in B : B = {k} /\ Len(in.suggestions[k]) = (depth - 1) + Len(label)
    <3>1. PICK k \in B : B = {k} /\ Len(in.suggestions[k]) = depth + z
      BY <2>10, <2>12 DEF Carries, z
    <3>2. (depth - 1) + (1 + z) = depth + z
      BY <2>6
    <3> QED
      BY <2>6, <3>1, <3>2
  <2>13. Carries(in, label, ordered[1].rank, ordered[1].leaf, depth - 1, B)
    BY <1>4, <2>7, <2>11, <2>12 DEF Carries, Bounds
  <2>14. ASSUME ~ordered[1].leaf
         PROVE  IsTree(in, ordered[1].sub, ordered[1].rank, (depth - 1) + Len(label), B)
    <3>1. IsTree(in, ordered[1].sub, ordered[1].rank, depth + z, B)
      BY <1>6, <2>9, <2>14 DEF Holds, l, z
    <3>2. (depth - 1) + (1 + z) = depth + z
      BY <2>6
    <3> QED
      BY <2>6, <3>1, <3>2
  <2>15. ordered[1].leaf => ordered[1].sub = <<>>
    BY <1>6 DEF Holds
  <2>16. /\ new.label = label /\ new.rank = ordered[1].rank
         /\ new.leaf = ordered[1].leaf /\ new.sub = ordered[1].sub
    BY <2>2 DEF label
  <2> HIDE DEF new
  <2> QED
    BY <2>8, <2>13, <2>14, <2>15, <2>16 DEF Holds, B, new
<1>8. CASE ~Collapses(father, siblings)
  <2> DEFINE bytes == SerialiseSiblings(ordered, ordered[1].rank)
  <2>1. IsTree(in, bytes, ordered[1].rank, depth, B)
    BY SerialisedTree
  <2>2. bytes \in Seq(Cell)
    BY <2>1 DEF IsTree
  <2>3. new = [label |-> <<c>>, rank |-> ordered[1].rank, leaf |-> FALSE,
               sub |-> <<>> \o bytes]
    BY <1>2, <1>3, <1>8 DEF AddChildren
  <2> HIDE DEF bytes
  <2>4. <<>> \o bytes = bytes
    BY <2>2, ConcatEmptySeq
  <2>5. /\ new.label = <<c>> /\ new.rank = ordered[1].rank
        /\ new.leaf = FALSE /\ new.sub = bytes
    BY <2>3, <2>4
  <2> HIDE DEF new, B
  <2>6. ordered[1].rank \in Nat
    BY <1>6 DEF Holds, IsNode
  <2>7. IsNode(new)
    <3>1. 1 < MaxLabelSize
      BY MaxLabelSizeAssumption
    <3> QED
      BY <1>2, <2>5, <2>6, <3>1 DEF IsNode
  <2>8. ASSUME NEW k \in B PROVE Spells(in, k, depth - 1, <<c>>)
    <3>2. (depth - 1) + 1 = depth /\ depth <= Len(in.suggestions[k])
      BY <1>4 DEF Bounds
    <3>3. \A i \in 1 .. 1 : (depth - 1) + i = depth /\ <<c>>[i] = c
      OBVIOUS
    <3> QED
      BY <1>2, <1>5, <3>2, <3>3 DEF Spells
  <2>9. Carries(in, <<c>>, ordered[1].rank, FALSE, depth - 1, B)
    BY <1>2, <1>4, <2>8 DEF Carries, Bounds
  <2>10. (depth - 1) + Len(<<c>>) = depth
    BY <1>2
  <2>11. Holds(in, new, depth - 1, B)
    BY <2>1, <2>5, <2>7, <2>9, <2>10 DEF Holds
  <2> QED
    BY <2>11 DEF new, B
<1> QED
  BY <1>7, <1>8

-----------------------------------------------------------------------------
(* What the unfinished levels stand for: every node of a level stands for  *)
(* some of the suggestions taken, owns[d][j] for the j-th one of level d.  *)

(* Suggestion k has the first d characters of suggestion n. *)
SharesTo(in, k, n, d) ==
  /\ d <= Len(in.suggestions[k])
  /\ \A i \in 1 .. d : in.suggestions[k][i] = in.suggestions[n][i]

SameAt(in, k, l, d) ==
  /\ d <= Len(in.suggestions[k])
  /\ d <= Len(in.suggestions[l])
  /\ in.suggestions[k][d] = in.suggestions[l][d]

(* The nodes of level d are siblings: their suggestions share what comes   *)
(* before, and part there if equal prefixes are neighbours.                *)
IsLevel(in, n, level, d, own) ==
  /\ own \in [1 .. Len(level) -> SUBSET (1 .. n)]
  /\ \A j \in 1 .. Len(level) :
       own[j] # {} /\ \A k \in own[j] : SharesTo(in, k, n, d - 1)
  /\ n \in own[Len(level)]
  /\ \A i, j \in 1 .. Len(level) : i # j => own[i] \cap own[j] = {}
  /\ GroupedIn(in) =>
       \A i, j \in 1 .. Len(level) : i # j =>
         \A k \in own[i] : \A l \in own[j] : ~SameAt(in, k, l, d)

(* The last node of a level but the last is open and stands for the level  *)
(* below it; the others hold their suggestions.                            *)
LevelsHold(in, n, nodes, owns) ==
  /\ n \in 1 .. Len(in.suggestions)
  /\ \A d \in 1 .. Len(nodes) :
       /\ IsLevel(in, n, nodes[d], d, owns[d])
       /\ \A j \in 1 .. Len(nodes[d]) :
            d = Len(nodes) \/ j < Len(nodes[d]) =>
              Holds(in, nodes[d][j], d - 1, owns[d][j])
       /\ d < Len(nodes) =>
            owns[d][Len(nodes[d])] = AllOf(nodes[d + 1], owns[d + 1])
  /\ AllOf(nodes[1], owns[1]) = 1 .. n

IsInput(in) == in.suggestions \in Seq(Seq(Char)) /\ in.ranks \in Seq(Nat)

(* Sorted, the nodes of a level are a forest. *)
IsForestOf(in, level, own, ordered, base, d, own2) ==
  /\ own2 \in [1 .. Len(ordered) -> SUBSET Nat]
  /\ IsForest(in, ordered, base, d - 1, own2)
  /\ AllOf(ordered, own2) = AllOf(level, own)
  /\ Len(ordered) = Len(level)
  /\ Len(level) = 1 => ordered[1] = level[1]

LEMMA LevelForest ==
  ASSUME NEW in, IsInput(in), NEW n \in 1 .. Len(in.suggestions),
         NEW level, level \in Seq(Range(level)), level # <<>>,
         NEW d \in Nat \ {0}, NEW own, IsLevel(in, n, level, d, own),
         \A j \in 1 .. Len(level) : Holds(in, level[j], d - 1, own[j]),
         NEW ordered \in SortedByRank(level),
         NEW base \in Nat, base <= ordered[1].rank
  PROVE  \E own2 : IsForestOf(in, level, own, ordered, base, d, own2)
<1> DEFINE m == Len(level)
<1>1. m \in Nat \ {0}
  BY EmptySeq
<1>2. PICK p \in Bijection(1 .. m, 1 .. m) :
        ordered = [i \in 1 .. m |-> level[p[i]]]
  BY DEF SortedByRank
<1>3. p \in [1 .. m -> 1 .. m]
  BY DEF Bijection, Injection
<1>4. \A i, j \in 1 .. m : i # j => p[i] # p[j]
  BY <1>3 DEF Bijection, Injection, IsInjective
<1>5. \A j \in 1 .. m : \E i \in 1 .. m : p[i] = j
  BY <1>3 DEF Bijection, Surjection
<1>6. \A i \in 1 .. m : ordered[i] = level[p[i]]
  BY <1>2
<1>7. ordered \in Seq(Range(ordered)) /\ Len(ordered) = m
  <2>1. ordered = [i \in 1 .. m |-> ordered[i]]
    BY <1>2
  <2> HIDE DEF m
  <2> QED
    BY <1>1, <2>1, IntervalFunction
<1>8. \A i \in 1 .. m - 1 : ordered[i].rank <= ordered[i + 1].rank
  BY DEF SortedByRank
<1> DEFINE own2 == [i \in 1 .. m |-> own[p[i]]]
<1>9. own \in [1 .. m -> SUBSET (1 .. n)]
  BY DEF IsLevel
<1>10. own2 \in [1 .. m -> SUBSET Nat] /\ \A i \in 1 .. m : own2[i] = own[p[i]]
  <2>1. \A j \in 1 .. m : own[j] \in SUBSET Nat
    BY <1>9
  <2> QED
    BY <1>3, <2>1
<1> HIDE DEF own2, m
<1>11. \A i \in 1 .. m : Holds(in, ordered[i], d - 1, own2[i])
  BY <1>3, <1>6, <1>10 DEF m
<1>12. AreSorted(ordered, base)
  <2>1. \A i \in 1 .. m : IsNode(ordered[i]) /\ ordered[i].sub \in Seq(Cell)
    <3> SUFFICES ASSUME NEW i \in 1 .. m
                 PROVE  IsNode(ordered[i]) /\ ordered[i].sub \in Seq(Cell)
      OBVIOUS
    <3>1. Holds(in, ordered[i], d - 1, own2[i])
      BY <1>11
    <3>2. CASE ordered[i].leaf
      BY <3>1, <3>2, EmptySeq DEF Holds
    <3>3. CASE ~ordered[i].leaf
      BY <3>1, <3>3 DEF Holds, IsTree
    <3> QED
      BY <3>1, <3>2, <3>3 DEF Holds
  <2>2. ordered # <<>>
    BY <1>1, <1>7, EmptySeq
  <2> QED
    BY <1>7, <1>8, <2>1, <2>2 DEF AreSorted
<1>13. ASSUME GroupedIn(in), NEW j \in 1 .. m, NEW i \in 1 .. j - 1
       PROVE  Differs(in, d - 1, ordered[i].label, own2[j])
  <2> SUFFICES ASSUME ordered[i].label # <<>>, NEW l \in own2[j],
                      d - 1 < Len(in.suggestions[l]),
                      in.suggestions[l][(d - 1) + 1] = ordered[i].label[1]
               PROVE  FALSE
    BY DEF Differs
  <2>1. i \in 1 .. m /\ i # j
    BY <1>1
  <2>2. p[i] \in 1 .. m /\ p[j] \in 1 .. m /\ p[i] # p[j]
    BY <1>3, <1>4, <2>1
  <2>3. PICK k : k \in own[p[i]]
    BY <2>2 DEF IsLevel, m
  <2>4. Holds(in, ordered[i], d - 1, own2[i]) /\ own2[i] = own[p[i]]
    BY <1>10, <1>11, <2>1
  <2>5. /\ Spells(in, k, d - 1, ordered[i].label)
        /\ k \in DOMAIN in.suggestions
    BY <2>3, <2>4 DEF Holds, Carries
  <2>6. Len(ordered[i].label) \in Nat \ {0}
    BY <2>4, EmptySeq DEF Holds, IsNode
  <2>7. l \in 1 .. n /\ own2[j] = own[p[j]]
    BY <1>9, <1>10, <2>2
  <2>8. Len(in.suggestions[k]) \in Nat /\ Len(in.suggestions[l]) \in Nat
    <3>1. in.suggestions \in Seq(Seq(Char))
      BY DEF IsInput
    <3>2. DOMAIN in.suggestions = 1 .. Len(in.suggestions)
          /\ Len(in.suggestions) \in Nat
      BY <3>1, LenProperties
    <3> DEFINE N == Len(in.suggestions)
    <3>3. l \in 1 .. n /\ n \in 1 .. N /\ N \in Nat
      BY <2>7, <3>2
    <3> HIDE DEF N
    <3>4. l \in 1 .. N
      BY <3>3
    <3>5. k \in 1 .. Len(in.suggestions) /\ l \in 1 .. Len(in.suggestions)
      BY <2>5, <3>2, <3>4 DEF N
    <3> QED
      BY <3>1, <3>5, ElementOfSeq, LenProperties
  <2>9. (d - 1) + 1 = d /\ 1 \in 1 .. Len(ordered[i].label)
    BY <2>6
  <2>10. in.suggestions[k][d] = ordered[i].label[1] /\ d <= Len(in.suggestions[k])
    <3> DEFINE w == Len(ordered[i].label)
               z == Len(in.suggestions[k])
    <3>1. in.suggestions[k][(d - 1) + 1] = ordered[i].label[1]
      BY <2>5, <2>9 DEF Spells
    <3>2. w \in Nat \ {0} /\ z \in Nat /\ (d - 1) + w <= z
      BY <2>5, <2>6, <2>8 DEF Spells
    <3> HIDE DEF w, z
    <3>3. d <= z
      BY <3>2
    <3> QED
      BY <2>9, <3>1, <3>3 DEF z
  <2>11. d <= Len(in.suggestions[l])
    BY <2>8
  <2>12. SameAt(in, k, l, d)
    BY <2>9, <2>10, <2>11 DEF SameAt
  <2> QED
    BY <1>13, <2>2, <2>3, <2>7, <2>12 DEF IsLevel, m
<1>14. IsForest(in, ordered, base, d - 1, own2)
  <2>1. d - 1 \in Nat
    OBVIOUS
  <2>2. ASSUME NEW j \in 1 .. m, NEW i \in 1 .. j - 1 PROVE own2[i] \cap own2[j] = {}
    <3>1. i \in 1 .. m /\ i # j
      BY <1>1
    <3>2. p[i] \in 1 .. m /\ p[j] \in 1 .. m /\ p[i] # p[j]
      BY <1>3, <1>4, <3>1
    <3>3. own[p[i]] \cap own[p[j]] = {}
      BY <3>2 DEF IsLevel, m
    <3> QED
      BY <1>10, <3>1, <3>3
  <2> QED
    BY <1>7, <1>11, <1>12, <1>13, <2>1, <2>2 DEF IsForest, IsInput
<1>15. AllOf(ordered, own2) = AllOf(level, own)
  <2>1. \A k : k \in AllOf(ordered, own2) <=> \E i \in 1 .. m : k \in own[p[i]]
    <3>1. AllOf(ordered, own2) = UNION {own2[i] : i \in 1 .. m}
      BY <1>7 DEF AllOf
    <3>2. \A k : k \in UNION {own2[i] : i \in 1 .. m} <=> \E i \in 1 .. m : k \in own2[i]
      OBVIOUS
    <3> QED
      BY <1>10, <3>1, <3>2
  <2>2. \A k : k \in AllOf(level, own) <=> \E j \in 1 .. m : k \in own[j]
    BY DEF AllOf, m
  <2>3. \A k : (\E i \in 1 .. m : k \in own[p[i]]) <=> (\E j \in 1 .. m : k \in own[j])
    BY <1>3, <1>5
  <2> QED
    BY <2>1, <2>2, <2>3
<1>16. m = 1 => ordered[1] = level[1]
  <2> SUFFICES ASSUME m = 1 PROVE ordered[1] = level[1]
    OBVIOUS
  <2>1. 1 \in 1 .. m /\ 1 .. m = {1}
    BY <1>1
  <2>2. p[1] = 1
    BY <1>3, <2>1
  <2> QED
    BY <1>6, <2>1, <2>2
<1> QED
  BY <1>7, <1>10, <1>14, <1>15, <1>16 DEF m, IsForestOf

(* Merging the last level into its father changes no node's suggestions.   *)
LEMMA MergedHolds ==
  ASSUME NEW in, IsInput(in), NEW n, NEW old, NEW owns,
         old \in Seq(Range(old)),
         \A i \in 1 .. Len(old) : /\ old[i] \in Seq(Range(old[i]))
                                  /\ old[i] # <<>>,
         Len(old) > 1,
         LevelsHold(in, n, old, owns),
         Len(old) - 1 <= Len(in.suggestions[n]),
         Last(old[Len(old) - 1]) = InternalNode(in.suggestions[n][Len(old) - 1]),
         NEW ordered \in SortedByRank(Last(old))
  PROVE  LevelsHold(in, n,
                    Merged(old, AddChildren(Last(old[Len(old) - 1]), Last(old), ordered)),
                    owns)
<1> DEFINE last     == Len(old) - 1
           children == old[last + 1]
           father   == Last(old[last])
           own      == owns[last + 1]
           c        == in.suggestions[n][last]
           merged   == AddChildren(father, children, ordered)
           new      == Merged(old, merged)
<1>1. /\ last \in Nat \ {0} /\ last + 1 = Len(old)
      /\ last \in 1 .. Len(old) /\ last + 1 \in 1 .. Len(old)
  BY LenProperties
<1>2. Last(old) = children
  BY <1>1 DEF Last
<1>3. /\ n \in 1 .. Len(in.suggestions)
      /\ \A d \in 1 .. Len(old) :
           /\ IsLevel(in, n, old[d], d, owns[d])
           /\ \A j \in 1 .. Len(old[d]) :
                d = Len(old) \/ j < Len(old[d]) =>
                  Holds(in, old[d][j], d - 1, owns[d][j])
           /\ d < Len(old) =>
                owns[d][Len(old[d])] = AllOf(old[d + 1], owns[d + 1])
      /\ AllOf(old[1], owns[1]) = 1 .. n
  BY DEF LevelsHold
<1>4. /\ new \in Seq(Range(new))
      /\ Len(new) = last
      /\ \A i \in 1 .. last : /\ new[i] \in Seq(Range(new[i]))
                              /\ new[i] # <<>>
                              /\ Len(new[i]) = Len(old[i])
      /\ \A i \in 1 .. last - 1 : new[i] = old[i]
      /\ \A j \in 1 .. Len(old[last]) :
           new[last][j] = IF j = Len(old[last]) THEN merged ELSE old[last][j]
  <2> HIDE DEF merged
  <2> QED
    BY MergedLevels
<1>5. \A j \in 1 .. Len(children) : Holds(in, children[j], last, own[j])
  <2>1. (last + 1) - 1 = last
    BY <1>1
  <2> QED
    BY <1>1, <1>3, <2>1
<1>6. IsLevel(in, n, children, last + 1, own)
  BY <1>1, <1>3
<1>7. children \in Seq(Range(children)) /\ children # <<>> /\ Len(children) \in Nat \ {0}
  BY <1>1, EmptySeq
<1>8. /\ in.suggestions \in Seq(Seq(Char))
      /\ \A k \in 1 .. Len(in.suggestions) : in.suggestions[k] \in Seq(Char)
  BY ElementOfSeq DEF IsInput
<1>9. c \in Char
  <2>1. in.suggestions[n] \in Seq(Char) /\ last \in 1 .. Len(in.suggestions[n])
    BY <1>1, <1>3, <1>8
  <2> QED
    BY <2>1, ElementOfSeq
<1>10. father = InternalNode(c)
  OBVIOUS
<1>11. AllOf(children, own) = owns[last][Len(old[last])]
  <2>1. last < Len(old)
    BY <1>1
  <2> QED
    BY <1>1, <1>3, <2>1
<1>12. ordered \in SortedByRank(children)
  BY <1>2
<1>13. new = Merged(old, AddChildren(Last(old[Len(old) - 1]), Last(old), ordered))
  BY <1>2
<1> HIDE DEF last, children, father, own, c, merged, new
<1>14. Holds(in, merged, last - 1, AllOf(children, own))
  <2>1. ordered[1].rank \in Nat
    <3>1. /\ Len(ordered) = Len(children)
          /\ \A i \in 1 .. Len(ordered) :
               \E k \in 1 .. Len(children) : ordered[i] = children[k]
      BY <1>7, <1>12, SortedSiblings
    <3>2. 1 \in 1 .. Len(ordered)
      BY <1>7, <3>1
    <3>3. PICK k \in 1 .. Len(children) : ordered[1] = children[k]
      BY <3>1, <3>2
    <3> QED
      BY <1>5, <3>3 DEF Holds, IsNode
  <2> DEFINE d == last + 1
  <2>2. d \in Nat \ {0} /\ d - 1 = last
    BY <1>1
  <2>3. \A j \in 1 .. Len(children) : Holds(in, children[j], d - 1, own[j])
    BY <1>5, <2>2
  <2>4. IsLevel(in, n, children, d, own)
    BY <1>6
  <2> HIDE DEF d
  <2> DEFINE base == ordered[1].rank
  <2>5. base \in Nat /\ base <= ordered[1].rank
    BY <2>1
  <2> HIDE DEF base
  <2>0. PICK own2 : IsForestOf(in, children, own, ordered, base, d, own2)
    <3>1. n \in 1 .. Len(in.suggestions)
      BY <1>3
    <3>2. children \in Seq(Range(children)) /\ children # <<>>
      BY <1>7
    <3>3. base \in Nat /\ base <= ordered[1].rank /\ d \in Nat \ {0}
      BY <2>2, <2>5
    <3> QED
      BY <1>12, <2>3, <2>4, <3>1, <3>2, <3>3, LevelForest
  <2>6. /\ own2 \in [1 .. Len(ordered) -> SUBSET Nat]
        /\ IsForest(in, ordered, base, d - 1, own2)
        /\ AllOf(ordered, own2) = AllOf(children, own)
        /\ Len(ordered) = Len(children)
        /\ Len(children) = 1 => ordered[1] = children[1]
    BY <2>0 DEF IsForestOf
  <2>7. IsForest(in, ordered, ordered[1].rank, last, own2)
    BY <2>2, <2>6 DEF base
  <2>8. ASSUME NEW i \in 1 .. Len(ordered), NEW k \in own2[i]
        PROVE  in.suggestions[k] \in Seq(Char) /\ in.suggestions[k][last] = c
    <3>1. k \in AllOf(children, own)
      <4>1. k \in AllOf(ordered, own2)
        BY DEF AllOf
      <4> QED
        BY <2>6, <4>1
    <3>2. PICK j \in 1 .. Len(children) : k \in own[j]
      BY <3>1 DEF AllOf
    <3>3. k \in 1 .. n /\ SharesTo(in, k, n, d - 1)
      BY <2>4, <3>2 DEF IsLevel
    <3>4. last \in 1 .. last
      BY <1>1
    <3>5. in.suggestions[k][last] = c
      BY <2>2, <3>3, <3>4 DEF SharesTo, c
    <3>6. k \in 1 .. Len(in.suggestions)
      <4> DEFINE N == Len(in.suggestions)
      <4>1. N \in Nat /\ n \in 1 .. N
        BY <1>3, <1>8
      <4> HIDE DEF N
      <4>2. k \in 1 .. N
        BY <3>3, <4>1
      <4> QED
        BY <4>2 DEF N
    <3> QED
      BY <1>8, <3>5, <3>6
  <2>9. Holds(in, AddChildren(InternalNode(c), children, ordered), last - 1,
              AllOf(ordered, own2))
    BY <1>1, <1>7, <1>9, <2>6, <2>7, <2>8, ChildrenHold
  <2> QED
    BY <1>10, <2>6, <2>9 DEF merged
<1>15. ASSUME NEW d \in 1 .. last
       PROVE  /\ IsLevel(in, n, new[d], d, owns[d])
              /\ \A j \in 1 .. Len(new[d]) :
                   d = last \/ j < Len(new[d]) =>
                     Holds(in, new[d][j], d - 1, owns[d][j])
              /\ d < last =>
                   owns[d][Len(new[d])] = AllOf(new[d + 1], owns[d + 1])
  <2>1. d \in 1 .. Len(old) /\ d < Len(old) /\ d \in Nat
    BY <1>1
  <2>2. Len(new[d]) = Len(old[d])
    BY <1>4
  <2>3. IsLevel(in, n, new[d], d, owns[d])
    BY <1>3, <2>1, <2>2 DEF IsLevel
  <2>4. ASSUME NEW j \in 1 .. Len(new[d]), d = last \/ j < Len(new[d])
        PROVE  Holds(in, new[d][j], d - 1, owns[d][j])
    <3>1. CASE j < Len(new[d])
      <4>1. Holds(in, old[d][j], d - 1, owns[d][j])
        BY <1>3, <2>1, <2>2, <3>1
      <4>2. CASE d = last
        BY <1>4, <2>2, <3>1, <4>1, <4>2
      <4>3. CASE d # last
        <5>1. d \in 1 .. last - 1
          BY <1>1, <4>3
        <5> QED
          BY <1>4, <4>1, <5>1
      <4> QED
        BY <4>2, <4>3
    <3>2. CASE ~(j < Len(new[d]))
      <4>1. d = last
        BY <2>4, <3>2
      <4>2. j = Len(old[last])
        <5>1. Len(new[d]) \in Nat
          BY <1>4, LenProperties
        <5> QED
          BY <2>2, <3>2, <4>1, <5>1
      <4>3. new[last][j] = merged
        BY <1>4, <2>2, <4>1, <4>2
      <4> QED
        BY <1>11, <1>14, <4>1, <4>2, <4>3
    <3> QED
      BY <3>1, <3>2
  <2>5. ASSUME d < last
        PROVE  owns[d][Len(new[d])] = AllOf(new[d + 1], owns[d + 1])
    <3>1. d + 1 \in 1 .. last
      BY <1>1, <2>1, <2>5
    <3>2. Len(new[d + 1]) = Len(old[d + 1])
      BY <1>4, <3>1
    <3> QED
      BY <1>3, <2>1, <2>2, <3>2 DEF AllOf
  <2> QED
    BY <2>3, <2>4, <2>5
<1>16. AllOf(new[1], owns[1]) = 1 .. n
  <2>1. 1 \in 1 .. last
    BY <1>1
  <2>2. Len(new[1]) = Len(old[1])
    BY <1>4, <2>1
  <2> QED
    BY <1>3, <2>2 DEF AllOf
<1>17. LevelsHold(in, n, new, owns)
  BY <1>3, <1>4, <1>15, <1>16 DEF LevelsHold
<1> QED
  BY <1>13, <1>17

-----------------------------------------------------------------------------
(* What the levels stand for when a suggestion is pushed onto them.        *)

LEMMA InputElements ==
  ASSUME NEW in, IsInput(in), NEW k \in 1 .. Len(in.suggestions)
  PROVE  /\ in.suggestions[k] \in Seq(Char)
         /\ Len(in.suggestions[k]) \in Nat
         /\ Len(in.suggestions) \in Nat
         /\ DOMAIN in.suggestions = 1 .. Len(in.suggestions)
<1>1. in.suggestions \in Seq(Seq(Char))
  BY DEF IsInput
<1>2. in.suggestions[k] \in Seq(Char)
  BY <1>1, ElementOfSeq
<1> QED
  BY <1>1, <1>2, LenProperties

(* Suggestion p comes after suggestion n and shares d characters with it.  *)
Joins(in, n, p, d) ==
  /\ p = n + 1
  /\ p \in 1 .. Len(in.suggestions)
  /\ d <= Len(in.suggestions[p])
  /\ SharesTo(in, n, p, d)

(* It parts from it after the common prefix, at the d-th character. *)
Parts(in, n, p, d) ==
  /\ Joins(in, n, p, d - 1)
  /\ LoopStops(in.suggestions[p], in.suggestions[n], d - 1)

(* What its nodes stand for then. *)
IsJoined(in, p, level, d, own, own2) ==
  /\ IsLevel(in, p, level, d, own2)
  /\ \A j \in 1 .. Len(level) - 1 : own2[j] = own[j]
  /\ own2[Len(level)] = own[Len(level)] \cup {p}
  /\ AllOf(level, own2) = AllOf(level, own) \cup {p}

IsGrown(in, p, level, level2, d, own, own2) ==
  /\ IsLevel(in, p, level2, d, own2)
  /\ \A j \in 1 .. Len(level) : own2[j] = own[j]
  /\ own2[Len(level2)] = {p}
  /\ AllOf(level2, own2) = AllOf(level, own) \cup {p}

IsNew(in, p, level, d, own) ==
  /\ IsLevel(in, p, level, d, own)
  /\ own[Len(level)] = {p}
  /\ AllOf(level, own) = {p}

Reaches(in, p, d) == d - 1 <= Len(in.suggestions[p])

HasOneMore(level2, level) == Len(level2) = Len(level) + 1

(* The open node of a level within the common prefix also stands for it.   *)
LEMMA JoinedLevel ==
  ASSUME NEW in, IsInput(in), NEW n \in Nat \ {0}, NEW p, NEW level,
         Len(level) \in Nat \ {0}, NEW d \in Nat \ {0}, NEW own,
         IsLevel(in, n, level, d, own), Joins(in, n, p, d)
  PROVE  \E own2 : IsJoined(in, p, level, d, own, own2)
<1>0. /\ p = n + 1 /\ p \in 1 .. Len(in.suggestions)
      /\ d <= Len(in.suggestions[p]) /\ SharesTo(in, n, p, d)
  BY DEF Joins
<1> DEFINE m    == Len(level)
           own2 == [j \in 1 .. m |-> IF j = m THEN own[j] \cup {p} ELSE own[j]]
<1>1. m \in Nat \ {0} /\ m \in 1 .. m
  OBVIOUS
<1>2. /\ own \in [1 .. m -> SUBSET (1 .. n)]
      /\ \A j \in 1 .. m : own[j] # {} /\ \A k \in own[j] : SharesTo(in, k, n, d - 1)
      /\ n \in own[m]
      /\ \A i, j \in 1 .. m : i # j => own[i] \cap own[j] = {}
      /\ GroupedIn(in) =>
           \A i, j \in 1 .. m : i # j =>
             \A k \in own[i] : \A l \in own[j] : ~SameAt(in, k, l, d)
  BY DEF IsLevel
<1>3. /\ \A j \in 1 .. m : j # m => own2[j] = own[j]
      /\ own2[m] = own[m] \cup {p}
  BY <1>1
<1>4. own2 \in [1 .. m -> SUBSET (1 .. p)]
  <2>1. p \in 1 .. p /\ \A k \in 1 .. n : k \in 1 .. p
    BY <1>0
  <2>2. \A j \in 1 .. m : own[j] \subseteq 1 .. p
    BY <1>2, <2>1
  <2> QED
    BY <2>1, <2>2
<1>5. \A j \in 1 .. m : \A k \in own2[j] : k \in own[j] \/ (k = p /\ j = m)
  OBVIOUS
<1> HIDE DEF own2, m
<1>6. d - 1 \in Nat /\ d \in 1 .. d /\ \A i \in 1 .. d - 1 : i \in 1 .. d
  OBVIOUS
<1>7. \A k : SharesTo(in, k, n, d - 1) => SharesTo(in, k, p, d - 1)
  BY <1>0, <1>6 DEF SharesTo
<1>8. SharesTo(in, p, p, d - 1)
  <2>1. d - 1 <= Len(in.suggestions[p])
    <3> DEFINE w == Len(in.suggestions[p])
    <3>1. d <= w /\ w \in Nat
      BY <1>0, InputElements
    <3> HIDE DEF w
    <3>2. d - 1 <= w
      BY <3>1, <1>6
    <3> QED
      BY <3>2 DEF w
  <2> QED
    BY <2>1 DEF SharesTo
<1>9. \A j \in 1 .. m : own2[j] # {} /\ \A k \in own2[j] : SharesTo(in, k, p, d - 1)
  <2> SUFFICES ASSUME NEW j \in 1 .. m
               PROVE  own2[j] # {} /\ \A k \in own2[j] : SharesTo(in, k, p, d - 1)
    OBVIOUS
  <2>1. own2[j] # {}
    BY <1>2, <1>3
  <2> QED
    BY <1>2, <1>5, <1>7, <1>8, <2>1
<1>10. \A l : SameAt(in, p, l, d) => SameAt(in, n, l, d)
  BY <1>0, <1>6 DEF SharesTo, SameAt
<1>11. \A k, l : SameAt(in, k, l, d) => SameAt(in, l, k, d)
  BY DEF SameAt
<1>12. ASSUME GroupedIn(in), NEW i \in 1 .. m, NEW j \in 1 .. m, i # j,
              NEW k \in own2[i], NEW l \in own2[j], SameAt(in, k, l, d)
       PROVE  FALSE
  <2>1. k \in own[i] /\ l \in own[j] => FALSE
    BY <1>2, <1>12
  <2>2. CASE k = p /\ i = m
    <3>1. l \in own[j]
      BY <1>5, <1>12, <2>2
    <3>2. SameAt(in, n, l, d)
      BY <1>10, <1>12, <2>2
    <3> QED
      BY <1>2, <1>12, <2>2, <3>1, <3>2
  <2>3. CASE l = p /\ j = m
    <3>1. k \in own[i]
      BY <1>5, <1>12, <2>3
    <3>2. SameAt(in, n, k, d)
      BY <1>10, <1>11, <1>12, <2>3
    <3> QED
      BY <1>1, <1>2, <1>12, <2>3, <3>1, <3>2
  <2> QED
    BY <1>5, <2>1, <2>2, <2>3
<1>13. p \in own2[m]
  BY <1>3
<1>17. \A j \in 1 .. m : p \notin own[j]
  <2>1. p \notin 1 .. n
    BY <1>0
  <2> QED
    BY <1>2, <2>1
<1>18. \A i, j \in 1 .. m : i # j => own2[i] \cap own2[j] = {}
  <2> SUFFICES ASSUME NEW i \in 1 .. m, NEW j \in 1 .. m, i # j,
                      NEW k \in own2[i], k \in own2[j]
               PROVE  FALSE
    OBVIOUS
  <2>1. /\ k \in own[i] \/ (k = p /\ i = m)
        /\ k \in own[j] \/ (k = p /\ j = m)
    BY <1>5
  <2> QED
    BY <1>2, <1>17, <2>1
<1>14. IsLevel(in, p, level, d, own2)
  BY <1>4, <1>9, <1>12, <1>13, <1>18 DEF IsLevel, m
<1>15. \A j \in 1 .. m - 1 : own2[j] = own[j]
  <2>1. \A j \in 1 .. m - 1 : j \in 1 .. m /\ j # m
    BY <1>1
  <2> QED
    BY <1>3, <2>1
<1>16. AllOf(level, own2) = AllOf(level, own) \cup {p}
  <2>1. AllOf(level, own2) = UNION {own2[j] : j \in 1 .. m}
    BY DEF AllOf, m
  <2>2. AllOf(level, own) = UNION {own[j] : j \in 1 .. m}
    BY DEF AllOf, m
  <2>3. \A k : (\E j \in 1 .. m : k \in own2[j])
                 <=> ((\E j \in 1 .. m : k \in own[j]) \/ k = p)
    BY <1>1, <1>3
  <2> QED
    BY <2>1, <2>2, <2>3
<1> QED
  BY <1>3, <1>14, <1>15, <1>16 DEF m, IsJoined

(* The level after the common prefix gets a node for it: if equal prefixes *)
(* are neighbours, no other node of the level goes on the same way.        *)
LEMMA GrownLevel ==
  ASSUME NEW in, IsInput(in), NEW n \in Nat \ {0}, NEW p, NEW level,
         Len(level) \in Nat \ {0}, NEW level2, HasOneMore(level2, level),
         NEW d \in Nat \ {0}, NEW own, IsLevel(in, n, level, d, own),
         Parts(in, n, p, d)
  PROVE  \E own2 : IsGrown(in, p, level, level2, d, own, own2)
<1>0. /\ p = n + 1 /\ p \in 1 .. Len(in.suggestions)
      /\ d - 1 <= Len(in.suggestions[p]) /\ SharesTo(in, n, p, d - 1)
      /\ LoopStops(in.suggestions[p], in.suggestions[n], d - 1)
  BY DEF Parts, Joins
<1> DEFINE m    == Len(level)
           own2 == [j \in 1 .. m + 1 |-> IF j = m + 1 THEN {p} ELSE own[j]]
<1>1. m \in Nat \ {0} /\ m + 1 \in 1 .. m + 1 /\ Len(level2) = m + 1
  BY DEF HasOneMore
<1>2. /\ own \in [1 .. m -> SUBSET (1 .. n)]
      /\ \A j \in 1 .. m : own[j] # {} /\ \A k \in own[j] : SharesTo(in, k, n, d - 1)
      /\ \A i, j \in 1 .. m : i # j => own[i] \cap own[j] = {}
      /\ GroupedIn(in) =>
           \A i, j \in 1 .. m : i # j =>
             \A k \in own[i] : \A l \in own[j] : ~SameAt(in, k, l, d)
  BY DEF IsLevel
<1>3. /\ \A j \in 1 .. m : own2[j] = own[j]
      /\ own2[m + 1] = {p}
  BY <1>1
<1>4. \A j \in 1 .. m + 1 : j # m + 1 => j \in 1 .. m
  BY <1>1
<1>5. own2 \in [1 .. m + 1 -> SUBSET (1 .. p)]
  <2>1. p \in 1 .. p /\ \A k \in 1 .. n : k \in 1 .. p
    BY <1>0
  <2>2. \A j \in 1 .. m : own[j] \subseteq 1 .. p
    BY <1>2, <2>1
  <2> QED
    BY <1>4, <2>1, <2>2
<1> HIDE DEF own2, m
<1>6. d - 1 \in Nat
  OBVIOUS
<1>7. \A k : SharesTo(in, k, n, d - 1) => SharesTo(in, k, p, d - 1)
  BY <1>0 DEF SharesTo
<1>8. SharesTo(in, p, p, d - 1)
  BY <1>0 DEF SharesTo
<1>9. \A j \in 1 .. m + 1 :
        own2[j] # {} /\ \A k \in own2[j] : SharesTo(in, k, p, d - 1)
  BY <1>2, <1>3, <1>4, <1>7, <1>8
<1>10. ASSUME GroupedIn(in), NEW j \in 1 .. m, NEW l \in own[j], SameAt(in, l, p, d)
       PROVE  FALSE
  <2> DEFINE N == Len(in.suggestions)
  <2>1. N \in Nat /\ p \in 1 .. N /\ n + 1 = p
    BY <1>0, InputElements
  <2> HIDE DEF N
  <2>2. l \in 1 .. n
    BY <1>2
  <2>3. l \in 1 .. N /\ n \in 1 .. N /\ n \in l .. p
    BY <2>1, <2>2
  <2>4. /\ in.suggestions[l] \in Seq(Char) /\ Len(in.suggestions[l]) \in Nat
        /\ in.suggestions[n] \in Seq(Char) /\ Len(in.suggestions[n]) \in Nat
        /\ in.suggestions[p] \in Seq(Char) /\ Len(in.suggestions[p]) \in Nat
        /\ DOMAIN in.suggestions = 1 .. N
    BY <2>1, <2>3, InputElements DEF N
  <2> DEFINE sl == in.suggestions[l]
             sn == in.suggestions[n]
             sp == in.suggestions[p]
  <2>5. d <= Len(sl) /\ d <= Len(sp) /\ sl[d] = sp[d]
    BY <1>10 DEF SameAt
  <2>6. /\ d - 1 <= Len(sl) /\ d - 1 <= Len(sn)
        /\ \A i \in 1 .. d - 1 : sl[i] = sn[i] /\ sn[i] = sp[i]
    BY <1>0, <1>2, <1>10 DEF SharesTo
  <2>7. LoopStops(sp, sn, d - 1)
    BY <1>0
  <2>8. /\ l \in DOMAIN in.suggestions /\ p \in DOMAIN in.suggestions
        /\ d \in 0 .. Len(sl)
    BY <2>1, <2>3, <2>4, <2>5
  <2>9. \A x \in l .. p : \A c \in 0 .. Len(sl) :
          /\ c <= Len(sp)
          /\ SubSeq(sl, 1, c) = SubSeq(sp, 1, c)
          => /\ c <= Len(in.suggestions[x])
             /\ SubSeq(in.suggestions[x], 1, c) = SubSeq(sl, 1, c)
    BY <1>10, <2>8 DEF GroupedIn
  <2>10. sl \in Seq(Char) /\ sn \in Seq(Char) /\ sp \in Seq(Char)
    BY <2>4
  <2>11. Len(sl) \in Nat /\ Len(sn) \in Nat /\ Len(sp) \in Nat
    BY <2>4
  <2>12. /\ d <= Len(sp)
         /\ SubSeq(sl, 1, d) = SubSeq(sp, 1, d)
         => /\ d <= Len(sn)
            /\ SubSeq(sn, 1, d) = SubSeq(sl, 1, d)
    BY <2>3, <2>8, <2>9
  <2> HIDE DEF sl, sn, sp
  <2>13. \A i \in 1 .. d : i # d => i \in 1 .. d - 1
    OBVIOUS
  <2>14. SubSeq(sl, 1, d) = SubSeq(sp, 1, d)
    <3>1. \A i \in 1 .. d : sl[i] = sp[i]
      BY <2>5, <2>6, <2>13
    <3>2. SubSeq(sl, 1, d) = [i \in 1 .. d |-> sl[i]]
      BY <2>5, <2>10, <2>11
    <3>3. SubSeq(sp, 1, d) = [i \in 1 .. d |-> sp[i]]
      BY <2>5, <2>10, <2>11
    <3> QED
      BY <3>1, <3>2, <3>3
  <2>15. d <= Len(sn) /\ SubSeq(sn, 1, d) = SubSeq(sl, 1, d)
    BY <2>5, <2>12, <2>14
  <2>16. sn[d] = sl[d]
    <3>1. SubSeq(sl, 1, d) = [i \in 1 .. d |-> sl[i]]
      BY <2>5, <2>10, <2>11
    <3>2. SubSeq(sn, 1, d) = [i \in 1 .. d |-> sn[i]]
      BY <2>10, <2>11, <2>15
    <3>3. d \in 1 .. d
      OBVIOUS
    <3>4. [i \in 1 .. d |-> sn[i]][d] = [i \in 1 .. d |-> sl[i]][d]
      BY <2>15, <3>1, <3>2
    <3> QED
      BY <3>3, <3>4
  <2>17. (d - 1) + 1 = d /\ d - 1 # Len(sp) /\ d - 1 # Len(sn)
    BY <2>5, <2>11, <2>15
  <2> QED
    BY <2>5, <2>7, <2>16, <2>17 DEF LoopStops
<1>11. \A k, l : SameAt(in, k, l, d) => SameAt(in, l, k, d)
  BY DEF SameAt
<1>12. ASSUME GroupedIn(in), NEW i \in 1 .. m + 1, NEW j \in 1 .. m + 1, i # j,
              NEW k \in own2[i], NEW l \in own2[j], SameAt(in, k, l, d)
       PROVE  FALSE
  <2>1. CASE i = m + 1
    <3>1. j \in 1 .. m /\ k = p
      BY <1>3, <1>4, <1>12, <2>1
    <3> QED
      BY <1>3, <1>10, <1>11, <1>12, <3>1
  <2>2. CASE j = m + 1
    <3>1. i \in 1 .. m /\ l = p
      BY <1>3, <1>4, <1>12, <2>2
    <3> QED
      BY <1>3, <1>10, <1>12, <3>1
  <2>3. CASE i # m + 1 /\ j # m + 1
    <3>1. i \in 1 .. m /\ j \in 1 .. m
      BY <1>4, <2>3
    <3> QED
      BY <1>2, <1>3, <1>12, <3>1
  <2> QED
    BY <2>1, <2>2, <2>3
<1>13. p \in own2[m + 1]
  BY <1>3
<1>16. \A j \in 1 .. m : p \notin own[j]
  <2>1. p \notin 1 .. n
    BY <1>0
  <2> QED
    BY <1>2, <2>1
<1>17. \A i, j \in 1 .. m + 1 : i # j => own2[i] \cap own2[j] = {}
  <2> SUFFICES ASSUME NEW i \in 1 .. m + 1, NEW j \in 1 .. m + 1, i # j,
                      NEW k \in own2[i], k \in own2[j]
               PROVE  FALSE
    OBVIOUS
  <2>1. CASE i = m + 1
    <3>1. j \in 1 .. m /\ k = p
      BY <1>3, <1>4, <2>1
    <3> QED
      BY <1>3, <1>16, <3>1
  <2>2. CASE j = m + 1
    <3>1. i \in 1 .. m /\ k = p
      BY <1>3, <1>4, <2>2
    <3> QED
      BY <1>3, <1>16, <3>1
  <2>3. CASE i # m + 1 /\ j # m + 1
    <3>1. i \in 1 .. m /\ j \in 1 .. m
      BY <1>4, <2>3
    <3> QED
      BY <1>2, <1>3, <3>1
  <2> QED
    BY <2>1, <2>2, <2>3
<1>14. IsLevel(in, p, level2, d, own2)
  BY <1>1, <1>5, <1>9, <1>12, <1>13, <1>17 DEF IsLevel
<1>15. AllOf(level2, own2) = AllOf(level, own) \cup {p}
  <2>1. AllOf(level2, own2) = UNION {own2[j] : j \in 1 .. m + 1}
    BY <1>1 DEF AllOf
  <2>2. AllOf(level, own) = UNION {own[j] : j \in 1 .. m}
    BY DEF AllOf, m
  <2>3. \A j \in 1 .. m : j \in 1 .. m + 1
    BY <1>1
  <2>4. \A k : (\E j \in 1 .. m + 1 : k \in own2[j])
                 <=> ((\E j \in 1 .. m : k \in own[j]) \/ k = p)
    BY <1>1, <1>3, <1>4, <2>3
  <2> QED
    BY <2>1, <2>2, <2>4
<1> QED
  BY <1>1, <1>3, <1>14, <1>15 DEF m, IsGrown

(* A level below has a single node. *)
LEMMA NewLevel ==
  ASSUME NEW in, NEW p \in Nat \ {0}, NEW level, Len(level) = 1,
         NEW d \in Nat \ {0}, Reaches(in, p, d)
  PROVE  \E own : IsNew(in, p, level, d, own)
<1> DEFINE own == [j \in 1 .. 1 |-> {p}]
<1>1. 1 .. 1 = {1} /\ p \in 1 .. p
  OBVIOUS
<1>2. own[1] = {p} /\ own \in [1 .. 1 -> SUBSET (1 .. p)]
  BY <1>1
<1> HIDE DEF own
<1>3. SharesTo(in, p, p, d - 1)
  BY DEF SharesTo, Reaches
<1>4. IsLevel(in, p, level, d, own)
  BY <1>1, <1>2, <1>3 DEF IsLevel
<1>5. AllOf(level, own) = {p}
  BY <1>1, <1>2 DEF AllOf
<1> QED
  BY <1>2, <1>4, <1>5 DEF IsNew

(* Level i, node by node, after suggestion s has been pushed. *)
HasPushed(old, new, i, s, rank) ==
  LET before == IF i <= Len(old) THEN Len(old[i]) ELSE 0
  IN  /\ before \in Nat
      /\ Len(new) = before + 1
      /\ \A j \in 1 .. before : new[j] = old[i][j]
      /\ i = Len(s) + 1 => new[before + 1] = DummyLeaf(rank)

LEMMA ExtendedNodes ==
  ASSUME NEW old, NEW s \in Seq(Char), NEW lcp \in Nat, NEW rank \in Nat,
         \A i \in 1 .. Len(old) : old[i] \in Seq(Range(old[i])),
         Len(old) \in Nat, lcp <= Len(s), NEW i \in lcp + 1 .. Len(s) + 1
  PROVE  HasPushed(old, Extended(old, s, lcp, rank)[i], i, s, rank)
<1> DEFINE kept == IF i <= Len(old) THEN old[i] ELSE <<>>
           node == IF i <= Len(s) THEN InternalNode(s[i]) ELSE DummyLeaf(rank)
           S    == Range(kept) \cup {node}
<1>1. Len(s) \in Nat /\ i \in Nat /\ i > lcp /\ i \in 1 .. Len(s) + 1
  BY LenProperties
<1>2. i <= Len(old) => i \in 1 .. Len(old)
  BY <1>1
<1>3. kept \in Seq(S)
  <2>1. kept \in Seq(Range(kept))
    <3>1. CASE i <= Len(old)
      BY <1>2, <3>1
    <3>2. CASE ~(i <= Len(old))
      BY <3>2, EmptySeq
    <3> QED
      BY <3>1, <3>2
  <2> HIDE DEF kept, node
  <2>2. \A x \in Range(kept) : x \in S
    OBVIOUS
  <2>3. kept \in [1 .. Len(kept) -> Range(kept)] /\ Len(kept) \in Nat
    BY <2>1, LenProperties
  <2>4. kept \in [1 .. Len(kept) -> S]
    BY <2>2, <2>3
  <2> HIDE DEF S
  <2> QED
    BY <2>3, <2>4, FunctionIsSeq
<1>4. Extended(old, s, lcp, rank)[i]
        = (kept \o (IF i > lcp /\ i <= Len(s) THEN <<InternalNode(s[i])>> ELSE <<>>))
            \o (IF i = Len(s) + 1 THEN <<DummyLeaf(rank)>> ELSE <<>>)
  BY <1>1 DEF Extended
<1>5. node \in S
  OBVIOUS
<1>6. <<node>> \in Seq(S)
  <2> HIDE DEF S, node
  <2> QED
    BY <1>5
<1>7. kept = IF i <= Len(old) THEN old[i] ELSE <<>>
  OBVIOUS
<1>8. node = IF i <= Len(s) THEN InternalNode(s[i]) ELSE DummyLeaf(rank)
  OBVIOUS
<1> HIDE DEF kept, node, S
<1>9. Extended(old, s, lcp, rank)[i] = kept \o <<node>>
  <2>1. CASE i <= Len(s)
    <3>1. i # Len(s) + 1
      BY <1>1, <2>1
    <3>2. Extended(old, s, lcp, rank)[i] = (kept \o <<node>>) \o <<>>
      BY <1>1, <1>4, <1>8, <2>1, <3>1
    <3>3. kept \o <<node>> \in Seq(S)
      BY <1>3, <1>6, ConcatProperties
    <3> QED
      BY <3>2, <3>3, ConcatEmptySeq
  <2>2. CASE ~(i <= Len(s))
    <3>1. i = Len(s) + 1
      BY <1>1, <2>2
    <3>2. Extended(old, s, lcp, rank)[i] = (kept \o <<>>) \o <<node>>
      BY <1>4, <1>8, <2>2, <3>1
    <3>3. kept \o <<>> = kept
      BY <1>3, ConcatEmptySeq
    <3> QED
      BY <3>2, <3>3
  <2> QED
    BY <2>1, <2>2
<1> DEFINE before == Len(kept)
<1>10. before \in Nat /\ before = IF i <= Len(old) THEN Len(old[i]) ELSE 0
  <2>1. Len(<<>>) = 0
    OBVIOUS
  <2> QED
    BY <1>3, <1>7, <2>1, LenProperties
<1>11. /\ Len(kept \o <<node>>) = before + 1
       /\ \A j \in 1 .. before : (kept \o <<node>>)[j] = kept[j]
       /\ (kept \o <<node>>)[before + 1] = node
  <2>1. kept \o <<node>> = Append(kept, node)
    BY <1>3, <1>5, AppendIsConcat
  <2> QED
    BY <1>3, <1>5, <2>1, AppendProperties
<1>12. i = Len(s) + 1 => node = DummyLeaf(rank)
  BY <1>1, <1>8
<1>13. \A j \in 1 .. before : kept[j] = old[i][j]
  <2>1. CASE i <= Len(old)
    BY <1>7, <2>1
  <2>2. CASE ~(i <= Len(old))
    BY <1>10, <2>2
  <2> QED
    BY <2>1, <2>2
<1> HIDE DEF before
<1> QED
  BY <1>9, <1>10, <1>11, <1>12, <1>13 DEF HasPushed

(* The new leaf stands for its suggestion. *)
LEMMA DummyLeafHolds ==
  ASSUME NEW in, IsInput(in), NEW p \in 1 .. Len(in.suggestions),
         p \in 1 .. Len(in.ranks)
  PROVE  Holds(in, DummyLeaf(in.ranks[p]), Len(in.suggestions[p]), {p})
<1> DEFINE s    == in.suggestions[p]
           leaf == DummyLeaf(in.ranks[p])
<1>1. s \in Seq(Char) /\ Len(s) \in Nat /\ p \in DOMAIN in.suggestions
  BY InputElements
<1>2. in.ranks \in Seq(Nat) /\ p \in DOMAIN in.ranks /\ in.ranks[p] \in Nat
  BY ElementOfSeq, LenProperties DEF IsInput
<1>3. /\ leaf.label = <<>> /\ leaf.rank = in.ranks[p]
      /\ leaf.leaf = TRUE /\ leaf.sub = <<>>
  BY DEF DummyLeaf
<1> HIDE DEF leaf
<1>4. <<>> \in Seq(Char) /\ Len(<<>>) = 0
  BY EmptySeq
<1>5. IsNode(leaf)
  <2>1. 0 < MaxLabelSize /\ Len(leaf.label) = 0 /\ leaf.label \in Seq(Char)
    BY <1>3, <1>4, MaxLabelSizeAssumption
  <2>2. leaf.rank \in Nat /\ leaf.leaf \in BOOLEAN
    BY <1>2, <1>3
  <2> QED
    BY <2>1, <2>2 DEF IsNode
<1>6. Len(s) + Len(<<>>) = Len(s)
  BY <1>1, <1>4
<1>7. Spells(in, p, Len(s), <<>>)
  BY <1>1, <1>4, <1>6 DEF Spells
<1>8. Carries(in, <<>>, in.ranks[p], TRUE, Len(s), {p})
  BY <1>1, <1>2, <1>6, <1>7 DEF Carries
<1>9. Holds(in, leaf, Len(s), {p})
  BY <1>3, <1>5, <1>8 DEF Holds
<1> QED
  BY <1>9 DEF leaf

(* The levels stand for one more suggestion, the new one, which belongs to *)
(* all the nodes of the path.                                              *)
GoesOn(in, p, old, owns, new, d, lcp, own) ==
  /\ IsLevel(in, p, new, d, own)
  /\ \A j \in 1 .. Len(new) - 1 : own[j] = owns[d][j]
  /\ own[Len(new)] = IF d <= lcp THEN owns[d][Len(old[d])] \cup {p} ELSE {p}
  /\ AllOf(new, own) = (IF d <= Len(old) THEN AllOf(old[d], owns[d]) ELSE {}) \cup {p}

(* The levels that the merge has left, up to the common prefix.            *)
AreLeft(in, n, p, old, owns, lcp) ==
  /\ n \in Nat /\ p = n + 1 /\ p \in 1 .. Len(in.suggestions)
  /\ old \in Seq(Range(old))
  /\ \A i \in 1 .. Len(old) : old[i] \in Seq(Range(old[i])) /\ old[i] # <<>>
  /\ \A i \in 1 .. Len(old) : IsLevel(in, n, old[i], i, owns[i])
  /\ lcp \in Nat /\ lcp <= Len(in.suggestions[p])
  /\ n = 0 => Len(old) = 0 /\ lcp = 0
  /\ n # 0 => /\ Len(old) = lcp + 1
              /\ SharesTo(in, n, p, lcp)
              /\ LoopStops(in.suggestions[p], in.suggestions[n], lcp)

(* Level d after the push. *)
IsPushed(old, new, d, lcp) ==
  /\ d <= lcp => new = old[d]
  /\ d > lcp => Len(new) = 1 + IF d <= Len(old) THEN Len(old[d]) ELSE 0

LEMMA LevelGoesOn ==
  ASSUME NEW in, IsInput(in), NEW n, NEW p, NEW old, NEW owns, NEW lcp,
         AreLeft(in, n, p, old, owns, lcp),
         NEW d \in 1 .. Len(in.suggestions[p]) + 1,
         NEW new, IsPushed(old, new, d, lcp)
  PROVE  \E own : GoesOn(in, p, old, owns, new, d, lcp, own)
<1> DEFINE s == in.suggestions[p]
<1>1. /\ s \in Seq(Char) /\ Len(s) \in Nat /\ p \in Nat \ {0}
      /\ n \in Nat /\ p = n + 1 /\ p \in 1 .. Len(in.suggestions)
      /\ lcp \in Nat /\ lcp <= Len(s)
  <2>1. /\ n \in Nat /\ p = n + 1 /\ p \in 1 .. Len(in.suggestions)
        /\ lcp \in Nat /\ lcp <= Len(s)
    BY DEF AreLeft
  <2>2. s \in Seq(Char) /\ Len(s) \in Nat
    BY <2>1, InputElements
  <2> QED
    BY <2>1, <2>2
<1>2. d \in Nat \ {0} /\ d <= Len(s) + 1
  BY <1>1
<1>3. d - 1 \in Nat /\ d - 1 <= Len(s)
  <2> DEFINE w == Len(s)
  <2>1. w \in Nat /\ d <= w + 1
    BY <1>1, <1>2
  <2> HIDE DEF w
  <2>2. d - 1 \in Nat /\ d - 1 <= w
    BY <1>2, <2>1
  <2> QED
    BY <2>2 DEF w
<1>4. /\ Len(old) \in Nat
      /\ \A i \in 1 .. Len(old) : Len(old[i]) \in Nat \ {0}
  <2>1. \A i \in 1 .. Len(old) : old[i] \in Seq(Range(old[i])) /\ old[i] # <<>>
    BY DEF AreLeft
  <2>2. old \in Seq(Range(old))
    BY DEF AreLeft
  <2> QED
    BY <2>1, <2>2, EmptySeq, LenProperties
<1> HIDE DEF s
<1>6. ASSUME d <= lcp
      PROVE  \E own : GoesOn(in, p, old, owns, new, d, lcp, own)
  <2>1. n \in Nat \ {0} /\ Len(old) = lcp + 1 /\ SharesTo(in, n, p, lcp)
    BY <1>1, <1>2, <1>6 DEF AreLeft
  <2>2. d <= Len(old) /\ d \in 1 .. Len(old)
    BY <1>1, <1>2, <1>6, <2>1
  <2>3. new = old[d] /\ Len(new) \in Nat \ {0}
    BY <1>4, <1>6, <2>2 DEF IsPushed
  <2> DEFINE own == owns[d]
  <2>4. IsLevel(in, n, new, d, own)
    BY <2>2, <2>3 DEF AreLeft
  <2>5. SharesTo(in, n, p, d) /\ d <= Len(s)
    <3>1. SharesTo(in, n, p, lcp)
      BY <2>1
    <3>2. \A i \in 1 .. d : i \in 1 .. lcp
      BY <1>1, <1>2, <1>6
    <3> DEFINE sn == in.suggestions[n]
               v  == Len(sn)
               w  == Len(s)
    <3>3. v \in Nat /\ w \in Nat /\ lcp <= v /\ lcp <= w
      <4> DEFINE N == Len(in.suggestions)
      <4>1. N \in Nat /\ p \in 1 .. N
        BY <1>1, InputElements
      <4> HIDE DEF N
      <4>2. n \in 1 .. N
        BY <1>1, <2>1, <4>1
      <4>3. n \in 1 .. Len(in.suggestions)
        BY <4>2 DEF N
      <4>4. Len(sn) \in Nat
        BY <4>3, InputElements
      <4> QED
        BY <1>1, <3>1, <4>4 DEF SharesTo
    <3> HIDE DEF v, w
    <3>4. d <= v /\ d <= w
      BY <1>1, <1>2, <1>6, <3>3
    <3> QED
      BY <3>1, <3>2, <3>4 DEF SharesTo, v, w
  <2> HIDE DEF own
  <2>6. PICK own2 : IsJoined(in, p, new, d, own, own2)
    <3>1. d <= Len(in.suggestions[p])
      BY <2>5 DEF s
    <3> QED
      <4>1. n \in Nat \ {0} /\ p = n + 1 /\ p \in 1 .. Len(in.suggestions)
        BY <1>1, <2>1
      <4>2. Len(new) \in Nat \ {0} /\ d \in Nat \ {0} /\ SharesTo(in, n, p, d)
        BY <1>2, <2>3, <2>5
      <4>3. Joins(in, n, p, d)
        BY <3>1, <4>1, <4>2 DEF Joins
      <4> QED
        BY <2>4, <4>1, <4>2, <4>3, JoinedLevel
  <2>7. GoesOn(in, p, old, owns, new, d, lcp, own2)
    BY <1>6, <2>2, <2>3, <2>6 DEF GoesOn, IsJoined, own
  <2> QED
    BY <2>7
<1>7. ASSUME d > lcp, d <= Len(old)
      PROVE  \E own : GoesOn(in, p, old, owns, new, d, lcp, own)
  <2>1. n \in Nat \ {0} /\ Len(old) = lcp + 1 /\ SharesTo(in, n, p, lcp)
        /\ LoopStops(in.suggestions[p], in.suggestions[n], lcp)
    BY <1>1, <1>2, <1>7 DEF AreLeft
  <2>2. d = lcp + 1 /\ d - 1 = lcp /\ d \in 1 .. Len(old)
    BY <1>1, <1>2, <1>7, <2>1
  <2>3. /\ Len(old[d]) \in Nat \ {0}
        /\ Len(new) = Len(old[d]) + 1
        /\ IsLevel(in, n, old[d], d, owns[d])
    <3>1. Len(old[d]) \in Nat \ {0} /\ IsLevel(in, n, old[d], d, owns[d])
      BY <1>4, <2>2 DEF AreLeft
    <3>2. Len(new) = 1 + Len(old[d])
      BY <1>7 DEF IsPushed
    <3> QED
      BY <3>1, <3>2
  <2>4. /\ SharesTo(in, n, p, d - 1)
        /\ LoopStops(in.suggestions[p], in.suggestions[n], d - 1)
        /\ d - 1 <= Len(in.suggestions[p])
    BY <1>3, <2>1, <2>2 DEF s
  <2> DEFINE level == old[d]
             own   == owns[d]
  <2>5. /\ Len(level) \in Nat \ {0}
        /\ Len(new) = Len(level) + 1
        /\ IsLevel(in, n, level, d, own)
    BY <2>3
  <2> HIDE DEF level, own
  <2>6. PICK own2 : IsGrown(in, p, level, new, d, own, own2)
    <3>1. n \in Nat \ {0} /\ p = n + 1 /\ p \in 1 .. Len(in.suggestions)
      BY <1>1, <2>1
    <3>2. d \in Nat \ {0}
      BY <1>2
    <3> QED
      <4>1. Parts(in, n, p, d) /\ HasOneMore(new, level)
        BY <2>4, <2>5, <3>1 DEF Parts, Joins, HasOneMore
      <4> QED
        BY <2>5, <3>1, <3>2, <4>1, GrownLevel
  <2>7. Len(new) - 1 = Len(level)
    BY <2>5
  <2>8. ~(d <= lcp)
    BY <1>1, <1>2, <2>2
  <2>9. GoesOn(in, p, old, owns, new, d, lcp, own2)
    BY <1>7, <2>6, <2>7, <2>8 DEF GoesOn, IsGrown, level, own
  <2> QED
    BY <2>9
<1>8. ASSUME d > lcp, ~(d <= Len(old))
      PROVE  \E own : GoesOn(in, p, old, owns, new, d, lcp, own)
  <2>1. Len(new) = 1
    BY <1>8 DEF IsPushed
  <2>2. PICK own : IsNew(in, p, new, d, own)
    <3>1. Reaches(in, p, d)
      BY <1>3 DEF s, Reaches
    <3> QED
      <4>1. p \in Nat \ {0} /\ d \in Nat \ {0}
        BY <1>1, <1>2
      <4> QED
        BY <2>1, <3>1, <4>1, NewLevel
  <2>3. 1 .. Len(new) - 1 = {}
    BY <2>1
  <2>4. ~(d <= lcp)
    BY <1>1, <1>2, <1>8
  <2>5. GoesOn(in, p, old, owns, new, d, lcp, own)
    BY <1>8, <2>2, <2>3, <2>4 DEF GoesOn, IsNew
  <2> QED
    BY <2>5
<1> QED
  BY <1>1, <1>2, <1>6, <1>7, <1>8

(* Pushing the next suggestion adds it to what the levels stand for, and   *)
(* nothing else.                                                           *)
LEMMA ExtendedHolds ==
  ASSUME NEW in, IsInput(in), NEW n, NEW p, NEW old, NEW owns, NEW lcp,
         AreLeft(in, n, p, old, owns, lcp),
         p \in 1 .. Len(in.ranks),
         \A i \in 1 .. Len(old) : \A j \in 1 .. Len(old[i]) : IsNode(old[i][j]),
         n # 0 => LevelsHold(in, n, old, owns)
  PROVE  \E owns2 :
           LevelsHold(in, p, Extended(old, in.suggestions[p], lcp, in.ranks[p]), owns2)
<1> DEFINE s    == in.suggestions[p]
           rank == in.ranks[p]
           new  == Extended(old, s, lcp, rank)
           m    == Len(s) + 1
<1>1. /\ s \in Seq(Char) /\ Len(s) \in Nat
      /\ n \in Nat /\ p = n + 1 /\ p \in 1 .. Len(in.suggestions)
      /\ lcp \in Nat /\ lcp <= Len(s)
      /\ n = 0 => Len(old) = 0 /\ lcp = 0
      /\ n # 0 => Len(old) = lcp + 1
  <2>1. /\ n \in Nat /\ p = n + 1 /\ p \in 1 .. Len(in.suggestions)
        /\ lcp \in Nat /\ lcp <= Len(s)
        /\ n = 0 => Len(old) = 0 /\ lcp = 0
        /\ n # 0 => Len(old) = lcp + 1
    BY DEF AreLeft
  <2>2. s \in Seq(Char) /\ Len(s) \in Nat
    BY <2>1, InputElements
  <2> QED
    BY <2>1, <2>2
<1>2. rank \in Nat
  BY ElementOfSeq DEF IsInput
<1>3. /\ old \in Seq(Range(old)) /\ Len(old) \in Nat
      /\ \A i \in 1 .. Len(old) : old[i] \in Seq(Range(old[i])) /\ old[i] # <<>>
  BY LenProperties DEF AreLeft
<1>4. Len(old) <= lcp + 1 /\ Len(old) >= lcp
  BY <1>1
<1> HIDE DEF s, rank
<1>5. /\ Len(new) = m
      /\ \A i \in 1 .. Len(new) : new[i] \in Seq(Range(new[i])) /\ new[i] # <<>>
      /\ \A i \in 1 .. lcp : new[i] = old[i]
  <2>1. \A i \in 1 .. Len(old) : /\ old[i] \in Seq(Range(old[i]))
                                 /\ old[i] # <<>>
                                 /\ \A j \in 1 .. Len(old[i]) : IsNode(old[i][j])
    BY <1>3
  <2>2. /\ s \in Seq(Char) /\ lcp \in Nat /\ rank \in Nat
        /\ old \in Seq(Range(old))
        /\ lcp <= Len(s) /\ Len(old) <= lcp + 1 /\ Len(old) >= lcp
    BY <1>1, <1>2, <1>3, <1>4
  <2> QED
    BY <2>1, <2>2, ExtendedLevels
<1>6. /\ m \in Nat \ {0} /\ m = Len(s) + 1
      /\ \A d \in 1 .. m : d \in Nat \ {0} /\ Len(new[d]) \in Nat \ {0}
  BY <1>1, <1>5, EmptySeq
<1>7. ASSUME NEW d \in 1 .. m, d > lcp
      PROVE  LET before == IF d <= Len(old) THEN Len(old[d]) ELSE 0
             IN  /\ before \in Nat
                 /\ Len(new[d]) = before + 1
                 /\ \A j \in 1 .. before : new[d][j] = old[d][j]
                 /\ d = m => new[d][before + 1] = DummyLeaf(rank)
  <2>1. d \in lcp + 1 .. Len(s) + 1
    BY <1>1, <1>6, <1>7
  <2>2. \A i \in 1 .. Len(old) : old[i] \in Seq(Range(old[i]))
    BY <1>3
  <2>3. s \in Seq(Char) /\ lcp \in Nat /\ rank \in Nat /\ Len(old) \in Nat /\ lcp <= Len(s)
    BY <1>1, <1>2, <1>3
  <2>4. HasPushed(old, Extended(old, s, lcp, rank)[d], d, s, rank)
    BY <2>1, <2>2, <2>3, ExtendedNodes
  <2> QED
    BY <2>4 DEF HasPushed
<1> HIDE DEF new, m
<1>8. ASSUME NEW d \in 1 .. m
      PROVE  \E own : GoesOn(in, p, old, owns, new[d], d, lcp, own)
  <2>1. d \in 1 .. Len(in.suggestions[p]) + 1
    BY <1>6 DEF s
  <2> DEFINE level == new[d]
  <2>2. IsPushed(old, level, d, lcp)
    <3>1. d <= lcp => level = old[d]
      BY <1>5, <1>6
    <3>2. ASSUME d > lcp
          PROVE  Len(level) = 1 + IF d <= Len(old) THEN Len(old[d]) ELSE 0
      BY <1>7, <3>2
    <3> QED
      BY <3>1, <3>2 DEF IsPushed
  <2> HIDE DEF level
  <2>3. \E own : GoesOn(in, p, old, owns, level, d, lcp, own)
    BY <2>1, <2>2, LevelGoesOn
  <2> QED
    BY <2>3 DEF level
<1> DEFINE owns2 == [d \in 1 .. m |->
                       CHOOSE own : GoesOn(in, p, old, owns, new[d], d, lcp, own)]
<1>9. \A d \in 1 .. m : GoesOn(in, p, old, owns, new[d], d, lcp, owns2[d])
  BY <1>8
<1> HIDE DEF owns2
<1>10. \A d \in 1 .. m :
         /\ IsLevel(in, p, new[d], d, owns2[d])
         /\ \A j \in 1 .. Len(new[d]) - 1 : owns2[d][j] = owns[d][j]
         /\ owns2[d][Len(new[d])] = IF d <= lcp THEN owns[d][Len(old[d])] \cup {p} ELSE {p}
         /\ AllOf(new[d], owns2[d])
              = (IF d <= Len(old) THEN AllOf(old[d], owns[d]) ELSE {}) \cup {p}
  BY <1>9 DEF GoesOn
<1>11. n # 0 =>
         /\ \A d \in 1 .. Len(old) :
              /\ \A j \in 1 .. Len(old[d]) :
                   d = Len(old) \/ j < Len(old[d]) =>
                     Holds(in, old[d][j], d - 1, owns[d][j])
              /\ d < Len(old) =>
                   owns[d][Len(old[d])] = AllOf(old[d + 1], owns[d + 1])
         /\ AllOf(old[1], owns[1]) = 1 .. n
  BY DEF LevelsHold
<1>12. ASSUME NEW d \in 1 .. m, NEW j \in 1 .. Len(new[d]),
              d = m \/ j < Len(new[d])
       PROVE  Holds(in, new[d][j], d - 1, owns2[d][j])
  <2>1. CASE j < Len(new[d])
    <3>1. j \in 1 .. Len(new[d]) - 1
      BY <1>6, <2>1
    <3>2. owns2[d][j] = owns[d][j]
      BY <1>10, <3>1
    <3>3. CASE d <= lcp
      <4>1. n # 0 /\ d \in 1 .. Len(old)
        BY <1>1, <1>6, <3>3
      <4>2. new[d] = old[d]
        BY <1>5, <1>6, <3>3
      <4>3. j \in 1 .. Len(old[d]) /\ j < Len(old[d])
        BY <2>1, <4>2
      <4> QED
        BY <1>11, <3>2, <4>1, <4>2, <4>3
    <3>4. CASE ~(d <= lcp)
      <4>1. d > lcp
        BY <1>1, <1>6, <3>4
      <4>2. CASE d <= Len(old)
        <5>1. n # 0 /\ d \in 1 .. Len(old) /\ d = Len(old)
          BY <1>1, <1>6, <4>1, <4>2
        <5>2. /\ Len(new[d]) = Len(old[d]) + 1 /\ Len(old[d]) \in Nat
              /\ \A i \in 1 .. Len(old[d]) : new[d][i] = old[d][i]
          BY <1>7, <4>1, <4>2
        <5>3. j \in 1 .. Len(old[d])
          BY <3>1, <5>2
        <5> QED
          BY <1>11, <3>2, <5>1, <5>2, <5>3
      <4>3. CASE ~(d <= Len(old))
        <5> DEFINE before == IF d <= Len(old) THEN Len(old[d]) ELSE 0
        <5>2. Len(new[d]) = before + 1
          BY <1>7, <4>1
        <5>3. before = 0
          BY <4>3
        <5> HIDE DEF before
        <5>1. Len(new[d]) = 1
          BY <5>2, <5>3
        <5> QED
          BY <2>1, <5>1
      <4> QED
        BY <4>2, <4>3
    <3> QED
      BY <3>3, <3>4
  <2>2. CASE ~(j < Len(new[d]))
    <3>1. d = m /\ j = Len(new[d]) /\ d > lcp /\ ~(d <= lcp)
      BY <1>1, <1>6, <1>12, <2>2
    <3>2. new[d][j] = DummyLeaf(rank)
      <4> DEFINE before == IF d <= Len(old) THEN Len(old[d]) ELSE 0
      <4>1. Len(new[d]) = before + 1 /\ (d = m => new[d][before + 1] = DummyLeaf(rank))
        BY <1>7, <3>1
      <4> HIDE DEF before
      <4> QED
        BY <3>1, <4>1
    <3>3. owns2[d][j] = {p}
      BY <1>10, <3>1
    <3>4. d - 1 = Len(s)
      BY <1>1, <1>6, <3>1
    <3>5. Holds(in, DummyLeaf(rank), Len(s), {p})
      BY <1>1, DummyLeafHolds DEF s, rank
    <3> QED
      BY <3>2, <3>3, <3>4, <3>5
  <2> QED
    BY <2>1, <2>2
<1>13. ASSUME NEW d \in 1 .. m, d < m
       PROVE  owns2[d][Len(new[d])] = AllOf(new[d + 1], owns2[d + 1])
  <2>1. d + 1 \in 1 .. m
    BY <1>6, <1>13
  <2>2. CASE d <= lcp
    <3>1. n # 0 /\ d \in 1 .. Len(old) /\ d < Len(old) /\ d + 1 <= Len(old)
      BY <1>1, <1>6, <2>2
    <3>2. owns[d][Len(old[d])] = AllOf(old[d + 1], owns[d + 1])
      BY <1>11, <3>1
    <3> QED
      BY <1>10, <2>1, <2>2, <3>1, <3>2
  <2>3. CASE ~(d <= lcp)
    <3>1. ~(d + 1 <= Len(old))
      BY <1>1, <1>6, <2>3
    <3>2. AllOf(new[d + 1], owns2[d + 1]) = {p}
      BY <1>10, <2>1, <3>1
    <3> QED
      BY <1>10, <2>3, <3>2
  <2> QED
    BY <2>2, <2>3
<1>14. AllOf(new[1], owns2[1]) = 1 .. p
  <2>1. 1 \in 1 .. m
    BY <1>6
  <2>2. CASE n = 0
    <3>1. ~(1 <= Len(old)) /\ p = 1 /\ 1 .. 1 = {1}
      BY <1>1, <2>2
    <3> QED
      BY <1>10, <2>1, <3>1
  <2>3. CASE n # 0
    <3>1. 1 <= Len(old)
      BY <1>1, <2>3
    <3>2. AllOf(new[1], owns2[1]) = (1 .. n) \cup {p}
      BY <1>10, <1>11, <2>1, <2>3, <3>1
    <3>3. (1 .. n) \cup {p} = 1 .. p
      BY <1>1
    <3> QED
      BY <3>2, <3>3
  <2> QED
    BY <2>2, <2>3
<1>15. LevelsHold(in, p, new, owns2)
  BY <1>1, <1>5, <1>10, <1>12, <1>13, <1>14 DEF LevelsHold
<1> QED
  BY <1>15 DEF new, s, rank

-----------------------------------------------------------------------------
(* The root: a byte of its own before the tree of the first level.         *)

RootHead == [label |-> <<>>, rank |-> 0, offset |-> 0, leaf |-> FALSE]

(* The root of an empty trie. *)
LeafHead == [label |-> <<>>, rank |-> 0, offset |-> 0, leaf |-> TRUE]

(* Both take one byte; the first child added opens the root. *)
LEMMA RootBytes ==
  /\ RootHead \in Header /\ NodeWidth(RootHead) = 1
  /\ NodeWidth(LeafHead) = 1
  /\ LeafRootHeader = <<LeafHead>>
  /\ RootOpened(LeafRootHeader) = <<RootHead>>
<1>1. OffsetSize(0) = 0 /\ RankSize(0) = 0
  <2>1. TagOf(0) = EMPTY
    BY DEF TagOf, EMPTY
  <2> QED
    BY <2>1 DEF OffsetSize, RankSize, CodewordSize, EMPTY, UINT8, UINT16, UINT64
<1>2. NodeWidth(RootHead) = 1 /\ NodeWidth(LeafHead) = 1
  BY <1>1 DEF NodeWidth, RootHead, LeafHead
<1>3. RootHead \in Header
  BY EmptySeq DEF RootHead, Header
<1>4. [i \in 1 .. 1 - 1 |-> Pad] = <<>>
  OBVIOUS
<1>5. LeafRootHeader = <<LeafHead>>
  <2>2. LeafRootHeader = <<LeafHead>> \o [i \in 1 .. NodeWidth(LeafHead) - 1 |-> Pad]
    BY DEF LeafRootHeader, SerialiseNode, LeafHead
  <2>3. <<LeafHead>> \in Seq({LeafHead})
    OBVIOUS
  <2> QED
    BY <1>2, <1>4, <2>2, <2>3, ConcatEmptySeq
<1>6. InternalRootHeader = <<RootHead>>
  <2>1. InternalRootHeader = <<RootHead>> \o [i \in 1 .. NodeWidth(RootHead) - 1 |-> Pad]
    BY DEF InternalRootHeader, SerialiseNode, RootHead
  <2>2. <<RootHead>> \in Seq({RootHead})
    OBVIOUS
  <2> QED
    BY <1>2, <1>4, <2>1, <2>2, ConcatEmptySeq
<1>7. Front(LeafRootHeader) = <<>>
  <2>1. Len(<<LeafHead>>) = 1 /\ <<LeafHead>> \in Seq({LeafHead})
    OBVIOUS
  <2>2. SubSeq(<<LeafHead>>, 1, 0) = <<>>
    BY <2>1
  <2> QED
    BY <1>5, <2>1, <2>2 DEF Front
<1>8. RootOpened(LeafRootHeader) = <<RootHead>>
  <2>1. <<RootHead>> \in Seq({RootHead})
    OBVIOUS
  <2> QED
    BY <1>6, <1>7, <2>1, ConcatEmptySeq DEF RootOpened
<1> QED
  BY <1>2, <1>3, <1>5, <1>8

(* A tree behind the bytes of its father's header. *)
IsHeaded(in, bytes, start, base, depth, B) ==
  /\ bytes \in Seq(Cell)
  /\ \E notes : /\ IsNoted(in, bytes, notes, start)
                /\ Begins(bytes[start], notes[start], base, depth, B)

LEMMA HeadedTree ==
  ASSUME NEW in, NEW header \in Seq(Cell), NEW bytes, NEW base, NEW depth, NEW B,
         IsTree(in, bytes, base, depth, B)
  PROVE  /\ IsHeaded(in, header \o bytes, Len(header) + 1, base, depth, B)
         /\ Len(header \o bytes) > Len(header)
         /\ \A i \in 1 .. Len(header) : (header \o bytes)[i] = header[i]
<1>1. PICK notes : /\ IsNoted(in, bytes, notes, 1)
                   /\ Begins(bytes[1], notes[1], base, depth, B)
  BY DEF IsTree
<1>2. bytes \in Seq(Cell) /\ Len(bytes) \in Nat
  BY DEF IsTree
<1>3. /\ DOMAIN notes = {a \in 1 .. Len(bytes) : bytes[a] # Pad}
      /\ 1 \in DOMAIN notes
      /\ \A a \in DOMAIN notes :
           /\ NotedAt(in, bytes, notes, a) /\ Spans(bytes, notes, a)
           /\ a # 1 => Entered(bytes, notes, a)
  BY <1>1 DEF IsNoted
<1> DEFINE new == header \o bytes
           h == Len(header)
<1>4. /\ new \in Seq(Cell) /\ Len(new) = h + Len(bytes) /\ h \in Nat
      /\ \A i \in 1 .. h : new[i] = header[i]
      /\ \A x \in 1 .. Len(bytes) : new[x + h] = bytes[x]
  <2>1. h \in Nat /\ new \in Seq(Cell) /\ Len(new) = h + Len(bytes)
    BY <1>2, LenProperties, ConcatProperties
  <2>2. \A i \in 1 .. h + Len(bytes) :
          new[i] = IF i <= h THEN header[i] ELSE bytes[i - h]
    BY <1>2, ConcatProperties
  <2> HIDE DEF new, h
  <2>3. ASSUME NEW i \in 1 .. h PROVE new[i] = header[i]
    <3>1. i \in 1 .. h + Len(bytes) /\ i <= h
      BY <1>2, <2>1
    <3> QED
      BY <2>2, <3>1
  <2>4. ASSUME NEW x \in 1 .. Len(bytes) PROVE new[x + h] = bytes[x]
    <3>1. x + h \in 1 .. h + Len(bytes) /\ ~(x + h <= h) /\ (x + h) - h = x
      BY <1>2, <2>1
    <3> QED
      BY <2>2, <3>1
  <2> QED
    BY <2>1, <2>3, <2>4
<1> HIDE DEF new, h
<1> DEFINE D      == {x \in h + 1 .. Len(new) : new[x] # Pad}
           notes2 == [a \in D |-> notes[a - h]]
<1>5. ASSUME NEW x \in DOMAIN notes
      PROVE  /\ x + h \in D
             /\ new[x + h] = bytes[x]
             /\ notes2[x + h] = notes[x]
  <2>1. x \in 1 .. Len(bytes) /\ bytes[x] # Pad
    BY <1>3
  <2>2. x + h \in h + 1 .. Len(new) /\ (x + h) - h = x
    BY <1>2, <1>4, <2>1
  <2>3. x + h \in D /\ new[x + h] = bytes[x]
    BY <1>4, <2>1, <2>2
  <2> HIDE DEF D
  <2> QED
    BY <2>2, <2>3
<1>6. ASSUME NEW a \in D
      PROVE  a - h \in DOMAIN notes /\ (a - h) + h = a /\ a \in Nat
  <2>1. a - h \in 1 .. Len(bytes) /\ (a - h) + h = a /\ a \in Nat
    BY <1>2, <1>4
  <2>2. new[a] = bytes[a - h]
    <3> DEFINE x == a - h
    <3>1. x \in 1 .. Len(bytes) /\ x + h = a
      BY <2>1
    <3> HIDE DEF x
    <3>2. new[a] = bytes[x]
      BY <1>4, <3>1
    <3> QED
      BY <3>2 DEF x
  <2> QED
    BY <1>3, <2>1, <2>2
<1>7. DOMAIN notes2 = D
  OBVIOUS
<1> HIDE DEF notes2, D
<1>8. DOMAIN notes \subseteq Nat
  BY <1>3
<1>9. ASSUME NEW a \in D PROVE NotedAt(in, new, notes2, a) /\ Spans(new, notes2, a)
  <2> DEFINE x == a - h
  <2>1. x \in DOMAIN notes /\ x + h = a
    BY <1>6
  <2> HIDE DEF x
  <2>2. NotedAt(in, bytes, notes, x) /\ Spans(bytes, notes, x)
    BY <1>3, <2>1
  <2>3. \A y \in DOMAIN notes : /\ y + h \in DOMAIN notes2
                                /\ new[y + h] = bytes[y]
                                /\ notes2[y + h] = notes[y]
    BY <1>5, <1>7
  <2>4. NotedAt(in, new, notes2, x + h) /\ Spans(new, notes2, x + h)
    <3>1. NotedAt(in, new, notes2, x + h)
      BY <1>4, <1>8, <2>1, <2>2, <2>3, Relocated
    <3>2. Spans(new, notes2, x + h)
      BY <1>4, <1>8, <2>1, <2>2, <2>3, SpansMoved
    <3> QED
      BY <3>1, <3>2
  <2> QED
    BY <2>1, <2>4
<1>10. ASSUME NEW a \in D, a # h + 1 PROVE Entered(new, notes2, a)
  <2> DEFINE x == a - h
  <2>1. x \in DOMAIN notes /\ x + h = a /\ x # 1 /\ x \in Nat
    <3>1. a - h \in DOMAIN notes /\ (a - h) + h = a /\ a \in Nat
      BY <1>6
    <3>2. a - h # 1
      BY <1>4, <1>10, <3>1
    <3>3. a - h \in Nat
      BY <1>8, <3>1
    <3> QED
      BY <3>1, <3>2, <3>3
  <2> HIDE DEF x
  <2>2. PICK b \in DOMAIN notes :
          /\ b < x
          /\ \/ x = b + NodeWidth(bytes[b]) /\ NodeWidth(bytes[b]) < notes[b].end
             \/ x = b + notes[b].kids /\ ~bytes[b].leaf
    BY <1>3, <2>1 DEF Entered
  <2>3. /\ b + h \in D /\ new[b + h] = bytes[b] /\ notes2[b + h] = notes[b]
        /\ b \in Nat /\ b + h < a
    BY <1>4, <1>5, <1>8, <2>1, <2>2
  <2>4. NodeWidth(bytes[b]) \in Nat /\ notes[b].kids \in Nat
    <3>1. Fits(in, bytes[b], notes[b])
      BY <1>3 DEF NotedAt
    <3> QED
      BY <3>1, WidthIsPositive DEF Fits, Note
  <2>5. /\ (b + h) + NodeWidth(bytes[b]) = (b + NodeWidth(bytes[b])) + h
        /\ (b + h) + notes[b].kids = (b + notes[b].kids) + h
    BY <1>4, <2>3, <2>4
  <2>6. \/ a = (b + h) + NodeWidth(new[b + h]) /\ NodeWidth(new[b + h]) < notes2[b + h].end
        \/ a = (b + h) + notes2[b + h].kids /\ ~new[b + h].leaf
    BY <2>1, <2>2, <2>3, <2>5
  <2> QED
    BY <1>7, <2>3, <2>6 DEF Entered
<1>11. h + 1 \in D /\ notes2[h + 1] = notes[1] /\ new[h + 1] = bytes[1]
  <2>1. 1 + h = h + 1
    BY <1>4
  <2>2. 1 + h \in D /\ notes2[1 + h] = notes[1] /\ new[1 + h] = bytes[1]
    BY <1>3, <1>5
  <2> QED
    BY <2>1, <2>2
<1>12. IsNoted(in, new, notes2, h + 1)
  BY <1>7, <1>9, <1>10, <1>11 DEF IsNoted, D
<1>13. Len(new) > h
  BY <1>2, <1>3, <1>4
<1>14. IsHeaded(in, new, h + 1, base, depth, B)
  BY <1>1, <1>4, <1>11, <1>12 DEF IsHeaded
<1> QED
  BY <1>4, <1>13, <1>14 DEF new, h

(* A trie stands for its input. *)
IsTrieOf(in, bytes, notes) ==
  /\ bytes \in Seq(Cell)
  /\ Len(bytes) > 1
  /\ bytes[1] = RootHead
  /\ IsNoted(in, bytes, notes, 2)
  /\ Begins(bytes[2], notes[2], 0, 0, DOMAIN in.suggestions)

LEMMA RootedTree ==
  ASSUME NEW in, NEW bytes, IsTree(in, bytes, 0, 0, DOMAIN in.suggestions)
  PROVE  \E notes : IsTrieOf(in, <<RootHead>> \o bytes, notes)
<1> DEFINE header == <<RootHead>>
           new == header \o bytes
<1>1. header \in Seq(Cell) /\ Len(header) = 1 /\ header[1] = RootHead
  <2>1. RootHead \in Cell
    BY RootBytes DEF Cell
  <2> DEFINE r == RootHead
  <2>2. r \in Cell
    BY <2>1
  <2> HIDE DEF r
  <2> QED
    BY <2>2 DEF r
<1> HIDE DEF header
<1>2. /\ IsHeaded(in, new, Len(header) + 1, 0, 0, DOMAIN in.suggestions)
      /\ Len(new) > Len(header)
      /\ \A i \in 1 .. Len(header) : new[i] = header[i]
  BY <1>1, HeadedTree
<1> HIDE DEF new
<1>3. new[1] = RootHead /\ Len(new) > 1
  BY <1>1, <1>2
<1>4. IsHeaded(in, new, 2, 0, 0, DOMAIN in.suggestions)
  BY <1>1, <1>2
<1>5. \E notes : IsTrieOf(in, new, notes)
  BY <1>3, <1>4 DEF IsHeaded, IsTrieOf
<1> QED
  BY <1>5 DEF new, header

(* The root takes the first level, all of the input. *)
LEMMA RootHolds ==
  ASSUME NEW in, IsInput(in), NEW n, n = Len(in.suggestions),
         NEW nodes, Len(nodes) = 1,
         nodes[1] \in Seq(Range(nodes[1])), nodes[1] # <<>>,
         NEW owns, LevelsHold(in, n, nodes, owns),
         NEW ordered \in SortedByRank(nodes[1])
  PROVE  \E notes : IsTrieOf(in, AddChildren(EmptyRoot, nodes[1], ordered).sub, notes)
<1> DEFINE level == nodes[1]
           own   == owns[1]
<1>1. 1 \in 1 .. Len(nodes) /\ 1 = Len(nodes)
  OBVIOUS
<1>2. /\ n \in 1 .. Len(in.suggestions)
      /\ IsLevel(in, n, level, 1, own)
      /\ \A j \in 1 .. Len(level) : Holds(in, level[j], 0, own[j])
      /\ AllOf(level, own) = 1 .. n
  <2>1. 1 - 1 = 0
    OBVIOUS
  <2> QED
    BY <1>1, <2>1 DEF LevelsHold
<1>3. level \in Seq(Range(level)) /\ level # <<>> /\ Len(level) \in Nat \ {0}
  BY EmptySeq
<1>4. DOMAIN in.suggestions = 1 .. n
  BY <1>2, InputElements
<1>5. ordered \in SortedByRank(level)
  OBVIOUS
<1>6. AddChildren(EmptyRoot, nodes[1], ordered).sub
        = <<RootHead>> \o SerialiseSiblings(ordered, 0)
  <2>1. CalledFromRoot(EmptyRoot)
    <3>1. LeafRootHeader # <<>>
      BY RootBytes DEF LeafRootHeader, SerialiseNode
    <3> QED
      BY <3>1 DEF CalledFromRoot, EmptyRoot
  <2>2. ~Collapses(EmptyRoot, level)
    BY <2>1 DEF Collapses
  <2>3. EmptyRoot.sub = LeafRootHeader
    BY DEF EmptyRoot
  <2> HIDE DEF level
  <2>4. AddChildren(EmptyRoot, level, ordered).sub
          = RootOpened(LeafRootHeader) \o SerialiseSiblings(ordered, 0)
    BY <1>3, <2>1, <2>2, <2>3 DEF AddChildren
  <2> QED
    BY <2>4, RootBytes DEF level
<1> HIDE DEF level, own
<1>7. ordered[1].rank \in Nat
  <2>1. /\ Len(ordered) = Len(level)
        /\ \A i \in 1 .. Len(ordered) :
             \E k \in 1 .. Len(level) : ordered[i] = level[k]
    BY <1>3, <1>5, SortedSiblings
  <2>2. 1 \in 1 .. Len(ordered)
    BY <1>3, <2>1
  <2>3. PICK k \in 1 .. Len(level) : ordered[1] = level[k]
    BY <2>1, <2>2
  <2> QED
    BY <1>2, <2>3 DEF Holds, IsNode
<1> DEFINE d == 1
           base == 0
<1>8. d \in Nat \ {0} /\ d - 1 = 0 /\ base \in Nat /\ base <= ordered[1].rank /\ base = 0
  BY <1>7
<1>9. \A j \in 1 .. Len(level) : Holds(in, level[j], d - 1, own[j])
  BY <1>2, <1>8
<1>10. IsLevel(in, n, level, d, own)
  BY <1>2
<1> HIDE DEF d, base
<1>11. PICK own2 : IsForestOf(in, level, own, ordered, base, d, own2)
  <2>1. n \in 1 .. Len(in.suggestions)
    BY <1>2
  <2>2. level \in Seq(Range(level)) /\ level # <<>>
    BY <1>3
  <2>3. base \in Nat /\ base <= ordered[1].rank /\ d \in Nat \ {0}
    BY <1>8
  <2> QED
    BY <1>5, <1>9, <1>10, <2>1, <2>2, <2>3, LevelForest
<1>12. IsForest(in, ordered, 0, 0, own2) /\ own2 \in [1 .. Len(ordered) -> SUBSET Nat]
  BY <1>8, <1>11 DEF IsForestOf
<1>13. IsTree(in, SerialiseSiblings(ordered, 0), 0, 0, AllOf(ordered, own2))
  BY <1>12, SerialisedTree
<1>14. AllOf(ordered, own2) = DOMAIN in.suggestions
  BY <1>2, <1>4, <1>11 DEF IsForestOf
<1>15. IsTree(in, SerialiseSiblings(ordered, 0), 0, 0, DOMAIN in.suggestions)
  BY <1>13, <1>14
<1>16. \E notes : IsTrieOf(in, <<RootHead>> \o SerialiseSiblings(ordered, 0), notes)
  BY <1>15, RootedTree
<1> QED
  BY <1>6, <1>16

-----------------------------------------------------------------------------
(* The invariant of the construction. *)

HoldsInput(in, bytes) ==
  IF in.suggestions = <<>>
  THEN bytes = LeafRootHeader
  ELSE \E notes : IsTrieOf(in, bytes, notes)

(* The levels hold the suggestions taken, and a merge stops where the next *)
(* suggestion parts from the previous one, or at the first level.          *)
Contents ==
  /\ pos > 0 => \E owns : LevelsHold(input, pos, levels, owns)
  /\ pc = "merge" /\ pos > 0 /\ pos < Len(suggestions) =>
       LoopStops(suggestions[pos + 1], Previous, target - 1)
  /\ pc = "merge" /\ pos = Len(suggestions) => target = 1
  /\ pc = "done" => HoldsInput(input, trie) /\ pos = Len(suggestions)

LEMMA InputIsTyped == Inv => IsInput(input)
  BY DEF Inv, TypeOK, IsInput, suggestions, ranks

LEMMA NextSuggestionHolds == Inv /\ Contents /\ NextSuggestion => Contents'
<1> SUFFICES ASSUME Inv, Contents, NextSuggestion PROVE Contents'
  OBVIOUS
<1> DEFINE next == suggestions[pos + 1]
           lcp  == LcpLength(next, Previous)
<1>1. /\ pc = "next" /\ pc' = "merge"
      /\ pos < Len(suggestions)
      /\ target' = 1 + IF levels = <<>> THEN 0 ELSE lcp
      /\ UNCHANGED <<input, pos, levels, trie, error>>
  BY DEF NextSuggestion, Previous
<1>2. /\ suggestions \in Seq(Seq(Char)) /\ Len(suggestions) \in Nat
      /\ pos \in 0 .. Len(suggestions)
  BY InputTyped DEF Inv
<1>3. OpenPath
  BY <1>1 DEF Inv, Spine
<1>4. ASSUME pos > 0 PROVE LoopStops(next, Previous, target' - 1)
  <2>1. pos \in 1 .. Len(suggestions) /\ pos + 1 \in 1 .. Len(suggestions)
    BY <1>1, <1>2, <1>4
  <2>2. next \in Seq(Char) /\ Previous \in Seq(Char)
    BY <1>2, <2>1, ElementOfSeq DEF Previous
  <2>3. Len(next) \in Nat
    BY <2>2, LenProperties
  <2>4. levels # <<>>
    BY <1>3, <1>4 DEF OpenPath
  <2> HIDE DEF next
  <2>5. lcp \in 0 .. Len(next) /\ LoopStops(next, Previous, lcp)
    BY <2>2, LcpInReach
  <2>6. target' = 1 + lcp
    BY <1>1, <2>4
  <2> HIDE DEF lcp
  <2>7. target' - 1 = lcp
    BY <2>3, <2>5, <2>6
  <2> QED
    BY <2>5, <2>7
<1>5. ~(pos = Len(suggestions))
  BY <1>1, <1>2
<1> QED
  BY <1>1, <1>4, <1>5 DEF Contents, Previous, suggestions

LEMMA MergeLevelHolds == Inv /\ Contents /\ MergeLevel => Contents'
<1> SUFFICES ASSUME Inv, Contents, MergeLevel PROVE Contents'
  OBVIOUS
<1> DEFINE last     == Len(levels) - 1
           father   == Last(levels[last])
           children == Last(levels)
<1>1. pc = "merge" /\ Len(levels) > target
  BY DEF MergeLevel
<1>2. OpenPath /\ TargetInReach
  BY <1>1 DEF Inv, Spine
<1>3. /\ levels \in Seq(Range(levels)) /\ Len(levels) \in Nat
      /\ target \in Nat /\ target >= 1
      /\ \A i \in 1 .. Len(levels) :
           /\ levels[i] \in Seq(Range(levels[i]))
           /\ levels[i] # <<>>
           /\ \A j \in 1 .. Len(levels[i]) : IsNode(levels[i][j])
  BY <1>1, <1>2, LenProperties DEF Inv, TypeOK, TargetInReach
<1>4. /\ Len(levels) > 1 /\ last \in 1 .. Len(levels) - 1
      /\ Len(levels) \in 1 .. Len(levels)
  BY <1>1, <1>3
<1>5. father = InternalNode(Previous[last])
  BY <1>2, <1>4 DEF OpenPath
<1>6. /\ Len(children) \in Nat
      /\ \A i \in 1 .. Len(children) : IsNode(children[i])
  BY <1>3, <1>4, LenProperties DEF Last
<1>7. PICK ordered \in SortedByRank(children) :
        LET failure == AddChildrenError(father, children, ordered)
        IN  IF failure # "none"
            THEN Throw(failure)
            ELSE /\ levels' = Merged(levels, AddChildren(father, children, ordered))
                 /\ UNCHANGED <<input, pos, target, pc, trie, error>>
  BY DEF MergeLevel
<1>8. AddChildrenError(father, children, ordered) = "none"
  BY <1>5, <1>6, OpenNodeTakesChildren
<1>9. /\ levels' = Merged(levels, AddChildren(father, children, ordered))
      /\ UNCHANGED <<input, pos, target, pc, trie, error>>
  BY <1>7, <1>8
<1>10. pos > 0 /\ Len(levels) <= Len(Previous) + 1
  BY <1>2, <1>3, <1>4, InputTyped DEF OpenPath, Inv
<1>11. last <= Len(Previous)
  <2>1. Previous \in Seq(Char)
    <3>1. pos \in 1 .. Len(suggestions) /\ suggestions \in Seq(Seq(Char))
      BY <1>10, InputTyped DEF Inv
    <3> QED
      BY <3>1, ElementOfSeq DEF Previous
  <2>2. Len(Previous) \in Nat
    BY <2>1, LenProperties
  <2> QED
    BY <1>3, <1>10, <2>2
<1>12. PICK owns : LevelsHold(input, pos, levels, owns)
  BY <1>1, <1>10 DEF Contents
<1>13. LevelsHold(input, pos,
                  Merged(levels, AddChildren(Last(levels[Len(levels) - 1]),
                                             Last(levels), ordered)),
                  owns)
  <2>1. /\ Len(levels) - 1 <= Len(input.suggestions[pos])
        /\ Last(levels[Len(levels) - 1])
             = InternalNode(input.suggestions[pos][Len(levels) - 1])
    BY <1>5, <1>11 DEF Previous, suggestions
  <2>2. \A i \in 1 .. Len(levels) : levels[i] \in Seq(Range(levels[i])) /\ levels[i] # <<>>
    BY <1>3
  <2>3. ordered \in SortedByRank(Last(levels)) /\ IsInput(input)
    BY InputIsTyped
  <2> QED
    BY <1>3, <1>4, <1>12, <2>1, <2>2, <2>3, MergedHolds
<1>14. \E o : LevelsHold(input', pos', levels', o)
  BY <1>9, <1>13
<1> QED
  BY <1>1, <1>9, <1>14 DEF Contents, Previous, suggestions

LEMMA ExtendHolds == Inv /\ Contents /\ Extend => Contents'
<1> SUFFICES ASSUME Inv, Contents, Extend PROVE Contents'
  OBVIOUS
<1> DEFINE p   == pos + 1
           lcp == target - 1
<1>1. /\ pc = "merge" /\ pc' = "next"
      /\ Len(levels) <= target
      /\ pos < Len(suggestions)
      /\ pos' = p
      /\ levels' = Extended(levels, suggestions[p], lcp, ranks[p])
      /\ UNCHANGED <<input, target, trie, error>>
  BY DEF Extend
<1>2. OpenPath /\ TargetInReach /\ RangesInStep
  BY <1>1 DEF Inv, Spine
<1>3. /\ suggestions \in Seq(Seq(Char)) /\ Len(suggestions) \in Nat
      /\ ranks \in Seq(Nat) /\ Len(ranks) \in Nat
      /\ pos \in Nat /\ p \in 1 .. Len(suggestions)
      /\ Len(suggestions[p]) \in Nat
  <2>1. /\ suggestions \in Seq(Seq(Char)) /\ Len(suggestions) \in Nat
        /\ ranks \in Seq(Nat) /\ Len(ranks) \in Nat
        /\ pos \in 0 .. Len(suggestions)
    BY InputTyped DEF Inv
  <2>2. p \in 1 .. Len(suggestions)
    BY <1>1, <2>1
  <2>3. suggestions[p] \in Seq(Char)
    BY <2>1, <2>2, ElementOfSeq
  <2> QED
    BY <2>1, <2>2, <2>3, LenProperties
<1>4. p \in 1 .. Len(ranks)
  <2>1. pos < Len(ranks)
    BY <1>1, <1>2 DEF RangesInStep
  <2> QED
    BY <1>3, <2>1
<1>5. /\ levels \in Seq(Range(levels)) /\ Len(levels) \in Nat
      /\ target \in Nat
      /\ \A i \in 1 .. Len(levels) :
           /\ levels[i] \in Seq(Range(levels[i]))
           /\ levels[i] # <<>>
           /\ \A j \in 1 .. Len(levels[i]) : IsNode(levels[i][j])
  BY LenProperties DEF Inv, TypeOK
<1>6. target >= 1 /\ target <= Len(suggestions[p]) + 1
  BY <1>1, <1>2 DEF TargetInReach
<1>7. lcp \in Nat /\ lcp <= Len(suggestions[p]) /\ target = lcp + 1
  BY <1>3, <1>5, <1>6
<1>8. pos = 0 => Len(levels) = 0 /\ lcp = 0
  BY <1>1, <1>2 DEF TargetInReach, OpenPath
<1>9. ASSUME pos # 0
      PROVE  /\ Len(levels) = lcp + 1
             /\ \A i \in 1 .. lcp : suggestions[p][i] = Previous[i]
             /\ lcp <= Len(Previous)
             /\ LoopStops(suggestions[p], Previous, lcp)
  <2>1. pos > 0 /\ pos \in 1 .. Len(suggestions)
    BY <1>1, <1>3, <1>9
  <2>2. target <= Len(levels) /\ Len(levels) <= Len(Previous) + 1
    <3>1. levels # <<>>
      BY <1>2, <2>1 DEF OpenPath
    <3>2. Len(levels) > 0
      BY <1>5, <3>1, EmptySeq
    <3> QED
      BY <1>1, <1>2, <2>1, <3>2 DEF OpenPath, TargetInReach
  <2>3. Len(levels) = lcp + 1
    BY <1>1, <1>5, <1>7, <2>2
  <2>4. Len(Previous) \in Nat
    <3>1. Previous \in Seq(Char)
      BY <1>3, <2>1, ElementOfSeq DEF Previous
    <3> QED
      BY <3>1, LenProperties
  <2>5. lcp <= Len(Previous)
    BY <1>7, <2>2, <2>3, <2>4
  <2>6. \A i \in 1 .. lcp : suggestions[p][i] = Previous[i]
    BY <1>1, <1>2, <2>1 DEF TargetInReach
  <2>7. LoopStops(suggestions[p], Previous, lcp)
    BY <1>1, <2>1 DEF Contents
  <2> QED
    BY <2>3, <2>5, <2>6, <2>7
<1> HIDE DEF lcp
<1>10. pos # 0 => \E owns : LevelsHold(input, pos, levels, owns)
  <2>1. pos # 0 => pos > 0
    BY <1>3
  <2> QED
    BY <1>1, <2>1 DEF Contents
<1>11. PICK owns : pos # 0 => LevelsHold(input, pos, levels, owns)
  BY <1>10
<1> HIDE DEF p
<1>12. AreLeft(input, pos, p, levels, owns, lcp)
  <2>1. \A i \in 1 .. Len(levels) : IsLevel(input, pos, levels[i], i, owns[i])
    <3>1. CASE pos = 0
      <4>1. 1 .. Len(levels) = {}
        BY <1>8, <3>1
      <4> QED
        BY <4>1
    <3>2. CASE pos # 0
      BY <1>11, <3>2 DEF LevelsHold
    <3> QED
      BY <3>1, <3>2
  <2>2. ASSUME pos # 0 PROVE SharesTo(input, pos, p, lcp)
    BY <1>9, <2>2 DEF SharesTo, Previous, suggestions
  <2>3. ASSUME pos # 0
        PROVE  LoopStops(input.suggestions[p], input.suggestions[pos], lcp)
    BY <1>9, <2>3 DEF Previous, suggestions
  <2>4. pos # 0 => Len(levels) = lcp + 1
    BY <1>9
  <2>5. pos \in Nat /\ p = pos + 1 /\ p \in 1 .. Len(input.suggestions)
    BY <1>3 DEF p, suggestions
  <2>6. lcp \in Nat /\ lcp <= Len(input.suggestions[p])
    BY <1>7 DEF suggestions
  <2>7. /\ levels \in Seq(Range(levels))
        /\ \A i \in 1 .. Len(levels) :
             levels[i] \in Seq(Range(levels[i])) /\ levels[i] # <<>>
    BY <1>5
  <2> QED
    BY <1>8, <2>1, <2>2, <2>3, <2>4, <2>5, <2>6, <2>7 DEF AreLeft
<1>13. \E owns2 : LevelsHold(input, p,
                             Extended(levels, input.suggestions[p], lcp,
                                      input.ranks[p]), owns2)
  <2>1. p \in 1 .. Len(input.ranks)
    BY <1>4 DEF ranks
  <2>2. IsInput(input)
    BY InputIsTyped
  <2>3. \A i \in 1 .. Len(levels) : \A j \in 1 .. Len(levels[i]) : IsNode(levels[i][j])
    BY <1>5
  <2> QED
    BY <1>11, <1>12, <2>1, <2>2, <2>3, ExtendedHolds
<1>14. \E owns2 : LevelsHold(input', pos', levels', owns2)
  BY <1>1, <1>13 DEF suggestions, ranks
<1> QED
  BY <1>1, <1>14 DEF Contents

LEMMA MakeRootHolds == Inv /\ Contents /\ MakeRoot => Contents'
<1> SUFFICES ASSUME Inv, Contents, MakeRoot PROVE Contents'
  OBVIOUS
<1> DEFINE children == Last(levels)
<1>1. /\ pc = "merge" /\ Len(levels) <= target /\ pos = Len(suggestions)
  BY DEF MakeRoot
<1>2. OpenPath /\ TargetInReach /\ RangesInStep
  BY <1>1 DEF Inv, Spine
<1>3. /\ suggestions # <<>> /\ pos > 0
      /\ levels \in Seq(Range(levels)) /\ levels # <<>>
      /\ Len(levels) = 1
  <2>1. suggestions # <<>> /\ Len(suggestions) \in Nat /\ suggestions \in Seq(Seq(Char))
    BY <1>1, <1>2, InputTyped DEF RangesInStep, Inv
  <2>2. pos > 0
    BY <1>1, <2>1, EmptySeq
  <2>3. levels # <<>> /\ levels \in Seq(Range(levels))
    BY <1>2, <2>2 DEF OpenPath, Inv, TypeOK
  <2>4. Len(levels) \in Nat \ {0}
    BY <2>3, EmptySeq
  <2>5. target = 1
    BY <1>1 DEF Contents
  <2>6. Len(levels) <= 1
    BY <1>1, <2>5
  <2>7. Len(levels) = 1
    <3> DEFINE w == Len(levels)
    <3>1. w \in Nat \ {0} /\ w <= 1
      BY <2>4, <2>6
    <3> HIDE DEF w
    <3>2. w = 1
      BY <3>1
    <3> QED
      BY <3>2 DEF w
  <2> QED
    BY <2>1, <2>2, <2>3, <2>7
<1>4. children = levels[1]
  BY <1>3 DEF Last
<1>5. /\ levels[1] \in Seq(Range(levels[1])) /\ levels[1] # <<>>
      /\ Len(children) \in Nat
      /\ \A j \in 1 .. Len(children) : IsNode(children[j])
  <2>1. 1 \in 1 .. Len(levels)
    BY <1>3
  <2> QED
    BY <1>4, <2>1, LenProperties DEF Inv, TypeOK
<1>6. PICK ordered \in SortedByRank(children) :
        LET failure == AddChildrenError(EmptyRoot, children, ordered)
        IN  IF failure # "none"
            THEN Throw(failure)
            ELSE /\ trie' = AddChildren(EmptyRoot, children, ordered).sub
                 /\ pc' = "done"
                 /\ UNCHANGED <<input, pos, levels, target, error>>
  BY DEF MakeRoot
<1>7. AddChildrenError(EmptyRoot, children, ordered) = "none"
  BY <1>5, RootTakesChildren
<1>8. /\ trie' = AddChildren(EmptyRoot, children, ordered).sub
      /\ pc' = "done" /\ UNCHANGED <<input, pos, levels>>
  BY <1>6, <1>7
<1>12. pos' = Len(suggestions')
  BY <1>1, <1>8 DEF suggestions
<1>9. PICK owns : LevelsHold(input, pos, levels, owns)
  BY <1>1, <1>3 DEF Contents
<1>10. \E notes : IsTrieOf(input, AddChildren(EmptyRoot, levels[1], ordered).sub, notes)
  <2>1. pos = Len(input.suggestions) /\ IsInput(input)
    BY <1>1, InputIsTyped DEF suggestions
  <2>2. ordered \in SortedByRank(levels[1])
    BY <1>4
  <2> QED
    BY <1>3, <1>5, <1>9, <2>1, <2>2, RootHolds
<1>11. HoldsInput(input', trie')
  BY <1>3, <1>4, <1>8, <1>10 DEF HoldsInput, suggestions
<1> QED
  BY <1>8, <1>9, <1>11, <1>12 DEF Contents

(* The construction keeps what it holds. *)
THEOREM ContentsHold == Spec => []Contents
<1>1. Init => Contents
  <2> SUFFICES ASSUME Init PROVE Contents
    OBVIOUS
  <2>1. pc = "next" /\ pos = 0
    BY DEF Init
  <2> QED
    BY <2>1 DEF Contents
<1>2. Inv /\ Contents /\ [Next]_vars => Contents'
  <2> SUFFICES ASSUME Inv, Contents, [Next]_vars PROVE Contents'
    OBVIOUS
  <2>1. CASE ThrowSizes
    <3>1. pc' = "failed" /\ UNCHANGED <<input, pos, levels, trie>>
      BY <2>1 DEF ThrowSizes, Throw
    <3> QED
      BY <3>1 DEF Contents
  <2>2. CASE LastMerge
    <3>1. /\ pc = "next" /\ pc' = "merge" /\ target' = 1
          /\ pos = Len(suggestions)
          /\ UNCHANGED <<input, pos, levels, trie, error>>
      BY <2>2 DEF LastMerge
    <3>2. Len(suggestions) \in Nat
      BY InputTyped DEF Inv
    <3>3. ~(pos < Len(suggestions))
      BY <3>1, <3>2
    <3> QED
      BY <3>1, <3>3 DEF Contents, suggestions
  <2>3. CASE BuildEmpty
    <3>1. /\ pc' = "done" /\ trie' = LeafRootHeader /\ suggestions = <<>>
          /\ UNCHANGED <<input, pos, levels>>
      BY <2>3 DEF BuildEmpty, EmptyRoot
    <3>2. pos = 0 /\ Len(suggestions) = 0
      <4>1. pos \in 0 .. Len(suggestions)
        BY InputTyped DEF Inv
      <4> QED
        BY <3>1, <4>1
    <3>3. HoldsInput(input', trie') /\ pos' = Len(suggestions') /\ ~(pos' > 0)
      BY <3>1, <3>2 DEF HoldsInput, suggestions
    <3> QED
      BY <3>1, <3>3 DEF Contents
  <2>4. CASE UNCHANGED vars
    BY <2>4 DEF Contents, Previous, suggestions, vars
  <2> QED
    BY <2>1, <2>2, <2>3, <2>4, NextSuggestionHolds, MergeLevelHolds,
       ExtendHolds, MakeRootHolds DEF Next
<1> QED
  BY <1>1, <1>2, Invariant, PTL DEF Spec

-----------------------------------------------------------------------------
(* The sibling iteration over bytes that stand for an input.               *)

NodeAt(notes, a) ==
  [data |-> a, rank |-> notes[a].rank, first_child |-> a + notes[a].kids]

PosAt(notes, a) == [current |-> NodeAt(notes, a), end |-> a + notes[a].end]

(* Bytes whose nodes have notes but for the first one. *)
IsRead(in, bytes, notes) ==
  /\ bytes \in Seq(Cell)
  /\ \E start \in Nat : start > 1 /\ IsNoted(in, bytes, notes, start)

LEMMA TrieIsRead ==
  ASSUME NEW in, NEW bytes, NEW notes, IsTrieOf(in, bytes, notes)
  PROVE  IsRead(in, bytes, notes)
BY DEF IsTrieOf, IsRead

(* The node at an address that has a note. *)
LEMMA NotedNode ==
  ASSUME NEW in, NEW bytes, NEW notes, IsRead(in, bytes, notes),
         NEW a \in DOMAIN notes
  PROVE  /\ a \in 2 .. Len(bytes) /\ a \in Nat /\ Len(bytes) \in Nat
         /\ bytes[a] \in Header /\ bytes[a].offset \in Nat /\ bytes[a].rank \in Nat
         /\ bytes[a].leaf \in BOOLEAN
         /\ bytes[a].label \in Seq(Char)
         /\ Len(bytes[a].label) \in Nat /\ Len(bytes[a].label) < MaxLabelSize
         /\ NodeWidth(bytes[a]) \in Nat \ {0}
         /\ notes[a] \in Note
         /\ NotedAt(in, bytes, notes, a)
         /\ Fits(in, bytes[a], notes[a])
<1>1. NotedAt(in, bytes, notes, a) /\ a \in 2 .. Len(bytes)
  <2>1. PICK start \in Nat : start > 1 /\ IsNoted(in, bytes, notes, start)
    BY DEF IsRead
  <2>2. NotedAt(in, bytes, notes, a) /\ a \in start .. Len(bytes)
    BY <2>1 DEF IsNoted
  <2>3. Len(bytes) \in Nat
    BY LenProperties DEF IsRead
  <2> QED
    BY <2>1, <2>2, <2>3
<1>2. Fits(in, bytes[a], notes[a])
  BY <1>1 DEF NotedAt
<1>3. Len(bytes) \in Nat
  BY LenProperties DEF IsRead
<1>4. bytes[a] \in Header /\ notes[a] \in Note /\ Len(bytes[a].label) < MaxLabelSize
  BY <1>2 DEF Fits
<1>5. NodeWidth(bytes[a]) \in Nat \ {0}
  BY <1>4, WidthIsPositive
<1>6. bytes[a].label \in Seq(Char) /\ Len(bytes[a].label) \in Nat
  BY <1>4, LenProperties DEF Header
<1>7. bytes[a].offset \in Nat /\ bytes[a].rank \in Nat /\ bytes[a].leaf \in BOOLEAN
  BY <1>4 DEF Header
<1>8. a \in Nat
  BY <1>1, <1>3
<1> QED
  BY <1>1, <1>2, <1>3, <1>4, <1>5, <1>6, <1>7, <1>8

LEMMA PositionsAreTyped ==
  ASSUME NEW in, NEW bytes, NEW notes, IsRead(in, bytes, notes),
         NEW a \in DOMAIN notes
  PROVE  /\ NodeAt(notes, a) \in NodeView
         /\ PosAt(notes, a) \in Siblings
         /\ AtNode(PosAt(notes, a))
         /\ Label(bytes, NodeAt(notes, a)) = bytes[a].label
         /\ IsLeaf(bytes, NodeAt(notes, a)) = bytes[a].leaf
<1>1. a \in 2 .. Len(bytes) /\ a \in Nat /\ notes[a] \in Note
  BY NotedNode
<1>2. /\ notes[a].rank \in Nat /\ notes[a].kids \in Nat /\ notes[a].end \in Nat
  BY <1>1 DEF Note
<1>3. a + notes[a].kids \in Nat /\ a + notes[a].end \in Nat
  BY <1>1, <1>2
<1>4. NodeAt(notes, a) \in NodeView
  BY <1>1, <1>2, <1>3 DEF NodeAt, NodeView
<1>5. PosAt(notes, a) \in Siblings
  BY <1>3, <1>4 DEF PosAt, Siblings
<1>6. a # 0
  BY <1>1
<1>7. PosAt(notes, a).current.data = a
  BY DEF PosAt, NodeAt
<1> QED
  BY <1>4, <1>5, <1>6, <1>7 DEF AtNode, NullAddress, Label, IsLeaf, NodeAt

LEMMA NoNodeThere == ~AtNode(NoSiblings) /\ NoSiblings \in Siblings
BY DEF AtNode, NoSiblings, NullNode, NullAddress, Siblings, NodeView

(* operator++ goes to the next note or to the end. *)
LEMMA NextNoted ==
  ASSUME NEW in, NEW bytes, NEW notes, IsRead(in, bytes, notes),
         NEW a \in DOMAIN notes
  PROVE  LET next == NextSibling(bytes, PosAt(notes, a))
             b    == a + NodeWidth(bytes[a])
         IN  IF NodeWidth(bytes[a]) < notes[a].end
             THEN b \in DOMAIN notes /\ next = PosAt(notes, b)
             ELSE next \in Siblings /\ ~AtNode(next)
<1> DEFINE w    == NodeWidth(bytes[a])
           b    == a + w
           n    == notes[a]
           it   == PosAt(notes, a)
           next == NextSibling(bytes, it)
<1>1. /\ a \in Nat /\ w \in Nat \ {0} /\ n \in Note
      /\ NotedAt(in, bytes, notes, a)
  BY NotedNode
<1>2. n.rank \in Nat /\ n.kids \in Nat /\ n.end \in Nat
  BY <1>1 DEF Note
<1>3. /\ it.current.data = a /\ it.current.rank = n.rank
      /\ it.current.first_child = a + n.kids /\ it.end = a + n.end
      /\ it = [current |-> it.current, end |-> it.end]
  BY DEF PosAt, NodeAt
<1>4. Skip(bytes, it.current.data) = b
  BY <1>3 DEF Skip
<1>5. next = [current |-> IF b < a + n.end
                          THEN Node(bytes, b, n.rank, a + n.kids)
                          ELSE NullNode,
              end |-> a + n.end]
  BY <1>3, <1>4 DEF NextSibling
<1>6. CASE w < n.end
  <2>1. b \in DOMAIN notes /\ Follows(in, bytes[a], n, bytes[b], notes[b])
    BY <1>1, <1>6 DEF NotedAt
  <2>2. notes[b] \in Note /\ bytes[b].rank \in Nat /\ bytes[b].offset \in Nat
    BY <2>1, NotedNode
  <2>3. /\ w + notes[b].kids = n.kids + bytes[b].offset
        /\ w + notes[b].end = n.end
        /\ notes[b].rank = n.rank + bytes[b].rank
    BY <2>1 DEF Follows
  <2>4. notes[b].kids \in Nat /\ notes[b].end \in Nat
    BY <2>2 DEF Note
  <2> DEFINE k2 == notes[b].kids
             e2 == notes[b].end
             o2 == bytes[b].offset
             k1 == n.kids
             e1 == n.end
  <2>5. b + k2 = (a + k1) + o2 /\ b + e2 = a + e1 /\ b < a + e1
    <3>1. /\ k2 \in Nat /\ e2 \in Nat /\ o2 \in Nat /\ k1 \in Nat /\ e1 \in Nat
          /\ w + k2 = k1 + o2 /\ w + e2 = e1 /\ w < e1
      BY <1>2, <1>6, <2>2, <2>3, <2>4
    <3> HIDE DEF w, k2, e2, o2, k1, e1
    <3> QED
      BY <1>1, <3>1
  <2>6. Node(bytes, b, n.rank, a + n.kids) = NodeAt(notes, b)
    BY <2>3, <2>5 DEF Node, NodeAt
  <2>7. next = PosAt(notes, b)
    BY <1>5, <2>5, <2>6 DEF PosAt
  <2> QED
    BY <1>6, <2>1, <2>7
<1>7. CASE ~(w < n.end)
  <2>1. ~(b < a + n.end) /\ a + n.end \in Nat
    BY <1>1, <1>2, <1>7
  <2>2. next = [current |-> NullNode, end |-> a + n.end]
    BY <1>5, <2>1
  <2>3. next \in Siblings /\ ~AtNode(next)
    BY <2>1, <2>2 DEF Siblings, AtNode, NullNode, NullAddress, NodeView
  <2> QED
    BY <1>7, <2>3
<1> QED
  BY <1>6, <1>7

(* The first of the children of a node that is not a leaf. *)
LEMMA FirstChild ==
  ASSUME NEW in, NEW bytes, NEW notes, IsRead(in, bytes, notes),
         NEW c \in DOMAIN notes, NEW node, NEW depth, NEW B,
         Begins(bytes[c], notes[c], node.rank, depth, B),
         node.first_child = c, ~IsLeaf(bytes, node)
  PROVE  VisitChildren(bytes, node) = PosAt(notes, c)
<1> DEFINE w == NodeWidth(bytes[c])
           o == bytes[c].offset
<1>1. c \in Nat /\ w \in Nat /\ o \in Nat
  BY NotedNode
<1>2. /\ notes[c].kids = w + o /\ notes[c].end = w + o
      /\ notes[c].rank = node.rank + bytes[c].rank
  BY DEF Begins
<1>3. (c + w) + o = c + notes[c].kids /\ (c + w) + o = c + notes[c].end
  <2>1. (c + w) + o = c + (w + o)
    <3> HIDE DEF w, o
    <3> QED
      BY <1>1
  <2> QED
    BY <1>2, <2>1
<1>4. Node(bytes, c, node.rank, Skip(bytes, c)) = NodeAt(notes, c)
  BY <1>2, <1>3 DEF Node, NodeAt, Skip
<1>5. NodeAt(notes, c).first_child = c + notes[c].end
  BY <1>2 DEF NodeAt
<1> QED
  BY <1>4, <1>5 DEF VisitChildren, PosAt

(* visit_children goes to the note of the first child. *)
LEMMA ChildrenNoted ==
  ASSUME NEW in, NEW bytes, NEW notes, IsRead(in, bytes, notes),
         NEW a \in DOMAIN notes, ~bytes[a].leaf
  PROVE  LET c == a + notes[a].kids
         IN  /\ c \in DOMAIN notes /\ a < c
             /\ Begins(bytes[c], notes[c], notes[a].rank,
                       notes[a].depth + Len(bytes[a].label), notes[a].below)
             /\ VisitChildren(bytes, NodeAt(notes, a)) = PosAt(notes, c)
<1> DEFINE n == notes[a]
           c == a + n.kids
           node == NodeAt(notes, a)
           depth == n.depth + Len(bytes[a].label)
<1>1. a \in Nat /\ n \in Note /\ NotedAt(in, bytes, notes, a)
  BY NotedNode
<1>2. n.kids > 0 /\ c \in DOMAIN notes /\ Begins(bytes[c], notes[c], n.rank, depth, n.below)
  BY <1>1 DEF NotedAt
<1>3. a < c
  BY <1>1, <1>2 DEF Note
<1>4. ~IsLeaf(bytes, node) /\ node.first_child = c /\ node.rank = n.rank
  BY PositionsAreTyped DEF NodeAt
<1> HIDE DEF c, node, depth
<1>5. VisitChildren(bytes, node) = PosAt(notes, c)
  BY <1>2, <1>4, FirstChild
<1> QED
  BY <1>2, <1>3, <1>5 DEF c, node, depth

(* The children of the root are the siblings of the node after it. *)
LEMMA RootChildren ==
  ASSUME NEW in, NEW bytes, NEW notes, IsTrieOf(in, bytes, notes)
  PROVE  /\ Root(bytes) \in NodeView /\ Root(bytes).data = 1
         /\ ~IsLeaf(bytes, Root(bytes))
         /\ 2 \in DOMAIN notes
         /\ notes[2].depth = 0 /\ notes[2].on = DOMAIN in.suggestions
         /\ VisitChildren(bytes, Root(bytes)) = PosAt(notes, 2)
<1> DEFINE root == Root(bytes)
           all == DOMAIN in.suggestions
<1>1. root = [data |-> 1, rank |-> 0, first_child |-> 2]
  BY RootBytes DEF Root, Node, Skip, IsTrieOf, RootHead
<1>2. ~IsLeaf(bytes, root)
  BY <1>1 DEF IsLeaf, IsTrieOf, RootHead
<1>3. 2 \in DOMAIN notes /\ Begins(bytes[2], notes[2], 0, 0, all)
  BY DEF IsTrieOf, IsNoted
<1>4. notes[2].depth = 0 /\ notes[2].on = all
  BY <1>3 DEF Begins
<1>5. VisitChildren(bytes, root) = PosAt(notes, 2)
  <2>1. root.rank = 0 /\ root.first_child = 2
    BY <1>1
  <2> HIDE DEF root, all
  <2> QED
    BY <1>2, <1>3, <2>1, TrieIsRead, FirstChild
<1> QED
  BY <1>1, <1>2, <1>3, <1>4, <1>5 DEF NodeView

(* Induction over the steps of a loop. *)
LEMMA AllNumbers ==
  ASSUME NEW P, P \subseteq Nat, 0 \in P, \A k \in P : k + 1 \in P
  PROVE  P = Nat
<1>1. ASSUME NEW n \in Nat, n \notin P PROVE FALSE
  <2> DEFINE T == Nat \ P
  <2>1. T \subseteq Nat /\ T # {}
    BY <1>1
  <2> HIDE DEF T
  <2>2. PICK m \in T : \A j \in T : m <= j
    BY <2>1, LeastNumber
  <2>3. m \in Nat /\ m \notin P /\ m # 0
    BY DEF T
  <2>4. m - 1 \in Nat /\ m = (m - 1) + 1 /\ ~(m <= m - 1)
    BY <2>3
  <2>5. m - 1 \in P
    BY <2>2, <2>4 DEF T
  <2> QED
    BY <2>3, <2>4, <2>5
<1> QED
  BY <1>1

(* The values of a loop whose step stays in a set. *)
IsLoop(f, S, step, start) ==
  /\ f \in [Nat -> S]
  /\ f[0] = start
  /\ \A k \in Nat : f[k + 1] = step[f[k]]

IsRun(f, S, step, start) ==
  IsLoop(f, S, step, start) /\ \A n \in Nat : After(n, step, start) = f[n]

LEMMA LoopRuns ==
  ASSUME NEW S, NEW step, NEW start, start \in S, \A x \in S : step[x] \in S
  PROVE  \E f : IsRun(f, S, step, start)
<1> DEFINE IsValue(f) ==
             f = [k \in Nat |-> IF k = 0 THEN start ELSE step[f[k - 1]]]
           value == CHOOSE f : IsValue(f)
           next  == [k \in Nat |-> IF k = 0 THEN 0 ELSE k - 1]
           steps == [k \in Nat |-> [x \in S |-> step[x]]]
<1>1. IsRecursion(S, start, next, steps)
  <2>1. next \in [Nat -> Nat] /\ \A k \in Nat \ {0} : next[k] < k
    OBVIOUS
  <2>2. steps \in [Nat -> [S -> S]]
    OBVIOUS
  <2> HIDE DEF next, steps
  <2> QED
    BY <2>1, <2>2 DEF IsRecursion
<1>2. PICK f \in [Nat -> S] :
        f[0] = start /\ \A k \in Nat \ {0} : f[k] = steps[k][f[next[k]]]
  <2> HIDE DEF next, steps
  <2> QED
    BY <1>1, RecursionDefines
<1>3. ASSUME NEW k \in Nat \ {0} PROVE f[k] = step[f[k - 1]]
  <2>1. next[k] = k - 1 /\ k - 1 \in Nat
    OBVIOUS
  <2>2. f[k] = steps[k][f[k - 1]]
    BY <1>2, <2>1
  <2>3. f[k - 1] \in S
    BY <2>1
  <2> QED
    BY <2>2, <2>3
<1>4. IsValue(f)
  BY <1>2, <1>3
<1>5. IsValue(value)
  BY <1>4
<1>6. value[0] = start /\ \A k \in Nat : value[k + 1] = step[value[k]]
  <2>1. \A k \in Nat : value[k] = IF k = 0 THEN start ELSE step[value[k - 1]]
    BY <1>5
  <2> HIDE DEF value
  <2> QED
    BY <2>1
<1>7. value \in [Nat -> S]
  <2> DEFINE P == {n \in Nat : value[n] \in S}
  <2>1. P \subseteq Nat /\ 0 \in P /\ \A k \in P : k + 1 \in P
    <3> HIDE DEF value
    <3> QED
      BY <1>6
  <2>2. \A n \in Nat : value[n] \in S
    <3> HIDE DEF P
    <3>1. P = Nat
      BY <2>1, AllNumbers
    <3> QED
      BY <3>1 DEF P
  <2>3. DOMAIN value = Nat /\ value = [n \in DOMAIN value |-> value[n]]
    BY <1>5
  <2> HIDE DEF value
  <2> QED
    BY <2>2, <2>3
<1>8. \A n \in Nat : After(n, step, start) = value[n]
  BY DEF After
<1> HIDE DEF value
<1> QED
  BY <1>6, <1>7, <1>8 DEF IsLoop, IsRun

LEMMA SuggestionTyped ==
  ASSUME NEW in, IsInput(in), NEW k \in DOMAIN in.suggestions
  PROVE  in.suggestions[k] \in Seq(Char) /\ Len(in.suggestions[k]) \in Nat
<1>1. in.suggestions \in Seq(Seq(Char))
  BY DEF IsInput
<1>2. k \in 1 .. Len(in.suggestions)
  BY <1>1, LenProperties
<1> QED
  BY <1>2, InputElements

LEMMA SmallestNumber ==
  ASSUME NEW S, S \subseteq Nat, NEW m \in S, \A n \in S : m <= n
  PROVE  Min(S) = m
<1>1. \A x \in S : (\A y \in S : x <= y) => x = m
  OBVIOUS
<1> QED
  BY <1>1 DEF Min

LEMMA EmptyRootSeen ==
  /\ IsLeaf(LeafRootHeader, Root(LeafRootHeader))
  /\ Root(LeafRootHeader) \in NodeView
  /\ Root(LeafRootHeader).data = 1
  /\ Len(LeafRootHeader) \in Nat
<1>1. Root(LeafRootHeader) = [data |-> 1, rank |-> 0, first_child |-> 2]
  BY RootBytes DEF Root, Node, Skip, LeafHead
<1>2. IsLeaf(LeafRootHeader, Root(LeafRootHeader))
  BY <1>1, RootBytes DEF IsLeaf, LeafHead
<1>3. Len(LeafRootHeader) = 1
  BY RootBytes
<1> QED
  BY <1>1, <1>2, <1>3 DEF NodeView

-----------------------------------------------------------------------------
(* The nodes that an iteration from the root gets to are those that have a *)
(* note, and the root.                                                     *)

Steps(bytes, it) ==
  {s \in {NextSibling(bytes, it), VisitChildren(bytes, it.current)} :
     s \in Siblings /\ AtNode(s)}

(* The positions within so many steps. *)
IsWithin(bytes, within) ==
  /\ within \in [Nat -> [Siblings -> SUBSET Siblings]]
  /\ \A it \in Siblings : within[0][it] = {it}
  /\ \A n \in Nat : \A it \in Siblings :
       within[n + 1][it] = {it} \cup UNION {within[n][s] : s \in Steps(bytes, it)}

IsReach(bytes, within) ==
  /\ IsWithin(bytes, within)
  /\ \A it : PositionsFrom(bytes, it) = IF AtNode(it) THEN within[Len(bytes)][it] ELSE {}

LEMMA WithinExists ==
  ASSUME NEW bytes
  PROVE  \E within : IsReach(bytes, within)
<1> DEFINE S == [Siblings -> SUBSET Siblings]
           base == [it \in Siblings |-> {it}]
           next == [n \in Nat |-> IF n = 0 THEN 0 ELSE n - 1]
           grown(g) == [it \in Siblings |->
                          {it} \cup UNION {g[s] : s \in Steps(bytes, it)}]
           step == [n \in Nat |-> [g \in S |-> grown(g)]]
           Value(n, w) ==
             [it \in Siblings |->
                {it} \cup IF n = 0 THEN {} ELSE UNION {w[n - 1][s] : s \in Steps(bytes, it)}]
           IsValue(w) == w = [n \in Nat |-> Value(n, w)]
           value == CHOOSE w : IsValue(w)
<1>1. ASSUME NEW g \in S PROVE grown(g) \in S
  <2>1. ASSUME NEW it \in Siblings
        PROVE  {it} \cup UNION {g[s] : s \in Steps(bytes, it)} \in SUBSET Siblings
    <3>1. \A s \in Steps(bytes, it) : s \in Siblings
      BY DEF Steps
    <3> QED
      BY <3>1
  <2> QED
    BY <2>1
<1>2. base \in S
  OBVIOUS
<1>3. step \in [Nat -> [S -> S]]
  <2> HIDE DEF S, grown
  <2> QED
    BY <1>1
<1>4. next \in [Nat -> Nat] /\ \A n \in Nat \ {0} : next[n] < n
  OBVIOUS
<1>5. PICK f \in [Nat -> S] :
        f[0] = base /\ \A n \in Nat \ {0} : f[n] = step[n][f[next[n]]]
  <2> HIDE DEF S, base, next, step
  <2>1. IsRecursion(S, base, next, step)
    BY <1>2, <1>3, <1>4 DEF IsRecursion
  <2> QED
    BY <2>1, RecursionDefines
<1>6. ASSUME NEW n \in Nat \ {0} PROVE f[n] = grown(f[n - 1])
  <2>1. next[n] = n - 1 /\ n - 1 \in Nat
    OBVIOUS
  <2>2. f[n] = step[n][f[n - 1]] /\ f[n - 1] \in S
    BY <1>5, <2>1
  <2> HIDE DEF S, grown
  <2> QED
    BY <2>2
<1>7. ASSUME NEW n \in Nat PROVE f[n] = Value(n, f)
  <2>1. CASE n = 0
    BY <1>5, <2>1
  <2>2. CASE n # 0
    BY <1>6, <2>2
  <2> QED
    BY <2>1, <2>2
<1>8. IsValue(f)
  <2> HIDE DEF Value
  <2>1. f = [n \in Nat |-> f[n]]
    BY <1>5
  <2> QED
    BY <1>7, <2>1
<1>9. IsValue(value)
  <2> HIDE DEF IsValue
  <2> QED
    BY <1>8
<1>10. \A n \in Nat : value[n] = Value(n, value)
  <2> HIDE DEF Value
  <2> DEFINE w == value
  <2>1. w = [n \in Nat |-> Value(n, w)]
    BY <1>9
  <2> HIDE DEF w
  <2>2. \A n \in Nat : w[n] = Value(n, w)
    BY <2>1
  <2> QED
    BY <2>2 DEF w
<1> HIDE DEF value
<1>11. value[0] = base /\ \A it \in Siblings : value[0][it] = {it}
  <2>1. value[0] = Value(0, value)
    <3> HIDE DEF Value
    <3> QED
      BY <1>10
  <2>2. Value(0, value) = base
    OBVIOUS
  <2>3. value[0] = base
    BY <2>1, <2>2
  <2> QED
    BY <2>3
<1>12. ASSUME NEW n \in Nat, NEW it \in Siblings
       PROVE  value[n + 1][it] = {it} \cup UNION {value[n][s] : s \in Steps(bytes, it)}
  <2>1. n + 1 \in Nat /\ n + 1 # 0 /\ (n + 1) - 1 = n
    OBVIOUS
  <2>2. value[n + 1] = Value(n + 1, value)
    BY <1>10, <2>1
  <2> QED
    BY <2>1, <2>2
<1>13. value \in [Nat -> S]
  <2> DEFINE P == {n \in Nat : value[n] \in S}
  <2>1. 0 \in P
    BY <1>2, <1>11
  <2>2. ASSUME NEW n \in P PROVE n + 1 \in P
    <3>1. n + 1 \in Nat /\ n + 1 # 0 /\ (n + 1) - 1 = n
      OBVIOUS
    <3>2. value[n + 1] = Value(n + 1, value)
      BY <1>10, <3>1
    <3>3. value[n + 1] = grown(value[n])
      BY <3>1, <3>2
    <3> HIDE DEF grown, S
    <3> QED
      BY <1>1, <3>1, <3>3
  <2>3. P \subseteq Nat
    OBVIOUS
  <2> HIDE DEF P
  <2>4. P = Nat
    BY <2>1, <2>2, <2>3, AllNumbers
  <2>5. value = [n \in Nat |-> value[n]]
    <3> HIDE DEF Value, IsValue
    <3>1. value = [n \in Nat |-> Value(n, value)]
      BY <1>9 DEF IsValue
    <3> QED
      BY <1>10, <3>1
  <2> HIDE DEF S
  <2> QED
    BY <2>4, <2>5 DEF P
<1>14. \A it : PositionsFrom(bytes, it) =
                 IF AtNode(it) THEN value[Len(bytes)][it] ELSE {}
  BY DEF PositionsFrom, Steps, value
<1> QED
  BY <1>11, <1>12, <1>13, <1>14 DEF IsReach, IsWithin

Noted(notes) == {PosAt(notes, a) : a \in DOMAIN notes}

LEMMA RootSteps ==
  ASSUME NEW in, NEW bytes, NEW notes, IsTrieOf(in, bytes, notes)
  PROVE  /\ Only(Root(bytes)) \in Siblings /\ AtNode(Only(Root(bytes)))
         /\ Steps(bytes, Only(Root(bytes))) = {PosAt(notes, 2)}
<1> DEFINE it == Only(Root(bytes))
           b == Skip(bytes, 1)
<1>1. /\ Root(bytes) \in NodeView /\ Root(bytes).data = 1
      /\ 2 \in DOMAIN notes
      /\ VisitChildren(bytes, Root(bytes)) = PosAt(notes, 2)
  BY RootChildren
<1>2. it.current = Root(bytes) /\ it.end = 0 /\ it \in Siblings /\ AtNode(it)
  BY <1>1 DEF Only, AtNode, NullAddress, Siblings
<1>3. b = 2
  BY RootBytes DEF Skip, IsTrieOf
<1>4. NextSibling(bytes, it) = [it EXCEPT !.current = NullNode]
  BY <1>1, <1>2, <1>3 DEF NextSibling
<1>5. ~AtNode(NextSibling(bytes, it))
  BY <1>4 DEF AtNode, NullNode, NullAddress, Only
<1>6. PosAt(notes, 2) \in Siblings /\ AtNode(PosAt(notes, 2))
  BY <1>1, TrieIsRead, PositionsAreTyped
<1> HIDE DEF it
<1>7. Steps(bytes, it) = {PosAt(notes, 2)}
  BY <1>1, <1>2, <1>5, <1>6 DEF Steps
<1> QED
  BY <1>2, <1>7 DEF it

(* Every step from a noted position leads to one. *)
LEMMA NotedSteps ==
  ASSUME NEW in, NEW bytes, NEW notes, IsTrieOf(in, bytes, notes),
         NEW a \in DOMAIN notes
  PROVE  Steps(bytes, PosAt(notes, a)) \subseteq Noted(notes)
<1> DEFINE it == PosAt(notes, a)
           next == NextSibling(bytes, it)
           kids == VisitChildren(bytes, it.current)
           b == a + NodeWidth(bytes[a])
           c == a + notes[a].kids
<1>1. AtNode(next) => next \in Noted(notes)
  <2>1. (b \in DOMAIN notes /\ next = PosAt(notes, b)) \/ ~AtNode(next)
    BY TrieIsRead, NextNoted
  <2> HIDE DEF b, next
  <2> QED
    BY <2>1 DEF Noted
<1>2. it.current = NodeAt(notes, a)
  BY DEF PosAt
<1>3. AtNode(kids) => kids \in Noted(notes)
  <2>1. CASE bytes[a].leaf
    <3>1. IsLeaf(bytes, NodeAt(notes, a))
      BY <2>1, TrieIsRead, PositionsAreTyped
    <3>2. kids = NoSiblings
      BY <1>2, <3>1 DEF VisitChildren
    <3> QED
      BY <3>2, NoNodeThere
  <2>2. CASE ~bytes[a].leaf
    <3>1. c \in DOMAIN notes /\ VisitChildren(bytes, NodeAt(notes, a)) = PosAt(notes, c)
      BY <2>2, TrieIsRead, ChildrenNoted
    <3>2. kids = PosAt(notes, c)
      BY <1>2, <3>1
    <3> HIDE DEF c, kids
    <3> QED
      BY <3>1, <3>2 DEF Noted
  <2> QED
    BY <2>1, <2>2
<1> HIDE DEF next, kids, it
<1>4. Steps(bytes, it) \subseteq Noted(notes)
  BY <1>1, <1>3 DEF Steps, next, kids
<1> QED
  BY <1>4 DEF it

(* The nodes found are the root and nodes with a note. *)
LEMMA OnlyNotedReached ==
  ASSUME NEW in, NEW bytes, NEW notes, IsTrieOf(in, bytes, notes)
  PROVE  PositionsFrom(bytes, Only(Root(bytes)))
           \subseteq {Only(Root(bytes))} \cup Noted(notes)
<1> DEFINE root == Only(Root(bytes))
<1>1. PICK within : IsReach(bytes, within)
  BY WithinExists
<1>2. IsWithin(bytes, within)
  BY <1>1 DEF IsReach
<1> DEFINE P == {n \in Nat : \A s \in Noted(notes) : within[n][s] \subseteq Noted(notes)}
<1>3. Noted(notes) \subseteq Siblings
  BY TrieIsRead, PositionsAreTyped DEF Noted
<1>4. 0 \in P
  BY <1>2, <1>3 DEF IsWithin
<1>5. ASSUME NEW n \in P PROVE n + 1 \in P
  <2> SUFFICES ASSUME NEW s \in Noted(notes)
               PROVE  within[n + 1][s] \subseteq Noted(notes)
    OBVIOUS
  <2>1. within[n + 1][s] = {s} \cup UNION {within[n][x] : x \in Steps(bytes, s)}
    BY <1>2, <1>3 DEF IsWithin
  <2>2. Steps(bytes, s) \subseteq Noted(notes)
    BY NotedSteps DEF Noted
  <2>3. \A x \in Steps(bytes, s) : within[n][x] \subseteq Noted(notes)
    BY <2>2
  <2> QED
    BY <2>1, <2>3
<1>6. P = Nat
  <2>1. P \subseteq Nat
    OBVIOUS
  <2> HIDE DEF P
  <2> QED
    BY <1>4, <1>5, <2>1, AllNumbers
<1>7. root \in Siblings /\ Steps(bytes, root) = {PosAt(notes, 2)} /\ AtNode(root)
  BY RootSteps
<1>8. ASSUME NEW n \in Nat PROVE within[n][root] \subseteq {root} \cup Noted(notes)
  <2>1. CASE n = 0
    BY <1>2, <1>7, <2>1 DEF IsWithin
  <2>2. CASE n # 0
    <3> DEFINE m == n - 1
    <3>1. m \in Nat /\ n = m + 1
      BY <2>2
    <3>2. within[m + 1][root] = {root} \cup UNION {within[m][x] : x \in {PosAt(notes, 2)}}
      BY <1>2, <1>7, <3>1 DEF IsWithin
    <3>3. PosAt(notes, 2) \in Noted(notes)
      BY RootChildren DEF Noted
    <3>4. within[m][PosAt(notes, 2)] \subseteq Noted(notes)
      BY <1>6, <3>1, <3>3
    <3> HIDE DEF m, root
    <3> QED
      BY <3>1, <3>2, <3>4
  <2> QED
    BY <2>1, <2>2
<1>9. Len(bytes) \in Nat
  BY RootChildren, TrieIsRead, NotedNode
<1>10. PositionsFrom(bytes, root) = within[Len(bytes)][root]
  BY <1>1, <1>7 DEF IsReach
<1> QED
  BY <1>8, <1>9, <1>10

(* One more step gets to what one step from there leads to. *)
LEMMA WithinGrows ==
  ASSUME NEW bytes, NEW within, IsWithin(bytes, within)
  PROVE  \A n \in Nat : \A x \in Siblings :
           /\ within[n][x] \subseteq within[n + 1][x]
           /\ \A y \in within[n][x] : Steps(bytes, y) \subseteq within[n + 1][x]
<1> DEFINE Grows(n) ==
             \A x \in Siblings :
               /\ within[n][x] \subseteq within[n + 1][x]
               /\ \A y \in within[n][x] : Steps(bytes, y) \subseteq within[n + 1][x]
           P == {n \in Nat : Grows(n)}
<1>1. \A y : Steps(bytes, y) \subseteq Siblings
  BY DEF Steps
<1>2. \A n \in Nat : \A x \in Siblings :
        within[n + 1][x] = {x} \cup UNION {within[n][s] : s \in Steps(bytes, x)}
  BY DEF IsWithin
<1>3. \A x \in Siblings : within[0][x] = {x}
  BY DEF IsWithin
<1>4. \A n \in Nat : \A x \in Siblings : x \in within[n][x]
  <2> SUFFICES ASSUME NEW n \in Nat, NEW x \in Siblings PROVE x \in within[n][x]
    OBVIOUS
  <2>1. CASE n = 0
    BY <1>3, <2>1
  <2>2. CASE n # 0
    <3>1. n - 1 \in Nat /\ n = (n - 1) + 1
      BY <2>2
    <3>2. x \in within[(n - 1) + 1][x]
      BY <1>2, <3>1
    <3> QED
      BY <3>1, <3>2
  <2> QED
    BY <2>1, <2>2
<1>5. ASSUME NEW n \in Nat, NEW x \in Siblings
      PROVE  Steps(bytes, x) \subseteq within[n + 1][x]
  <2>1. \A s \in Steps(bytes, x) : s \in within[n][s]
    BY <1>1, <1>4
  <2> QED
    BY <1>2, <2>1
<1>6. 0 \in P
  <2> SUFFICES ASSUME NEW x \in Siblings
               PROVE  /\ within[0][x] \subseteq within[0 + 1][x]
                      /\ \A y \in within[0][x] : Steps(bytes, y) \subseteq within[0 + 1][x]
    OBVIOUS
  <2>1. within[0][x] = {x} /\ x \in within[0 + 1][x]
    BY <1>3, <1>4
  <2>2. Steps(bytes, x) \subseteq within[0 + 1][x]
    BY <1>5
  <2> QED
    BY <2>1, <2>2
<1>7. ASSUME NEW n \in P PROVE n + 1 \in P
  <2> DEFINE m == n + 1
  <2>1. n \in Nat /\ m \in Nat /\ Grows(n)
    OBVIOUS
  <2>2. ASSUME NEW x \in Siblings
        PROVE  /\ within[m][x] \subseteq within[m + 1][x]
               /\ \A y \in within[m][x] : Steps(bytes, y) \subseteq within[m + 1][x]
    <3>1. within[m][x] = {x} \cup UNION {within[n][s] : s \in Steps(bytes, x)}
      BY <1>2, <2>1
    <3>2. within[m + 1][x] = {x} \cup UNION {within[m][s] : s \in Steps(bytes, x)}
      <4> HIDE DEF m
      <4> QED
        BY <1>2, <2>1
    <3>3. \A s \in Steps(bytes, x) : within[n][s] \subseteq within[m][s]
      BY <1>1, <2>1
    <3>4. within[m][x] \subseteq within[m + 1][x]
      <4> HIDE DEF m
      <4> QED
        BY <3>1, <3>2, <3>3
    <3>5. ASSUME NEW y \in within[m][x] PROVE Steps(bytes, y) \subseteq within[m + 1][x]
      <4>1. CASE y = x
        <5> HIDE DEF m
        <5> QED
          BY <1>5, <2>1, <4>1
      <4>2. ASSUME NEW s \in Steps(bytes, x), y \in within[n][s]
            PROVE  Steps(bytes, y) \subseteq within[m + 1][x]
        <5>1. Steps(bytes, y) \subseteq within[m][s]
          BY <1>1, <2>1, <4>2
        <5> HIDE DEF m
        <5> QED
          BY <3>2, <5>1
      <4> QED
        BY <3>1, <4>1, <4>2
    <3> QED
      BY <3>4, <3>5
  <2>3. Grows(m)
    BY <2>2
  <2> QED
    BY <2>1, <2>3
<1>8. P = Nat
  <2>1. P \subseteq Nat
    OBVIOUS
  <2> HIDE DEF P
  <2> QED
    BY <1>6, <1>7, <2>1, AllNumbers
<1> QED
  BY <1>8

(* Every node with a note is found. *)
LEMMA AllNotedReached ==
  ASSUME NEW in, NEW bytes, NEW notes, IsTrieOf(in, bytes, notes)
  PROVE  {Only(Root(bytes))} \cup Noted(notes)
           \subseteq PositionsFrom(bytes, Only(Root(bytes)))
<1> DEFINE root == Only(Root(bytes))
<1>1. PICK within : IsReach(bytes, within)
  BY WithinExists
<1>2. IsWithin(bytes, within)
  BY <1>1 DEF IsReach
<1>3. root \in Siblings /\ AtNode(root) /\ Steps(bytes, root) = {PosAt(notes, 2)}
  BY RootSteps
<1> DEFINE Reached(n) == within[n][root]
<1>4. \A n \in Nat : /\ Reached(n) \subseteq Reached(n + 1)
                     /\ \A y \in Reached(n) : Steps(bytes, y) \subseteq Reached(n + 1)
  <2> HIDE DEF root
  <2> QED
    BY <1>2, <1>3, WithinGrows
<1>5. root \in Reached(0)
  BY <1>2, <1>3 DEF IsWithin
<1> HIDE DEF Reached, root
<1> DEFINE P == {n \in Nat : /\ root \in Reached(n)
                             /\ \A a \in DOMAIN notes : a <= n => PosAt(notes, a) \in Reached(n)}
<1>6. 0 \in P
  <2>1. \A a \in DOMAIN notes : ~(a <= 0)
    <3>1. \A a \in DOMAIN notes : a \in Nat /\ a >= 2
      BY TrieIsRead, NotedNode
    <3> QED
      BY <3>1
  <2> QED
    BY <1>5, <2>1
<1>7. ASSUME NEW n \in P PROVE n + 1 \in P
  <2>1. n \in Nat /\ n + 1 \in Nat /\ root \in Reached(n + 1)
    BY <1>4
  <2>2. ASSUME NEW a \in DOMAIN notes, a <= n + 1 PROVE PosAt(notes, a) \in Reached(n + 1)
    <3>1. a \in Nat
      BY TrieIsRead, NotedNode
    <3>2. CASE a <= n
      BY <1>4, <2>1, <2>2, <3>2
    <3>3. CASE a = n + 1 /\ a # 2
      <4>1. Entered(bytes, notes, a)
        BY <3>3 DEF IsTrieOf, IsNoted
      <4>2. PICK b \in DOMAIN notes :
              /\ b < a
              /\ \/ a = b + NodeWidth(bytes[b]) /\ NodeWidth(bytes[b]) < notes[b].end
                 \/ a = b + notes[b].kids /\ ~bytes[b].leaf
        BY <4>1 DEF Entered
      <4>3. b \in Nat /\ b <= n
        <5>1. b \in Nat
          BY TrieIsRead, NotedNode
        <5> QED
          BY <2>1, <3>3, <4>2, <5>1
      <4>4. PosAt(notes, b) \in Reached(n)
        BY <4>3
      <4>5. PosAt(notes, a) \in Steps(bytes, PosAt(notes, b))
        <5>1. PosAt(notes, a) \in Siblings /\ AtNode(PosAt(notes, a))
          BY TrieIsRead, PositionsAreTyped
        <5>2. PosAt(notes, a) = NextSibling(bytes, PosAt(notes, b))
                \/ PosAt(notes, a) = VisitChildren(bytes, NodeAt(notes, b))
          <6>1. CASE a = b + NodeWidth(bytes[b]) /\ NodeWidth(bytes[b]) < notes[b].end
            BY <6>1, TrieIsRead, NextNoted
          <6>2. CASE a = b + notes[b].kids /\ ~bytes[b].leaf
            BY <6>2, TrieIsRead, ChildrenNoted
          <6> QED
            BY <4>2, <6>1, <6>2
        <5>3. PosAt(notes, b).current = NodeAt(notes, b)
          BY DEF PosAt
        <5> QED
          BY <5>1, <5>2, <5>3 DEF Steps
      <4> QED
        BY <1>4, <2>1, <4>4, <4>5
    <3>4. CASE a = n + 1 /\ a = 2
      <4>1. PosAt(notes, 2) \in Steps(bytes, root)
        BY <1>3
      <4> QED
        BY <1>4, <2>1, <3>4, <4>1
    <3> QED
      BY <2>1, <2>2, <3>1, <3>2, <3>3, <3>4
  <2> QED
    BY <2>1, <2>2
<1>8. P = Nat
  <2>1. P \subseteq Nat
    OBVIOUS
  <2> HIDE DEF P
  <2> QED
    BY <1>6, <1>7, <2>1, AllNumbers
<1>9. Len(bytes) \in Nat /\ \A a \in DOMAIN notes : a <= Len(bytes)
  BY RootChildren, TrieIsRead, NotedNode
<1>10. PositionsFrom(bytes, root) = Reached(Len(bytes))
  BY <1>1, <1>3 DEF IsReach, Reached
<1>11. Len(bytes) \in P
  BY <1>8, <1>9
<1>12. {root} \cup Noted(notes) \subseteq Reached(Len(bytes))
  BY <1>9, <1>11 DEF Noted
<1> QED
  BY <1>10, <1>12 DEF root

(* The nodes of a trie, by their positions. *)
LEMMA NodesOfTrie ==
  ASSUME NEW in, NEW bytes, NEW notes, IsTrieOf(in, bytes, notes)
  PROVE  NodesBelow(bytes, Root(bytes)) =
           {Root(bytes)} \cup {NodeAt(notes, a) : a \in DOMAIN notes}
<1> DEFINE all == {Only(Root(bytes))} \cup Noted(notes)
           nodes == {Root(bytes)} \cup {NodeAt(notes, a) : a \in DOMAIN notes}
<1>1. PositionsFrom(bytes, Only(Root(bytes))) = all
  BY OnlyNotedReached, AllNotedReached
<1>2. NodesBelow(bytes, Root(bytes)) = {it.current : it \in all}
  BY <1>1 DEF NodesBelow, NodesFrom
<1>3. Only(Root(bytes)).current = Root(bytes)
  BY DEF Only
<1>4. \A a \in DOMAIN notes : PosAt(notes, a).current = NodeAt(notes, a)
  BY DEF PosAt
<1>5. ASSUME NEW it \in all PROVE it.current \in nodes
  <2>1. CASE it = Only(Root(bytes))
    BY <1>3, <2>1
  <2>2. CASE it \in Noted(notes)
    <3>1. PICK a \in DOMAIN notes : it = PosAt(notes, a)
      BY <2>2 DEF Noted
    <3> QED
      BY <1>4, <3>1
  <2> QED
    BY <2>1, <2>2
<1>6. ASSUME NEW node \in nodes PROVE \E it \in all : it.current = node
  <2>1. CASE node = Root(bytes)
    BY <1>3, <2>1
  <2>2. ASSUME NEW a \in DOMAIN notes, node = NodeAt(notes, a)
        PROVE  \E it \in all : it.current = node
    <3>1. PosAt(notes, a) \in all
      BY DEF Noted
    <3> HIDE DEF all
    <3> QED
      BY <1>4, <2>2, <3>1
  <2> QED
    BY <2>1, <2>2
<1> HIDE DEF all, nodes
<1>7. {it.current : it \in all} = nodes
  BY <1>5, <1>6
<1> QED
  BY <1>2, <1>7 DEF nodes

(* The only node of an empty trie is its root. *)
LEMMA NodesOfNothing ==
  NodesBelow(LeafRootHeader, Root(LeafRootHeader)) = {Root(LeafRootHeader)}
<1> DEFINE bytes == LeafRootHeader
           root == Only(Root(bytes))
<1>1. /\ IsLeaf(bytes, Root(bytes)) /\ Root(bytes) \in NodeView
      /\ Root(bytes).data = 1 /\ Len(bytes) \in Nat
  BY EmptyRootSeen
<1>2. root.current = Root(bytes) /\ root.end = 0 /\ root \in Siblings /\ AtNode(root)
  BY <1>1 DEF Only, AtNode, NullAddress, Siblings
<1>3. Skip(bytes, 1) = 2
  BY RootBytes DEF Skip
<1>4. ~AtNode(NextSibling(bytes, root))
  BY <1>1, <1>2, <1>3 DEF NextSibling, AtNode, NullNode, NullAddress, Only
<1>5. ~AtNode(VisitChildren(bytes, root.current))
  BY <1>1, <1>2, NoNodeThere DEF VisitChildren
<1>6. Steps(bytes, root) = {}
  BY <1>4, <1>5 DEF Steps
<1>7. PICK within : IsReach(bytes, within)
  BY WithinExists
<1>8. \A n \in Nat : within[n][root] = {root}
  <2> SUFFICES ASSUME NEW n \in Nat PROVE within[n][root] = {root}
    OBVIOUS
  <2> HIDE DEF root, bytes
  <2>1. CASE n = 0
    BY <1>2, <1>7, <2>1 DEF IsReach, IsWithin
  <2>2. CASE n # 0
    <3>1. n - 1 \in Nat /\ n = (n - 1) + 1
      BY <2>2
    <3>2. within[(n - 1) + 1][root] =
            {root} \cup UNION {within[n - 1][s] : s \in Steps(bytes, root)}
      BY <1>2, <1>7, <3>1 DEF IsReach, IsWithin
    <3> QED
      BY <1>6, <3>1, <3>2
  <2> QED
    BY <2>1, <2>2
<1>9. PositionsFrom(bytes, root) = {root}
  BY <1>1, <1>2, <1>7, <1>8 DEF IsReach
<1>10. NodesBelow(bytes, Root(bytes)) = {it.current : it \in {root}}
  BY <1>9 DEF NodesBelow, NodesFrom
<1> HIDE DEF root
<1> QED
  BY <1>2, <1>10

LEMMA TrieIsCompact == Contents => Compact
<1> SUFFICES ASSUME Contents, pc = "done"
             PROVE  LET nodes == NodesBelow(trie, Root(trie))
                    IN  /\ {node.data : node \in nodes} = {a \in DOMAIN trie : trie[a] # Pad}
                        /\ \A node \in nodes :
                             ~IsLeaf(trie, node) => /\ node.first_child > node.data
                                                    /\ node.first_child \in DOMAIN trie
  BY DEF Compact
<1> DEFINE nodes == NodesBelow(trie, Root(trie))
<1>1. HoldsInput(input, trie)
  BY DEF Contents
<1>2. CASE suggestions = <<>>
  <2>1. trie = LeafRootHeader
    BY <1>1, <1>2 DEF HoldsInput, suggestions
  <2>2. nodes = {Root(trie)} /\ Root(trie).data = 1 /\ IsLeaf(trie, Root(trie))
    BY <2>1, NodesOfNothing, EmptyRootSeen
  <2>3. DOMAIN trie = {1} /\ trie[1] = LeafHead
    BY <2>1, RootBytes
  <2>4. LeafHead \in Header
    BY EmptySeq DEF LeafHead, Header
  <2>5. {a \in DOMAIN trie : trie[a] # Pad} = {1}
    BY <2>3, <2>4, PadAssumption
  <2> HIDE DEF nodes
  <2>6. {node.data : node \in nodes} = {1}
    BY <2>2
  <2> QED
    BY <2>2, <2>5, <2>6 DEF nodes
<1>3. CASE suggestions # <<>>
  <2>1. PICK notes : IsTrieOf(input, trie, notes)
    BY <1>1, <1>3 DEF HoldsInput, suggestions
  <2>2. nodes = {Root(trie)} \cup {NodeAt(notes, a) : a \in DOMAIN notes}
    BY <2>1, NodesOfTrie
  <2>3. Root(trie).data = 1 /\ Root(trie).first_child = 2 /\ 2 \in DOMAIN notes
    <3>1. trie[1] = RootHead
      BY <2>1 DEF IsTrieOf
    <3>2. Root(trie) = [data |-> 1, rank |-> 0, first_child |-> 2]
      BY <3>1, RootBytes DEF Root, Node, Skip, RootHead
    <3>3. 2 \in DOMAIN notes
      BY <2>1, RootChildren
    <3> QED
      BY <3>2, <3>3
  <2>4. \A a \in DOMAIN notes : NodeAt(notes, a).data = a
    BY DEF NodeAt
  <2>5. DOMAIN trie = 1 .. Len(trie) /\ Len(trie) \in Nat /\ Len(trie) > 1
    BY <2>1, LenProperties DEF IsTrieOf
  <2>6. trie[1] # Pad
    BY <2>1, RootBytes, PadAssumption DEF IsTrieOf
  <2>7. DOMAIN notes = {a \in 2 .. Len(trie) : trie[a] # Pad}
    BY <2>1 DEF IsTrieOf, IsNoted
  <2>8. {a \in DOMAIN trie : trie[a] # Pad} = {1} \cup DOMAIN notes
    <3>1. 1 .. Len(trie) = {1} \cup (2 .. Len(trie))
      BY <2>5
    <3> QED
      BY <2>5, <2>6, <2>7, <3>1
  <2> HIDE DEF nodes
  <2>9. {node.data : node \in nodes} = {1} \cup DOMAIN notes
    <3>1. \A node \in nodes : node.data \in {1} \cup DOMAIN notes
      BY <2>2, <2>3, <2>4
    <3>2. \A x \in {1} \cup DOMAIN notes : \E node \in nodes : node.data = x
      BY <2>2, <2>3, <2>4
    <3> QED
      BY <3>1, <3>2
  <2>10. ASSUME NEW node \in nodes, ~IsLeaf(trie, node)
         PROVE  node.first_child > node.data /\ node.first_child \in DOMAIN trie
    <3>1. CASE node = Root(trie)
      BY <2>3, <2>5, <3>1
    <3>2. ASSUME NEW a \in DOMAIN notes, node = NodeAt(notes, a)
          PROVE  node.first_child > node.data /\ node.first_child \in DOMAIN trie
      <4>1. ~trie[a].leaf
        BY <2>1, <2>10, <3>2, TrieIsRead, PositionsAreTyped
      <4> DEFINE c == a + notes[a].kids
      <4>2. c \in DOMAIN notes /\ a < c
        BY <2>1, <4>1, TrieIsRead, ChildrenNoted
      <4>3. node.data = a /\ node.first_child = c
        BY <3>2 DEF NodeAt
      <4>4. a \in Nat /\ c \in Nat /\ c \in 2 .. Len(trie)
        <5> HIDE DEF c
        <5> QED
          BY <2>1, <4>2, TrieIsRead, NotedNode
      <4> HIDE DEF c
      <4> QED
        BY <2>5, <4>2, <4>3, <4>4
    <3> QED
      BY <2>2, <3>1, <3>2
  <2> QED
    BY <2>8, <2>9, <2>10 DEF nodes
<1> QED
  BY <1>2, <1>3

(* Every byte of a trie belongs to one node that can be reached, and the   *)
(* children of a node stand after it.                                      *)
THEOREM TrieCompact == Spec => []Compact
BY ContentsHold, TrieIsCompact, PTL

-----------------------------------------------------------------------------
(* Siblings are told apart by their first character.                       *)

(* The positions that ++ leads to. *)
IsWalk(bytes, it, f) ==
  /\ f[0] = it
  /\ \A n \in Nat : f[n + 1] = IF AtNode(f[n]) THEN NextSibling(bytes, f[n]) ELSE f[n]
  /\ \A n \in Nat : SiblingAt(bytes, it, n) = f[n]

(* The node at b is found n or more bytes after its sibling at a. *)
Ahead(notes, a, b, n) ==
  /\ b \in DOMAIN notes
  /\ notes[b].depth = notes[a].depth
  /\ notes[b].on \subseteq notes[a].on
  /\ a + n <= b

LEMMA WalkExists ==
  ASSUME NEW in, NEW bytes, NEW notes, IsTrieOf(in, bytes, notes),
         NEW c \in DOMAIN notes
  PROVE  \E f : IsWalk(bytes, PosAt(notes, c), f)
<1> DEFINE step  == [i \in Siblings |-> IF AtNode(i) THEN NextSibling(bytes, i) ELSE i]
           S == {i \in Siblings : AtNode(i) => \E a \in DOMAIN notes : i = PosAt(notes, a)}
           start == PosAt(notes, c)
<1>1. start \in S
  BY TrieIsRead, PositionsAreTyped
<1>2. ASSUME NEW i \in S PROVE step[i] \in S
  <2>1. CASE AtNode(i)
    <3>1. PICK a \in DOMAIN notes : i = PosAt(notes, a)
      BY <2>1
    <3>2. step[i] = NextSibling(bytes, PosAt(notes, a))
      BY <2>1, <3>1
    <3> DEFINE next == NextSibling(bytes, PosAt(notes, a))
               b == a + NodeWidth(bytes[a])
    <3>3. \/ b \in DOMAIN notes /\ next = PosAt(notes, b)
          \/ next \in Siblings /\ ~AtNode(next)
      BY TrieIsRead, NextNoted
    <3>4. next \in S
      <4> HIDE DEF next, b, step
      <4> QED
        BY <3>3, TrieIsRead, PositionsAreTyped
    <3> QED
      BY <3>2, <3>4
  <2>2. CASE ~AtNode(i)
    BY <2>2
  <2> QED
    BY <2>1, <2>2
<1>3. PICK f : IsRun(f, S, step, start)
  <2> HIDE DEF S, step, start
  <2> QED
    BY <1>1, <1>2, LoopRuns
<1>4. \A n \in Nat : f[n + 1] = IF AtNode(f[n]) THEN NextSibling(bytes, f[n]) ELSE f[n]
  <2> SUFFICES ASSUME NEW n \in Nat
               PROVE  f[n + 1] = IF AtNode(f[n]) THEN NextSibling(bytes, f[n]) ELSE f[n]
    OBVIOUS
  <2>1. f[n + 1] = step[f[n]] /\ f[n] \in S
    BY <1>3 DEF IsLoop, IsRun
  <2> QED
    BY <2>1
<1>5. f[0] = start /\ \A n \in Nat : SiblingAt(bytes, start, n) = f[n]
  <2>1. f[0] = start /\ \A n \in Nat : After(n, step, start) = f[n]
    BY <1>3 DEF IsLoop, IsRun
  <2> QED
    BY <2>1 DEF SiblingAt
<1> QED
  BY <1>4, <1>5 DEF IsWalk

(* A walk goes to the next sibling or stops. *)
LEMMA WalkStep ==
  ASSUME NEW in, NEW bytes, NEW notes, IsTrieOf(in, bytes, notes),
         NEW it, NEW f, IsWalk(bytes, it, f),
         NEW n \in Nat, NEW a \in DOMAIN notes, f[n] = PosAt(notes, a)
  PROVE  \/ ~AtNode(f[n + 1])
         \/ \E b : /\ f[n + 1] = PosAt(notes, b)
                   /\ Ahead(notes, a, b, 1)
                   /\ GroupedIn(in) =>
                        Differs(in, notes[a].depth, bytes[a].label, notes[b].on)
<1> DEFINE next == NextSibling(bytes, PosAt(notes, a))
           b    == a + NodeWidth(bytes[a])
           w    == NodeWidth(bytes[a])
<1>1. f[n + 1] = next
  BY TrieIsRead, PositionsAreTyped DEF IsWalk
<1>2. a \in Nat /\ w \in Nat \ {0} /\ NotedAt(in, bytes, notes, a)
  BY TrieIsRead, NotedNode
<1>3. CASE w < notes[a].end
  <2>1. b \in DOMAIN notes /\ next = PosAt(notes, b)
    BY <1>3, TrieIsRead, NextNoted
  <2>2. Follows(in, bytes[a], notes[a], bytes[b], notes[b])
    BY <1>2, <1>3 DEF NotedAt
  <2>3. /\ notes[b].depth = notes[a].depth
        /\ notes[a].on = notes[a].below \cup notes[b].on
        /\ GroupedIn(in) => Differs(in, notes[a].depth, bytes[a].label, notes[b].on)
    BY <2>2 DEF Follows
  <2>4. a + 1 <= b
    <3> HIDE DEF w
    <3>1. a + 1 <= a + w
      BY <1>2
    <3> QED
      BY <3>1 DEF w
  <2> HIDE DEF b, next
  <2>5. Ahead(notes, a, b, 1)
    BY <2>1, <2>3, <2>4 DEF Ahead
  <2> QED
    BY <1>1, <2>1, <2>3, <2>5
<1>4. CASE ~(w < notes[a].end)
  BY <1>1, <1>4, TrieIsRead, NextNoted
<1> QED
  BY <1>3, <1>4

(* Once stopped, a walk goes nowhere; later nodes stand further on. *)
LEMMA WalkOn ==
  ASSUME NEW in, NEW bytes, NEW notes, IsTrieOf(in, bytes, notes),
         NEW it, NEW f, IsWalk(bytes, it, f),
         NEW m \in Nat, NEW a \in DOMAIN notes, f[m] = PosAt(notes, a)
  PROVE  \A n \in Nat : AtNode(f[m + n]) =>
           \E b : f[m + n] = PosAt(notes, b) /\ Ahead(notes, a, b, n)
<1> DEFINE Leads(n) == AtNode(f[m + n]) =>
             \E b : f[m + n] = PosAt(notes, b) /\ Ahead(notes, a, b, n)
           P == {n \in Nat : Leads(n)}
<1>1. a \in Nat
  BY TrieIsRead, NotedNode
<1>2. 0 \in P
  <2>1. m + 0 = m /\ a + 0 <= a
    BY <1>1
  <2>2. Ahead(notes, a, a, 0)
    BY <2>1 DEF Ahead
  <2> QED
    BY <2>1, <2>2
<1>3. ASSUME NEW n \in P PROVE n + 1 \in P
  <2>1. n \in Nat /\ n + 1 \in Nat /\ m + n \in Nat /\ m + (n + 1) = (m + n) + 1
    OBVIOUS
  <2>2. CASE ~AtNode(f[m + n])
    <3>1. f[(m + n) + 1] = f[m + n]
      BY <2>1, <2>2 DEF IsWalk
    <3> QED
      BY <2>1, <2>2, <3>1
  <2>3. CASE AtNode(f[m + n])
    <3>1. PICK b : f[m + n] = PosAt(notes, b) /\ Ahead(notes, a, b, n)
      BY <2>3
    <3>2. b \in DOMAIN notes /\ b \in Nat /\ a + n <= b
      BY <3>1, TrieIsRead, NotedNode DEF Ahead
    <3>3. \/ ~AtNode(f[(m + n) + 1])
          \/ \E d : f[(m + n) + 1] = PosAt(notes, d) /\ Ahead(notes, b, d, 1)
      BY <2>1, <3>1, <3>2, WalkStep
    <3>4. ASSUME NEW d, f[(m + n) + 1] = PosAt(notes, d), Ahead(notes, b, d, 1)
          PROVE  Ahead(notes, a, d, n + 1)
      <4>1. d \in DOMAIN notes /\ d \in Nat /\ b + 1 <= d
        BY <3>4, TrieIsRead, NotedNode DEF Ahead
      <4>2. a + (n + 1) <= d
        BY <1>1, <2>1, <3>2, <4>1
      <4> QED
        BY <3>1, <3>4, <4>2 DEF Ahead
    <3>5. Leads(n + 1)
      BY <2>1, <3>3, <3>4
    <3> QED
      BY <2>1, <3>5
  <2> QED
    BY <2>2, <2>3
<1>4. P = Nat
  <2>1. P \subseteq Nat
    OBVIOUS
  <2> HIDE DEF P
  <2> QED
    BY <1>2, <1>3, <2>1, AllNumbers
<1> QED
  BY <1>4

(* The number of steps after which a walk stops. *)
IsCount(bytes, it, n) ==
  /\ n \in 0 .. Len(bytes)
  /\ \A m \in 0 .. n : AtNode(SiblingAt(bytes, it, m)) <=> m < n

LEMMA PositionsCounted ==
  ASSUME NEW bytes, NEW it, NEW n, IsCount(bytes, it, n)
  PROVE  \E count : /\ IsCount(bytes, it, count)
                    /\ SiblingPositions(bytes, it) =
                         [i \in 1 .. count |-> SiblingAt(bytes, it, i - 1)]
<1> DEFINE count == CHOOSE x \in 0 .. Len(bytes) :
                      \A m \in 0 .. x : AtNode(SiblingAt(bytes, it, m)) <=> m < x
<1>1. \E x \in 0 .. Len(bytes) :
        \A m \in 0 .. x : AtNode(SiblingAt(bytes, it, m)) <=> m < x
  BY DEF IsCount
<1>2. IsCount(bytes, it, count)
  BY <1>1 DEF IsCount
<1>3. SiblingPositions(bytes, it) = [i \in 1 .. count |-> SiblingAt(bytes, it, i - 1)]
  BY DEF SiblingPositions
<1> HIDE DEF count
<1> QED
  BY <1>2, <1>3

(* A walk over the siblings of a trie stops within its bytes. *)
LEMMA WalkStops ==
  ASSUME NEW in, NEW bytes, NEW notes, IsTrieOf(in, bytes, notes),
         NEW c \in DOMAIN notes, NEW f, IsWalk(bytes, PosAt(notes, c), f)
  PROVE  \E n : IsCount(bytes, PosAt(notes, c), n)
<1> DEFINE T == {n \in Nat : ~AtNode(f[n])}
<1>1. c \in Nat /\ c > 0 /\ Len(bytes) \in Nat
  BY TrieIsRead, NotedNode
<1>2. ~AtNode(f[Len(bytes)])
  <2>1. f[0] = PosAt(notes, c)
    BY DEF IsWalk
  <2>2. 0 \in Nat /\ 0 + Len(bytes) = Len(bytes)
    BY <1>1
  <2>3. \A n \in Nat : AtNode(f[0 + n]) =>
          \E b : f[0 + n] = PosAt(notes, b) /\ Ahead(notes, c, b, n)
    BY <2>1, <2>2, WalkOn
  <2>4. AtNode(f[Len(bytes)]) => \E b : Ahead(notes, c, b, Len(bytes))
    BY <1>1, <2>2, <2>3
  <2>5. ASSUME NEW b, Ahead(notes, c, b, Len(bytes)) PROVE FALSE
    <3>1. b \in Nat /\ b <= Len(bytes) /\ c + Len(bytes) <= b
      BY <2>5, TrieIsRead, NotedNode DEF Ahead
    <3> QED
      BY <1>1, <3>1
  <2> QED
    BY <2>4, <2>5
<1>3. T \subseteq Nat /\ Len(bytes) \in T
  BY <1>1, <1>2
<1> HIDE DEF T
<1>4. PICK n \in T : \A j \in T : n <= j
  BY <1>3, LeastNumber
<1>5. n \in Nat /\ n <= Len(bytes) /\ ~AtNode(f[n])
  BY <1>1, <1>3, <1>4 DEF T
<1>6. ASSUME NEW m \in 0 .. n PROVE AtNode(SiblingAt(bytes, PosAt(notes, c), m)) <=> m < n
  <2>1. m \in Nat /\ m <= n
    BY <1>5
  <2>2. m < n => m \notin T
    BY <1>4, <1>5, <2>1
  <2>3. m < n => AtNode(f[m])
    BY <2>1, <2>2 DEF T
  <2>4. ~(m < n) => m = n
    BY <1>5, <2>1
  <2>5. SiblingAt(bytes, PosAt(notes, c), m) = f[m]
    BY <2>1 DEF IsWalk
  <2>6. ~(n < n)
    BY <1>5
  <2> QED
    BY <1>5, <2>3, <2>4, <2>5, <2>6
<1> QED
  BY <1>1, <1>5, <1>6 DEF IsCount

(* Where there are no siblings there are no positions. *)
LEMMA NoPositions ==
  ASSUME NEW bytes, Len(bytes) \in Nat
  PROVE  DOMAIN SiblingPositions(bytes, NoSiblings) = {}
<1> DEFINE step == [i \in Siblings |-> IF AtNode(i) THEN NextSibling(bytes, i) ELSE i]
           S == {NoSiblings}
<1>1. NoSiblings \in S /\ \A i \in S : step[i] \in S
  BY NoNodeThere
<1>2. PICK f : IsRun(f, S, step, NoSiblings)
  <2> HIDE DEF S, step
  <2> QED
    BY <1>1, LoopRuns
<1>3. ~AtNode(SiblingAt(bytes, NoSiblings, 0))
  <2>1. After(0, step, NoSiblings) = NoSiblings
    BY <1>2 DEF IsLoop, IsRun
  <2> QED
    BY <2>1, NoNodeThere DEF SiblingAt
<1>4. IsCount(bytes, NoSiblings, 0)
  <2>1. 0 .. 0 = {0} /\ ~(0 < 0) /\ 0 \in 0 .. Len(bytes)
    OBVIOUS
  <2> QED
    BY <1>3, <2>1 DEF IsCount
<1>5. PICK count : /\ IsCount(bytes, NoSiblings, count)
                   /\ SiblingPositions(bytes, NoSiblings) =
                        [i \in 1 .. count |-> SiblingAt(bytes, NoSiblings, i - 1)]
  BY <1>4, PositionsCounted
<1>6. count \in Nat /\ 0 \in 0 .. count
  BY <1>5 DEF IsCount
<1>7. ~(0 < count)
  BY <1>3, <1>5, <1>6 DEF IsCount
<1>8. 1 .. count = {}
  BY <1>6, <1>7
<1> QED
  BY <1>5, <1>8

(* The walk passes a node there whose label starts otherwise. *)
StartsOtherwise(bytes, notes, a, it) ==
  \E b \in DOMAIN notes :
    /\ it = PosAt(notes, b)
    /\ bytes[b].label # <<>> => bytes[a].label[1] # bytes[b].label[1]

(* Two siblings of a trie of grouped input. *)
LEMMA NotedSiblingsDiffer ==
  ASSUME NEW in, IsInput(in), GroupedIn(in),
         NEW bytes, NEW notes, IsTrieOf(in, bytes, notes),
         NEW it, NEW f, IsWalk(bytes, it, f),
         NEW m \in Nat, NEW a \in DOMAIN notes, f[m] = PosAt(notes, a),
         AtNode(f[m + 1]),
         NEW n \in Nat, AtNode(f[(m + 1) + n]),
         bytes[a].label # <<>>
  PROVE  StartsOtherwise(bytes, notes, a, f[(m + 1) + n])
<1>1. PICK x : /\ f[m + 1] = PosAt(notes, x)
               /\ Ahead(notes, a, x, 1)
               /\ Differs(in, notes[a].depth, bytes[a].label, notes[x].on)
  BY WalkStep
<1>2. x \in DOMAIN notes /\ notes[x].depth = notes[a].depth /\ m + 1 \in Nat
  BY <1>1 DEF Ahead
<1>3. PICK b : f[(m + 1) + n] = PosAt(notes, b) /\ Ahead(notes, x, b, n)
  <2> DEFINE q == m + 1
  <2>1. q \in Nat /\ f[q] = PosAt(notes, x)
    BY <1>1, <1>2
  <2> HIDE DEF q
  <2>2. \A r \in Nat : AtNode(f[q + r]) =>
          \E b : f[q + r] = PosAt(notes, b) /\ Ahead(notes, x, b, r)
    BY <1>2, <2>1, WalkOn
  <2> QED
    BY <2>2 DEF q
<1>4. /\ b \in DOMAIN notes
      /\ notes[b].depth = notes[a].depth
      /\ notes[b].on \subseteq notes[x].on
  BY <1>2, <1>3 DEF Ahead
<1>5. ASSUME bytes[b].label # <<>>, bytes[a].label[1] = bytes[b].label[1]
      PROVE  FALSE
  <2> DEFINE d == notes[b].depth
             label == bytes[b].label
  <2>1. /\ NotedAt(in, bytes, notes, b) /\ notes[b] \in Note
        /\ label \in Seq(Char) /\ Len(label) \in Nat
        /\ Carries(in, label, notes[b].rank, bytes[b].leaf, d, notes[b].below)
    BY <1>4, TrieIsRead, NotedNode DEF Fits
  <2>2. notes[b].below \subseteq notes[b].on
    <3>1. CASE NodeWidth(bytes[b]) < notes[b].end
      BY <2>1, <3>1 DEF NotedAt, Follows
    <3>2. CASE ~(NodeWidth(bytes[b]) < notes[b].end)
      BY <2>1, <3>2 DEF NotedAt
    <3> QED
      BY <3>1, <3>2
  <2>3. PICK k \in notes[b].below : Spells(in, k, d, label)
    BY <2>1 DEF Carries
  <2>4. k \in DOMAIN in.suggestions /\ k \in notes[x].on
    BY <1>4, <2>1, <2>2 DEF Carries
  <2>5. Len(in.suggestions[k]) \in Nat /\ d \in Nat
    BY <2>1, <2>4, SuggestionTyped DEF Note
  <2>6. Len(label) >= 1
    BY <1>5, <2>1, EmptySeq
  <2>7. /\ d + Len(label) <= Len(in.suggestions[k])
        /\ \A i \in 1 .. Len(label) : in.suggestions[k][d + i] = label[i]
    BY <2>3 DEF Spells
  <2>8. d < Len(in.suggestions[k]) /\ 1 \in 1 .. Len(label)
    <3> HIDE DEF d, label
    <3> QED
      BY <2>1, <2>5, <2>6, <2>7
  <2>9. in.suggestions[k][d + 1] = bytes[a].label[1]
    BY <1>5, <2>7, <2>8
  <2> QED
    BY <1>1, <1>4, <2>4, <2>8, <2>9 DEF Differs
<1> QED
  BY <1>3, <1>4, <1>5 DEF StartsOtherwise

DifferFrom(bytes, node) ==
  LET positions == SiblingPositions(bytes, VisitChildren(bytes, node))
      label(i) == Label(bytes, positions[i].current)
  IN  \A i, j \in DOMAIN positions :
        i # j /\ label(i) # <<>> /\ label(j) # <<>> =>
          Head(label(i)) # Head(label(j))

LEMMA ChildrenDiffer ==
  ASSUME NEW in, IsInput(in), GroupedIn(in),
         NEW bytes, NEW notes, IsTrieOf(in, bytes, notes),
         NEW node, NEW c \in DOMAIN notes,
         VisitChildren(bytes, node) = PosAt(notes, c)
  PROVE  DifferFrom(bytes, node)
<1> DEFINE it == PosAt(notes, c)
           positions == SiblingPositions(bytes, it)
           label(i) == Label(bytes, positions[i].current)
<1>1. PICK f : IsWalk(bytes, it, f)
  BY WalkExists
<1>2. \E n : IsCount(bytes, it, n)
  BY <1>1, WalkStops
<1>3. PICK count : /\ IsCount(bytes, it, count)
                   /\ positions = [i \in 1 .. count |-> SiblingAt(bytes, it, i - 1)]
  <2> HIDE DEF it
  <2> QED
    BY <1>2, PositionsCounted
<1> HIDE DEF positions, it
<1>4. count \in Nat
  BY <1>3 DEF IsCount
<1>5. ASSUME NEW m \in Nat PROVE m < count <=> (m + 1 \in DOMAIN positions)
  BY <1>3, <1>4, <1>5
<1>6. ASSUME NEW m \in Nat, m < count PROVE AtNode(f[m])
  <2>1. m \in 0 .. count
    BY <1>4, <1>6
  <2>2. AtNode(SiblingAt(bytes, it, m))
    BY <1>3, <1>6, <2>1 DEF IsCount
  <2> QED
    BY <1>1, <2>2 DEF IsWalk
<1>7. ASSUME NEW i \in DOMAIN positions PROVE positions[i] = f[i - 1]
  <2>1. i \in 1 .. count /\ i - 1 \in Nat
    BY <1>3, <1>4
  <2>2. positions[i] = SiblingAt(bytes, it, i - 1)
    BY <1>3, <2>1
  <2> QED
    BY <1>1, <2>1, <2>2 DEF IsWalk
<1>8. ASSUME NEW m \in Nat, m < count
      PROVE  \E a \in DOMAIN notes : f[m] = PosAt(notes, a)
  <2>1. f[0] = PosAt(notes, c) /\ 0 + m = m
    BY <1>1 DEF IsWalk, it
  <2>2. AtNode(f[0 + m])
    BY <1>6, <1>8, <2>1
  <2>3. \E a : f[0 + m] = PosAt(notes, a) /\ Ahead(notes, c, a, m)
    BY <1>1, <2>1, <2>2, WalkOn
  <2> QED
    BY <2>1, <2>3 DEF Ahead
<1>9. ASSUME NEW i \in DOMAIN positions, NEW j \in DOMAIN positions, i < j,
             label(i) # <<>>, label(j) # <<>>
      PROVE  Head(label(i)) # Head(label(j))
  <2> DEFINE m == i - 1
             n == (j - 1) - i
  <2>1. /\ m \in Nat /\ n \in Nat /\ m + 1 = i /\ (m + 1) + n = j - 1
        /\ i \in Nat /\ m < count /\ i < count /\ j - 1 < count /\ j - 1 \in Nat
    BY <1>3, <1>4, <1>9
  <2>2. positions[i] = f[m] /\ positions[j] = f[(m + 1) + n]
    BY <1>7, <2>1
  <2>3. AtNode(f[m + 1]) /\ AtNode(f[(m + 1) + n])
    BY <1>6, <2>1
  <2> HIDE DEF m, n
  <2>4. PICK a \in DOMAIN notes : f[m] = PosAt(notes, a)
    BY <1>8, <2>1
  <2>5. label(i) = bytes[a].label
    BY <2>2, <2>4, TrieIsRead, PositionsAreTyped DEF PosAt
  <2>6. PICK b \in DOMAIN notes :
          /\ f[(m + 1) + n] = PosAt(notes, b)
          /\ bytes[b].label # <<>> => bytes[a].label[1] # bytes[b].label[1]
    <3>1. bytes[a].label # <<>>
      BY <1>9, <2>5
    <3>2. m \in Nat /\ n \in Nat
      BY <2>1
    <3>3. StartsOtherwise(bytes, notes, a, f[(m + 1) + n])
      <4> HIDE DEF label
      <4> QED
        BY <1>1, <2>3, <2>4, <3>1, <3>2, NotedSiblingsDiffer
    <3> QED
      BY <3>3 DEF StartsOtherwise
  <2>7. label(j) = bytes[b].label
    BY <2>2, <2>6, TrieIsRead, PositionsAreTyped DEF PosAt
  <2>8. bytes[a].label \in Seq(Char) /\ bytes[b].label \in Seq(Char)
    BY <2>4, <2>6, TrieIsRead, NotedNode
  <2>9. \A s \in Seq(Char) : s # <<>> => Head(s) = s[1]
    BY HeadTailProperties
  <2> QED
    BY <1>9, <2>5, <2>6, <2>7, <2>8, <2>9
<1>10. ASSUME NEW i \in DOMAIN positions, NEW j \in DOMAIN positions, i # j
       PROVE  i < j \/ j < i
  BY <1>3, <1>4, <1>10
<1> QED
  BY <1>9, <1>10 DEF DifferFrom, positions, it

LEMMA SiblingsAreDifferent == Inv /\ Contents => SiblingsDiffer
<1> SUFFICES ASSUME Inv, Contents, pc = "done", Grouped,
                    NEW node \in NodesBelow(trie, Root(trie))
             PROVE  DifferFrom(trie, node)
  BY DEF SiblingsDiffer, DifferFrom
<1>1. HoldsInput(input, trie) /\ IsInput(input) /\ GroupedIn(input)
  BY InputIsTyped DEF Contents, Grouped, GroupedIn, suggestions
<1>2. ASSUME Len(trie) \in Nat, IsLeaf(trie, node) PROVE DifferFrom(trie, node)
  <2>1. VisitChildren(trie, node) = NoSiblings
    BY <1>2 DEF VisitChildren
  <2>2. DOMAIN SiblingPositions(trie, NoSiblings) = {}
    BY <1>2, NoPositions
  <2> QED
    BY <2>1, <2>2 DEF DifferFrom
<1>3. CASE suggestions = <<>>
  <2>1. trie = LeafRootHeader
    BY <1>1, <1>3 DEF HoldsInput, suggestions
  <2> QED
    BY <1>2, <2>1, NodesOfNothing, EmptyRootSeen
<1>4. CASE suggestions # <<>>
  <2>1. PICK notes : IsTrieOf(input, trie, notes)
    BY <1>1, <1>4 DEF HoldsInput, suggestions
  <2>2. \/ node = Root(trie)
        \/ \E a \in DOMAIN notes : node = NodeAt(notes, a)
    BY <2>1, NodesOfTrie
  <2>3. Len(trie) \in Nat
    BY <2>1, LenProperties DEF IsTrieOf
  <2>4. CASE node = Root(trie)
    BY <1>1, <2>1, <2>4, RootChildren, ChildrenDiffer
  <2>5. ASSUME NEW a \in DOMAIN notes, node = NodeAt(notes, a)
        PROVE  DifferFrom(trie, node)
    <3>1. CASE trie[a].leaf
      BY <1>2, <2>1, <2>3, <2>5, <3>1, TrieIsRead, PositionsAreTyped
    <3>2. CASE ~trie[a].leaf
      <4> DEFINE c == a + notes[a].kids
      <4>1. c \in DOMAIN notes /\ VisitChildren(trie, node) = PosAt(notes, c)
        BY <2>1, <2>5, <3>2, TrieIsRead, ChildrenNoted
      <4> HIDE DEF c
      <4> QED
        BY <1>1, <2>1, <4>1, ChildrenDiffer
    <3> QED
      BY <3>1, <3>2
  <2> QED
    BY <2>2, <2>4, <2>5
<1> QED
  BY <1>3, <1>4

(* Siblings that have labels start with different characters, if equal     *)
(* prefixes are neighbours in the input.                                   *)
THEOREM SiblingsAreTold == Spec => []SiblingsDiffer
<1>1. Inv /\ Contents => SiblingsDiffer
  BY SiblingsAreDifferent
<1> QED
  BY <1>1, Invariant, ContentsHold, PTL

-----------------------------------------------------------------------------
(* The members of a sequence and those of a set correspond, one to one, by *)
(* a relation R.                                                           *)
Pairs(s, X, B, R, f) ==
  /\ s \in Seq(X)
  /\ f \in [1 .. Len(s) -> B]
  /\ \A i, j \in 1 .. Len(s) : f[i] = f[j] => i = j
  /\ \A k \in B : \E i \in 1 .. Len(s) : f[i] = k
  /\ \A i \in 1 .. Len(s) : <<s[i], f[i]>> \in R

Paired(s, X, B, R) == \E f : Pairs(s, X, B, R, f)

LEMMA PairedNothing ==
  ASSUME NEW X, NEW R
  PROVE  Paired(<<>>, X, {}, R)
<1> DEFINE f == [i \in {} |-> i]
<1>1. 1 .. Len(<<>>) = {} /\ <<>> \in Seq(X)
  BY EmptySeq
<1>2. f \in [1 .. Len(<<>>) -> {}]
  BY <1>1
<1> HIDE DEF f
<1>3. Pairs(<<>>, X, {}, R, f)
  BY <1>1, <1>2 DEF Pairs
<1> QED
  BY <1>3 DEF Paired

LEMMA PairedOne ==
  ASSUME NEW X, NEW R, NEW x \in X, NEW k, <<x, k>> \in R
  PROVE  Paired(<<x>>, X, {k}, R)
<1> DEFINE f == [i \in 1 .. 1 |-> k]
           s == <<x>>
<1>1. s \in Seq(X) /\ Len(s) = 1 /\ s[1] = x /\ 1 .. 1 = {1}
  OBVIOUS
<1>2. f \in [1 .. 1 -> {k}] /\ f[1] = k
  BY <1>1
<1> HIDE DEF f, s
<1>3. Pairs(s, X, {k}, R, f)
  BY <1>1, <1>2 DEF Pairs
<1> QED
  BY <1>3 DEF Paired, s

LEMMA PairedConcat ==
  ASSUME NEW X, NEW R, NEW s, NEW t, NEW B, NEW C, B \cap C = {},
         Paired(s, X, B, R), Paired(t, X, C, R)
  PROVE  Paired(s \o t, X, B \cup C, R)
<1>1. PICK f : Pairs(s, X, B, R, f)
  BY DEF Paired
<1>2. PICK g : Pairs(t, X, C, R, g)
  BY DEF Paired
<1> DEFINE m == Len(s)
           n == Len(t)
           st == s \o t
           h == [i \in 1 .. m + n |-> IF i <= m THEN f[i] ELSE g[i - m]]
<1>3. s \in Seq(X) /\ t \in Seq(X) /\ m \in Nat /\ n \in Nat
  BY <1>1, <1>2, LenProperties DEF Pairs
<1>4. /\ st \in Seq(X) /\ Len(st) = m + n
      /\ \A i \in 1 .. m + n : st[i] = IF i <= m THEN s[i] ELSE t[i - m]
  BY <1>3, ConcatProperties
<1>5. /\ f \in [1 .. m -> B]
      /\ \A i, j \in 1 .. m : f[i] = f[j] => i = j
      /\ \A k \in B : \E i \in 1 .. m : f[i] = k
      /\ \A i \in 1 .. m : <<s[i], f[i]>> \in R
  BY <1>1 DEF Pairs
<1>6. /\ g \in [1 .. n -> C]
      /\ \A i, j \in 1 .. n : g[i] = g[j] => i = j
      /\ \A k \in C : \E i \in 1 .. n : g[i] = k
      /\ \A i \in 1 .. n : <<t[i], g[i]>> \in R
  BY <1>2 DEF Pairs
<1> HIDE DEF m, n, st
<1>7. ASSUME NEW i \in 1 .. m + n
      PROVE  \/ i \in 1 .. m /\ h[i] = f[i] /\ st[i] = s[i]
             \/ i - m \in 1 .. n /\ h[i] = g[i - m] /\ st[i] = t[i - m] /\ ~(i <= m)
  <2>1. CASE i <= m
    BY <1>3, <1>4, <2>1
  <2>2. CASE ~(i <= m)
    BY <1>3, <1>4, <2>2
  <2> QED
    BY <2>1, <2>2
<1>8. ASSUME NEW i \in 1 .. m PROVE i \in 1 .. m + n /\ h[i] = f[i]
  BY <1>3
<1>9. ASSUME NEW i \in 1 .. n PROVE m + i \in 1 .. m + n /\ h[m + i] = g[i]
  <2>1. m + i \in 1 .. m + n /\ ~(m + i <= m) /\ (m + i) - m = i
    BY <1>3
  <2> QED
    BY <2>1
<1>10. DOMAIN h = 1 .. m + n /\ h = [i \in 1 .. m + n |-> h[i]]
  OBVIOUS
<1> HIDE DEF h
<1>11. h \in [1 .. m + n -> B \cup C]
  <2>1. \A i \in 1 .. m + n : h[i] \in B \cup C
    BY <1>5, <1>6, <1>7
  <2> QED
    BY <1>10, <2>1
<1>12. ASSUME NEW i \in 1 .. m + n, NEW j \in 1 .. m + n, h[i] = h[j] PROVE i = j
  <2>1. i \in Nat /\ j \in Nat
    BY <1>3
  <2>2. CASE i \in 1 .. m /\ h[i] = f[i]
    <3>1. h[i] \notin C
      BY <1>5, <2>2
    <3>2. j \in 1 .. m /\ h[j] = f[j]
      BY <1>6, <1>7, <1>12, <3>1
    <3> QED
      BY <1>5, <1>12, <2>2, <3>2
  <2>3. CASE i - m \in 1 .. n /\ h[i] = g[i - m]
    <3>1. h[i] \notin B
      BY <1>6, <2>3
    <3>2. j - m \in 1 .. n /\ h[j] = g[j - m]
      BY <1>5, <1>7, <1>12, <3>1
    <3>3. i - m = j - m
      BY <1>6, <1>12, <2>3, <3>2
    <3> QED
      BY <1>3, <2>1, <3>3
  <2> QED
    BY <1>7, <2>2, <2>3
<1>13. ASSUME NEW k \in B \cup C PROVE \E i \in 1 .. m + n : h[i] = k
  <2>1. CASE k \in B
    <3>1. PICK i \in 1 .. m : f[i] = k
      BY <1>5, <2>1
    <3> QED
      BY <1>8, <3>1
  <2>2. CASE k \in C
    <3>1. PICK i \in 1 .. n : g[i] = k
      BY <1>6, <2>2
    <3>2. m + i \in 1 .. m + n /\ h[m + i] = g[i]
      BY <1>9
    <3> QED
      BY <3>1, <3>2
  <2> QED
    BY <2>1, <2>2
<1>14. \A i \in 1 .. m + n : <<st[i], h[i]>> \in R
  BY <1>5, <1>6, <1>7
<1>15. Pairs(st, X, B \cup C, R, h)
  BY <1>4, <1>11, <1>12, <1>13, <1>14 DEF Pairs
<1> QED
  BY <1>15 DEF Paired, st

(* The same members by another relation that holds of them. *)
LEMMA PairedBy ==
  ASSUME NEW X, NEW B, NEW R, NEW T, NEW s, Paired(s, X, B, R),
         \A x \in X : \A k \in B : <<x, k>> \in R => <<x, k>> \in T
  PROVE  Paired(s, X, B, T)
<1>1. PICK f : Pairs(s, X, B, R, f)
  BY DEF Paired
<1>2. s \in Seq(X)
  BY <1>1 DEF Pairs
<1>3. \A i \in 1 .. Len(s) : s[i] \in X
  BY <1>2, ElementOfSeq
<1>4. Pairs(s, X, B, T, f)
  BY <1>1, <1>3 DEF Pairs
<1> QED
  BY <1>4 DEF Paired

(* Other members in their places. *)
LEMMA PairedAs ==
  ASSUME NEW X, NEW Y, NEW B, NEW R, NEW T, NEW s, Paired(s, X, B, R),
         NEW t, DOMAIN t = DOMAIN s, t = [i \in DOMAIN t |-> t[i]],
         \A i \in DOMAIN s : /\ t[i] \in Y
                             /\ \A k \in B : <<s[i], k>> \in R => <<t[i], k>> \in T
  PROVE  Paired(t, Y, B, T)
<1>1. PICK f : Pairs(s, X, B, R, f)
  BY DEF Paired
<1>2. s \in Seq(X) /\ DOMAIN s = 1 .. Len(s) /\ Len(s) \in Nat
  BY <1>1, LenProperties DEF Pairs
<1>3. t \in [1 .. Len(s) -> Y]
  BY <1>2
<1>4. t \in Seq(Y) /\ Len(t) = Len(s)
  BY <1>2, <1>3, FunctionIsSeq
<1>5. Pairs(t, Y, B, T, f)
  BY <1>1, <1>2, <1>4 DEF Pairs
<1> QED
  BY <1>5 DEF Paired

(* Sequences one after the other. *)
LEMMA PairedFlat ==
  ASSUME NEW X, NEW R, NEW seqs \in Seq(Seq(X)), NEW Bs,
         \A i \in 1 .. Len(seqs) : Paired(seqs[i], X, Bs[i], R),
         \A j \in 1 .. Len(seqs) : \A i \in 1 .. j - 1 : Bs[i] \cap Bs[j] = {}
  PROVE  Paired(FlattenSeq(seqs), X, UNION {Bs[i] : i \in 1 .. Len(seqs)}, R)
<1> DEFINE n == Len(seqs)
           upto(i) == UNION {Bs[j] : j \in 1 .. i}
<1>1. PICK flat \in [0 .. n -> Seq(X)] : IsFlat(flat, seqs) /\ FlattenSeq(seqs) = flat[n]
  BY FlattenedSeq
<1>2. n \in Nat /\ flat[0] = <<>> /\ \A i \in 1 .. n : flat[i] = flat[i - 1] \o seqs[i]
  BY <1>1, LenProperties DEF IsFlat
<1> HIDE DEF n
<1> DEFINE P == {i \in Nat : i <= n => Paired(flat[i], X, upto(i), R)}
<1>3. 0 \in P
  <2>1. upto(0) = {}
    OBVIOUS
  <2>2. Paired(<<>>, X, {}, R)
    BY PairedNothing
  <2> HIDE DEF upto
  <2>3. Paired(flat[0], X, upto(0), R)
    BY <1>2, <2>1, <2>2
  <2> QED
    BY <2>3
<1>4. ASSUME NEW i \in P PROVE i + 1 \in P
  <2> SUFFICES ASSUME i + 1 <= n PROVE Paired(flat[i + 1], X, upto(i + 1), R)
    OBVIOUS
  <2> DEFINE j == i + 1
  <2>1. i \in Nat /\ j \in 1 .. n /\ j - 1 = i /\ i <= n
    BY <1>2
  <2>2. upto(j) = upto(i) \cup Bs[j]
    <3>1. \A k : k \in 1 .. j <=> k \in 1 .. i \/ k = j
      BY <2>1
    <3> HIDE DEF j
    <3> QED
      BY <3>1
  <2>3. upto(i) \cap Bs[j] = {}
    <3>1. \A k \in 1 .. i : Bs[k] \cap Bs[j] = {}
      BY <2>1 DEF n
    <3> HIDE DEF j
    <3> QED
      BY <3>1
  <2>4. flat[j] = flat[i] \o seqs[j]
    BY <1>2, <2>1
  <2>5. Paired(flat[i], X, upto(i), R)
    BY <2>1
  <2>6. Paired(seqs[j], X, Bs[j], R)
    BY <2>1 DEF n
  <2> HIDE DEF upto, j
  <2>7. Paired(flat[i] \o seqs[j], X, upto(i) \cup Bs[j], R)
    BY <2>3, <2>5, <2>6, PairedConcat
  <2>8. Paired(flat[j], X, upto(j), R)
    BY <2>2, <2>4, <2>7
  <2> QED
    BY <2>8 DEF j
<1>5. P = Nat
  <2>1. P \subseteq Nat
    OBVIOUS
  <2> HIDE DEF P
  <2> QED
    BY <1>3, <1>4, <2>1, AllNumbers
<1>6. Paired(flat[n], X, upto(n), R)
  <2>1. n \in P
    BY <1>2, <1>5
  <2> HIDE DEF upto
  <2> QED
    BY <1>2, <2>1
<1> QED
  BY <1>1, <1>6 DEF n

-----------------------------------------------------------------------------
(* The bag of the entries that some suggestions make. *)

EntryIn(in, k) == [string |-> in.suggestions[k], rank |-> in.ranks[k]]

IsEntryOf(in, B) == {x \in Entry \X B : x[1] = EntryIn(in, x[2])}

BagFrom(in, B) ==
  [e \in {EntryIn(in, k) : k \in B} |->
     Cardinality({k \in B : EntryIn(in, k) = e})]

LEMMA PairsIntoRange ==
  ASSUME NEW X, NEW B, NEW R, NEW s, NEW f, Pairs(s, X, B, R, f)
  PROVE  /\ Len(s) \in Nat /\ DOMAIN s = 1 .. Len(s)
         /\ \A i \in 1 .. Len(s) : s[i] \in X /\ f[i] \in B
<1>1. s \in Seq(X)
  BY DEF Pairs
<1>2. \A i \in 1 .. Len(s) : f[i] \in B
  BY DEF Pairs
<1> QED
  BY <1>1, <1>2, LenProperties, ElementOfSeq

LEMMA BagIsThatOf ==
  ASSUME NEW in, NEW B, NEW s, Paired(s, Entry, B, IsEntryOf(in, B))
  PROVE  BagOf[s] = BagFrom(in, B)
<1>1. PICK f : Pairs(s, Entry, B, IsEntryOf(in, B), f)
  BY DEF Paired
<1>2. s \in Seq(Entry) /\ Len(s) \in Nat /\ DOMAIN s = 1 .. Len(s)
  BY <1>1, PairsIntoRange DEF Pairs
<1> DEFINE n == Len(s)
<1>3. /\ f \in [1 .. n -> B]
      /\ \A i, j \in 1 .. n : f[i] = f[j] => i = j
      /\ \A k \in B : \E i \in 1 .. n : f[i] = k
      /\ \A i \in 1 .. n : s[i] = EntryIn(in, f[i])
  <2>1. /\ f \in [1 .. n -> B]
        /\ \A i, j \in 1 .. n : f[i] = f[j] => i = j
        /\ \A k \in B : \E i \in 1 .. n : f[i] = k
    BY <1>1 DEF Pairs
  <2>2. \A i \in 1 .. n : <<s[i], f[i]>> \in IsEntryOf(in, B)
    BY <1>1 DEF Pairs
  <2>3. \A x, y : <<x, y>> \in IsEntryOf(in, B) => x = EntryIn(in, y)
    BY DEF IsEntryOf
  <2> QED
    BY <2>1, <2>2, <2>3
<1>4. BagOf[s] = [e \in Range(s) |-> Cardinality({i \in DOMAIN s : s[i] = e})]
  BY <1>2 DEF BagOf
<1>5. Range(s) = {EntryIn(in, k) : k \in B}
  <2>1. Range(s) = {s[i] : i \in 1 .. n}
    BY <1>2 DEF Range
  <2>2. {s[i] : i \in 1 .. n} = {EntryIn(in, k) : k \in B}
    <3> HIDE DEF n
    <3>1. \A i \in 1 .. n : \E k \in B : s[i] = EntryIn(in, k)
      BY <1>3
    <3>2. \A k \in B : \E i \in 1 .. n : s[i] = EntryIn(in, k)
      BY <1>3
    <3> QED
      BY <3>1, <3>2
  <2> QED
    BY <2>1, <2>2
<1>6. ASSUME NEW e
      PROVE  Cardinality({i \in DOMAIN s : s[i] = e})
               = Cardinality({k \in B : EntryIn(in, k) = e})
  <2> DEFINE I == {i \in 1 .. n : s[i] = e}
             K == {k \in B : EntryIn(in, k) = e}
             g == [i \in I |-> f[i]]
  <2>1. IsFiniteSet(I)
    <3>1. IsFiniteSet(1 .. n)
      BY <1>2, FS_Interval
    <3>2. I \subseteq 1 .. n
      OBVIOUS
    <3> HIDE DEF I
    <3> QED
      BY <3>1, <3>2, FS_Subset
  <2>2. g \in [I -> K]
    <3>1. \A i \in I : f[i] \in K
      BY <1>3
    <3> HIDE DEF I, K
    <3> QED
      BY <3>1
  <2>3. \A i, j \in I : g[i] = g[j] => i = j
    BY <1>3
  <2>4. \A k \in K : \E i \in I : g[i] = k
    <3> SUFFICES ASSUME NEW k \in K PROVE \E i \in I : g[i] = k
      OBVIOUS
    <3>1. PICK i \in 1 .. n : f[i] = k
      BY <1>3
    <3>2. i \in I
      BY <1>3, <3>1
    <3> HIDE DEF I, K
    <3>3. g[i] = k
      BY <3>1, <3>2
    <3> QED
      BY <3>2, <3>3
  <2> HIDE DEF I, K, g
  <2>5. g \in Bijection(I, K)
    BY <2>2, <2>3, <2>4 DEF Bijection, Injection, Surjection, IsInjective
  <2>6. ExistsBijection(I, K)
    BY <2>5 DEF ExistsBijection
  <2>7. Cardinality(I) = Cardinality(K)
    BY <2>1, <2>6, FS_Bijection
  <2> QED
    BY <1>2, <2>7 DEF I, K
<1> QED
  BY <1>4, <1>5, <1>6 DEF BagFrom

(* The next suggestion adds its entry. *)
LEMMA BagGrows ==
  ASSUME NEW in, NEW n \in Nat
  PROVE  BagFrom(in, 1 .. n + 1)
           = BagFrom(in, 1 .. n) (+) SetToBag({EntryIn(in, n + 1)})
<1> DEFINE B == 1 .. n
           C == 1 .. n + 1
           x == EntryIn(in, n + 1)
           old == BagFrom(in, B)
           one == SetToBag({x})
           N(D, e) == Cardinality({k \in D : EntryIn(in, k) = e})
<1>1. C = B \cup {n + 1} /\ n + 1 \notin B
  OBVIOUS
<1>2. /\ DOMAIN old = {EntryIn(in, k) : k \in B}
      /\ \A e \in DOMAIN old : old[e] = N(B, e)
  BY DEF BagFrom
<1>3. DOMAIN one = {x} /\ one[x] = 1
  BY DEF SetToBag
<1>4. old (+) one = [e \in DOMAIN old \cup DOMAIN one |->
                       (IF e \in DOMAIN old THEN old[e] ELSE 0)
                         + (IF e \in DOMAIN one THEN one[e] ELSE 0)]
  BY DEF (+)
<1>5. {EntryIn(in, k) : k \in C} = DOMAIN old \cup DOMAIN one
  BY <1>1, <1>2, <1>3
<1>6. ASSUME NEW e
      PROVE  /\ IsFiniteSet({k \in B : EntryIn(in, k) = e})
             /\ N(B, e) \in Nat
             /\ N(C, e) = N(B, e) + IF e = x THEN 1 ELSE 0
             /\ e \notin DOMAIN old => N(B, e) = 0
  <2> DEFINE K == {k \in B : EntryIn(in, k) = e}
  <2>1. IsFiniteSet(K) /\ Cardinality(K) \in Nat
    <3>1. IsFiniteSet(B) /\ K \subseteq B
      BY FS_Interval
    <3> HIDE DEF K, B
    <3> QED
      BY <3>1, FS_Subset, FS_CardinalityType
  <2>2. CASE e = x
    <3>1. {k \in C : EntryIn(in, k) = e} = K \cup {n + 1} /\ n + 1 \notin K
      BY <1>1, <2>2
    <3> HIDE DEF K
    <3>2. Cardinality(K \cup {n + 1}) = Cardinality(K) + 1
      BY <2>1, <3>1, FS_AddElement
    <3>3. N(C, e) = Cardinality(K) + 1
      BY <3>1, <3>2
    <3>4. e \notin DOMAIN old => K = {}
      BY <1>2 DEF K
    <3> QED
      BY <2>1, <2>2, <3>3, <3>4, FS_EmptySet DEF K
  <2>3. CASE e # x
    <3>1. {k \in C : EntryIn(in, k) = e} = K
      BY <1>1, <2>3
    <3> HIDE DEF K
    <3>2. N(C, e) = Cardinality(K)
      BY <3>1
    <3>4. e \notin DOMAIN old => K = {}
      BY <1>2 DEF K
    <3> QED
      BY <2>1, <2>3, <3>2, <3>4, FS_EmptySet DEF K
  <2> QED
    BY <2>2, <2>3
<1>7. BagFrom(in, C) = [e \in DOMAIN old \cup DOMAIN one |-> N(C, e)]
  BY <1>5 DEF BagFrom
<1> HIDE DEF N, B, C, old, one, x
<1>8. ASSUME NEW e \in DOMAIN old \cup DOMAIN one
      PROVE  N(C, e) = (IF e \in DOMAIN old THEN old[e] ELSE 0)
                         + (IF e \in DOMAIN one THEN one[e] ELSE 0)
  <2>1. N(B, e) = IF e \in DOMAIN old THEN old[e] ELSE 0
    BY <1>2, <1>6
  <2>2. (IF e = x THEN 1 ELSE 0) = IF e \in DOMAIN one THEN one[e] ELSE 0
    BY <1>3
  <2> QED
    BY <1>6, <2>1, <2>2
<1> QED
  BY <1>4, <1>7, <1>8 DEF B, C, old, one, x

-----------------------------------------------------------------------------
(* The leaves below a node, by the number of steps they are away.           *)

LeafAt(it, text) ==
  [data  |-> it.current.data,
   entry |-> [string |-> text, rank |-> it.current.rank]]

(* What leaves, the lists of the positions one step closer, make of it. *)
ListedBelow(bytes, it, p, leaves) ==
  IF IsLeaf(bytes, it.current)
  THEN <<LeafAt(it, p \o Label(bytes, it.current))>>
  ELSE leaves[VisitChildren(bytes, it.current)][p \o Label(bytes, it.current)]

ListedWithin(bytes, n, leaves) ==
  [it \in Siblings |-> [p \in Seq(Char) |->
     IF n = 0 \/ ~AtNode(it) THEN <<>>
     ELSE ListedBelow(bytes, it, p, leaves) \o leaves[NextSibling(bytes, it)][p]]]

ListedUpTo(bytes, n, f) == f = [m \in 0 .. n |-> ListedWithin(bytes, m, f[m - 1])]

LEMMA NothingWithin ==
  ASSUME NEW bytes, NEW f, NEW g
  PROVE  ListedWithin(bytes, 0, f) = ListedWithin(bytes, 0, g)
BY DEF ListedWithin

LEMMA ListedIsUnique ==
  ASSUME NEW bytes, NEW m \in Nat, NEW n \in Nat, NEW f, NEW g,
         ListedUpTo(bytes, m, f), ListedUpTo(bytes, n, g)
  PROVE  \A k \in Nat : k <= m /\ k <= n => f[k] = g[k]
<1> DEFINE P == {k \in Nat : k <= m /\ k <= n => f[k] = g[k]}
<1>1. /\ \A k \in 0 .. m : f[k] = ListedWithin(bytes, k, f[k - 1])
      /\ \A k \in 0 .. n : g[k] = ListedWithin(bytes, k, g[k - 1])
  BY DEF ListedUpTo
<1>2. 0 \in P
  <2>1. f[0] = ListedWithin(bytes, 0, f[0 - 1]) /\ g[0] = ListedWithin(bytes, 0, g[0 - 1])
    BY <1>1
  <2> QED
    BY <2>1, NothingWithin
<1>3. ASSUME NEW k \in P PROVE k + 1 \in P
  <2> SUFFICES ASSUME k + 1 <= m, k + 1 <= n PROVE f[k + 1] = g[k + 1]
    OBVIOUS
  <2>1. k \in Nat /\ k <= m /\ k <= n /\ k + 1 \in 0 .. m /\ k + 1 \in 0 .. n
    OBVIOUS
  <2>2. (k + 1) - 1 = k
    BY <2>1
  <2>3. f[k] = g[k]
    BY <2>1
  <2> QED
    BY <1>1, <2>1, <2>2, <2>3
<1>4. P = Nat
  <2>1. P \subseteq Nat
    OBVIOUS
  <2> HIDE DEF P
  <2> QED
    BY <1>2, <1>3, <2>1, AllNumbers
<1> QED
  BY <1>4

LEMMA ListedExists ==
  ASSUME NEW bytes
  PROVE  \A n \in Nat : \E f : ListedUpTo(bytes, n, f)
<1> DEFINE P == {n \in Nat : \E f : ListedUpTo(bytes, n, f)}
<1>1. 0 \in P
  <2> DEFINE x == ListedWithin(bytes, 0, <<>>)
             f == [m \in 0 .. 0 |-> x]
  <2>1. x = ListedWithin(bytes, 0, f[0 - 1])
    <3> HIDE DEF f
    <3> QED
      BY NothingWithin
  <2>2. \A m \in 0 .. 0 : m = 0
    OBVIOUS
  <2>3. \A m \in 0 .. 0 : x = ListedWithin(bytes, m, f[m - 1])
    <3> HIDE DEF x, f
    <3> QED
      BY <2>1, <2>2
  <2> HIDE DEF x
  <2>4. f = [m \in 0 .. 0 |-> ListedWithin(bytes, m, f[m - 1])]
    BY <2>3
  <2> HIDE DEF f
  <2>5. ListedUpTo(bytes, 0, f)
    BY <2>4 DEF ListedUpTo
  <2> QED
    BY <2>5
<1>2. ASSUME NEW n \in P PROVE n + 1 \in P
  <2>1. n \in Nat
    OBVIOUS
  <2>2. PICK f : ListedUpTo(bytes, n, f)
    OBVIOUS
  <2> DEFINE k == n + 1
             g == [m \in 0 .. k |-> IF m <= n THEN f[m] ELSE ListedWithin(bytes, k, f[n])]
  <2>3. \A m \in 0 .. n : f[m] = ListedWithin(bytes, m, f[m - 1])
    BY <2>2 DEF ListedUpTo
  <2>4. \A m \in 0 .. n : m \in 0 .. k /\ g[m] = f[m]
    BY <2>1
  <2>5. k \in 0 .. k /\ k - 1 = n /\ g[k] = ListedWithin(bytes, k, f[n])
    BY <2>1
  <2>6. g = [m \in 0 .. k |-> g[m]]
    OBVIOUS
  <2>7. \A m \in 0 .. k : m = 0 \/ m = k \/ (m \in 0 .. n /\ m - 1 \in 0 .. n)
    BY <2>1
  <2>8. 0 \in 0 .. n /\ n \in 0 .. n
    BY <2>1
  <2> HIDE DEF g, k
  <2>9. ASSUME NEW m \in 0 .. k PROVE g[m] = ListedWithin(bytes, m, g[m - 1])
    <3>1. CASE m = 0
      BY <2>3, <2>4, <2>8, <3>1, NothingWithin
    <3>2. CASE m = k
      BY <2>4, <2>5, <2>8, <3>2
    <3>3. CASE m \in 0 .. n /\ m - 1 \in 0 .. n
      BY <2>3, <2>4, <3>3
    <3> QED
      BY <2>7, <3>1, <3>2, <3>3
  <2>10. ListedUpTo(bytes, k, g)
    BY <2>6, <2>9 DEF ListedUpTo
  <2> QED
    BY <2>1, <2>10 DEF k
<1>3. P = Nat
  <2>1. P \subseteq Nat
    OBVIOUS
  <2> HIDE DEF P
  <2> QED
    BY <1>1, <1>2, <2>1, AllNumbers
<1> QED
  BY <1>3

(* The lists, one step after the other. *)
AreListed(bytes, within) ==
  /\ \A it \in Siblings : \A p \in Seq(Char) : within[0][it][p] = <<>>
  /\ \A n \in Nat : \A it \in Siblings : \A p \in Seq(Char) :
       within[n + 1][it][p] =
         IF ~AtNode(it) THEN <<>>
         ELSE ListedBelow(bytes, it, p, within[n]) \o within[n][NextSibling(bytes, it)][p]
  /\ \A node \in NodeView : \A p \in Seq(Char) :
       Leaves(bytes, node, p) = within[Len(bytes)][Only(node)][p]

LEMMA LeavesListed ==
  ASSUME NEW bytes
  PROVE  \E within : AreListed(bytes, within)
<1> DEFINE Defines(f) == f = [n \in Nat |-> ListedWithin(bytes, n, f[n - 1])]
           start == [n \in Nat |-> CHOOSE f : ListedUpTo(bytes, n, f)]
           f == [n \in Nat |-> start[n][n]]
           within == CHOOSE g : Defines(g)
<1>1. \A n \in Nat : ListedUpTo(bytes, n, start[n])
  BY ListedExists
<1>2. f = [n \in Nat |-> f[n]] /\ \A n \in Nat : f[n] = start[n][n]
  OBVIOUS
<1> HIDE DEF start, f
<1>3. ASSUME NEW n \in Nat PROVE f[n] = ListedWithin(bytes, n, f[n - 1])
  <2>1. f[n] = ListedWithin(bytes, n, start[n][n - 1])
    <3>1. \A m \in 0 .. n : start[n][m] = ListedWithin(bytes, m, start[n][m - 1])
      BY <1>1 DEF ListedUpTo
    <3>2. n \in 0 .. n
      OBVIOUS
    <3> QED
      BY <1>2, <3>1, <3>2
  <2>2. CASE n = 0
    BY <2>1, <2>2, NothingWithin
  <2>3. CASE n # 0
    <3> DEFINE k == n - 1
    <3>1. k \in Nat /\ k <= n /\ k <= k
      BY <2>3
    <3>2. ListedUpTo(bytes, k, start[k]) /\ ListedUpTo(bytes, n, start[n])
      BY <1>1, <3>1
    <3>3. f[k] = start[k][k]
      BY <1>2, <3>1
    <3> HIDE DEF k
    <3>4. start[k][k] = start[n][k]
      BY <3>1, <3>2, ListedIsUnique
    <3> QED
      BY <2>1, <3>3, <3>4 DEF k
  <2> QED
    BY <2>2, <2>3
<1>4. Defines(f)
  BY <1>2, <1>3
<1>5. Defines(within)
  BY <1>4
<1>6. \A n \in Nat : within[n] = ListedWithin(bytes, n, within[n - 1])
  BY <1>5
<1>7. \A node, p : Leaves(bytes, node, p) = within[Len(bytes)][Only(node)][p]
  BY DEF Leaves, ListedWithin, ListedBelow, LeafAt
<1> HIDE DEF within, Defines
<1>8. \A it \in Siblings : \A p \in Seq(Char) : within[0][it][p] = <<>>
  <2>1. within[0] = ListedWithin(bytes, 0, within[0 - 1])
    BY <1>6
  <2> QED
    BY <2>1 DEF ListedWithin
<1>9. ASSUME NEW n \in Nat, NEW it \in Siblings, NEW p \in Seq(Char)
      PROVE  within[n + 1][it][p] =
               IF ~AtNode(it) THEN <<>>
               ELSE ListedBelow(bytes, it, p, within[n])
                      \o within[n][NextSibling(bytes, it)][p]
  <2>1. n + 1 \in Nat /\ n + 1 # 0 /\ (n + 1) - 1 = n
    OBVIOUS
  <2>2. within[n + 1] = ListedWithin(bytes, n + 1, within[n])
    BY <1>6, <2>1
  <2> QED
    BY <2>1, <2>2 DEF ListedWithin
<1>10. AreListed(bytes, within)
  BY <1>7, <1>8, <1>9 DEF AreListed
<1> QED
  BY <1>10

-----------------------------------------------------------------------------
(* What the leaves below a node are: the rest of the suggestions it stands  *)
(* for.                                                                     *)

(* Suggestion k from this depth on. *)
Rest(in, k, depth) ==
  SubSeq(in.suggestions[k], depth + 1, Len(in.suggestions[k]))

EndIn(in, p, depth, k) ==
  [string |-> p \o Rest(in, k, depth), rank |-> in.ranks[k]]

Ends(in, p, depth) ==
  {x \in Entry \X Nat : x[1] = EndIn(in, p, depth, x[2])}

LeafRecord == [data : Nat, entry : Entry]

(* The leaf at d is that of suggestion k. *)
LeafOf(bytes, notes, d, k) ==
  d \in DOMAIN notes /\ bytes[d].leaf /\ notes[d].below = {k}

LeafEnds(in, bytes, notes, p, depth) ==
  {x \in LeafRecord \X Nat : /\ x[1].entry = EndIn(in, p, depth, x[2])
                             /\ LeafOf(bytes, notes, x[1].data, x[2])}

LEMMA RestOfNothing ==
  ASSUME NEW in, IsInput(in), NEW k \in DOMAIN in.suggestions,
         NEW p \in Seq(Char), NEW depth \in Nat, Len(in.suggestions[k]) = depth
  PROVE  p \o Rest(in, k, depth) = p
<1> DEFINE s == in.suggestions[k]
<1>1. s \in Seq(Char) /\ Len(s) = depth
  BY SuggestionTyped
<1> HIDE DEF s
<1>2. SubSeq(s, depth + 1, depth) = <<>>
  BY SubSeqEmpty
<1>3. Rest(in, k, depth) = <<>>
  BY <1>1, <1>2 DEF Rest, s
<1> QED
  BY <1>3, ConcatEmptySeq

(* A label takes characters of the suggestion. *)
LEMMA LabelThenRest ==
  ASSUME NEW in, IsInput(in), NEW k \in DOMAIN in.suggestions,
         NEW p \in Seq(Char), NEW depth \in Nat, NEW label \in Seq(Char),
         Spells(in, k, depth, label)
  PROVE  /\ p \o label \in Seq(Char)
         /\ (p \o label) \o Rest(in, k, depth + Len(label)) = p \o Rest(in, k, depth)
<1> DEFINE s == in.suggestions[k]
           m == Len(label)
           n == Len(s)
           t == SubSeq(s, depth + 1, depth + m)
<1>1. s \in Seq(Char) /\ n \in Nat
  BY SuggestionTyped
<1>2. m \in Nat /\ p \o label \in Seq(Char)
  BY LenProperties, ConcatProperties
<1>3. depth + m <= n /\ \A i \in 1 .. m : s[depth + i] = label[i]
  BY DEF Spells
<1> HIDE DEF s, m, n
<1>4. t = label
  <2>1. depth + 1 \in Int /\ depth + m \in Int
    BY <1>2
  <2>2. \A i \in depth + 1 .. depth + m : s[i] \in Char
    <3>1. \A i \in depth + 1 .. depth + m : i \in 1 .. n
      BY <1>1, <1>2, <1>3
    <3> QED
      BY <1>1, <3>1, ElementOfSeq DEF n
  <2> DEFINE a == depth + 1
             b == depth + m
  <2> HIDE DEF a, b
  <2>3. /\ SubSeq(s, a, b) \in Seq(Char)
        /\ Len(SubSeq(s, a, b)) = IF a <= b THEN b - a + 1 ELSE 0
        /\ \A i \in 1 .. b - a + 1 : SubSeq(s, a, b)[i] = s[a + i - 1]
    BY <2>1, <2>2, SubSeqProperties DEF a, b
  <2>4. b - a + 1 = m /\ (a <= b <=> m > 0) /\ (m > 0 \/ m = 0)
    BY <1>2 DEF a, b
  <2>5. Len(SubSeq(s, a, b)) = m
    BY <2>3, <2>4
  <2>6. ASSUME NEW i \in 1 .. m PROVE SubSeq(s, a, b)[i] = label[i]
    <3>1. a + i - 1 = depth + i
      BY <1>2 DEF a
    <3> QED
      BY <1>3, <2>3, <2>4, <3>1
  <2>7. SubSeq(s, a, b) = label
    BY <2>3, <2>5, <2>6, SeqEqual DEF m
  <2> QED
    BY <2>7 DEF a, b
<1>5. t \o SubSeq(s, depth + m + 1, n) = SubSeq(s, depth + 1, n)
  <2> DEFINE a == depth + 1
             b == depth + m
  <2>1. a \in 1 .. n + 1 /\ b \in a - 1 .. n /\ n \in b .. n
    BY <1>1, <1>2, <1>3
  <2> HIDE DEF a, b
  <2>2. SubSeq(s, a, b) \o SubSeq(s, b + 1, n) = SubSeq(s, a, n)
    BY <1>1, <2>1, ConcatAdjacentSubSeq DEF n
  <2> QED
    BY <2>2 DEF a, b
<1> DEFINE u == SubSeq(s, depth + m + 1, n)
<1>6. u \in Seq(Char)
  <2> DEFINE a == depth + m + 1
  <2>1. a \in Int /\ n \in Int /\ \A i \in a .. n : i \in 1 .. n
    BY <1>1, <1>2
  <2>2. \A i \in a .. n : s[i] \in Char
    BY <1>1, <2>1, ElementOfSeq DEF n
  <2> HIDE DEF a
  <2>3. SubSeq(s, a, n) \in Seq(Char)
    BY <2>1, <2>2, SubSeqProperties
  <2> QED
    BY <2>3 DEF a
<1> HIDE DEF u
<1>7. (p \o label) \o u = p \o (label \o u)
  BY <1>6, ConcatAssociative
<1>8. Rest(in, k, depth + m) = u
      /\ Rest(in, k, depth) = SubSeq(s, depth + 1, n)
  BY DEF Rest, s, n, u
<1>9. label \o u = SubSeq(s, depth + 1, n)
  BY <1>4, <1>5 DEF u
<1> HIDE DEF t
<1> QED
  BY <1>2, <1>7, <1>8, <1>9 DEF m

(* The suggestions on a node, and those of its label. *)
LEMMA NotedLabel ==
  ASSUME NEW in, NEW bytes, NEW notes, IsRead(in, bytes, notes),
         NEW a \in DOMAIN notes
  PROVE  /\ notes[a].depth \in Nat /\ notes[a].rank \in Nat
         /\ notes[a].below \subseteq DOMAIN in.suggestions \cap DOMAIN in.ranks
         /\ \A k \in notes[a].below : Spells(in, k, notes[a].depth, bytes[a].label)
         /\ bytes[a].leaf =>
              \E k \in notes[a].below :
                /\ notes[a].below = {k} /\ in.ranks[k] = notes[a].rank
                /\ Len(in.suggestions[k]) = notes[a].depth + Len(bytes[a].label)
<1>1. Fits(in, bytes[a], notes[a])
  BY NotedNode
<1>2. notes[a] \in Note /\
      Carries(in, bytes[a].label, notes[a].rank, bytes[a].leaf, notes[a].depth,
              notes[a].below)
  BY <1>1 DEF Fits
<1>3. notes[a].depth \in Nat /\ notes[a].rank \in Nat
  BY <1>2 DEF Note
<1> QED
  BY <1>2, <1>3 DEF Carries

(* The leaves of a node with a note that is within reach, and of those of   *)
(* its children.                                                            *)
ListsAt(in, bytes, notes, a, list, p) ==
  Paired(list, LeafRecord, notes[a].on, LeafEnds(in, bytes, notes, p, notes[a].depth))

LEMMA BelowListed ==
  ASSUME NEW in, IsInput(in), NEW bytes, NEW notes, IsRead(in, bytes, notes),
         NEW a \in DOMAIN notes, NEW p \in Seq(Char), NEW leaves,
         ~bytes[a].leaf =>
           ListsAt(in, bytes, notes, a + notes[a].kids,
                   leaves[PosAt(notes, a + notes[a].kids)][p \o bytes[a].label],
                   p \o bytes[a].label)
  PROVE  Paired(ListedBelow(bytes, PosAt(notes, a), p, leaves), LeafRecord,
                notes[a].below, LeafEnds(in, bytes, notes, p, notes[a].depth))
<1> DEFINE it == PosAt(notes, a)
           label == bytes[a].label
           depth == notes[a].depth
           below == notes[a].below
           list == ListedBelow(bytes, it, p, leaves)
<1>1. /\ label \in Seq(Char) /\ Len(label) \in Nat /\ bytes[a].leaf \in BOOLEAN
      /\ a \in Nat
  BY NotedNode
<1>2. /\ it.current = NodeAt(notes, a) /\ it.current.data = a
      /\ it.current.rank = notes[a].rank
      /\ Label(bytes, it.current) = label /\ IsLeaf(bytes, it.current) = bytes[a].leaf
  <2>1. it.current = NodeAt(notes, a)
    BY DEF PosAt
  <2>2. NodeAt(notes, a).data = a /\ NodeAt(notes, a).rank = notes[a].rank
    BY DEF NodeAt
  <2> HIDE DEF it
  <2> QED
    BY <2>1, <2>2, PositionsAreTyped
<1>3. /\ depth \in Nat /\ notes[a].rank \in Nat
      /\ below \subseteq DOMAIN in.suggestions \cap DOMAIN in.ranks
      /\ \A k \in below : Spells(in, k, depth, label)
  BY NotedLabel
<1>4. DOMAIN in.suggestions \subseteq Nat
  <2>1. in.suggestions \in Seq(Seq(Char))
    BY DEF IsInput
  <2> QED
    BY <2>1, LenProperties
<1>5. \A k \in below : /\ k \in DOMAIN in.suggestions /\ k \in Nat
                       /\ p \o label \in Seq(Char)
                       /\ (p \o label) \o Rest(in, k, depth + Len(label))
                            = p \o Rest(in, k, depth)
  <2> SUFFICES ASSUME NEW k \in below
               PROVE  /\ k \in DOMAIN in.suggestions /\ k \in Nat
                      /\ p \o label \in Seq(Char)
                      /\ (p \o label) \o Rest(in, k, depth + Len(label))
                           = p \o Rest(in, k, depth)
    OBVIOUS
  <2>1. k \in DOMAIN in.suggestions /\ k \in Nat /\ Spells(in, k, depth, label)
    BY <1>3, <1>4
  <2>2. depth \in Nat /\ label \in Seq(Char)
    BY <1>1, <1>3
  <2> HIDE DEF below, depth, label, it, list
  <2>3. /\ p \o label \in Seq(Char)
        /\ (p \o label) \o Rest(in, k, depth + Len(label)) = p \o Rest(in, k, depth)
    BY <2>1, <2>2, LabelThenRest
  <2> QED
    BY <2>1, <2>3
<1>6. CASE bytes[a].leaf
  <2>1. PICK k \in below : /\ below = {k} /\ in.ranks[k] = notes[a].rank
                           /\ Len(in.suggestions[k]) = depth + Len(label)
    BY <1>6, NotedLabel
  <2> DEFINE x == LeafAt(it, p \o label)
             e == EndIn(in, p, depth, k)
  <2>2. p \o label = p \o Rest(in, k, depth) /\ p \o label \in Seq(Char)
    <3> DEFINE d == depth + Len(label)
               q == p \o label
    <3>1. /\ d \in Nat /\ k \in DOMAIN in.suggestions /\ q \in Seq(Char)
          /\ Len(in.suggestions[k]) = d
      BY <1>1, <1>3, <1>5, <2>1
    <3> HIDE DEF d, q
    <3>2. q \o Rest(in, k, d) = q
      BY <3>1, RestOfNothing
    <3> QED
      BY <1>5, <2>1, <3>1, <3>2 DEF d, q
  <2>3. x.entry = e /\ x.entry \in Entry /\ x \in LeafRecord
    BY <1>1, <1>2, <1>3, <2>1, <2>2 DEF LeafAt, EndIn, Entry, LeafRecord
  <2>4. list = <<x>>
    BY <1>2, <1>6 DEF ListedBelow
  <2> HIDE DEF x, e, list
  <2>5. <<x, k>> \in LeafEnds(in, bytes, notes, p, depth)
    <3>1. x.data = a
      BY <1>2 DEF x, LeafAt
    <3>2. LeafOf(bytes, notes, x.data, k)
      BY <1>6, <2>1, <3>1 DEF LeafOf
    <3> QED
      BY <1>5, <2>1, <2>3, <3>2 DEF LeafEnds, e
  <2>6. Paired(<<x>>, LeafRecord, {k}, LeafEnds(in, bytes, notes, p, depth))
    BY <2>3, <2>5, PairedOne
  <2> QED
    BY <2>1, <2>4, <2>6 DEF list
<1>7. CASE ~bytes[a].leaf
  <2> DEFINE c == a + notes[a].kids
             q == p \o label
             more == leaves[PosAt(notes, c)][q]
  <2>1. /\ c \in DOMAIN notes /\ VisitChildren(bytes, NodeAt(notes, a)) = PosAt(notes, c)
        /\ Begins(bytes[c], notes[c], notes[a].rank, depth + Len(label), below)
    BY <1>7, ChildrenNoted
  <2>2. notes[c].depth = depth + Len(label) /\ notes[c].on = below
    BY <2>1 DEF Begins
  <2>3. list = more
    BY <1>2, <1>7, <2>1 DEF ListedBelow
  <2>4. Paired(more, LeafRecord, below, LeafEnds(in, bytes, notes, q, depth + Len(label)))
    BY <1>7, <2>2 DEF ListsAt
  <2>5. ASSUME NEW x \in LeafRecord, NEW k \in below,
               <<x, k>> \in LeafEnds(in, bytes, notes, q, depth + Len(label))
        PROVE  <<x, k>> \in LeafEnds(in, bytes, notes, p, depth)
    <3>1. /\ x.entry = EndIn(in, q, depth + Len(label), k)
          /\ LeafOf(bytes, notes, x.data, k)
      BY <2>5 DEF LeafEnds
    <3>2. EndIn(in, q, depth + Len(label), k) = EndIn(in, p, depth, k)
      BY <1>5 DEF EndIn
    <3> QED
      BY <1>5, <3>1, <3>2 DEF LeafEnds
  <2> HIDE DEF more, list, c, q, label, depth, below
  <2>6. Paired(more, LeafRecord, below, LeafEnds(in, bytes, notes, p, depth))
    BY <2>4, <2>5, PairedBy
  <2> QED
    BY <2>3, <2>6 DEF list, depth, below
<1> QED
  BY <1>1, <1>6, <1>7

(* The leaves on a node: those below it, and those on the siblings after it. *)
LEMMA NextListed ==
  ASSUME NEW in, NEW bytes, NEW notes, IsRead(in, bytes, notes),
         NEW a \in DOMAIN notes, NEW p, NEW below, NEW leaves,
         Paired(below, LeafRecord, notes[a].below, LeafEnds(in, bytes, notes, p, notes[a].depth)),
         LET b == a + NodeWidth(bytes[a])
         IN  b \in DOMAIN notes => ListsAt(in, bytes, notes, b, leaves[PosAt(notes, b)][p], p),
         \A it \in Siblings : ~AtNode(it) => leaves[it][p] = <<>>
  PROVE  ListsAt(in, bytes, notes, a,
                 below \o leaves[NextSibling(bytes, PosAt(notes, a))][p], p)
<1> DEFINE w == NodeWidth(bytes[a])
           b == a + w
           next == NextSibling(bytes, PosAt(notes, a))
           more == leaves[next][p]
           R == LeafEnds(in, bytes, notes, p, notes[a].depth)
<1>1. NotedAt(in, bytes, notes, a)
  BY NotedNode
<1>2. CASE w < notes[a].end
  <2>1. b \in DOMAIN notes /\ next = PosAt(notes, b)
    BY <1>2, NextNoted
  <2>2. Follows(in, bytes[a], notes[a], bytes[b], notes[b])
    BY <1>1, <1>2 DEF NotedAt
  <2>3. /\ notes[b].depth = notes[a].depth
        /\ notes[a].on = notes[a].below \cup notes[b].on
        /\ notes[a].below \cap notes[b].on = {}
    BY <2>2 DEF Follows
  <2>4. ListsAt(in, bytes, notes, b, more, p)
    BY <2>1
  <2>5. Paired(more, LeafRecord, notes[b].on, R)
    BY <2>3, <2>4 DEF ListsAt
  <2> HIDE DEF w, b, next, more, R
  <2>6. Paired(below \o more, LeafRecord, notes[a].below \cup notes[b].on, R)
    BY <2>3, <2>5, PairedConcat DEF R
  <2> QED
    BY <2>3, <2>6 DEF ListsAt, R, more, next
<1>3. CASE ~(w < notes[a].end)
  <2>1. next \in Siblings /\ ~AtNode(next)
    BY <1>3, NextNoted
  <2>2. more = <<>>
    BY <2>1
  <2>3. notes[a].on = notes[a].below
    BY <1>1, <1>3 DEF NotedAt
  <2>4. below \in Seq(LeafRecord)
    BY DEF Paired, Pairs
  <2>5. below \o more = below
    BY <2>2, <2>4, ConcatEmptySeq
  <2> QED
    BY <2>3, <2>5 DEF ListsAt
<1> QED
  BY <1>2, <1>3

(* In as many steps as there are bytes left all the leaves are listed. *)
LEMMA AllListed ==
  ASSUME NEW in, IsInput(in), NEW bytes, NEW notes, IsRead(in, bytes, notes),
         NEW within, AreListed(bytes, within)
  PROVE  \A n \in Nat : \A a \in DOMAIN notes : \A p \in Seq(Char) :
           Len(bytes) < n + a =>
             ListsAt(in, bytes, notes, a, within[n][PosAt(notes, a)][p], p)
<1> DEFINE Listed(n, a, p) == ListsAt(in, bytes, notes, a, within[n][PosAt(notes, a)][p], p)
           P == {n \in Nat : \A a \in DOMAIN notes : \A p \in Seq(Char) :
                   Len(bytes) < n + a => Listed(n, a, p)}
<1>1. \A a \in DOMAIN notes : /\ a \in Nat /\ Len(bytes) \in Nat /\ a <= Len(bytes)
                              /\ NodeWidth(bytes[a]) \in Nat \ {0}
                              /\ bytes[a].label \in Seq(Char)
  BY NotedNode
<1>2. 0 \in P
  <2>1. \A a \in DOMAIN notes : ~(Len(bytes) < 0 + a)
    BY <1>1
  <2> HIDE DEF Listed
  <2> QED
    BY <2>1
<1>3. ASSUME NEW n \in P PROVE n + 1 \in P
  <2>1. n \in Nat /\ n + 1 \in Nat
    OBVIOUS
  <2> SUFFICES ASSUME NEW a \in DOMAIN notes, NEW p \in Seq(Char),
                      Len(bytes) < (n + 1) + a
               PROVE  Listed(n + 1, a, p)
    BY <2>1
  <2>2. \A c \in DOMAIN notes : \A q \in Seq(Char) :
          Len(bytes) < n + c => ListsAt(in, bytes, notes, c, within[n][PosAt(notes, c)][q], q)
    OBVIOUS
  <2>3. \A c \in DOMAIN notes : a < c => Len(bytes) < n + c
    BY <1>1, <2>1
  <2> DEFINE leaves == within[n]
             it == PosAt(notes, a)
  <2>4. it \in Siblings /\ AtNode(it)
    BY PositionsAreTyped
  <2>5. within[n + 1][it][p] =
          ListedBelow(bytes, it, p, leaves) \o leaves[NextSibling(bytes, it)][p]
    BY <2>1, <2>4 DEF AreListed
  <2>6. \A x \in Siblings : \A q \in Seq(Char) : ~AtNode(x) => leaves[x][q] = <<>>
    <3>1. CASE n = 0
      BY <3>1 DEF AreListed
    <3>2. CASE n # 0
      <4> DEFINE m == n - 1
      <4>1. m \in Nat /\ m + 1 = n
        BY <2>1, <3>2
      <4> HIDE DEF m
      <4>2. \A x \in Siblings : \A q \in Seq(Char) :
              ~AtNode(x) => within[m + 1][x][q] = <<>>
        BY <4>1 DEF AreListed
      <4> QED
        BY <4>1, <4>2
    <3> QED
      BY <3>1, <3>2
  <2> HIDE DEF leaves
  <2>7. ASSUME NEW c \in DOMAIN notes, a < c, NEW q \in Seq(Char)
        PROVE  ListsAt(in, bytes, notes, c, leaves[PosAt(notes, c)][q], q)
    BY <2>2, <2>3, <2>7 DEF leaves
  <2>8. Paired(ListedBelow(bytes, it, p, leaves), LeafRecord,
               notes[a].below, LeafEnds(in, bytes, notes, p, notes[a].depth))
    <3> DEFINE c == a + notes[a].kids
               q == p \o bytes[a].label
    <3>1. ~bytes[a].leaf => c \in DOMAIN notes /\ a < c
      BY ChildrenNoted
    <3>2. q \in Seq(Char)
      BY <1>1, ConcatProperties
    <3>3. ~bytes[a].leaf => ListsAt(in, bytes, notes, c, leaves[PosAt(notes, c)][q], q)
      BY <2>7, <3>1, <3>2
    <3> QED
      BY <3>3, BelowListed
  <2>9. LET b == a + NodeWidth(bytes[a])
        IN  b \in DOMAIN notes => ListsAt(in, bytes, notes, b, leaves[PosAt(notes, b)][p], p)
    <3> DEFINE b == a + NodeWidth(bytes[a])
    <3>1. a < b
      BY <1>1
    <3> QED
      BY <2>7, <3>1
  <2>10. ListsAt(in, bytes, notes, a,
           ListedBelow(bytes, it, p, leaves) \o leaves[NextSibling(bytes, it)][p], p)
    <3> DEFINE below == ListedBelow(bytes, it, p, leaves)
    <3> HIDE DEF below
    <3>1. Paired(below, LeafRecord, notes[a].below, LeafEnds(in, bytes, notes, p, notes[a].depth))
      BY <2>8 DEF below
    <3>2. ListsAt(in, bytes, notes, a, below \o leaves[NextSibling(bytes, it)][p], p)
      BY <2>6, <2>9, <3>1, NextListed
    <3> QED
      BY <3>2 DEF below
  <2> QED
    BY <2>5, <2>10
<1>4. P = Nat
  <2>1. P \subseteq Nat
    OBVIOUS
  <2> HIDE DEF P
  <2> QED
    BY <1>2, <1>3, <2>1, AllNumbers
<1> QED
  BY <1>4

(* A node that has no siblings. *)
LEMMA OnlyListed ==
  ASSUME NEW bytes, Len(bytes) \in Nat \ {0}, NEW within, AreListed(bytes, within),
         NEW node \in NodeView, AtNode(Only(node)), NodeWidth(bytes[node.data]) \in Nat,
         NEW p \in Seq(Char), NEW n \in Nat, n + 1 = Len(bytes), NEW S,
         ListedBelow(bytes, Only(node), p, within[n]) \in Seq(S)
  PROVE  Leaves(bytes, node, p) = ListedBelow(bytes, Only(node), p, within[n])
<1> DEFINE it == Only(node)
           next == NextSibling(bytes, it)
           below == ListedBelow(bytes, it, p, within[n])
<1>1. it \in Siblings /\ it.current = node /\ it.end = 0
  BY DEF Only, Siblings, NullAddress
<1>2. next \in Siblings /\ ~AtNode(next)
  <2>1. node.data \in Nat
    BY DEF NodeView
  <2>2. ~(Skip(bytes, node.data) < 0)
    BY <2>1 DEF Skip
  <2>3. next = [current |-> NullNode, end |-> 0]
    BY <2>2 DEF NextSibling, Only, NullAddress
  <2> QED
    BY <2>3 DEF Siblings, AtNode, NullNode, NullAddress, NodeView
<1> HIDE DEF it, next
<1>3. within[n][next][p] = <<>>
  <2>1. CASE n = 0
    BY <1>2, <2>1 DEF AreListed
  <2>2. CASE n # 0
    <3> DEFINE m == n - 1
    <3>1. m \in Nat /\ m + 1 = n
      BY <2>2
    <3> HIDE DEF m
    <3>2. within[m + 1][next][p] = <<>>
      BY <1>2, <3>1 DEF AreListed
    <3> QED
      BY <3>1, <3>2
  <2> QED
    BY <2>1, <2>2
<1>4. Leaves(bytes, node, p) = within[n + 1][it][p]
  BY DEF AreListed, it
<1>5. within[n + 1][it][p] = below \o within[n][next][p]
  BY <1>1 DEF AreListed, it, next
<1>6. below \in Seq(S)
  BY DEF it
<1> HIDE DEF below
<1>7. below \o <<>> = below
  BY <1>6, ConcatEmptySeq
<1> QED
  BY <1>3, <1>4, <1>5, <1>7 DEF below, it

(* The leaves below a node whose children have notes. *)
LEMMA ChildLeaves ==
  ASSUME NEW in, IsInput(in), NEW bytes, NEW notes, IsRead(in, bytes, notes),
         NEW node \in NodeView, AtNode(Only(node)), ~IsLeaf(bytes, node),
         NodeWidth(bytes[node.data]) \in Nat, Label(bytes, node) \in Seq(Char),
         NEW c \in DOMAIN notes, VisitChildren(bytes, node) = PosAt(notes, c),
         NEW p \in Seq(Char)
  PROVE  Paired(Leaves(bytes, node, p), LeafRecord, notes[c].on,
                LeafEnds(in, bytes, notes, p \o Label(bytes, node), notes[c].depth))
<1> DEFINE q == p \o Label(bytes, node)
           it == Only(node)
           n == Len(bytes) - 1
           list == Leaves(bytes, node, p)
           depth == notes[c].depth
<1>1. PICK within : AreListed(bytes, within)
  BY LeavesListed
<1>2. c \in 2 .. Len(bytes) /\ Len(bytes) \in Nat /\ c \in Nat
  BY NotedNode
<1>3. n \in Nat /\ n + 1 = Len(bytes) /\ Len(bytes) < n + c
  BY <1>2
<1>4. q \in Seq(Char)
  BY ConcatProperties
<1>5. it \in Siblings /\ it.current = node /\ it.end = 0
  BY DEF Only, Siblings, NullAddress
<1> HIDE DEF it, n, q
<1>6. ListedBelow(bytes, it, p, within[n]) = within[n][PosAt(notes, c)][q]
  BY <1>5 DEF ListedBelow, q
<1>7. Paired(within[n][PosAt(notes, c)][q], LeafRecord, notes[c].on,
             LeafEnds(in, bytes, notes, q, depth))
  BY <1>1, <1>3, <1>4, AllListed DEF ListsAt
<1>8. ListedBelow(bytes, it, p, within[n]) \in Seq(LeafRecord)
  BY <1>6, <1>7 DEF Paired, Pairs
<1>9. list = ListedBelow(bytes, it, p, within[n])
  <2>1. Len(bytes) \in Nat \ {0}
    BY <1>2
  <2> HIDE DEF list
  <2> QED
    BY <1>1, <1>3, <1>8, <2>1, OnlyListed DEF it, list
<1> QED
  BY <1>6, <1>7, <1>9 DEF q

(* What they are the leaves of. *)
LEMMA ChildrenListed ==
  ASSUME NEW in, IsInput(in), NEW bytes, NEW notes, IsRead(in, bytes, notes),
         NEW node \in NodeView, AtNode(Only(node)), ~IsLeaf(bytes, node),
         NodeWidth(bytes[node.data]) \in Nat, Label(bytes, node) \in Seq(Char),
         NEW c \in DOMAIN notes, VisitChildren(bytes, node) = PosAt(notes, c),
         NEW p \in Seq(Char)
  PROVE  Paired(LeavesBelow(bytes, node, p), Entry, notes[c].on,
                Ends(in, p \o Label(bytes, node), notes[c].depth))
<1> DEFINE q == p \o Label(bytes, node)
           list == Leaves(bytes, node, p)
           depth == notes[c].depth
<1> HIDE DEF q
<1>12. Paired(list, LeafRecord, notes[c].on, LeafEnds(in, bytes, notes, q, depth))
  BY ChildLeaves DEF q
<1>13. list \in Seq(LeafRecord)
  BY <1>12 DEF Paired, Pairs
<1> HIDE DEF list, depth
<1> DEFINE entries == [i \in DOMAIN list |-> list[i].entry]
<1>14. ASSUME NEW i \in DOMAIN list
       PROVE  /\ entries[i] \in Entry
              /\ \A k \in notes[c].on : <<list[i], k>> \in LeafEnds(in, bytes, notes, q, depth) =>
                                          <<entries[i], k>> \in Ends(in, q, depth)
  <2>1. list[i] \in LeafRecord
    BY <1>13, LenProperties, ElementOfSeq
  <2>2. list[i].entry \in Entry
    BY <2>1 DEF LeafRecord
  <2> QED
    BY <2>2 DEF LeafEnds, Ends
<1>15. DOMAIN entries = DOMAIN list /\ entries = [i \in DOMAIN entries |-> entries[i]]
  OBVIOUS
<1> HIDE DEF entries
<1>16. Paired(entries, Entry, notes[c].on, Ends(in, q, depth))
  BY <1>12, <1>14, <1>15, PairedAs
<1>17. LeavesBelow(bytes, node, p) = entries
  BY DEF LeavesBelow, entries, list
<1> QED
  BY <1>16, <1>17 DEF q, depth

(* The entries of a node that holds some suggestions. *)
LEMMA HeldListed ==
  ASSUME NEW in, IsInput(in), NEW node, NEW depth \in Nat, NEW B,
         Holds(in, node, depth, B), NEW p \in Seq(Char)
  PROVE  Paired(NodeEntries(node, p), Entry, B, Ends(in, p, depth))
<1> DEFINE label == node.label
           head == [label |-> label, rank |-> node.rank, offset |-> 0,
                    leaf |-> node.leaf]
           header == SerialiseNode(label, node.rank, 0, node.leaf)
           bytes == Readable(node)
           root == ReadableRoot(node)
           h == Len(header)
           below == depth + Len(label)
<1>1. /\ label \in Seq(Char) /\ node.rank \in Nat /\ node.leaf \in BOOLEAN
      /\ Len(label) \in Nat /\ node.sub \in Seq(Cell)
  BY LenProperties, EmptySeq DEF Holds, IsNode, IsTree
<1>2. /\ head \in Header /\ header \in Seq(Cell) /\ h = NodeWidth(head)
      /\ header[1] = head
  <2> DEFINE rank == node.rank
             leaf == node.leaf
             zero == 0
  <2>1. zero \in Nat /\ rank \in Nat /\ leaf \in BOOLEAN
    BY <1>1
  <2> HIDE DEF label, rank, leaf, zero
  <2>2. LET hd == [label |-> label, rank |-> rank, offset |-> zero, leaf |-> leaf]
            by == SerialiseNode(label, rank, zero, leaf)
        IN  hd \in Header /\ by \in Seq(Cell) /\ Len(by) = NodeWidth(hd) /\ by[1] = hd
    BY <1>1, <2>1, SerialisedNode
  <2> QED
    BY <2>2 DEF label, rank, leaf, zero
<1>3. h \in Nat \ {0}
  BY <1>2, WidthIsPositive
<1>4. bytes = header \o node.sub
  BY DEF Readable
<1>5. Carries(in, label, node.rank, node.leaf, depth, B)
  BY DEF Holds
<1>6. /\ B \subseteq DOMAIN in.suggestions \cap DOMAIN in.ranks
      /\ \A k \in B : Spells(in, k, depth, label)
  BY <1>5 DEF Carries
<1>7. DOMAIN in.suggestions \subseteq Nat
  <2>1. in.suggestions \in Seq(Seq(Char))
    BY DEF IsInput
  <2> QED
    BY <2>1, LenProperties
<1>8. below \in Nat /\ p \o label \in Seq(Char)
  BY <1>1, ConcatProperties
<1>9. ASSUME NEW k \in B
      PROVE  /\ k \in DOMAIN in.suggestions /\ k \in Nat
             /\ (p \o label) \o Rest(in, k, below) = p \o Rest(in, k, depth)
  <2>1. k \in DOMAIN in.suggestions /\ k \in Nat /\ Spells(in, k, depth, label)
    BY <1>6, <1>7
  <2>2. label \in Seq(Char)
    BY <1>1
  <2> HIDE DEF label, head, header, bytes, root, h
  <2>3. (p \o label) \o Rest(in, k, depth + Len(label)) = p \o Rest(in, k, depth)
    BY <2>1, <2>2, LabelThenRest
  <2> QED
    BY <2>1, <2>3
<1>10. bytes[1] = head
  <2>1. 1 \in 1 .. h + Len(node.sub) /\ 1 <= h
    <3> DEFINE n == Len(node.sub)
    <3>1. n \in Nat
      BY <1>1, LenProperties
    <3> HIDE DEF n, h
    <3> QED
      BY <1>3, <3>1 DEF n
  <2> HIDE DEF header, head
  <2> QED
    BY <1>1, <1>2, <1>4, <2>1, ConcatProperties
<1> HIDE DEF header, bytes
<1>11. root = [data |-> 1, rank |-> node.rank, first_child |-> h + 1]
  <2>1. Skip(bytes, 1) = 1 + h
    BY <1>2, <1>10 DEF Skip
  <2>2. 0 + node.rank = node.rank /\ (1 + h) + 0 = h + 1
    BY <1>1, <1>3
  <2> QED
    BY <1>10, <2>1, <2>2 DEF ReadableRoot, Node, bytes
<1> HIDE DEF root
<1>12. /\ root \in NodeView /\ AtNode(Only(root)) /\ root.data = 1
       /\ root.rank = node.rank
       /\ Label(bytes, root) = label /\ IsLeaf(bytes, root) = node.leaf
       /\ NodeWidth(bytes[root.data]) \in Nat
  BY <1>1, <1>2, <1>3, <1>10, <1>11
     DEF NodeView, AtNode, Only, NullAddress, Label, IsLeaf
<1>13. CASE ~node.leaf
  <2>1. IsTree(in, node.sub, node.rank, below, B)
    BY <1>13 DEF Holds
  <2> DEFINE rank == node.rank
  <2> HIDE DEF below, h, rank
  <2>2. IsTree(in, node.sub, rank, below, B)
    BY <2>1 DEF rank
  <2>3. IsHeaded(in, header \o node.sub, h + 1, rank, below, B)
    BY <1>2, <2>2, HeadedTree DEF h
  <2>4. IsHeaded(in, bytes, h + 1, rank, below, B)
    BY <1>4, <2>3
  <2>5. PICK notes : /\ IsNoted(in, bytes, notes, h + 1)
                     /\ Begins(bytes[h + 1], notes[h + 1], rank, below, B)
    BY <2>4 DEF IsHeaded
  <2>6. IsRead(in, bytes, notes)
    <3>1. h + 1 \in Nat /\ h + 1 > 1
      BY <1>3
    <3> QED
      BY <2>4, <2>5, <3>1 DEF IsRead, IsHeaded
  <2>7. h + 1 \in DOMAIN notes
    BY <2>5 DEF IsNoted
  <2>8. ~IsLeaf(bytes, root)
    BY <1>12, <1>13
  <2>9. VisitChildren(bytes, root) = PosAt(notes, h + 1)
    <3>1. root.first_child = h + 1 /\ root.rank = rank
      BY <1>11, <1>12 DEF rank
    <3> DEFINE c == h + 1
    <3>2. c \in DOMAIN notes /\ root.first_child = c /\ h + 1 = c
      BY <2>7, <3>1
    <3> HIDE DEF c
    <3>3. Begins(bytes[c], notes[c], root.rank, below, B)
      BY <2>5, <3>1, <3>2
    <3>4. VisitChildren(bytes, root) = PosAt(notes, c)
      BY <2>6, <2>8, <3>2, <3>3, FirstChild
    <3> QED
      BY <3>2, <3>4
  <2>10. Paired(LeavesBelow(bytes, root, p), Entry, notes[h + 1].on,
                Ends(in, p \o Label(bytes, root), notes[h + 1].depth))
    <3>1. Label(bytes, root) \in Seq(Char)
      BY <1>1, <1>12
    <3> QED
      BY <1>12, <2>6, <2>7, <2>8, <2>9, <3>1, ChildrenListed
  <2>11. notes[h + 1].on = B /\ notes[h + 1].depth = below
    BY <2>5 DEF Begins
  <2>12. NodeEntries(node, p) = LeavesBelow(bytes, root, p)
    <3>1. node.sub # <<>>
      <4>1. PICK notes1 : IsNoted(in, node.sub, notes1, 1)
        BY <2>1 DEF IsTree
      <4>2. 1 \in 1 .. Len(node.sub)
        BY <4>1 DEF IsNoted
      <4> QED
        BY <4>2
    <3> QED
      BY <3>1 DEF NodeEntries, bytes, root
  <2>13. Paired(NodeEntries(node, p), Entry, B, Ends(in, p \o label, below))
    BY <1>12, <2>10, <2>11, <2>12
  <2>14. ASSUME NEW x \in Entry, NEW k \in B, <<x, k>> \in Ends(in, p \o label, below)
         PROVE  <<x, k>> \in Ends(in, p, depth)
    <3>1. x = EndIn(in, p \o label, below, k)
      BY <2>14 DEF Ends
    <3>2. EndIn(in, p \o label, below, k) = EndIn(in, p, depth, k)
      BY <1>9 DEF EndIn
    <3> QED
      BY <1>9, <3>1, <3>2 DEF Ends
  <2> HIDE DEF label
  <2> QED
    BY <2>13, <2>14, PairedBy
<1>14. CASE node.leaf
  <2>1. PICK k \in B : /\ B = {k} /\ in.ranks[k] = node.rank
                       /\ Len(in.suggestions[k]) = below
    BY <1>5, <1>14 DEF Carries
  <2>2. node.sub = <<>>
    BY <1>14 DEF Holds
  <2>3. bytes = header /\ Len(bytes) = h
    BY <1>2, <1>4, <2>2, ConcatEmptySeq DEF bytes
  <2> DEFINE it == Only(root)
             list == <<LeafAt(it, p \o label)>>
             n == h - 1
  <2>4. PICK within : AreListed(bytes, within)
    BY LeavesListed
  <2>5. n \in Nat /\ n + 1 = h
    BY <1>3
  <2>6. it \in Siblings /\ it.current = root /\ it.end = 0 /\ AtNode(it)
    BY <1>12 DEF Only, Siblings, NullAddress
  <2> HIDE DEF it, n, list
  <2>7. ListedBelow(bytes, it, p, within[n]) = list
    BY <1>12, <1>14, <2>6 DEF ListedBelow, list
  <2>8. list \in Seq({LeafAt(it, p \o label)})
    BY DEF list
  <2>11. Leaves(bytes, root, p) = list
    <3>1. Len(bytes) \in Nat \ {0} /\ n + 1 = Len(bytes)
      BY <1>3, <2>3, <2>5
    <3>2. ListedBelow(bytes, it, p, within[n]) \in Seq({LeafAt(it, p \o label)})
      BY <2>7, <2>8
    <3> QED
      BY <1>12, <2>4, <2>5, <2>7, <3>1, <3>2, OnlyListed DEF it
  <2> DEFINE e == [string |-> p \o label, rank |-> node.rank]
  <2>12. LeavesBelow(bytes, root, p) = <<e>>
    <3> DEFINE r == LeafAt(it, p \o label)
    <3>1. r.entry = e
      BY <1>12, <2>6 DEF LeafAt
    <3> HIDE DEF e, r
    <3>2. Leaves(bytes, root, p) = <<r>>
      BY <2>11 DEF list, r
    <3> QED
      BY <3>1, <3>2 DEF LeavesBelow
  <2>13. NodeEntries(node, p) = <<e>>
    BY <1>14, <2>12 DEF NodeEntries, bytes, root
  <2>14. e = EndIn(in, p, depth, k) /\ e \in Entry
    <3> DEFINE q == p \o label
    <3>1. q \in Seq(Char) /\ below \in Nat /\ k \in DOMAIN in.suggestions
          /\ q \o Rest(in, k, below) = p \o Rest(in, k, depth)
      BY <1>8, <1>9
    <3> HIDE DEF q, below
    <3>2. q \o Rest(in, k, below) = q
      BY <2>1, <3>1, RestOfNothing
    <3> QED
      BY <1>1, <2>1, <3>1, <3>2 DEF q, EndIn, Entry
  <2>15. <<e, k>> \in Ends(in, p, depth)
    BY <1>9, <2>14 DEF Ends
  <2> HIDE DEF e
  <2>16. Paired(<<e>>, Entry, {k}, Ends(in, p, depth))
    BY <2>14, <2>15, PairedOne
  <2> QED
    BY <2>1, <2>13, <2>16
<1> QED
  BY <1>1, <1>13, <1>14

-----------------------------------------------------------------------------
(* What the unfinished levels hold.                                         *)

(* The sequence of single elements. *)
LEMMA FlatOfOnes ==
  ASSUME NEW S, NEW n \in Nat, NEW x \in [1 .. n -> S]
  PROVE  LET flat == FlattenSeq([i \in 1 .. n |-> <<x[i]>>])
         IN  /\ flat \in Seq(S)
             /\ Len(flat) = n
             /\ \A i \in 1 .. n : flat[i] = x[i]
<1> DEFINE xs == [i \in 1 .. n |-> <<x[i]>>]
           flat == FlattenSeq(xs)
<1>1. xs \in Seq(Seq(S)) /\ Len(xs) = n
  <2>1. xs \in [1 .. n -> Seq(S)]
    OBVIOUS
  <2> HIDE DEF xs
  <2> QED
    BY <2>1, FunctionIsSeq
<1>2. \A i \in 1 .. n : Len(xs[i]) = 1 /\ xs[i][1] = x[i]
  OBVIOUS
<1> HIDE DEF xs
<1>3. flat \in Seq(S)
  BY <1>1, PartsAreLaidOut
<1>4. PICK ends \in [0 .. n -> Nat] : IsLaidOut(flat, xs, ends)
  BY <1>1, PartsAreLaidOut
<1> HIDE DEF flat
<1>5. /\ ends[0] = 0 /\ Len(flat) = ends[n]
      /\ \A i \in 1 .. n : /\ ends[i] = ends[i - 1] + Len(xs[i])
                           /\ \A p \in 1 .. Len(xs[i]) : flat[ends[i - 1] + p] = xs[i][p]
  BY <1>1, <1>4 DEF IsLaidOut
<1> DEFINE P == {i \in Nat : i <= n => ends[i] = i}
<1>6. 0 \in P
  BY <1>5
<1>7. ASSUME NEW i \in P PROVE i + 1 \in P
  <2> SUFFICES ASSUME i + 1 <= n PROVE ends[i + 1] = i + 1
    OBVIOUS
  <2> DEFINE j == i + 1
  <2>1. i \in Nat /\ i <= n /\ ends[i] = i /\ j \in 1 .. n /\ j - 1 = i
    OBVIOUS
  <2> HIDE DEF j
  <2>2. ends[j] = ends[i] + Len(xs[j]) /\ Len(xs[j]) = 1
    BY <1>2, <1>5, <2>1
  <2> QED
    BY <2>1, <2>2 DEF j
<1>8. P = Nat
  <2>1. P \subseteq Nat
    OBVIOUS
  <2> HIDE DEF P
  <2> QED
    BY <1>6, <1>7, <2>1, AllNumbers
<1>9. Len(flat) = n
  BY <1>5, <1>8
<1>10. ASSUME NEW i \in 1 .. n PROVE flat[i] = x[i]
  <2> DEFINE h == i - 1
  <2>1. h \in Nat /\ h <= n /\ h + 1 = i
    OBVIOUS
  <2> HIDE DEF h
  <2>2. ends[h] = h
    BY <1>8, <2>1
  <2>3. 1 \in 1 .. Len(xs[i]) /\ xs[i][1] = x[i]
    BY <1>2
  <2>4. \A p \in 1 .. Len(xs[i]) : flat[ends[i - 1] + p] = xs[i][p]
    BY <1>5
  <2>5. flat[ends[i - 1] + 1] = xs[i][1]
    BY <2>3, <2>4
  <2> QED
    BY <2>1, <2>2, <2>3, <2>5 DEF h
<1> QED
  BY <1>3, <1>9, <1>10 DEF flat, xs

(* What the labels above a node and its suggestions' rests spell. *)
LEMMA SpelledThenRest ==
  ASSUME NEW in, IsInput(in), NEW k \in DOMAIN in.suggestions,
         NEW p \in Seq(Char), Spells(in, k, 0, p)
  PROVE  p \o Rest(in, k, Len(p)) = in.suggestions[k]
<1> DEFINE s == in.suggestions[k]
           none == <<>>
           zero == 0
<1>1. s \in Seq(Char) /\ Len(s) \in Nat
  BY SuggestionTyped
<1>2. none \in Seq(Char) /\ zero \in Nat /\ Len(p) \in Nat
  BY EmptySeq, LenProperties
<1> HIDE DEF none, zero
<1>3. Spells(in, k, zero, p)
  BY DEF zero
<1>4. (none \o p) \o Rest(in, k, zero + Len(p)) = none \o Rest(in, k, zero)
  BY <1>2, <1>3, LabelThenRest
<1>5. none \o p = p /\ zero + Len(p) = Len(p)
  BY <1>2, ConcatEmptySeq DEF none, zero
<1>6. Rest(in, k, zero) = s
  <2>1. Rest(in, k, zero) = SubSeq(s, 1, Len(s))
    BY DEF Rest, zero
  <2> HIDE DEF s
  <2> QED
    BY <1>1, <2>1, SubSeqFull
<1>7. none \o s = s
  BY <1>1, ConcatEmptySeq DEF none
<1> QED
  BY <1>4, <1>5, <1>6, <1>7

(* The labels of the open nodes spell the previous suggestion. *)
LEMMA PathSpells ==
  ASSUME Inv, pc \in {"next", "merge"}, NEW d \in 1 .. Len(levels)
  PROVE  /\ PathTo(d) \in Seq(Char) /\ Len(PathTo(d)) = d - 1
         /\ \A i \in 1 .. d - 1 : PathTo(d)[i] = Previous[i]
<1>1. OpenPath
  BY DEF Inv, Spine
<1>2. Len(levels) \in Nat /\ pos \in 0 .. Len(suggestions)
  BY LenProperties DEF Inv, TypeOK
<1>3. pos > 0 /\ Len(levels) <= Len(Previous) + 1
  <2>1. Len(levels) > 0
    BY <1>2
  <2>2. levels # <<>>
    BY <2>1
  <2> QED
    BY <1>1, <1>2, <2>1, <2>2, InputTyped DEF OpenPath, Inv
<1>4. Previous \in Seq(Char) /\ Len(Previous) \in Nat
  <2>1. pos \in 1 .. Len(suggestions) /\ suggestions \in Seq(Seq(Char))
    BY <1>2, <1>3, InputTyped DEF Inv
  <2>2. Previous \in Seq(Char)
    BY <2>1, ElementOfSeq DEF Previous
  <2> QED
    BY <2>2, LenProperties
<1> DEFINE n == d - 1
           x == [i \in 1 .. n |-> Previous[i]]
<1>5. n \in Nat /\ n <= Len(Previous) /\ \A i \in 1 .. n : i \in 1 .. Len(levels) - 1
  BY <1>2, <1>3, <1>4
<1>6. x \in [1 .. n -> Char]
  <2>1. \A i \in 1 .. n : i \in 1 .. Len(Previous)
    BY <1>4, <1>5
  <2>2. \A i \in 1 .. n : Previous[i] \in Char
    BY <1>4, <2>1, ElementOfSeq
  <2> HIDE DEF n
  <2> QED
    BY <2>2
<1>7. \A i \in 1 .. n : Last(levels[i]).label = <<x[i]>>
  <2> SUFFICES ASSUME NEW i \in 1 .. n PROVE Last(levels[i]).label = <<x[i]>>
    OBVIOUS
  <2>1. Last(levels[i]) = InternalNode(Previous[i])
    BY <1>1, <1>5 DEF OpenPath
  <2>2. InternalNode(Previous[i]).label = <<Previous[i]>>
    BY DEF InternalNode
  <2>3. x[i] = Previous[i]
    OBVIOUS
  <2> QED
    BY <2>1, <2>2, <2>3
<1>8. PathTo(d) = FlattenSeq([i \in 1 .. n |-> <<x[i]>>])
  BY <1>7 DEF PathTo
<1>9. \A i \in 1 .. n : x[i] = Previous[i]
  OBVIOUS
<1> HIDE DEF n, x
<1>10. /\ PathTo(d) \in Seq(Char) /\ Len(PathTo(d)) = n
       /\ \A i \in 1 .. n : PathTo(d)[i] = x[i]
  <2> DEFINE flat == FlattenSeq([i \in 1 .. n |-> <<x[i]>>])
  <2>1. flat \in Seq(Char) /\ Len(flat) = n /\ \A i \in 1 .. n : flat[i] = x[i]
    BY <1>5, <1>6, FlatOfOnes
  <2> HIDE DEF flat
  <2>2. PathTo(d) = flat
    BY <1>8 DEF flat
  <2> QED
    BY <2>1, <2>2
<1> QED
  BY <1>9, <1>10 DEF n

LEMMA Joined ==
  ASSUME NEW seqs \in Seq(Seq(Entry))
  PROVE  JoinAll[seqs] = FlattenSeq(seqs)
BY DEF JoinAll

(* The suggestions of the finished nodes of a level. *)
Finished(owns, d) ==
  IF d = Len(levels)
  THEN AllOf(levels[d], owns[d])
  ELSE AllOf(levels[d], owns[d]) \ owns[d][Len(levels[d])]

LEMMA LevelListed ==
  ASSUME Inv, pc \in {"next", "merge"}, NEW owns,
         LevelsHold(input, pos, levels, owns), NEW d \in 1 .. Len(levels)
  PROVE  Paired(LevelEntries(d), Entry, Finished(owns, d), IsEntryOf(input, 1 .. pos))
<1> DEFINE level == levels[d]
           own == owns[d]
           n == Len(level)
           path == PathTo(d)
           R == IsEntryOf(input, 1 .. pos)
           open(j) == d < Len(levels) /\ j = n
           entries == [j \in DOMAIN level |-> NodeEntries(level[j], path)]
           Bs == [j \in 1 .. n |-> IF open(j) THEN {} ELSE own[j]]
<1>1. /\ IsInput(input) /\ Len(levels) \in Nat /\ level \in Seq(Range(level))
      /\ n \in Nat \ {0}
      /\ pos \in 1 .. Len(input.suggestions)
  <2>1. level \in Seq(Range(level)) /\ level # <<>> /\ Len(levels) \in Nat
    BY LenProperties DEF Inv, TypeOK
  <2>2. n \in Nat \ {0}
    BY <2>1, EmptySeq
  <2> QED
    BY <2>1, <2>2, InputIsTyped DEF LevelsHold
<1>2. DOMAIN level = 1 .. n
  BY <1>1, LenProperties
<1>3. /\ IsLevel(input, pos, level, d, own)
      /\ \A j \in 1 .. n : d = Len(levels) \/ j < n => Holds(input, level[j], d - 1, own[j])
  BY DEF LevelsHold
<1>4. /\ path \in Seq(Char) /\ Len(path) = d - 1
      /\ \A i \in 1 .. d - 1 : path[i] = Previous[i]
  BY PathSpells
<1>5. /\ own \in [1 .. n -> SUBSET (1 .. pos)]
      /\ \A j \in 1 .. n : \A k \in own[j] : SharesTo(input, k, pos, d - 1)
      /\ \A i, j \in 1 .. n : i # j => own[i] \cap own[j] = {}
      /\ pos \in own[n]
  BY <1>3 DEF IsLevel
<1>6. d - 1 \in Nat
  BY <1>1
<1> HIDE DEF level, own, n, path
<1>7. ASSUME NEW j \in 1 .. n, NEW k \in own[j]
      PROVE  /\ k \in 1 .. pos
             /\ EndIn(input, path, d - 1, k) = EntryIn(input, k)
  <2>1. k \in 1 .. pos /\ k \in DOMAIN input.suggestions
    <3>1. k \in 1 .. pos
      BY <1>5
    <3>2. k \in 1 .. Len(input.suggestions) /\ Len(input.suggestions) \in Nat
      BY <1>1, <3>1, InputElements
    <3> QED
      BY <1>1, <3>1, <3>2, InputElements
  <2>2. Spells(input, k, 0, path)
    <3>1. /\ d - 1 <= Len(input.suggestions[k])
          /\ \A i \in 1 .. d - 1 : input.suggestions[k][i] = input.suggestions[pos][i]
      BY <1>5 DEF SharesTo
    <3>2. \A i \in 1 .. d - 1 : 0 + i = i
      OBVIOUS
    <3>3. 0 + Len(path) = d - 1
      BY <1>4, <1>6
    <3> QED
      BY <1>4, <3>1, <3>2, <3>3 DEF Spells, Previous, suggestions
  <2>3. path \o Rest(input, k, Len(path)) = input.suggestions[k]
    BY <1>1, <1>4, <2>1, <2>2, SpelledThenRest
  <2> QED
    BY <1>4, <2>1, <2>3 DEF EndIn, EntryIn
<1>8. ASSUME NEW j \in 1 .. n PROVE Paired(entries[j], Entry, Bs[j], R)
  <2>1. entries[j] = NodeEntries(level[j], path)
    BY <1>2
  <2>2. CASE open(j)
    <3>1. Last(level) = InternalNode(Previous[d])
      <4>1. OpenPath /\ d \in 1 .. Len(levels) - 1
        BY <1>1, <2>2 DEF Inv, Spine
      <4> QED
        BY <4>1 DEF OpenPath, level
    <3>2. level[j] = InternalNode(Previous[d])
      BY <2>2, <3>1 DEF Last, n
    <3>3. entries[j] = <<>>
      BY <2>1, <3>2 DEF NodeEntries, InternalNode
    <3>4. Bs[j] = {}
      BY <2>2
    <3> QED
      BY <3>3, <3>4, PairedNothing
  <2>3. CASE ~open(j)
    <3>1. d = Len(levels) \/ j < n
      BY <1>1, <2>3
    <3>2. Holds(input, level[j], d - 1, own[j])
      BY <1>3, <3>1
    <3>3. Paired(NodeEntries(level[j], path), Entry, own[j], Ends(input, path, d - 1))
      BY <1>1, <1>4, <1>6, <3>2, HeldListed
    <3>4. ASSUME NEW x \in Entry, NEW k \in own[j], <<x, k>> \in Ends(input, path, d - 1)
          PROVE  <<x, k>> \in R
      <4>1. x = EndIn(input, path, d - 1, k)
        BY <3>4 DEF Ends
      <4> QED
        BY <1>7, <3>4, <4>1 DEF IsEntryOf
    <3> DEFINE list == NodeEntries(level[j], path)
    <3> HIDE DEF list, R
    <3>5. Paired(list, Entry, own[j], Ends(input, path, d - 1))
      BY <3>3 DEF list
    <3>6. Paired(list, Entry, own[j], R)
      BY <3>4, <3>5, PairedBy
    <3>7. Bs[j] = own[j]
      BY <2>3
    <3> QED
      BY <2>1, <3>6, <3>7 DEF list
  <2> QED
    BY <2>2, <2>3
<1>9. entries \in Seq(Seq(Entry)) /\ Len(entries) = n
  <2>1. \A j \in 1 .. n : entries[j] \in Seq(Entry)
    BY <1>8 DEF Paired, Pairs
  <2>2. entries \in [1 .. n -> Seq(Entry)]
    BY <1>2, <2>1
  <2> HIDE DEF entries
  <2> QED
    BY <1>1, <2>2, FunctionIsSeq
<1>10. \A j \in 1 .. n : \A i \in 1 .. j - 1 : Bs[i] \cap Bs[j] = {}
  <2> SUFFICES ASSUME NEW j \in 1 .. n, NEW i \in 1 .. j - 1 PROVE Bs[i] \cap Bs[j] = {}
    OBVIOUS
  <2>1. i \in 1 .. n /\ i # j
    BY <1>1
  <2>2. own[i] \cap own[j] = {}
    BY <1>5, <2>1
  <2>3. Bs[i] \subseteq own[i] /\ Bs[j] \subseteq own[j]
    BY <2>1
  <2> HIDE DEF Bs
  <2> QED
    BY <2>2, <2>3
<1>11. UNION {Bs[i] : i \in 1 .. n} = Finished(owns, d)
  <2>1. AllOf(level, own) = UNION {own[i] : i \in 1 .. n}
    BY DEF AllOf, n
  <2>2. CASE d = Len(levels)
    <3>1. \A i \in 1 .. n : Bs[i] = own[i]
      BY <1>1, <2>2
    <3>2. Finished(owns, d) = AllOf(level, own)
      BY <2>2 DEF Finished, level, own
    <3> HIDE DEF Bs
    <3> QED
      BY <2>1, <3>1, <3>2
  <2>3. CASE d # Len(levels)
    <3>1. d < Len(levels)
      BY <1>1, <2>3
    <3>2. \A i \in 1 .. n : Bs[i] = IF i = n THEN {} ELSE own[i]
      BY <3>1
    <3>3. Finished(owns, d) = AllOf(level, own) \ own[n]
      BY <2>3 DEF Finished, level, own, n
    <3>4. n \in 1 .. n
      BY <1>1
    <3> HIDE DEF Bs
    <3>5. \A k : k \in UNION {Bs[i] : i \in 1 .. n} <=>
                   \E i \in 1 .. n : i # n /\ k \in own[i]
      BY <3>2
    <3>6. \A k : k \in Finished(owns, d) <=>
                   (\E i \in 1 .. n : k \in own[i]) /\ k \notin own[n]
      BY <2>1, <3>3
    <3>7. \A k : (\E i \in 1 .. n : i # n /\ k \in own[i]) <=>
                   (\E i \in 1 .. n : k \in own[i]) /\ k \notin own[n]
      BY <1>5, <3>4
    <3> QED
      BY <3>5, <3>6, <3>7
  <2> QED
    BY <2>2, <2>3
<1> HIDE DEF entries, Bs, R
<1>12. Paired(FlattenSeq(entries), Entry, UNION {Bs[i] : i \in 1 .. n}, R)
  <2>1. \A i \in 1 .. Len(entries) : Paired(entries[i], Entry, Bs[i], R)
    BY <1>8, <1>9
  <2>2. \A j \in 1 .. Len(entries) : \A i \in 1 .. j - 1 : Bs[i] \cap Bs[j] = {}
    BY <1>9, <1>10
  <2>3. Paired(FlattenSeq(entries), Entry, UNION {Bs[i] : i \in 1 .. Len(entries)}, R)
    BY <1>9, <2>1, <2>2, PairedFlat
  <2> QED
    BY <1>9, <2>3
<1>13. LevelEntries(d) = FlattenSeq(entries)
  BY <1>9, Joined DEF LevelEntries, entries, level, path
<1> QED
  BY <1>11, <1>12, <1>13 DEF R

(* The suggestions of the levels above, and those of the next one. *)
Covers(owns, d, taken) ==
  LET above == UNION {Finished(owns, i) : i \in 1 .. d}
      next  == AllOf(levels[d + 1], owns[d + 1])
  IN  above \cap next = {} /\ above \cup next = taken

LEMMA LevelsCover ==
  ASSUME Inv, NEW owns, LevelsHold(input, pos, levels, owns)
  PROVE  \A d \in Nat : d < Len(levels) => Covers(owns, d, 1 .. pos)
<1> DEFINE P == {d \in Nat : d < Len(levels) => Covers(owns, d, 1 .. pos)}
           all(d) == AllOf(levels[d], owns[d])
           above(d) == UNION {Finished(owns, i) : i \in 1 .. d}
<1>1. Len(levels) \in Nat
  BY LenProperties DEF Inv, TypeOK
<1>2. 0 \in P
  <2>1. above(0) = {} /\ 0 + 1 = 1
    OBVIOUS
  <2>2. all(1) = 1 .. pos
    BY DEF LevelsHold
  <2> QED
    BY <2>1, <2>2 DEF Covers
<1>3. ASSUME NEW i \in P PROVE i + 1 \in P
  <2> DEFINE d == i + 1
  <2> SUFFICES ASSUME d < Len(levels) PROVE Covers(owns, d, 1 .. pos)
    OBVIOUS
  <2>1. /\ i \in Nat /\ i < Len(levels) /\ d \in 1 .. Len(levels)
        /\ d # Len(levels)
    BY <1>1
  <2>2. above(i) \cap all(d) = {} /\ above(i) \cup all(d) = 1 .. pos
    BY <2>1 DEF Covers
  <2>3. above(d) = above(i) \cup Finished(owns, d)
    <3>1. \A k : k \in 1 .. d <=> k \in 1 .. i \/ k = d
      BY <2>1
    <3> HIDE DEF d
    <3> QED
      BY <3>1
  <2> DEFINE open == owns[d][Len(levels[d])]
  <2>4. Finished(owns, d) = all(d) \ open
    BY <2>1 DEF Finished
  <2>5. open \subseteq all(d)
    <3>1. Len(levels[d]) \in 1 .. Len(levels[d])
      <4>1. levels[d] \in Seq(Range(levels[d])) /\ levels[d] # <<>>
        BY <2>1 DEF Inv, TypeOK
      <4>2. Len(levels[d]) \in Nat \ {0}
        BY <4>1, EmptySeq
      <4> QED
        BY <4>2
    <3> HIDE DEF d
    <3> QED
      BY <3>1 DEF AllOf
  <2>6. open = all(d + 1)
    BY <2>1 DEF LevelsHold
  <2> HIDE DEF open, above, all
  <2>7. above(d) \cap all(d + 1) = {} /\ above(d) \cup all(d + 1) = 1 .. pos
    BY <2>2, <2>3, <2>4, <2>5, <2>6
  <2> QED
    BY <2>7 DEF Covers, above, all
<1>4. P = Nat
  <2>1. P \subseteq Nat
    OBVIOUS
  <2> HIDE DEF P
  <2> QED
    BY <1>2, <1>3, <2>1, AllNumbers
<1> QED
  BY <1>4

(* While the trie is being built the levels hold the suggestions taken so   *)
(* far, each as often as it has come, and nothing else.                     *)
LEMMA LevelsContent ==
  ASSUME Inv, Contents, pc \in {"next", "merge"}
  PROVE  Content = BagFrom(input, 1 .. pos)
<1> DEFINE entries == [d \in DOMAIN levels |-> LevelEntries(d)]
           n == Len(levels)
           R == IsEntryOf(input, 1 .. pos)
           all == JoinAll[entries]
<1>1. /\ n \in Nat /\ DOMAIN levels = 1 .. n /\ pos \in Nat
      /\ \A d \in 1 .. n : levels[d] \in Seq(Range(levels[d]))
  BY InputTyped, LenProperties DEF Inv, TypeOK
<1>2. OpenPath
  BY DEF Inv, Spine
<1>3. ASSUME NEW Bs, \A d \in 1 .. n : Paired(LevelEntries(d), Entry, Bs[d], R),
             \A j \in 1 .. n : \A i \in 1 .. j - 1 : Bs[i] \cap Bs[j] = {},
             UNION {Bs[d] : d \in 1 .. n} = 1 .. pos
      PROVE  Paired(all, Entry, 1 .. pos, R)
  <2>1. \A d \in 1 .. n : entries[d] = LevelEntries(d)
    BY <1>1
  <2>2. \A d \in 1 .. n : entries[d] \in Seq(Entry)
    BY <1>3, <2>1 DEF Paired, Pairs
  <2>3. entries \in [1 .. n -> Seq(Entry)]
    BY <1>1, <2>2
  <2> HIDE DEF entries, n, R
  <2>4. entries \in Seq(Seq(Entry)) /\ Len(entries) = n
    BY <1>1, <2>3, FunctionIsSeq
  <2>5. \A d \in 1 .. Len(entries) : Paired(entries[d], Entry, Bs[d], R)
    BY <1>3, <2>1, <2>4
  <2>6. \A j \in 1 .. Len(entries) : \A i \in 1 .. j - 1 : Bs[i] \cap Bs[j] = {}
    BY <1>3, <2>4
  <2>7. Paired(FlattenSeq(entries), Entry, UNION {Bs[d] : d \in 1 .. Len(entries)}, R)
    BY <2>4, <2>5, <2>6, PairedFlat
  <2>8. all = FlattenSeq(entries)
    BY <2>4, Joined
  <2> QED
    BY <1>3, <2>4, <2>7, <2>8
<1>4. Paired(all, Entry, 1 .. pos, R)
  <2>1. CASE pos = 0
    <3>1. n = 0 /\ 1 .. pos = {}
      BY <1>2, <2>1 DEF OpenPath
    <3> DEFINE Bs == [d \in {} |-> d]
    <3>2. UNION {Bs[d] : d \in 1 .. n} = 1 .. pos
      BY <3>1
    <3>3. \A d \in 1 .. n : FALSE
      BY <3>1
    <3> HIDE DEF Bs, n, R, all
    <3> QED
      BY <1>3, <3>2, <3>3
  <2>2. CASE pos # 0
    <3>1. PICK owns : LevelsHold(input, pos, levels, owns)
      BY <1>1, <2>2 DEF Contents
    <3> DEFINE Bs == [d \in 1 .. n |-> Finished(owns, d)]
    <3>2. n \in Nat \ {0}
      <4>1. levels # <<>>
        <5>1. pos > 0
          BY <1>1, <2>2
        <5> HIDE <2>2
        <5> QED
          BY <1>2, <5>1 DEF OpenPath
      <4>2. levels \in Seq(Range(levels))
        BY DEF Inv, TypeOK
      <4> QED
        BY <1>1, <4>1, <4>2, EmptySeq
    <3>3. \A d \in 1 .. n : Bs[d] = Finished(owns, d)
      OBVIOUS
    <3> HIDE DEF Bs
    <3>4. \A d \in 1 .. n : Paired(LevelEntries(d), Entry, Bs[d], R)
      <4> SUFFICES ASSUME NEW d \in 1 .. n
                   PROVE  Paired(LevelEntries(d), Entry, Bs[d], R)
        OBVIOUS
      <4>1. Paired(LevelEntries(d), Entry, Finished(owns, d), R)
        BY <3>1, LevelListed
      <4> QED
        BY <3>3, <4>1
    <3>5. ASSUME NEW j \in 1 .. n
          PROVE  /\ Covers(owns, j - 1, 1 .. pos)
                 /\ (j - 1) + 1 = j
                 /\ Finished(owns, j) \subseteq AllOf(levels[j], owns[j])
      <4> DEFINE h == j - 1
      <4>1. h \in Nat /\ h < n /\ h + 1 = j
        BY <1>1
      <4> HIDE DEF h
      <4>2. Covers(owns, h, 1 .. pos)
        BY <3>1, <4>1, LevelsCover
      <4> QED
        BY <4>1, <4>2 DEF h, Finished
    <3>6. \A j \in 1 .. n : \A i \in 1 .. j - 1 : Bs[i] \cap Bs[j] = {}
      <4> SUFFICES ASSUME NEW j \in 1 .. n, NEW i \in 1 .. j - 1
                   PROVE  Bs[i] \cap Bs[j] = {}
        OBVIOUS
      <4> DEFINE h == j - 1
                 mine == AllOf(levels[j], owns[j])
                 above == UNION {Finished(owns, k) : k \in 1 .. h}
      <4>1. Covers(owns, h, 1 .. pos) /\ h + 1 = j /\ i \in 1 .. h
        BY <3>5
      <4> HIDE DEF h
      <4>2. above \cap mine = {}
        <5>1. above \cap AllOf(levels[h + 1], owns[h + 1]) = {}
          BY <4>1 DEF Covers
        <5> QED
          BY <4>1, <5>1
      <4>7. Finished(owns, i) \subseteq above
        BY <4>1
      <4> HIDE DEF above, mine
      <4>3. Finished(owns, i) \cap mine = {}
        BY <4>2, <4>7
      <4>4. i \in 1 .. n
        BY <1>1
      <4>5. Bs[i] = Finished(owns, i) /\ Bs[j] = Finished(owns, j)
        BY <3>3, <4>4
      <4>6. Finished(owns, j) \subseteq mine
        BY <3>5 DEF mine
      <4> QED
        BY <4>3, <4>5, <4>6
    <3>7. UNION {Bs[d] : d \in 1 .. n} = 1 .. pos
      <4>1. n \in 1 .. n
        BY <3>2
      <4> DEFINE h == n - 1
                 mine == AllOf(levels[n], owns[n])
                 above == UNION {Finished(owns, k) : k \in 1 .. h}
      <4>2. Covers(owns, h, 1 .. pos) /\ h + 1 = n /\ h \in Nat
        BY <3>2, <3>5, <4>1
      <4>3. Bs[n] = mine
        BY <3>3, <4>1 DEF Finished
      <4>4. \A k : k \in 1 .. n <=> k \in 1 .. h \/ k = n
        BY <3>2
      <4> HIDE DEF h, n
      <4>5. above \cup mine = 1 .. pos
        BY <4>2 DEF Covers
      <4>6. \A k \in 1 .. h : Bs[k] = Finished(owns, k)
        BY <3>3, <4>4
      <4>7. above = UNION {Bs[k] : k \in 1 .. h}
        BY <4>6
      <4> HIDE DEF mine, above
      <4> QED
        BY <4>3, <4>4, <4>5, <4>7
    <3> HIDE DEF n, R, all
    <3> QED
      BY <1>3, <3>4, <3>6, <3>7
  <2> QED
    BY <2>1, <2>2
<1>5. Content = BagOf[all]
  BY DEF Content
<1> HIDE DEF all
<1>6. BagOf[all] = BagFrom(input, 1 .. pos)
  BY <1>4, BagIsThatOf DEF R
<1> QED
  BY <1>5, <1>6

(* The finished trie holds the input. *)
LEMMA TrieContentIs ==
  ASSUME Inv, Contents, pc = "done"
  PROVE  Content = BagFrom(input, 1 .. pos)
<1> DEFINE R == IsEntryOf(input, 1 .. pos)
           entries == Entries(trie)
<1>1. HoldsInput(input, trie) /\ pos = Len(suggestions) /\ IsInput(input)
  BY InputIsTyped DEF Contents
<1>2. DOMAIN input.suggestions = 1 .. pos /\ pos \in Nat
  BY <1>1, LenProperties DEF IsInput, suggestions
<1>3. Paired(entries, Entry, 1 .. pos, R)
  <2>1. CASE suggestions = <<>>
    <3>1. trie = LeafRootHeader /\ 1 .. pos = {}
      BY <1>1, <2>1 DEF HoldsInput, suggestions
    <3>2. entries = <<>>
      BY <3>1, EmptyRootSeen DEF Entries
    <3> QED
      BY <3>1, <3>2, PairedNothing
  <2>2. CASE suggestions # <<>>
    <3> DEFINE none == <<>>
               root == Root(trie)
               zero == 0
    <3>1. PICK notes : IsTrieOf(input, trie, notes)
      BY <1>1, <2>2 DEF HoldsInput, suggestions
    <3>2. IsRead(input, trie, notes)
      BY <3>1, TrieIsRead
    <3>3. /\ root \in NodeView /\ root.data = 1 /\ ~IsLeaf(trie, root)
          /\ 2 \in DOMAIN notes /\ VisitChildren(trie, root) = PosAt(notes, 2)
          /\ notes[2].depth = 0 /\ notes[2].on = DOMAIN input.suggestions
      BY <3>1, RootChildren
    <3>4. /\ AtNode(Only(root)) /\ Label(trie, root) = <<>>
          /\ NodeWidth(trie[root.data]) \in Nat
      <4>1. trie[1] = RootHead
        BY <3>1 DEF IsTrieOf
      <4> QED
        BY <3>3, <4>1, RootBytes DEF AtNode, Only, NullAddress, Label, RootHead
    <3>5. entries = LeavesBelow(trie, root, none)
      BY <3>3 DEF Entries
    <3>6. none \in Seq(Char) /\ none \o none = none /\ Len(none) = zero
          /\ Label(trie, root) = none
      BY <3>4, EmptySeq, ConcatEmptySeq
    <3> HIDE DEF none, root, zero
    <3>7. Paired(LeavesBelow(trie, root, none), Entry, notes[2].on,
                 Ends(input, none \o Label(trie, root), notes[2].depth))
      BY <1>1, <3>2, <3>3, <3>4, <3>6, ChildrenListed
    <3>8. Paired(entries, Entry, 1 .. pos, Ends(input, none, zero))
      BY <1>2, <3>3, <3>5, <3>6, <3>7 DEF zero
    <3>9. ASSUME NEW x \in Entry, NEW k \in 1 .. pos, <<x, k>> \in Ends(input, none, zero)
          PROVE  <<x, k>> \in R
      <4>1. x = EndIn(input, none, zero, k)
        BY <3>9 DEF Ends
      <4>2. Spells(input, k, 0, none)
        <5>1. Len(input.suggestions[k]) \in Nat
          BY <1>1, <1>2, SuggestionTyped
        <5> QED
          BY <3>6, <5>1 DEF Spells, zero, none
      <4>3. none \o Rest(input, k, Len(none)) = input.suggestions[k]
        BY <1>1, <1>2, <3>6, <4>2, SpelledThenRest
      <4>4. x = EntryIn(input, k)
        BY <3>6, <4>1, <4>3 DEF EndIn, EntryIn
      <4> QED
        BY <4>4 DEF IsEntryOf
    <3> HIDE DEF R, entries
    <3> QED
      BY <3>8, <3>9, PairedBy
  <2> QED
    BY <2>1, <2>2
<1>4. Content = BagOf[entries]
  BY DEF Content
<1> HIDE DEF entries
<1>5. BagOf[entries] = BagFrom(input, 1 .. pos)
  BY <1>3, BagIsThatOf DEF R
<1> QED
  BY <1>4, <1>5

-----------------------------------------------------------------------------
(* The rank of a node is the least below it.                               *)

(* The least rank of the ends of suggestions. *)
LEMMA LeastOfEnds ==
  ASSUME NEW in, NEW entries, NEW B, NEW p, NEW depth,
         Paired(entries, Entry, B, Ends(in, p, depth)),
         NEW rank, \A k \in B : rank <= in.ranks[k],
         \E k \in B : in.ranks[k] = rank
  PROVE  Least(entries) = rank
<1> DEFINE R == Ends(in, p, depth)
           n == Len(entries)
           S == {entries[i].rank : i \in DOMAIN entries}
<1>1. PICK f : Pairs(entries, Entry, B, R, f)
  BY DEF Paired
<1> HIDE DEF R
<1>2. /\ n \in Nat /\ DOMAIN entries = 1 .. n
      /\ \A i \in 1 .. n : entries[i] \in Entry /\ f[i] \in B
  BY <1>1, PairsIntoRange
<1>3. ASSUME NEW i \in 1 .. n
      PROVE  entries[i].rank = in.ranks[f[i]] /\ entries[i].rank \in Nat
  <2>1. <<entries[i], f[i]>> \in R
    BY <1>1 DEF Pairs
  <2>2. entries[i] = EndIn(in, p, depth, f[i])
    BY <2>1 DEF R, Ends
  <2>3. entries[i].rank \in Nat
    BY <1>2 DEF Entry
  <2> QED
    BY <2>2, <2>3 DEF EndIn
<1>4. PICK i \in 1 .. n : in.ranks[f[i]] = rank
  <2>1. \A k \in B : \E i \in 1 .. n : f[i] = k
    BY <1>1 DEF Pairs
  <2> QED
    BY <2>1
<1> HIDE DEF n
<1>5. S \subseteq Nat /\ rank \in S
  BY <1>2, <1>3, <1>4
<1>6. \A m \in S : rank <= m
  BY <1>2, <1>3
<1> HIDE DEF S
<1>7. Min(S) = rank
  BY <1>5, <1>6, SmallestNumber
<1> QED
  BY <1>7 DEF Least, S

(* The first half of RankIsLeast, while the trie is being built. *)
LevelsLeast ==
  \A depth \in DOMAIN levels : \A j \in DOMAIN levels[depth] :
    LET node == levels[depth][j]
    IN  node.sub # <<>> => node.rank = Least(NodeEntries(node, <<>>))

LEMMA RanksWhileBuilding ==
  Inv /\ Contents /\ pc \in {"next", "merge"} => LevelsLeast
<1> SUFFICES ASSUME Inv, Contents, pc \in {"next", "merge"},
                    NEW d \in DOMAIN levels, NEW j \in DOMAIN levels[d],
                    levels[d][j].sub # <<>>
             PROVE  levels[d][j].rank = Least(NodeEntries(levels[d][j], <<>>))
  BY DEF LevelsLeast
<1> DEFINE node == levels[d][j]
           none == <<>>
           n == Len(levels)
           h == d - 1
<1>1. /\ IsInput(input) /\ n \in Nat /\ DOMAIN levels = 1 .. n /\ pos \in Nat
      /\ levels[d] \in Seq(Range(levels[d]))
  <2>1. n \in Nat /\ DOMAIN levels = 1 .. n
    BY LenProperties DEF Inv, TypeOK
  <2>2. pos \in Nat
    BY InputTyped DEF Inv, TypeOK
  <2> QED
    BY <2>1, <2>2, InputIsTyped DEF Inv, TypeOK
<1>2. Len(levels[d]) \in Nat /\ j \in 1 .. Len(levels[d])
  BY <1>1, LenProperties
<1>3. OpenPath
  BY DEF Inv, Spine
<1>4. pos > 0
  <2>1. CASE pos = 0
    <3>1. n = 0
      BY <1>3, <2>1 DEF OpenPath
    <3> QED
      BY <1>1, <3>1
  <2> QED
    BY <1>1, <2>1
<1>5. PICK owns : LevelsHold(input, pos, levels, owns)
  BY <1>4 DEF Contents
<1>6. d = n \/ j < Len(levels[d])
  <2> SUFFICES ASSUME d # n, ~(j < Len(levels[d])) PROVE FALSE
    OBVIOUS
  <2>1. d \in 1 .. n - 1
    BY <1>1
  <2>2. j = Len(levels[d])
    BY <1>2
  <2>3. Last(levels[d]) = InternalNode(Previous[d])
    BY <1>3, <2>1 DEF OpenPath
  <2> QED
    BY <2>2, <2>3 DEF Last, InternalNode
<1>7. Holds(input, node, h, owns[d][j])
  BY <1>1, <1>2, <1>5, <1>6 DEF LevelsHold
<1>8. h \in Nat /\ none \in Seq(Char)
  BY <1>1, EmptySeq
<1> HIDE DEF h, none, node
<1>9. Paired(NodeEntries(node, none), Entry, owns[d][j], Ends(input, none, h))
  BY <1>1, <1>7, <1>8, HeldListed
<1>10. /\ \A k \in owns[d][j] : node.rank <= input.ranks[k]
       /\ \E k \in owns[d][j] : input.ranks[k] = node.rank
  BY <1>7 DEF Holds, Carries
<1>11. Least(NodeEntries(node, none)) = node.rank
  BY <1>9, <1>10, LeastOfEnds
<1> QED
  BY <1>11 DEF node, none

(* The second half, once it is built. *)
LEMMA RanksOnceBuilt ==
  ASSUME Inv, Contents, pc = "done",
         NEW node \in NodesBelow(trie, Root(trie)),
         ~IsLeaf(trie, node), node.data # 1
  PROVE  node.rank = Least(LeavesBelow(trie, node, <<>>))
<1>1. HoldsInput(input, trie) /\ IsInput(input)
  BY InputIsTyped DEF Contents
<1>2. suggestions # <<>>
  <2> SUFFICES ASSUME suggestions = <<>> PROVE FALSE
    OBVIOUS
  <2>1. trie = LeafRootHeader
    BY <1>1 DEF HoldsInput, suggestions
  <2>2. node = Root(LeafRootHeader)
    BY <2>1, NodesOfNothing
  <2> QED
    BY <2>1, <2>2, EmptyRootSeen
<1>3. PICK notes : IsTrieOf(input, trie, notes)
  BY <1>1, <1>2 DEF HoldsInput, suggestions
<1>4. IsRead(input, trie, notes)
  BY <1>3, TrieIsRead
<1>5. PICK a \in DOMAIN notes : node = NodeAt(notes, a)
  <2>1. node \in {Root(trie)} \cup {NodeAt(notes, a) : a \in DOMAIN notes}
    BY <1>3, NodesOfTrie
  <2>2. Root(trie).data = 1
    BY <1>3, RootChildren
  <2> QED
    BY <2>1, <2>2
<1> DEFINE c == a + notes[a].kids
           none == <<>>
<1>6. /\ NodeAt(notes, a) \in NodeView /\ Label(trie, node) = trie[a].label
      /\ ~trie[a].leaf /\ AtNode(PosAt(notes, a))
  BY <1>4, <1>5, PositionsAreTyped
<1>7. /\ c \in DOMAIN notes
      /\ Begins(trie[c], notes[c], notes[a].rank,
                notes[a].depth + Len(trie[a].label), notes[a].below)
      /\ VisitChildren(trie, node) = PosAt(notes, c)
  BY <1>4, <1>5, <1>6, ChildrenNoted
<1>8. /\ a \in Nat /\ a \in 2 .. Len(trie) /\ trie[a].label \in Seq(Char)
      /\ NodeWidth(trie[a]) \in Nat /\ Fits(input, trie[a], notes[a])
  BY <1>4, NotedNode
<1>9. /\ node.data = a /\ node.rank = notes[a].rank /\ node \in NodeView
      /\ Label(trie, node) \in Seq(Char)
  BY <1>5, <1>6, <1>8 DEF NodeAt
<1>10. AtNode(Only(node))
  BY <1>8, <1>9 DEF AtNode, Only, NullAddress
<1>11. none \in Seq(Char)
  BY EmptySeq
<1> HIDE DEF c, none
<1>12. notes[c].on = notes[a].below
  BY <1>7 DEF Begins
<1>13. Paired(LeavesBelow(trie, node, none), Entry, notes[a].below,
              Ends(input, none \o Label(trie, node), notes[c].depth))
  BY <1>1, <1>4, <1>7, <1>8, <1>9, <1>10, <1>11, <1>12, ChildrenListed
<1>14. /\ \A k \in notes[a].below : node.rank <= input.ranks[k]
       /\ \E k \in notes[a].below : input.ranks[k] = node.rank
  BY <1>8, <1>9 DEF Fits, Carries
<1>15. Least(LeavesBelow(trie, node, none)) = node.rank
  BY <1>13, <1>14, LeastOfEnds
<1> QED
  BY <1>15 DEF none

(* Every node, unfinished or serialised, carries the least rank found      *)
(* below it.                                                               *)
THEOREM LeastRank == Spec => []RankIsLeast
<1>1. Init => LevelsLeast
  <2> SUFFICES ASSUME Init PROVE LevelsLeast
    OBVIOUS
  <2>1. DOMAIN levels = {}
    BY DEF Init
  <2> QED
    BY <2>1 DEF LevelsLeast
<1>2. Inv /\ Contents /\ pc \in {"next", "merge"} => LevelsLeast
  BY RanksWhileBuilding
<1>3. Inv /\ LevelsLeast /\ [Next]_vars => (pc \in {"next", "merge"})' \/ LevelsLeast'
  <2> SUFFICES ASSUME Inv, LevelsLeast, [Next]_vars
               PROVE  pc' \in {"next", "merge"} \/ LevelsLeast'
    OBVIOUS
  <2>1. pc' \in {"next", "merge"} \/ levels' = levels
    BY DEF Next, ThrowSizes, Throw, NextSuggestion, MergeLevel, Extend,
           LastMerge, MakeRoot, BuildEmpty, vars, Inv, TypeOK
  <2>2. CASE levels' = levels
    BY <2>2 DEF LevelsLeast
  <2> QED
    BY <2>1, <2>2
<1>4. Inv /\ Contents /\ LevelsLeast => RankIsLeast
  BY RanksOnceBuilt DEF RankIsLeast, LevelsLeast
<1> QED
  BY <1>1, <1>2, <1>3, <1>4, Invariant, ContentsHold, PTL DEF Spec

-----------------------------------------------------------------------------
(* Building a trie keeps the promise.                                      *)

(* The entries after the first p of m. *)
Remaining(in, m, p) == [i \in 1 .. m - p |-> EntryIn(in, p + i)]

LEMMA RemainingGoOn ==
  ASSUME NEW in, NEW m \in Nat, NEW p \in Nat, p < m
  PROVE  /\ Remaining(in, m, p) # <<>>
         /\ Head(Remaining(in, m, p)) = EntryIn(in, p + 1)
         /\ Tail(Remaining(in, m, p)) = Remaining(in, m, p + 1)
<1> DEFINE n == m - p
           S == {EntryIn(in, k) : k \in Nat}
           left == Remaining(in, m, p)
           next == Remaining(in, m, p + 1)
<1>1. n \in Nat \ {0} /\ m - (p + 1) = n - 1 /\ n - 1 \in Nat
  BY DEF n
<1>2. left = [i \in 1 .. n |-> EntryIn(in, p + i)]
  BY DEF Remaining
<1>3. next = [i \in 1 .. n - 1 |-> EntryIn(in, (p + 1) + i)]
  BY <1>1 DEF Remaining
<1> HIDE DEF n, left, next
<1>4. \A i \in 1 .. n : EntryIn(in, p + i) \in S
  BY <1>1
<1> HIDE DEF S
<1>5. left \in [1 .. n -> S]
  BY <1>2, <1>4
<1>6. left \in Seq(S) /\ Len(left) = n
  BY <1>1, <1>5, FunctionIsSeq
<1>7. left # <<>>
  BY <1>1, <1>6, EmptySeq
<1>8. Head(left) = left[1] /\ left[1] = EntryIn(in, p + 1)
  BY <1>1, <1>2, <1>6, <1>7
<1>9. Tail(left) = next
  <2> DEFINE tail == Tail(left)
  <2>1. tail \in Seq(S) /\ Len(tail) = n - 1 /\ \A i \in 1 .. n - 1 : tail[i] = left[i + 1]
    BY <1>6, <1>7, HeadTailProperties
  <2> HIDE DEF tail
  <2>3. tail \in [1 .. n - 1 -> S]
    BY <2>1, LenProperties
  <2>2. \A i \in 1 .. n - 1 : left[i + 1] = EntryIn(in, (p + 1) + i)
    <3> SUFFICES ASSUME NEW i \in 1 .. n - 1
                 PROVE  left[i + 1] = EntryIn(in, (p + 1) + i)
      OBVIOUS
    <3> DEFINE j == i + 1
    <3>1. j \in 1 .. n /\ p + j = (p + 1) + i
      BY <1>1
    <3> HIDE DEF j
    <3>2. left[j] = EntryIn(in, p + j)
      BY <1>2, <3>1
    <3> QED
      BY <3>1, <3>2 DEF j
  <2> QED
    BY <1>3, <2>1, <2>2, <2>3 DEF tail
<1> QED
  BY <1>7, <1>8, <1>9 DEF left, next

LEMMA NothingRemains ==
  ASSUME NEW in, NEW m \in Nat
  PROVE  Remaining(in, m, m) = <<>>
<1> DEFINE left == Remaining(in, m, m)
<1>1. left = [i \in 1 .. 0 |-> EntryIn(in, m + i)]
  BY DEF Remaining
<1> HIDE DEF left
<1>2. left \in [1 .. 0 -> {}]
  BY <1>1
<1>3. left \in Seq({}) /\ Len(left) = 0
  BY <1>2, FunctionIsSeq
<1> QED
  BY <1>3, EmptySeq DEF left

Shorter == IF Len(suggestions) <= Len(ranks) THEN Len(suggestions) ELSE Len(ranks)

LEMMA LeftRemains ==
  Inv => /\ Shorter \in Nat /\ pos \in Nat /\ pos + 1 \in Nat
         /\ Len(suggestions) \in Nat /\ Len(ranks) \in Nat
         /\ Left = Remaining(input, Shorter, pos)
         /\ Min({Len(suggestions), Len(ranks)}) = Shorter
<1> SUFFICES ASSUME Inv
             PROVE  /\ Shorter \in Nat /\ pos \in Nat /\ pos + 1 \in Nat
                    /\ Len(suggestions) \in Nat /\ Len(ranks) \in Nat
                    /\ Left = Remaining(input, Shorter, pos)
                    /\ Min({Len(suggestions), Len(ranks)}) = Shorter
  OBVIOUS
<1> DEFINE S == {Len(suggestions), Len(ranks)}
<1>1. Len(suggestions) \in Nat /\ Len(ranks) \in Nat
  BY LenProperties DEF Inv, TypeOK
<1>2. pos \in Nat /\ pos + 1 \in Nat
  BY <1>1 DEF Inv, TypeOK
<1>3. S \subseteq Nat /\ Shorter \in S /\ \A n \in S : Shorter <= n
  BY <1>1 DEF Shorter
<1> HIDE DEF S
<1>4. Min(S) = Shorter
  BY <1>3, SmallestNumber
<1>5. Left = Remaining(input, Shorter, pos)
  BY <1>4 DEF Left, Remaining, EntryIn, S, suggestions, ranks
<1>6. Shorter \in Nat
  BY <1>3
<1> QED
  BY <1>1, <1>2, <1>4, <1>5, <1>6 DEF S

(* What the levels, or the trie, hold. *)
Gives == pc \in {"next", "merge", "done"} => Content = BagFrom(input, 1 .. pos)

LEMMA AllGiven == Inv /\ Contents => Gives
BY LevelsContent, TrieContentIs DEF Gives

LEMMA PromiseStarts == Init /\ Gives => Promise!Init
<1> SUFFICES ASSUME Init, Gives PROVE Promise!Init
  OBVIOUS
<1>1. pc = "next" /\ 1 .. pos = {}
  BY DEF Init
<1>2. Content = BagFrom(input, {})
  BY <1>1 DEF Gives
<1>3. BagFrom(input, {}) = Promise!EmptyBag
  BY DEF BagFrom, Promise!EmptyBag, Promise!SetToBag
<1> QED
  BY <1>1, <1>2, <1>3 DEF Promise!Init

(* Nothing is added or delivered. *)
LEMMA PromiseStays ==
  ASSUME input' = input, pos' = pos, pc # "done", pc' # "done", Content' = Content
  PROVE  UNCHANGED Promise!vars
BY DEF Promise!vars, Left, suggestions, ranks

LEMMA PromiseAfterThrow ==
  ASSUME pc # "done", NEW what, Throw(what)
  PROVE  UNCHANGED Promise!vars
<1>1. /\ pc' = "failed" /\ input' = input /\ pos' = pos /\ levels' = levels
  BY DEF Throw
<1>2. Content' = Content
  BY <1>1 DEF Content, LevelEntries, PathTo
<1> QED
  BY <1>1, <1>2, PromiseStays

LEMMA PromiseWhileMerging ==
  ASSUME Gives, Gives', pc \in {"next", "merge"}, pc' \in {"next", "merge"},
         input' = input, pos' = pos
  PROVE  UNCHANGED Promise!vars
<1>1. Content' = Content
  BY DEF Gives
<1> QED
  BY <1>1, PromiseStays

LEMMA PromiseAdds ==
  ASSUME Inv, Inv', Gives, Gives', Extend
  PROVE  Promise!Add
<1> DEFINE x == EntryIn(input, pos + 1)
<1>1. /\ pc = "merge" /\ pc' = "next" /\ input' = input /\ pos' = pos + 1
      /\ pos < Len(suggestions)
  BY DEF Extend
<1>2. pos < Len(ranks)
  BY <1>1 DEF Inv, Spine, RangesInStep
<1>3. /\ Shorter \in Nat /\ pos \in Nat /\ Left = Remaining(input, Shorter, pos)
      /\ Len(suggestions) \in Nat /\ Len(ranks) \in Nat
      /\ Min({Len(suggestions), Len(ranks)}) = Shorter
  BY LeftRemains
<1>4. Left' = Remaining(input, Shorter, pos + 1)
  BY <1>1, <1>3 DEF Left, Remaining, EntryIn, suggestions, ranks
<1>5. pos < Shorter
  BY <1>1, <1>2, <1>3 DEF Shorter
<1>6. Left # <<>> /\ Head(Left) = x /\ Tail(Left) = Left'
  BY <1>3, <1>4, <1>5, RemainingGoOn
<1>7. Content = BagFrom(input, 1 .. pos) /\ Content' = BagFrom(input, 1 .. pos + 1)
  BY <1>1 DEF Gives
<1>8. Content' = Content (+) SetToBag({x})
  BY <1>3, <1>7, BagGrows
<1> HIDE DEF x
<1>9. Content' = Promise!(+)(Content, Promise!SetToBag({x}))
  BY <1>8 DEF (+), SetToBag, Promise!(+), Promise!SetToBag
<1> QED
  BY <1>1, <1>6, <1>9 DEF Promise!Add

LEMMA PromiseDelivers ==
  ASSUME Inv, Gives, Gives', pc \in {"next", "merge"}, pc' = "done",
         input' = input, pos' = pos,
         pos = Len(suggestions), suggestions = <<>> \/ pos = Len(ranks)
  PROVE  Promise!Deliver
<1>1. Content' = Content
  BY DEF Gives
<1>2. Left' = Left
  BY DEF Left, suggestions, ranks
<1>3. /\ Shorter \in Nat /\ pos \in Nat /\ Left = Remaining(input, Shorter, pos)
      /\ Len(suggestions) \in Nat /\ Len(ranks) \in Nat
  BY LeftRemains
<1>4. pos = Shorter
  <2>1. suggestions = <<>> => Len(suggestions) = 0
    OBVIOUS
  <2> QED
    BY <1>3, <2>1 DEF Shorter
<1>5. Left = <<>>
  BY <1>3, <1>4, NothingRemains
<1> QED
  BY <1>1, <1>2, <1>5 DEF Promise!Deliver

LEMMA PromiseKept ==
  Inv /\ Inv' /\ Gives /\ Gives' /\ [Next]_vars => [Promise!Next]_(Promise!vars)
<1> SUFFICES ASSUME Inv, Inv', Gives, Gives', [Next]_vars
             PROVE  Promise!Next \/ UNCHANGED Promise!vars
  OBVIOUS
<1>1. CASE ThrowSizes
  BY <1>1, PromiseAfterThrow DEF ThrowSizes
<1>2. CASE NextSuggestion
  BY <1>2, PromiseWhileMerging DEF NextSuggestion
<1>3. CASE MergeLevel
  <2>1. pc = "merge"
    BY <1>3 DEF MergeLevel
  <2>2. \/ \E what : Throw(what)
        \/ pc' = pc /\ input' = input /\ pos' = pos
    BY <1>3 DEF MergeLevel
  <2>3. CASE \E what : Throw(what)
    BY <2>1, <2>3, PromiseAfterThrow
  <2>4. CASE pc' = pc /\ input' = input /\ pos' = pos
    BY <2>1, <2>4, PromiseWhileMerging
  <2> QED
    BY <2>2, <2>3, <2>4
<1>4. CASE Extend
  BY <1>4, PromiseAdds DEF Promise!Next
<1>5. CASE LastMerge
  BY <1>5, PromiseWhileMerging DEF LastMerge
<1>6. CASE MakeRoot
  <2>1. pc = "merge" /\ pos = Len(suggestions)
    BY <1>6 DEF MakeRoot
  <2>2. \/ \E what : Throw(what)
        \/ pc' = "done" /\ input' = input /\ pos' = pos
    BY <1>6 DEF MakeRoot
  <2>3. CASE \E what : Throw(what)
    BY <2>1, <2>3, PromiseAfterThrow
  <2>4. CASE pc' = "done" /\ input' = input /\ pos' = pos
    <3>1. pos = Len(ranks)
      BY <2>1 DEF Inv, Spine, RangesInStep
    <3> QED
      BY <2>1, <2>4, <3>1, PromiseDelivers DEF Promise!Next
  <2> QED
    BY <2>2, <2>3, <2>4
<1>7. CASE BuildEmpty
  <2>1. /\ pc = "next" /\ pc' = "done" /\ input' = input /\ pos' = pos
        /\ suggestions = <<>>
    BY <1>7 DEF BuildEmpty
  <2>2. pos = Len(suggestions)
    BY <2>1 DEF Inv, TypeOK
  <2> QED
    BY <2>1, <2>2, PromiseDelivers DEF Promise!Next
<1>8. CASE UNCHANGED vars
  <2>1. /\ input' = input /\ pos' = pos /\ pc' = pc /\ levels' = levels
        /\ trie' = trie
    BY <1>8 DEF vars
  <2>2. Content' = Content /\ Left' = Left
    BY <2>1 DEF Content, LevelEntries, PathTo, Left, suggestions, ranks
  <2> QED
    BY <2>1, <2>2 DEF Promise!vars
<1> QED
  BY <1>1, <1>2, <1>3, <1>4, <1>5, <1>6, <1>7, <1>8 DEF Next

(* Every step of the builder adds the next suggestion to what the levels    *)
(* hold, delivers the trie, which holds the input, or changes nothing that  *)
(* is held: the builder implements SuggestionBag.                           *)
THEOREM PromiseHolds == Spec => Implements
<1>1. Init /\ Gives => Promise!Init
  BY PromiseStarts
<1>2. Inv /\ Contents => Gives
  BY AllGiven
<1>3. Inv /\ Inv' /\ Gives /\ Gives' /\ [Next]_vars => [Promise!Next]_(Promise!vars)
  BY PromiseKept
<1> QED
  BY <1>1, <1>2, <1>3, Invariant, ContentsHold, PTL
  DEF Spec, Implements, Promise!Spec
=============================================================================
