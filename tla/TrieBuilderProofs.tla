------------------------- MODULE TrieBuilderProofs -------------------------
(***************************************************************************)
(* The builder keeps its spine and refuses no input but one whose ranges   *)
(* differ in size, for every alphabet, every input and every label size.   *)
(***************************************************************************)
EXTENDS TrieBuilder, SequenceLemmas, TLAPS

-----------------------------------------------------------------------------
(* A function over an interval that starts at 1 is a sequence. *)
LEMMA IntervalFunction ==
  ASSUME NEW n \in Nat, NEW f, f = [i \in 1 .. n |-> f[i]]
  PROVE  f \in Seq(Range(f)) /\ Len(f) = n /\ DOMAIN f = 1 .. n
<1>1. DOMAIN f = 1 .. n
  OBVIOUS
<1>2. f \in [1 .. n -> Range(f)]
  BY <1>1 DEF Range
<1>3. f \in Seq(Range(f))
  BY <1>2, SeqDef
<1> QED
  BY <1>1, <1>3

(* The loop over two suggestions stops at a position both have. *)
LEMMA LcpInReach ==
  ASSUME NEW s \in Seq(Char), NEW t \in Seq(Char)
  PROVE  /\ LcpLength(s, t) \in 0 .. Len(s)
         /\ LoopStops(s, t, LcpLength(s, t))
         /\ LcpLength(s, t) <= Len(t)
         /\ \A i \in 1 .. LcpLength(s, t) : s[i] = t[i]
<1> DEFINE Stops == {n \in Nat : LoopStops(s, t, n)}
<1>1. Len(s) \in Nat /\ Len(t) \in Nat
  OBVIOUS
<1>2. Len(s) \in Stops /\ Len(t) \in Stops
  BY <1>1 DEF LoopStops
<1>3. PICK n \in Stops : \A m \in Stops : n <= m
  BY <1>2, LeastNumber, Zenon
<1>4. n \in 0 .. Len(s) /\ n <= Len(t) /\ LoopStops(s, t, n)
  BY <1>1, <1>2, <1>3
<1>5. \A m \in 0 .. n - 1 : ~LoopStops(s, t, m)
  BY <1>3
<1> DEFINE lcp == LcpLength(s, t)
<1>6. /\ lcp \in 0 .. Len(s)
      /\ LoopStops(s, t, lcp)
      /\ \A m \in 0 .. lcp - 1 : ~LoopStops(s, t, m)
  BY <1>4, <1>5 DEF LcpLength
<1>7. lcp <= Len(t)
  <2>1. ASSUME lcp > Len(t) PROVE FALSE
    <3>1. Len(t) \in 0 .. lcp - 1
      BY <1>1, <1>6, <2>1
    <3> QED
      BY <3>1, <1>6 DEF LoopStops
  <2> QED
    BY <1>1, <1>6, <2>1
<1>8. ASSUME NEW i \in 1 .. lcp PROVE s[i] = t[i]
  <2>1. i - 1 \in 0 .. lcp - 1 /\ (i - 1) + 1 = i
    BY <1>6
  <2>2. ~LoopStops(s, t, i - 1)
    BY <2>1, <1>6
  <2> QED
    BY <2>1, <2>2 DEF LoopStops
<1> QED
  BY <1>6, <1>7, <1>8

-----------------------------------------------------------------------------
(* The levels after an iteration of merge_levels. *)
LEMMA MergedLevels ==
  ASSUME NEW old, NEW father,
         old \in Seq(Range(old)),
         \A i \in 1 .. Len(old) : /\ old[i] \in Seq(Range(old[i]))
                                  /\ old[i] # <<>>,
         Len(old) > 1
  PROVE  LET new == Merged(old, father)
             last == Len(old) - 1
         IN  /\ new \in Seq(Range(new))
             /\ Len(new) = last
             /\ \A i \in 1 .. last : /\ new[i] \in Seq(Range(new[i]))
                                     /\ new[i] # <<>>
                                     /\ Len(new[i]) = Len(old[i])
             /\ \A i \in 1 .. last - 1 : new[i] = old[i]
             /\ \A j \in 1 .. Len(old[last]) :
                  new[last][j] = IF j = Len(old[last]) THEN father
                                 ELSE old[last][j]
<1> DEFINE new == Merged(old, father)
           last == Len(old) - 1
           level(i) == [j \in 1 .. Len(old[i]) |->
                          IF i = Len(old) - 1 /\ j = Len(old[i])
                          THEN father ELSE old[i][j]]
<1>1. last \in Nat /\ last >= 1 /\ \A i \in 1 .. last : i \in 1 .. Len(old)
  OBVIOUS
<1>2. new = [i \in 1 .. last |-> level(i)]
  BY DEF Merged
<1>3. new \in Seq(Range(new)) /\ Len(new) = last
  <2>1. new = [i \in 1 .. last |-> new[i]]
    BY <1>2
  <2> HIDE DEF new
  <2> QED
    BY <1>1, <2>1, IntervalFunction
<1>4. ASSUME NEW i \in 1 .. last
      PROVE  /\ new[i] \in Seq(Range(new[i]))
             /\ new[i] # <<>>
             /\ Len(new[i]) = Len(old[i])
  <2>1. Len(old[i]) \in Nat /\ Len(old[i]) >= 1
    <3>1. old[i] \in Seq(Range(old[i])) /\ old[i] # <<>>
      BY <1>1
    <3> QED
      BY <3>1, EmptySeq, LenProperties
  <2>2. new[i] = level(i)
    BY <1>2
  <2>3. new[i] = [j \in 1 .. Len(old[i]) |-> new[i][j]]
    BY <2>2
  <2>4. new[i] \in Seq(Range(new[i])) /\ Len(new[i]) = Len(old[i])
    <3> DEFINE f == new[i]
               n == Len(old[i])
    <3>1. f = [j \in 1 .. n |-> f[j]]
      BY <2>3
    <3>2. n \in Nat
      BY <2>1
    <3> HIDE DEF f, n
    <3>3. f \in Seq(Range(f)) /\ Len(f) = n
      BY <3>1, <3>2, IntervalFunction
    <3> QED
      BY <3>3 DEF f, n
  <2> QED
    BY <2>1, <2>4
<1>5. ASSUME NEW i \in 1 .. last - 1 PROVE new[i] = old[i]
  <2>1. i \in 1 .. last /\ i # Len(old) - 1
    BY <1>1
  <2>2. level(i) = [j \in 1 .. Len(old[i]) |-> old[i][j]]
    BY <2>1
  <2>3. old[i] = [j \in 1 .. Len(old[i]) |-> old[i][j]]
    <3>1. old[i] \in Seq(Range(old[i]))
      BY <1>1, <2>1
    <3> QED
      BY <3>1, LenProperties
  <2> QED
    BY <1>2, <2>1, <2>2, <2>3
<1>6. ASSUME NEW j \in 1 .. Len(old[last])
      PROVE  new[last][j] = IF j = Len(old[last]) THEN father ELSE old[last][j]
  BY <1>1, <1>2
<1> QED
  BY <1>3, <1>4, <1>5, <1>6

(* The levels after a suggestion has been pushed onto them. *)
LEMMA ExtendedLevels ==
  ASSUME NEW old, NEW s \in Seq(Char), NEW lcp \in Nat, NEW rank \in Nat,
         old \in Seq(Range(old)),
         \A i \in 1 .. Len(old) : /\ old[i] \in Seq(Range(old[i]))
                                  /\ old[i] # <<>>
                                  /\ \A j \in 1 .. Len(old[i]) : IsNode(old[i][j]),
         lcp <= Len(s), Len(old) <= lcp + 1, Len(old) >= lcp
  PROVE  LET new == Extended(old, s, lcp, rank)
         IN  /\ new \in Seq(Range(new))
             /\ Len(new) = Len(s) + 1
             /\ \A i \in 1 .. Len(new) :
                  /\ new[i] \in Seq(Range(new[i]))
                  /\ new[i] # <<>>
                  /\ \A j \in 1 .. Len(new[i]) : IsNode(new[i][j])
             /\ \A i \in 1 .. lcp : new[i] = old[i]
             /\ \A i \in lcp + 1 .. Len(s) : Last(new[i]) = InternalNode(s[i])
<1> DEFINE new == Extended(old, s, lcp, rank)
           top == Len(s) + 1
           kept(i) == IF i <= Len(old) THEN old[i] ELSE <<>>
           mid(i) == IF i > lcp /\ i <= Len(s) THEN <<InternalNode(s[i])>> ELSE <<>>
           bot(i) == IF i = top THEN <<DummyLeaf(rank)>> ELSE <<>>
           Nodes == {n \in UNION {Range(old[i]) : i \in 1 .. Len(old)} : IsNode(n)}
                      \cup {InternalNode(s[i]) : i \in 1 .. Len(s)}
                      \cup {DummyLeaf(rank)}
<1>1. Len(s) \in Nat /\ Len(old) \in Nat /\ top \in Nat
  BY LenProperties
<1>2. \A n \in Nodes : IsNode(n)
  <2>1. ASSUME NEW i \in 1 .. Len(s) PROVE IsNode(InternalNode(s[i]))
    BY MaxLabelSizeAssumption, ElementOfSeq DEF IsNode, InternalNode
  <2>2. IsNode(DummyLeaf(rank))
    BY MaxLabelSizeAssumption DEF IsNode, DummyLeaf
  <2> QED
    BY <2>1, <2>2
<1>3. ASSUME NEW i \in 1 .. top PROVE kept(i) \in Seq(Nodes)
  <2>1. CASE i <= Len(old)
    <3>1. i \in 1 .. Len(old)
      BY <1>1, <2>1
    <3>2. old[i] \in Seq(Range(old[i])) /\ \A j \in 1 .. Len(old[i]) : IsNode(old[i][j])
      BY <3>1
    <3>3. old[i] \in [1 .. Len(old[i]) -> Range(old[i])] /\ Len(old[i]) \in Nat
      BY <3>2, LenProperties
    <3>4. \A j \in 1 .. Len(old[i]) : old[i][j] \in Range(old[i]) /\ IsNode(old[i][j])
      BY <3>2, <3>3
    <3>5. \A j \in 1 .. Len(old[i]) : old[i][j] \in Nodes
      BY <3>1, <3>4
    <3>6. old[i] \in [1 .. Len(old[i]) -> Nodes]
      BY <3>3, <3>5
    <3>7. old[i] \in Seq(Nodes)
      BY <3>3, <3>6, FunctionIsSeq
    <3> QED
      BY <2>1, <3>7
  <2>2. CASE ~(i <= Len(old))
    BY <2>2
  <2> QED
    BY <2>1, <2>2
<1>4. ASSUME NEW i \in 1 .. top PROVE mid(i) \in Seq(Nodes)
  <2>1. CASE i > lcp /\ i <= Len(s)
    <3>1. InternalNode(s[i]) \in Nodes
      BY <1>1, <2>1
    <3> HIDE DEF Nodes
    <3> QED
      BY <2>1, <3>1
  <2>2. CASE ~(i > lcp /\ i <= Len(s))
    BY <2>2
  <2> QED
    BY <2>1, <2>2
<1>5. ASSUME NEW i \in 1 .. top PROVE bot(i) \in Seq(Nodes)
  <2>1. DummyLeaf(rank) \in Nodes
    OBVIOUS
  <2> HIDE DEF Nodes
  <2> QED
    BY <2>1
<1>6. new = [i \in 1 .. top |-> (kept(i) \o mid(i)) \o bot(i)]
  BY DEF Extended
<1> HIDE DEF Nodes, kept, mid, bot
<1>7. ASSUME NEW i \in 1 .. top
      PROVE  new[i] = (kept(i) \o mid(i)) \o bot(i) /\ new[i] \in Seq(Nodes)
  BY <1>3, <1>4, <1>5, <1>6
<1>8. new \in Seq(Range(new)) /\ Len(new) = top
  <2>1. new = [i \in 1 .. top |-> new[i]]
    BY <1>6
  <2> HIDE DEF new
  <2> QED
    BY <1>1, <2>1, IntervalFunction
<1> HIDE DEF new
<1>9. ASSUME NEW i \in 1 .. top
      PROVE  /\ new[i] \in Seq(Range(new[i]))
             /\ \A j \in 1 .. Len(new[i]) : IsNode(new[i][j])
  <2>1. new[i] \in [1 .. Len(new[i]) -> Nodes] /\ Len(new[i]) \in Nat
    BY <1>7, LenProperties
  <2>2. new[i] \in [1 .. Len(new[i]) -> Range(new[i])]
    BY <2>1 DEF Range
  <2>3. new[i] \in Seq(Range(new[i]))
    BY <2>1, <2>2, FunctionIsSeq
  <2> QED
    BY <1>2, <2>1, <2>3
<1>10. ASSUME NEW i \in 1 .. lcp PROVE new[i] = old[i] /\ new[i] # <<>>
  <2>1. i \in 1 .. top /\ i \in 1 .. Len(old) /\ ~(i > lcp) /\ i # top
    BY <1>1
  <2>2. kept(i) = old[i] /\ mid(i) = <<>> /\ bot(i) = <<>>
    BY <2>1 DEF kept, mid, bot
  <2>3. new[i] = (old[i] \o <<>>) \o <<>>
    BY <1>7, <2>1, <2>2
  <2>4. old[i] \in Seq(Nodes)
    BY <1>3, <2>1, <2>2
  <2>5. new[i] = old[i]
    BY <2>3, <2>4, ConcatEmptySeq
  <2> QED
    BY <2>1, <2>5
<1>11. ASSUME NEW i \in lcp + 1 .. Len(s)
       PROVE  Last(new[i]) = InternalNode(s[i]) /\ new[i] # <<>>
  <2>1. i \in 1 .. top /\ i > lcp /\ i <= Len(s) /\ i # top
    BY <1>1
  <2>2. mid(i) = <<InternalNode(s[i])>> /\ bot(i) = <<>>
    BY <2>1 DEF mid, bot
  <2>3. mid(i) \in Seq(Nodes) /\ kept(i) \in Seq(Nodes)
    BY <1>3, <1>4, <2>1
  <2>4. new[i] = kept(i) \o <<InternalNode(s[i])>>
    <3>1. new[i] = (kept(i) \o mid(i)) \o <<>>
      BY <1>7, <2>1, <2>2
    <3>2. kept(i) \o mid(i) \in Seq(Nodes)
      BY <2>3, ConcatProperties
    <3> QED
      BY <2>2, <3>1, <3>2, ConcatEmptySeq
  <2>5. InternalNode(s[i]) \in Nodes
    BY <2>1, <1>1 DEF Nodes
  <2>6. new[i] = Append(kept(i), InternalNode(s[i]))
    BY <2>3, <2>4, <2>5, AppendIsConcat
  <2>7. /\ Len(new[i]) = Len(kept(i)) + 1
        /\ new[i][Len(kept(i)) + 1] = InternalNode(s[i])
    BY <2>3, <2>5, <2>6, AppendProperties
  <2>8. Len(kept(i)) \in Nat
    BY <2>3
  <2> QED
    BY <2>7, <2>8 DEF Last
<1>12. new[top] # <<>>
  <2>1. top \in 1 .. top
    BY <1>1
  <2>2. bot(top) = <<DummyLeaf(rank)>>
    BY DEF bot
  <2>3. /\ kept(top) \in Seq(Nodes)
        /\ mid(top) \in Seq(Nodes)
        /\ bot(top) \in Seq(Nodes)
    BY <1>3, <1>4, <1>5, <2>1
  <2>4. Len(bot(top)) = 1
    BY <2>2
  <2>5. Len(new[top]) = Len(kept(top)) + Len(mid(top)) + 1
    <3>1. kept(top) \o mid(top) \in Seq(Nodes)
      BY <2>3, ConcatProperties
    <3>2. Len((kept(top) \o mid(top)) \o bot(top))
            = Len(kept(top) \o mid(top)) + Len(bot(top))
      BY <2>3, <3>1, ConcatProperties
    <3>3. Len(kept(top) \o mid(top)) = Len(kept(top)) + Len(mid(top))
      BY <2>3, ConcatProperties
    <3>4. new[top] = (kept(top) \o mid(top)) \o bot(top)
      BY <1>7, <2>1
    <3> QED
      BY <2>4, <3>2, <3>3, <3>4
  <2>6. Len(kept(top)) \in Nat /\ Len(mid(top)) \in Nat
    BY <1>3, <1>4, <2>1
  <2> QED
    BY <2>5, <2>6
<1>13. ASSUME NEW i \in 1 .. top PROVE new[i] # <<>>
  <2>1. i \in 1 .. lcp \/ i \in lcp + 1 .. Len(s) \/ i = top
    BY <1>1
  <2> QED
    BY <1>10, <1>11, <1>12, <2>1
<1> QED
  BY <1>8, <1>9, <1>10, <1>11, <1>13 DEF new

-----------------------------------------------------------------------------
(* What the sort leaves is as long as the siblings, made of them, and      *)
(* sorted by rank.                                                         *)
LEMMA SortedSiblings ==
  ASSUME NEW siblings, NEW ordered \in SortedByRank(siblings),
         Len(siblings) \in Nat
  PROVE  /\ Len(ordered) = Len(siblings)
         /\ \A i \in 1 .. Len(ordered) :
              \E k \in 1 .. Len(siblings) : ordered[i] = siblings[k]
         /\ \A i \in 1 .. Len(ordered) - 1 :
              ordered[i].rank <= ordered[i + 1].rank
<1> DEFINE n == Len(siblings)
<1>1. PICK p \in Bijection(1 .. n, 1 .. n) :
        ordered = [i \in 1 .. n |-> siblings[p[i]]]
  BY DEF SortedByRank
<1>2. \A i \in 1 .. n - 1 : ordered[i].rank <= ordered[i + 1].rank
  BY DEF SortedByRank
<1>3. p \in [1 .. n -> 1 .. n]
  BY DEF Bijection, Injection
<1>4. Len(ordered) = n
  <2>1. ordered = [i \in 1 .. n |-> ordered[i]]
    BY <1>1
  <2> QED
    BY <2>1, IntervalFunction
<1>5. ASSUME NEW i \in 1 .. n PROVE ordered[i] = siblings[p[i]] /\ p[i] \in 1 .. n
  BY <1>1, <1>3
<1> QED
  BY <1>2, <1>4, <1>5

(* add_children makes a node of a node: a collapsed label still fits. *)
LEMMA AddChildrenIsNode ==
  ASSUME NEW node, IsNode(node),
         NEW siblings, Len(siblings) \in Nat \ {0},
         \A i \in 1 .. Len(siblings) : IsNode(siblings[i]),
         NEW ordered \in SortedByRank(siblings)
  PROVE  IsNode(AddChildren(node, siblings, ordered))
<1> DEFINE result == AddChildren(node, siblings, ordered)
<1> SUFFICES IsNode(result)
  OBVIOUS
<1>1. siblings # <<>>
  BY EmptySeq
<1>2. CASE Collapses(node, siblings)
  <2>1. IsNode(siblings[1])
    OBVIOUS
  <2>2. /\ result.label = node.label \o siblings[1].label
        /\ result.rank = siblings[1].rank
        /\ result.leaf = siblings[1].leaf
    BY <1>1, <1>2 DEF AddChildren
  <2> HIDE DEF result
  <2> DEFINE both == node.label \o siblings[1].label
  <2>3. both \in Seq(Char) /\ Len(both) < MaxLabelSize
    <3>1. node.label \in Seq(Char) /\ siblings[1].label \in Seq(Char)
      BY <2>1 DEF IsNode
    <3>2. Len(node.label) \in Nat /\ Len(siblings[1].label) \in Nat
      BY <3>1
    <3>3. both \in Seq(Char) /\ Len(both) = Len(node.label) + Len(siblings[1].label)
      BY <3>1, ConcatProperties
    <3>4. Len(siblings[1].label) + Len(node.label) < MaxLabelSize
      BY <1>2 DEF Collapses
    <3>5. Len(node.label) + Len(siblings[1].label) < MaxLabelSize
      <4> DEFINE a == Len(node.label)
                 b == Len(siblings[1].label)
      <4>1. a \in Nat /\ b \in Nat /\ b + a < MaxLabelSize
        BY <3>2, <3>4
      <4> HIDE DEF a, b
      <4>2. a + b < MaxLabelSize
        BY <4>1, MaxLabelSizeAssumption
      <4> QED
        BY <4>2 DEF a, b
    <3> HIDE DEF both
    <3> QED
      BY <3>3, <3>5
  <2>4. result.label = both
    BY <2>2
  <2> HIDE DEF both
  <2> QED
    BY <2>1, <2>2, <2>3, <2>4 DEF IsNode
<1>3. CASE ~Collapses(node, siblings)
  <2>1. /\ result.label = node.label
        /\ result.rank = IF CalledFromRoot(node) THEN 0 ELSE ordered[1].rank
        /\ result.leaf = FALSE
    BY <1>1, <1>3 DEF AddChildren
  <2>2. IsNode(ordered[1])
    <3>1. 1 \in 1 .. Len(ordered)
      BY SortedSiblings
    <3>2. PICK k \in 1 .. Len(siblings) : ordered[1] = siblings[k]
      BY <3>1, SortedSiblings
    <3> QED
      BY <3>2
  <2> HIDE DEF result
  <2>3. result.rank \in Nat
    BY <2>1, <2>2 DEF IsNode
  <2>4. result.label \in Seq(Char) /\ Len(result.label) < MaxLabelSize
    BY <2>1 DEF IsNode
  <2> QED
    BY <2>1, <2>3, <2>4 DEF IsNode
<1> QED
  BY <1>2, <1>3

(* Sorted siblings never fail in serialise_siblings. *)
LEMMA SortedNeverDecreases ==
  ASSUME NEW siblings, Len(siblings) \in Nat,
         \A i \in 1 .. Len(siblings) : IsNode(siblings[i]),
         NEW ordered \in SortedByRank(siblings),
         NEW i \in 1 .. Len(ordered) - 1
  PROVE  ~(ordered[i + 1].rank < ordered[i].rank)
<1>1. Len(ordered) \in Nat /\ i \in 1 .. Len(ordered) /\ i + 1 \in 1 .. Len(ordered)
  BY SortedSiblings
<1>2. ordered[i].rank \in Nat /\ ordered[i + 1].rank \in Nat
  <2>1. PICK k \in 1 .. Len(siblings) : ordered[i] = siblings[k]
    BY <1>1, SortedSiblings
  <2>2. PICK m \in 1 .. Len(siblings) : ordered[i + 1] = siblings[m]
    <3>1. \A j \in 1 .. Len(ordered) :
            \E m \in 1 .. Len(siblings) : ordered[j] = siblings[m]
      BY SortedSiblings
    <3> QED
      BY <1>1, <3>1
  <2> QED
    BY <2>1, <2>2 DEF IsNode
<1>3. ordered[i].rank <= ordered[i + 1].rank
  BY SortedSiblings
<1> QED
  BY <1>2, <1>3

(* A node that is still open takes its children. *)
LEMMA OpenNodeTakesChildren ==
  ASSUME NEW c, NEW siblings, Len(siblings) \in Nat,
         \A i \in 1 .. Len(siblings) : IsNode(siblings[i]),
         NEW ordered \in SortedByRank(siblings)
  PROVE  AddChildrenError(InternalNode(c), siblings, ordered) = "none"
<1>1. ~InternalNode(c).leaf /\ ~CalledFromRoot(InternalNode(c))
  BY DEF InternalNode, CalledFromRoot
<1> QED
  BY <1>1, SortedNeverDecreases DEF AddChildrenError

(* The root of a new trie takes its children. *)
LEMMA RootTakesChildren ==
  ASSUME NEW siblings, Len(siblings) \in Nat,
         \A i \in 1 .. Len(siblings) : IsNode(siblings[i]),
         NEW ordered \in SortedByRank(siblings)
  PROVE  AddChildrenError(EmptyRoot, siblings, ordered) = "none"
<1>1. LeafRootHeader
        = <<[label |-> <<>>, rank |-> 0, offset |-> 0, leaf |-> TRUE]>>
  <2> DEFINE header == [label |-> <<>>, rank |-> 0, offset |-> 0, leaf |-> TRUE]
  <2>1. TagOf(0) = EMPTY
    BY DEF TagOf, EMPTY
  <2>2. OffsetSize(0) = 0 /\ RankSize(0) = 0
    BY <2>1 DEF OffsetSize, RankSize, CodewordSize, EMPTY, UINT8, UINT16, UINT64
  <2>3. NodeWidth(header) = 1
    BY <2>2 DEF NodeWidth
  <2>4. LeafRootHeader = <<header>> \o [i \in 1 .. NodeWidth(header) - 1 |-> Pad]
    BY DEF LeafRootHeader, SerialiseNode
  <2>5. [i \in 1 .. NodeWidth(header) - 1 |-> Pad] = <<>>
    BY <2>3
  <2>6. <<header>> \in Seq({header})
    OBVIOUS
  <2> QED
    BY <2>4, <2>5, <2>6, ConcatEmptySeq
<1>2. Last(EmptyRoot.sub) = LeafRootHeader[1]
  BY <1>1 DEF EmptyRoot, Last
<1>3. ~EmptyRoot.leaf
  BY DEF EmptyRoot
<1> QED
  BY <1>2, <1>3, SortedNeverDecreases DEF AddChildrenError

-----------------------------------------------------------------------------
(* The inductive invariant: what TLC checks is already inductive. *)
Inv == TypeOK /\ Spine /\ OnlySizesThrow

(* The input is typed whenever the state is: its elements are characters   *)
(* and ranks.                                                              *)
LEMMA InputTyped ==
  ASSUME TypeOK
  PROVE  /\ suggestions \in Seq(Seq(Char)) /\ Len(suggestions) \in Nat
         /\ ranks \in Seq(Nat) /\ Len(ranks) \in Nat
         /\ pos \in 0 .. Len(suggestions)
BY DEF TypeOK

(* The invariant holds at first. *)
LEMMA InitEstablishes == Init => Inv
<1> SUFFICES ASSUME Init PROVE Inv
  OBVIOUS
<1>1. /\ input \in Inputs /\ pos = 0 /\ levels = <<>> /\ target = 0
      /\ pc = "next" /\ error = "none"
  BY DEF Init
<1>2. /\ suggestions \in Seq(Seq(Char)) /\ ranks \in Seq(Nat)
      /\ Len(suggestions) \in Nat /\ Len(ranks) \in Nat
  BY <1>1, InputsAssumption DEF suggestions, ranks
<1>3. levels \in Seq(Range(levels)) /\ Len(levels) = 0
  BY <1>1
<1>4. TypeOK
  BY <1>1, <1>2, <1>3 DEF TypeOK
<1>5. Spine
  BY <1>1, <1>2, <1>3 DEF Spine, OpenPath, TargetInReach, RangesInStep
<1>6. OnlySizesThrow
  BY <1>1 DEF OnlySizesThrow
<1> QED
  BY <1>4, <1>5, <1>6 DEF Inv

(* One lemma per action: it keeps the invariant.  An exception ends the    *)
(* construction, so only its cause has to be shown.                        *)
LEMMA ThrowSizesKeeps == Inv /\ ThrowSizes => Inv'
<1> SUFFICES ASSUME Inv, ThrowSizes PROVE Inv'
  OBVIOUS
<1>1. /\ pc' = "failed" /\ error' = "differing sizes"
      /\ UNCHANGED <<input, pos, levels, target, trie>>
  BY DEF ThrowSizes, Throw
<1>2. TypeOK'
  BY <1>1 DEF Inv, TypeOK, suggestions, ranks
<1>3. Spine'
  BY <1>1 DEF Spine
<1>4. Len(suggestions) # Len(ranks)
  <2>1. /\ pos \in 0 .. Len(suggestions)
        /\ Len(suggestions) \in Nat
        /\ Len(ranks) \in Nat
    BY InputTyped DEF Inv
  <2>2. IF pos < Len(suggestions) THEN pos = Len(ranks) ELSE pos < Len(ranks)
    BY DEF ThrowSizes
  <2>3. CASE pos < Len(suggestions)
    BY <2>1, <2>2, <2>3
  <2>4. CASE ~(pos < Len(suggestions))
    BY <2>1, <2>2, <2>4
  <2> QED
    BY <2>3, <2>4
<1>5. OnlySizesThrow'
  BY <1>1, <1>4 DEF OnlySizesThrow, suggestions, ranks
<1> QED
  BY <1>2, <1>3, <1>5 DEF Inv

(* The new target is within reach: the levels spell the previous           *)
(* suggestion, and the common prefix is no longer than it.                 *)
LEMMA NextSuggestionKeeps == Inv /\ NextSuggestion => Inv'
<1> SUFFICES ASSUME Inv, NextSuggestion PROVE Inv'
  OBVIOUS
<1> DEFINE next == suggestions[pos + 1]
<1>1. /\ pc = "next" /\ pc' = "merge"
      /\ pos < Len(suggestions)
      /\ target' = 1 + IF levels = <<>> THEN 0 ELSE LcpLength(next, Previous)
      /\ UNCHANGED <<input, pos, levels, trie, error>>
  BY DEF NextSuggestion, Previous
<1>2. /\ suggestions \in Seq(Seq(Char)) /\ Len(suggestions) \in Nat
      /\ pos \in Nat
      /\ next \in Seq(Char)
      /\ pos > 0 => Previous \in Seq(Char)
  <2>1. /\ suggestions \in Seq(Seq(Char)) /\ Len(suggestions) \in Nat
        /\ pos \in 0 .. Len(suggestions)
    BY InputTyped DEF Inv
  <2>2. pos + 1 \in 1 .. Len(suggestions)
    BY <1>1, <2>1
  <2>3. pos > 0 => pos \in 1 .. Len(suggestions)
    BY <2>1
  <2> QED
    BY <2>1, <2>2, <2>3, ElementOfSeq DEF Previous
<1>3. OpenPath
  BY <1>1 DEF Inv, Spine
<1>4. target' \in Nat
  <2>1. CASE levels = <<>>
    BY <1>1, <2>1
  <2>2. CASE levels # <<>>
    <3>1. pos > 0
      BY <1>2, <1>3, <2>2 DEF OpenPath
    <3> DEFINE lcp == LcpLength(next, Previous)
    <3>2. next \in Seq(Char) /\ Previous \in Seq(Char)
      BY <1>2, <3>1
    <3> HIDE DEF next
    <3>3. lcp \in 0 .. Len(next)
      BY <3>2, LcpInReach
    <3>4. lcp \in Nat
      BY <3>2, <3>3
    <3> QED
      BY <1>1, <2>2, <3>4 DEF next
  <2> QED
    BY <2>1, <2>2
<1>5. TypeOK'
  BY <1>1, <1>4 DEF Inv, TypeOK, suggestions, ranks
<1>6. OpenPath'
  BY <1>1, <1>3 DEF OpenPath, Previous, suggestions
<1>7. TargetInReach'
  <2>1. CASE pos = 0
    <3>1. levels = <<>>
      BY <1>3, <2>1 DEF OpenPath
    <3>2. target' = 1
      BY <1>1, <3>1
    <3>3. 1 <= Len(next) + 1
      BY <1>2
    <3> QED
      BY <1>1, <2>1, <3>2, <3>3 DEF TargetInReach, suggestions
  <2>2. CASE pos > 0
    <3> DEFINE lcp == LcpLength(next, Previous)
    <3>1. target' = 1 + lcp
      BY <1>1, <1>3, <2>2 DEF OpenPath
    <3>2. /\ lcp \in 0 .. Len(next)
          /\ lcp <= Len(Previous)
          /\ \A i \in 1 .. lcp : next[i] = Previous[i]
      BY <1>2, <2>2, LcpInReach
    <3>3. Len(levels) = Len(Previous) + 1
      BY <1>1, <1>3, <2>2 DEF OpenPath
    <3>4. Len(next) \in Nat /\ Len(Previous) \in Nat
      BY <1>2, <2>2
    <3> HIDE DEF lcp
    <3>5. /\ target' >= 1
          /\ target' <= Len(levels)
          /\ target' <= Len(next) + 1
          /\ target' - 1 = lcp
      BY <3>1, <3>2, <3>3, <3>4
    <3> QED
      BY <1>1, <1>2, <2>2, <3>2, <3>5 DEF TargetInReach, suggestions, Previous
  <2> QED
    BY <1>2, <2>1, <2>2
<1>8. OnlySizesThrow'
  BY <1>1 DEF OnlySizesThrow
<1>9. RangesInStep'
  <2>1. pos <= Len(ranks) /\ pos < Len(ranks) /\ suggestions # <<>>
    BY <1>1, <1>2 DEF Inv, Spine, RangesInStep, NextSuggestion
  <2> QED
    BY <1>1, <1>2, <2>1 DEF RangesInStep, suggestions, ranks
<1> QED
  BY <1>5, <1>6, <1>7, <1>8, <1>9 DEF Inv, Spine

(* The father is the open node of the level above, so add_children does    *)
(* not throw, and what it returns is a node; the nodes above stay open.    *)
LEMMA MergeLevelKeeps == Inv /\ MergeLevel => Inv'
<1> SUFFICES ASSUME Inv, MergeLevel PROVE Inv'
  OBVIOUS
<1> DEFINE last     == Len(levels) - 1
           father   == Last(levels[last])
           children == Last(levels)
<1>1. pc = "merge" /\ Len(levels) > target
  BY DEF MergeLevel
<1>2. OpenPath /\ TargetInReach
  BY <1>1 DEF Inv, Spine
<1>3. /\ levels \in Seq(Range(levels)) /\ Len(levels) \in Nat
      /\ target \in Nat /\ target >= 1
      /\ \A i \in 1 .. Len(levels) :
           /\ levels[i] \in Seq(Range(levels[i]))
           /\ levels[i] # <<>>
           /\ Len(levels[i]) \in Nat \ {0}
           /\ \A j \in 1 .. Len(levels[i]) : IsNode(levels[i][j])
  <2>1. ASSUME NEW i \in 1 .. Len(levels) PROVE Len(levels[i]) \in Nat \ {0}
    <3>1. levels[i] \in Seq(Range(levels[i])) /\ levels[i] # <<>>
      BY DEF Inv, TypeOK
    <3> QED
      BY <3>1, EmptySeq
  <2> QED
    BY <1>1, <1>2, <2>1, LenProperties DEF Inv, TypeOK, TargetInReach
<1>4. /\ last \in 1 .. Len(levels) - 1
      /\ last \in 1 .. Len(levels)
      /\ Len(levels) \in 1 .. Len(levels)
      /\ Len(levels) > 1
  BY <1>1, <1>3
<1>5. father = InternalNode(Previous[last])
  BY <1>2, <1>4 DEF OpenPath
<1>6. IsNode(father)
  <2>1. father = levels[last][Len(levels[last])]
    BY DEF Last
  <2>2. Len(levels[last]) \in 1 .. Len(levels[last])
    BY <1>3, <1>4
  <2> QED
    BY <1>3, <1>4, <2>1, <2>2
<1>7. /\ Len(children) \in Nat \ {0}
      /\ \A i \in 1 .. Len(children) : IsNode(children[i])
  BY <1>3, <1>4 DEF Last
<1>8. PICK ordered \in SortedByRank(children) :
        LET failure == AddChildrenError(father, children, ordered)
        IN  IF failure # "none"
            THEN Throw(failure)
            ELSE /\ levels' = Merged(levels, AddChildren(father, children, ordered))
                 /\ UNCHANGED <<input, pos, target, pc, trie, error>>
  BY DEF MergeLevel
<1>9. AddChildrenError(father, children, ordered) = "none"
  BY <1>5, <1>7, OpenNodeTakesChildren
<1> DEFINE merged == AddChildren(father, children, ordered)
<1>10. /\ levels' = Merged(levels, merged)
       /\ UNCHANGED <<input, pos, target, pc, trie, error>>
  BY <1>8, <1>9
<1>11. IsNode(merged)
  BY <1>6, <1>7, AddChildrenIsNode
<1> HIDE DEF merged
<1>12. /\ levels' \in Seq(Range(levels'))
       /\ Len(levels') = last
       /\ \A i \in 1 .. last : /\ levels'[i] \in Seq(Range(levels'[i]))
                               /\ levels'[i] # <<>>
                               /\ Len(levels'[i]) = Len(levels[i])
       /\ \A i \in 1 .. last - 1 : levels'[i] = levels[i]
       /\ \A j \in 1 .. Len(levels[last]) :
            levels'[last][j] = IF j = Len(levels[last]) THEN merged
                               ELSE levels[last][j]
  BY <1>3, <1>4, <1>10, MergedLevels
<1>13. TypeOK'
  <2>1. ASSUME NEW i \in 1 .. last, NEW j \in 1 .. Len(levels'[i])
        PROVE  IsNode(levels'[i][j])
    <3>1. j \in 1 .. Len(levels[i]) /\ i \in 1 .. Len(levels)
      <4>1. Len(levels'[i]) = Len(levels[i])
        BY <1>12
      <4>2. i \in 1 .. Len(levels)
        BY <1>3, <1>4
      <4> QED
        BY <4>1, <4>2
    <3>2. CASE i = last
      BY <1>3, <1>11, <1>12, <3>1, <3>2
    <3>3. CASE i # last
      <4>1. i \in 1 .. last - 1
        BY <1>4, <3>3
      <4> QED
        BY <1>3, <1>12, <3>1, <4>1
    <3> QED
      BY <3>2, <3>3
  <2> QED
    BY <1>10, <1>12, <2>1 DEF Inv, TypeOK, IsNode, suggestions, ranks
<1>14. OpenPath'
  <2>1. pos > 0 /\ pos # 0
    BY <1>2, <1>3, <1>4, InputTyped DEF OpenPath, Inv
  <2>2. levels' # <<>>
    BY <1>4, <1>12, EmptySeq
  <2>3. Len(levels') <= Len(Previous) + 1
    <3>1. Len(levels) <= Len(Previous) + 1
      BY <1>2, <1>4 DEF OpenPath
    <3>2. Previous \in Seq(Char)
      <4>1. pos \in 1 .. Len(suggestions) /\ suggestions \in Seq(Seq(Char))
        BY <2>1, InputTyped DEF Inv
      <4> QED
        BY <4>1, ElementOfSeq DEF Previous
    <3>3. Len(Previous) \in Nat
      BY <3>2
    <3> QED
      BY <1>3, <1>4, <1>12, <3>1, <3>3
  <2>4. ASSUME NEW i \in 1 .. Len(levels') - 1
        PROVE  Last(levels'[i]) = InternalNode(Previous[i])
    <3>1. i \in 1 .. last - 1 /\ i \in 1 .. Len(levels) - 1
      BY <1>4, <1>12
    <3> QED
      BY <1>2, <1>12, <3>1 DEF OpenPath
  <2> QED
    BY <1>1, <1>10, <2>1, <2>2, <2>3, <2>4 DEF OpenPath, Previous, suggestions
<1>15. TargetInReach'
  <2>1. target <= Len(levels')
    BY <1>1, <1>3, <1>12
  <2> QED
    BY <1>2, <1>10, <2>1 DEF TargetInReach, Previous, suggestions
<1>16. OnlySizesThrow'
  BY <1>1, <1>10 DEF OnlySizesThrow
<1>17. RangesInStep'
  BY <1>1, <1>10 DEF Inv, Spine, RangesInStep, suggestions, ranks
<1> QED
  BY <1>13, <1>14, <1>15, <1>16, <1>17 DEF Inv, Spine

(* The new levels open one node per character after the common prefix, and *)
(* the last level gets the leaf: the spine now spells the new suggestion.  *)
LEMMA ExtendKeeps == Inv /\ Extend => Inv'
<1> SUFFICES ASSUME Inv, Extend PROVE Inv'
  OBVIOUS
<1> DEFINE s    == suggestions[pos + 1]
           rank == ranks[pos + 1]
           lcp  == target - 1
<1>1. /\ pc = "merge" /\ pc' = "next"
      /\ Len(levels) <= target
      /\ pos < Len(suggestions)
      /\ pos' = pos + 1
      /\ levels' = Extended(levels, s, lcp, rank)
      /\ UNCHANGED <<input, target, trie, error>>
  BY DEF Extend
<1>2. OpenPath /\ TargetInReach
  BY <1>1 DEF Inv, Spine
<1>3. /\ suggestions \in Seq(Seq(Char)) /\ Len(suggestions) \in Nat
      /\ pos \in Nat
      /\ s \in Seq(Char) /\ Len(s) \in Nat
      /\ pos + 1 \in 1 .. Len(suggestions)
  <2>1. /\ suggestions \in Seq(Seq(Char)) /\ Len(suggestions) \in Nat
        /\ pos \in 0 .. Len(suggestions)
    BY InputTyped DEF Inv
  <2>2. pos + 1 \in 1 .. Len(suggestions)
    BY <1>1, <2>1
  <2> QED
    BY <2>1, <2>2, ElementOfSeq
<1>4. rank \in Nat
  <2>1. pos < Len(ranks)
    BY <1>1 DEF Inv, Spine, RangesInStep
  <2>2. pos + 1 \in 1 .. Len(ranks) /\ ranks \in Seq(Nat)
    BY <1>3, <2>1, InputTyped DEF Inv
  <2> QED
    BY <2>2, ElementOfSeq
<1>5. /\ levels \in Seq(Range(levels)) /\ Len(levels) \in Nat
      /\ target \in Nat
      /\ \A i \in 1 .. Len(levels) :
           /\ levels[i] \in Seq(Range(levels[i]))
           /\ levels[i] # <<>>
           /\ \A j \in 1 .. Len(levels[i]) : IsNode(levels[i][j])
  BY LenProperties DEF Inv, TypeOK
<1>6. /\ lcp \in Nat
      /\ lcp <= Len(s)
      /\ Len(levels) <= lcp + 1
      /\ Len(levels) >= lcp
      /\ pos > 0 => Len(levels) = lcp + 1
  <2>1. target >= 1 /\ target <= Len(s) + 1
    BY <1>1, <1>2 DEF TargetInReach
  <2>2. lcp \in Nat /\ lcp <= Len(s) /\ target = lcp + 1
    BY <1>3, <1>5, <2>1
  <2>3. pos > 0 => target <= Len(levels)
    BY <1>1, <1>2 DEF TargetInReach
  <2>4. pos = 0 => target = 1 /\ Len(levels) = 0
    BY <1>1, <1>2 DEF TargetInReach, OpenPath
  <2> QED
    BY <1>1, <1>3, <1>5, <2>2, <2>3, <2>4
<1> HIDE DEF s, rank, lcp
<1>7. /\ levels' \in Seq(Range(levels'))
      /\ Len(levels') = Len(s) + 1
      /\ \A i \in 1 .. Len(levels') :
           /\ levels'[i] \in Seq(Range(levels'[i]))
           /\ levels'[i] # <<>>
           /\ \A j \in 1 .. Len(levels'[i]) : IsNode(levels'[i][j])
      /\ \A i \in 1 .. lcp : levels'[i] = levels[i]
      /\ \A i \in lcp + 1 .. Len(s) : Last(levels'[i]) = InternalNode(s[i])
  <2> DEFINE new == Extended(levels, s, lcp, rank)
  <2>1. /\ new \in Seq(Range(new))
        /\ Len(new) = Len(s) + 1
        /\ \A i \in 1 .. Len(new) :
             /\ new[i] \in Seq(Range(new[i]))
             /\ new[i] # <<>>
             /\ \A j \in 1 .. Len(new[i]) : IsNode(new[i][j])
        /\ \A i \in 1 .. lcp : new[i] = levels[i]
        /\ \A i \in lcp + 1 .. Len(s) : Last(new[i]) = InternalNode(s[i])
    <3>1. /\ s \in Seq(Char) /\ lcp \in Nat /\ rank \in Nat
          /\ levels \in Seq(Range(levels))
      BY <1>3, <1>4, <1>5, <1>6
    <3>2. \A i \in 1 .. Len(levels) :
            /\ levels[i] \in Seq(Range(levels[i]))
            /\ levels[i] # <<>>
            /\ \A j \in 1 .. Len(levels[i]) : IsNode(levels[i][j])
      BY <1>5
    <3>3. lcp <= Len(s) /\ Len(levels) <= lcp + 1 /\ Len(levels) >= lcp
      BY <1>6
    <3> QED
      BY <3>1, <3>2, <3>3, ExtendedLevels
  <2>2. levels' = new
    BY <1>1
  <2> HIDE DEF new
  <2> QED
    BY <2>1, <2>2
<1>8. TypeOK'
  <2>1. pos' \in 0 .. Len(suggestions)
    BY <1>1, <1>3
  <2> QED
    BY <1>1, <1>7, <2>1 DEF Inv, TypeOK, IsNode, suggestions, ranks
<1>9. Previous' = s
  BY <1>1 DEF Previous, suggestions, s
<1>10. OpenPath'
  <2>1. ASSUME NEW i \in 1 .. Len(s)
        PROVE  Last(levels'[i]) = InternalNode(s[i])
    <3>1. CASE i <= lcp
      <4>1. i \in 1 .. lcp
        BY <1>6, <3>1
      <4>2. pos > 0
        <5>1. Len(levels) >= 1
          BY <1>5, <1>6, <4>1
        <5> QED
          BY <1>2, <1>3, <5>1 DEF OpenPath
      <4>3. i \in 1 .. Len(levels) - 1 /\ i \in 1 .. target - 1
        BY <1>5, <1>6, <4>1, <4>2 DEF lcp
      <4>4. Last(levels[i]) = InternalNode(Previous[i])
        BY <1>2, <4>3 DEF OpenPath
      <4>5. s[i] = Previous[i]
        BY <1>1, <1>2, <4>2, <4>3 DEF TargetInReach, s
      <4> QED
        BY <1>7, <4>1, <4>4, <4>5
    <3>2. CASE ~(i <= lcp)
      <4>1. i \in lcp + 1 .. Len(s)
        BY <1>3, <1>6, <3>2
      <4> QED
        BY <1>7, <4>1
    <3> QED
      BY <3>1, <3>2
  <2>2. levels' # <<>>
    BY <1>3, <1>7, EmptySeq
  <2>3. pos' > 0 /\ pos' # 0
    BY <1>1, <1>3
  <2>4. Len(levels') - 1 = Len(s)
    BY <1>3, <1>7
  <2>5. Len(levels') <= Len(s) + 1
    BY <1>3, <1>7
  <2> QED
    BY <1>7, <1>9, <2>1, <2>2, <2>3, <2>4, <2>5 DEF OpenPath
<1>11. RangesInStep'
  <2>1. pos + 1 <= Len(ranks)
    <3>1. pos < Len(ranks) /\ Len(ranks) \in Nat
      BY <1>1, InputTyped DEF Inv, Spine, RangesInStep
    <3> QED
      BY <1>3, <3>1
  <2> QED
    BY <1>1, <2>1 DEF RangesInStep, suggestions, ranks
<1>12. TargetInReach' /\ OnlySizesThrow'
  BY <1>1 DEF TargetInReach, OnlySizesThrow
<1> QED
  BY <1>8, <1>10, <1>11, <1>12 DEF Inv, Spine

(* The last merge leaves one level. *)
LEMMA LastMergeKeeps == Inv /\ LastMerge => Inv'
<1> SUFFICES ASSUME Inv, LastMerge PROVE Inv'
  OBVIOUS
<1>1. /\ pc = "next" /\ pc' = "merge"
      /\ suggestions # <<>>
      /\ pos = Len(suggestions) /\ pos = Len(ranks)
      /\ target' = 1
      /\ UNCHANGED <<input, pos, levels, trie, error>>
  BY DEF LastMerge
<1>2. OpenPath /\ RangesInStep
  BY <1>1 DEF Inv, Spine
<1>3. Len(suggestions) \in Nat /\ suggestions \in Seq(Seq(Char))
  BY InputTyped DEF Inv
<1>4. TypeOK'
  BY <1>1 DEF Inv, TypeOK, suggestions, ranks
<1>5. OpenPath' /\ RangesInStep' /\ OnlySizesThrow'
  BY <1>1, <1>2 DEF OpenPath, RangesInStep, OnlySizesThrow, Previous,
                    suggestions, ranks
<1>6. TargetInReach'
  <2>1. pos > 0
    <3>1. Len(suggestions) # 0
      BY <1>1, <1>3, EmptySeq
    <3> QED
      BY <1>1, <1>3, <3>1
  <2>2. levels # <<>>
    BY <1>2, <2>1 DEF OpenPath
  <2>3. 1 <= Len(levels)
    <3>1. levels \in Seq(Range(levels))
      BY DEF Inv, TypeOK
    <3> QED
      BY <2>2, <3>1, EmptySeq
  <2>4. ~(pos < Len(suggestions)) /\ pos # 0
    BY <1>1, <1>3, <2>1
  <2> QED
    BY <1>1, <2>3, <2>4 DEF TargetInReach, suggestions
<1> QED
  BY <1>4, <1>5, <1>6 DEF Inv, Spine

(* The root of a new trie takes its children: nothing is thrown. *)
LEMMA MakeRootKeeps == Inv /\ MakeRoot => Inv'
<1> SUFFICES ASSUME Inv, MakeRoot PROVE Inv'
  OBVIOUS
<1> DEFINE children == Last(levels)
<1>1. /\ pc = "merge" /\ Len(levels) <= target /\ pos = Len(suggestions)
  BY DEF MakeRoot
<1>2. OpenPath /\ TargetInReach /\ RangesInStep
  BY <1>1 DEF Inv, Spine
<1>3. /\ Len(children) \in Nat
      /\ \A i \in 1 .. Len(children) : IsNode(children[i])
  <2>1. suggestions # <<>> /\ Len(suggestions) \in Nat /\ suggestions \in Seq(Seq(Char))
    BY <1>1, <1>2, InputTyped DEF RangesInStep, Inv
  <2>2. pos > 0
    BY <1>1, <2>1, EmptySeq
  <2>3. levels # <<>> /\ levels \in Seq(Range(levels))
    BY <1>2, <2>2 DEF OpenPath, Inv, TypeOK
  <2>4. Len(levels) \in 1 .. Len(levels)
    BY <2>3, EmptySeq
  <2>5. /\ levels[Len(levels)] \in Seq(Range(levels[Len(levels)]))
        /\ \A j \in 1 .. Len(levels[Len(levels)]) : IsNode(levels[Len(levels)][j])
    BY <2>4 DEF Inv, TypeOK
  <2> QED
    BY <2>5, LenProperties DEF Last
<1>4. PICK ordered \in SortedByRank(children) :
        LET failure == AddChildrenError(EmptyRoot, children, ordered)
        IN  IF failure # "none"
            THEN Throw(failure)
            ELSE /\ trie' = AddChildren(EmptyRoot, children, ordered).sub
                 /\ pc' = "done"
                 /\ UNCHANGED <<input, pos, levels, target, error>>
  BY DEF MakeRoot
<1>5. AddChildrenError(EmptyRoot, children, ordered) = "none"
  BY <1>3, RootTakesChildren
<1>6. pc' = "done" /\ UNCHANGED <<input, pos, levels, target, error>>
  BY <1>4, <1>5
<1>7. TypeOK'
  BY <1>6 DEF Inv, TypeOK, suggestions, ranks
<1>8. OnlySizesThrow'
  BY <1>1, <1>2, <1>6 DEF OnlySizesThrow, RangesInStep, suggestions, ranks
<1> QED
  BY <1>6, <1>7, <1>8 DEF Inv, Spine

(* An empty range of suggestions makes an empty trie. *)
LEMMA BuildEmptyKeeps == Inv /\ BuildEmpty => Inv'
<1> SUFFICES ASSUME Inv, BuildEmpty PROVE Inv'
  OBVIOUS
<1>1. /\ suggestions = <<>>
      /\ pc' = "done"
      /\ UNCHANGED <<input, pos, levels, target, error>>
  BY DEF BuildEmpty
<1> QED
  BY <1>1 DEF Inv, TypeOK, Spine, OnlySizesThrow, suggestions, ranks

(* A step that changes nothing keeps the invariant. *)
LEMMA StutterKeeps == Inv /\ UNCHANGED vars => Inv'
BY DEF Inv, TypeOK, IsNode, Spine, OpenPath, TargetInReach, RangesInStep,
       OnlySizesThrow, Previous, suggestions, ranks, vars

(* The invariant is inductive: each of its parts needs the others.  The    *)
(* types alone do not say that a father exists, nor does the spine that    *)
(* its label has room.                                                     *)
THEOREM Invariant == Spec => []Inv
<1>1. Init => Inv
  BY InitEstablishes
<1>2. Inv /\ [Next]_vars => Inv'
  BY ThrowSizesKeeps, NextSuggestionKeeps, MergeLevelKeeps, ExtendKeeps,
     LastMergeKeeps, MakeRootKeeps, BuildEmptyKeeps, StutterKeeps DEF Next
<1> QED
  BY <1>1, <1>2, PTL DEF Spec

(* Labels fit their header bits and no level is ever empty: the types hold *)
(* in every state, for every input and every alphabet.                     *)
THEOREM TypeCorrect == Spec => []TypeOK
BY Invariant, PTL DEF Inv

(* The path of open nodes mirrors the previous suggestion and the          *)
(* assertions of merge_levels hold: add_children is called once per node   *)
(* and never on a leaf.                                                    *)
THEOREM SpineHolds == Spec => []Spine
BY Invariant, PTL DEF Inv

(* No input makes the builder throw, but ranges of different sizes. *)
THEOREM NeverThrowsOtherwise == Spec => []OnlySizesThrow
BY Invariant, PTL DEF Inv
=============================================================================
